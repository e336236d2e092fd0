\* All sequences of insertions and deletions over eight keys.
CONSTANTS
    Keys = {1, 2, 3, 4, 5, 6, 7, 8}
SPECIFICATION FairSpec
INVARIANTS LinksAgree RedBlack
PROPERTIES ImplementsSet RepairEnds
