------------------------------- MODULE KeySet -------------------------------
(***************************************************************************)
(* What a tree of keys promises its users: the keys that a search finds    *)
(* are the ones that were inserted and have not been deleted since.        *)
(***************************************************************************)
CONSTANT Keys

VARIABLE members

Init == members = {}

Insert(k) == k \notin members /\ members' = members \cup {k}
Delete(k) == k \in members /\ members' = members \ {k}

Next == \E k \in Keys : Insert(k) \/ Delete(k)

Spec == Init /\ [][Next]_members
=============================================================================
