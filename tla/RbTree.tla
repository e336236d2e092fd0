------------------------------- MODULE RbTree -------------------------------
(***************************************************************************)
(* The red-black tree of rbtree.c, a library that the request map may one  *)
(* day use (agent-client-manager.c:656); no part of the agents calls it.   *)
(* A node is its key, nil the sentinel.  Insertion and deletion are a step *)
(* that links or unlinks the node, and a step for each turn of the loop    *)
(* that repairs the colours.  The two mirror cases of the code are one     *)
(* case with a side.                                                       *)
(***************************************************************************)
EXTENDS Integers, FiniteSets

CONSTANTS Keys

ASSUME KeysAssumption == Keys \subseteq Nat \ {0} /\ IsFiniteSet(Keys)

RB_RED == 0
RB_BLACK == 1
nil == 0
unset == -1     \* memory that nothing was written to
Nodes == Keys \cup {nil}
Other(side) == IF side = "l" THEN "r" ELSE "l"

VARIABLES
    tree,       \* root, and of each node color, parent, child["l"], child["r"]
    op,         \* "none", or the repair that is under way: "insert", "delete"
    bad         \* p_bad_n of that repair

vars == <<tree, op, bad>>

Fresh == [n \in Nodes |-> unset]

\* rb_init sets the sentinel's colour only.
Init ==
    /\ tree = [root |-> nil, color |-> [Fresh EXCEPT ![nil] = RB_BLACK],
               parent |-> Fresh, child |-> [side \in {"l", "r"} |-> Fresh]]
    /\ op = "none" /\ bad = nil

Paint(t, n, c) == [t EXCEPT !.color[n] = c]
-----------------------------------------------------------------------------
(* Rotations *)

\* Mutant: the inner subtree keeps its parent.
RotateInner(t, n, side) ==
    LET c == t.child[Other(side)][n]
        inner == t.child[side][c]
        up == t.parent[n]
    IN
    IF c = nil THEN t
    ELSE [root |-> IF up = nil THEN c ELSE t.root,
          color |-> t.color,
          parent |-> [t.parent EXCEPT ![c] = up, ![n] = c],
          child |-> [s \in {"l", "r"} |->
              LET linked == IF up # nil /\ (s = side) = (n = t.child[side][up])
                            THEN [t.child[s] EXCEPT ![up] = c] ELSE t.child[s]
              IN  IF s = side THEN [linked EXCEPT ![c] = n] ELSE [linked EXCEPT ![n] = inner]]]

\* Towards side: the child c on the other side takes the place of n, n becomes
\* its child.  The sentinel's parent is left alone.
Rotate(t, n, side) ==
    LET c == t.child[Other(side)][n]
        inner == t.child[side][c]
        up == t.parent[n]
    IN
    IF c = nil THEN t
    ELSE [root |-> IF up = nil THEN c ELSE t.root,
          color |-> t.color,
          parent |-> [x \in Nodes |-> IF x = n THEN c ELSE IF x = c THEN up
                                      ELSE IF x = inner /\ x # nil THEN n ELSE t.parent[x]],
          child |-> [s \in {"l", "r"} |->
              LET linked == IF up # nil /\ (s = side) = (n = t.child[side][up])
                            THEN [t.child[s] EXCEPT ![up] = c] ELSE t.child[s]
              IN  IF s = side THEN [linked EXCEPT ![c] = n] ELSE [linked EXCEPT ![n] = inner]]]

rb_left_rotate(t, n) == Rotate(t, n, "l")
rb_right_rotate(t, n) == Rotate(t, n, "r")
Turn(t, n, side) == IF side = "l" THEN rb_left_rotate(t, n) ELSE rb_right_rotate(t, n)
-----------------------------------------------------------------------------
(* Search *)

ChildTowards(t, n, key) == IF key < n THEN t.child["l"][n] ELSE t.child["r"][n]

\* Where a search for a key ends, and the node before.
Descent(t, key) ==
    LET from[n, pre \in Nodes] ==
            IF n \in {nil, key} THEN <<n, pre>> ELSE from[ChildTowards(t, n, key), n]
    IN  from[t.root, nil]

\* The node with the key, or nil.
rb_search(t, key) == Descent(t, key)[1]
-----------------------------------------------------------------------------
(* Insertion *)

\* A key that is there is refused.
rb_insert(key) ==
    LET end == Descent(tree, key)
        pre == end[2]
        side == IF key < pre THEN "l" ELSE "r"
    IN
    /\ op = "none" /\ end[1] = nil
    /\ tree' = [root |-> IF pre = nil THEN key ELSE tree.root,
                color |-> [tree.color EXCEPT ![key] = RB_RED],
                parent |-> [tree.parent EXCEPT ![key] = pre],
                child |-> [s \in {"l", "r"} |->
                    LET linked == IF pre # nil /\ s = side
                                  THEN [tree.child[s] EXCEPT ![pre] = key] ELSE tree.child[s]
                    IN  [linked EXCEPT ![key] = nil]]]
    /\ op' = "insert" /\ bad' = key

SideOf(t, n) == IF n = t.child["l"][t.parent[n]] THEN "l" ELSE "r"
Uncle(t, b) == t.child[Other(SideOf(t, t.parent[b]))][t.parent[t.parent[b]]]

\* Mutant: the inner child is not turned outside first.
InsertTurnInner(t, b) ==
    LET p == t.parent[b]
        g == t.parent[p]
    IN  <<Turn(Paint(Paint(t, p, RB_BLACK), g, RB_RED), g, Other(SideOf(t, p))), b>>

\* With a black uncle one or two rotations end the repair.
InsertTurn(t, b) ==
    LET side == SideOf(t, t.parent[b])
        inner == b = t.child[Other(side)][t.parent[b]]
        b1 == IF inner THEN t.parent[b] ELSE b
        t1 == IF inner THEN Turn(t, b1, side) ELSE t
        p == t1.parent[b1]
        g == t1.parent[p]
    IN  <<Turn(Paint(Paint(t1, p, RB_BLACK), g, RB_RED), g, Other(side)), b1>>

\* A turn of the loop of rb_insert_fixup: a red uncle moves the trouble up two
\* levels.
InsertFix(t, b) ==
    LET p == t.parent[b]
        g == t.parent[p]
        u == Uncle(t, b)
    IN
    IF t.color[u] = RB_RED
    THEN <<Paint(Paint(Paint(t, p, RB_BLACK), u, RB_BLACK), g, RB_RED), g>>
    ELSE InsertTurn(t, b)

InsertFixup ==
    /\ op = "insert" /\ tree.color[tree.parent[bad]] = RB_RED
    /\ LET fixed == InsertFix(tree, bad) IN tree' = fixed[1] /\ bad' = fixed[2]
    /\ UNCHANGED op

InsertDone ==
    /\ op = "insert" /\ tree.color[tree.parent[bad]] = RB_BLACK
    /\ tree' = Paint(tree, tree.root, RB_BLACK)
    /\ op' = "none" /\ bad' = nil
-----------------------------------------------------------------------------
(* Deletion *)

\* n takes the place of o under o's parent.
rb_transplant(t, o, n) ==
    LET up == t.parent[o]
        side == SideOf(t, o)
    IN
    [t EXCEPT !.parent[n] = up,
              !.root = IF o \in {nil, t.root} THEN n ELSE @,
              !.child = IF o \in {nil, t.root} THEN @ ELSE [@ EXCEPT ![side][up] = n]]

\* Mutant: the right child stands for the least node below it.
rb_tree_minimum_near(t, n) == n

rb_tree_minimum(t, n) ==
    LET least[m \in Nodes] == IF t.child["l"][m] = nil THEN m ELSE least[t.child["l"][m]]
    IN  least[n]

\* The node is the caller's again.
Forget(t, n) ==
    [t EXCEPT !.color[n] = unset, !.parent[n] = unset, !.child["l"][n] = unset, !.child["r"][n] = unset]

\* The tree without rm, the node the repair starts from, the colour that is
\* missing.  A node with two children is replaced by its successor mv.
TakeOut(t, rm) ==
    LET l == t.child["l"][rm]
        r == t.child["r"][rm]
        mv == rb_tree_minimum(t, r)
        x == t.child["r"][mv]
        t1 == IF t.parent[mv] = rm THEN [t EXCEPT !.parent[x] = mv]
              ELSE [rb_transplant(t, mv, x) EXCEPT !.child["r"][mv] = r, !.parent[r] = mv]
        t2 == [rb_transplant(t1, rm, mv) EXCEPT !.child["l"][mv] = l, !.parent[l] = mv,
                                                !.color[mv] = t.color[rm]]
    IN
    IF l = nil THEN <<rb_transplant(t, rm, r), r, t.color[rm]>>
    ELSE IF r = nil THEN <<rb_transplant(t, rm, l), l, t.color[rm]>>
    ELSE <<t2, x, t.color[mv]>>

\* A node that rb_search has found is taken out.
rb_delete(key) ==
    LET out == TakeOut(tree, key) IN
    /\ op = "none" /\ rb_search(tree, key) = key
    /\ tree' = Forget(out[1], key)
    /\ IF out[3] = RB_BLACK THEN op' = "delete" /\ bad' = out[2] ELSE UNCHANGED <<op, bad>>

\* Mutant: the far nephew is not looked at.
DeleteFixFar(t, b) ==
    LET p == t.parent[b]
        side == SideOf(t, b)
        far == Other(side)
        w == t.child[far][p]
        t1 == IF t.color[w] = RB_RED
              THEN Turn(Paint(Paint(t, w, RB_BLACK), p, RB_RED), p, side) ELSE t
        w1 == t1.child[far][p]
        Nephew(s) == t1.color[t1.child[s][w1]]
        t3 == Paint(Paint(Paint(t1, w1, t1.color[p]), p, RB_BLACK), t1.child[far][w1], RB_BLACK)
    IN
    IF Nephew("l") = RB_BLACK /\ Nephew("r") = RB_BLACK
    THEN <<Paint(t1, w1, RB_RED), p>>
    ELSE LET t4 == Turn(t3, p, side) IN <<t4, t4.root>>

\* A turn of the loop of rb_delete_fixup, where b lacks a black: a red brother
\* is turned away; with two black nephews the lack moves up; otherwise one or
\* two rotations make it good.
DeleteFix(t, b) ==
    LET p == t.parent[b]
        side == SideOf(t, b)
        far == Other(side)
        w == t.child[far][p]
        t1 == IF t.color[w] = RB_RED
              THEN Turn(Paint(Paint(t, w, RB_BLACK), p, RB_RED), p, side) ELSE t
        w1 == t1.child[far][p]
        Nephew(s) == t1.color[t1.child[s][w1]]
        t2 == IF Nephew(far) = RB_BLACK
              THEN Turn(Paint(Paint(t1, w1, RB_RED), t1.child[side][w1], RB_BLACK), w1, far) ELSE t1
        w2 == t2.child[far][p]
        t3 == Paint(Paint(Paint(t2, w2, t2.color[p]), p, RB_BLACK), t2.child[far][w2], RB_BLACK)
    IN
    IF Nephew("l") = RB_BLACK /\ Nephew("r") = RB_BLACK
    THEN <<Paint(t1, w1, RB_RED), p>>
    ELSE LET t4 == Turn(t3, p, side) IN <<t4, t4.root>>

DeleteFixup ==
    /\ op = "delete" /\ bad # tree.root /\ tree.color[bad] = RB_BLACK
    /\ LET fixed == DeleteFix(tree, bad) IN tree' = fixed[1] /\ bad' = fixed[2]
    /\ UNCHANGED op

DeleteDone ==
    /\ op = "delete" /\ (bad = tree.root \/ tree.color[bad] = RB_RED)
    /\ tree' = Paint(tree, bad, RB_BLACK)
    /\ op' = "none" /\ bad' = nil
-----------------------------------------------------------------------------
Fixup == InsertFixup \/ InsertDone \/ DeleteFixup \/ DeleteDone
Next == \/ \E k \in Keys : rb_insert(k) \/ rb_delete(k)
        \/ Fixup

Spec == Init /\ [][Next]_vars

(* rb_insert and rb_delete run their loops to the end.                       *)
FairSpec == Spec /\ WF_vars(Fixup)
-----------------------------------------------------------------------------
(* Properties *)

Members == {k \in Keys : rb_search(tree, k) = k}
Children(n) == {tree.child[s][n] : s \in {"l", "r"}}

\* The numbers of black nodes on the ways from each node down.
BlackCounts ==
    LET count[n \in Nodes] ==
            IF n = nil THEN {0} ELSE {c + tree.color[n] : c \in UNION {count[m] : m \in Children(n)}}
    IN  count
Balanced == LET counts == BlackCounts IN \A n \in Members : Cardinality(counts[n]) = 1

TypeOK ==
    /\ tree.root \in Nodes /\ bad \in Nodes /\ op \in {"none", "insert", "delete"}
    /\ tree.color \in [Nodes -> {RB_RED, RB_BLACK, unset}] /\ tree.color[nil] = RB_BLACK
    /\ \A n \in Members : tree.parent[n] \in Nodes

\* Parents and children agree, and all below the root is found by its key: no
\* rotation or transplant leaves one side of a link behind or takes a key out
\* of its order (the next repair climbs by parent), during repairs too.
LinksAgree ==
    LET members == Members IN
    /\ TypeOK
    /\ tree.root \in Keys => tree.parent[tree.root] = nil
    /\ \A n \in members : \A c \in Children(n) \ {nil} : c \in members /\ tree.parent[c] = n

\* Between operations the tree is red-black: a black root, no red node under a
\* red one, as many black nodes on every way down.  The repair after an insertion
\* never disturbs the black counts, and has a red node under a red one only at
\* p_bad_n.
RedBlack ==
    op # "delete" =>
        /\ op = "none" => tree.color[tree.root] = RB_BLACK
        /\ \A n \in Members \ {bad} :
              tree.color[n] = RB_RED => tree.color[tree.parent[n]] = RB_BLACK
        /\ Balanced

\* What was inserted and not deleted is found by rb_search, nothing else is, and
\* the repairs change nothing about it.
Set == INSTANCE KeySet WITH members <- Members
ImplementsSet == Set!Spec

\* Every repair comes to its end: no turn of a loop undoes another's.
RepairEnds == op # "none" ~> op = "none"
=============================================================================
