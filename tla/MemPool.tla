------------------------------ MODULE MemPool ------------------------------
(***************************************************************************)
(* The memory pools of mmpool.c.  A pool keeps released blocks in lists    *)
(* free[1..MMPL_MAX_INDEX] by their size in units of the boundary, and     *)
(* gives the least recently used sizes back to the system when it holds    *)
(* more than max_free_index units.  Every worker of a thread pool has a    *)
(* pool of its own (tdpool.c), and blocks travel: one worker takes a block *)
(* from its pool, another one releases it into its own.                    *)
(*                                                                         *)
(* A pool is only used by its thread and a block is released by the thread *)
(* that holds it, so that a call is one step: no other thread reads what   *)
(* it changes.                                                             *)
(***************************************************************************)
EXTENDS Integers, Sequences, FiniteSets, SequencesExt

CONSTANTS
    Pools,              \* the threads, each with its own pool
    Nodes,              \* the memory blocks, struct mm_node
    MMPL_MAX_INDEX,     \* the largest size that is pooled
    MMPL_OLDEST_RANGE,  \* how many sizes are trimmed at a time
    max_free_index,     \* how many units a pool keeps
    Uninit,             \* what an unset word on the stack may hold
    MaxGets             \* bound: how often a pool is asked for memory

ASSUME NumbersAssumption == /\ MMPL_MAX_INDEX \in Nat \ {0}
                            /\ MMPL_OLDEST_RANGE \in 1..MMPL_MAX_INDEX
                            /\ max_free_index \in Nat
                            /\ Uninit \in SUBSET Nat /\ Uninit # {}
                            /\ MaxGets \in Nat

VARIABLES
    pool,       \* struct mm_pool_s of each thread
    index,      \* of struct mm_node
    use_flg,    \* of struct mm_node
    user,       \* the blocks that the program holds
    crashed     \* an index outside the arrays, or a division by zero

vars == <<pool, index, use_flg, user, crashed>>

Sizes == 1..MMPL_MAX_INDEX
Pooled == UNION {ToSet(pool[p].free[i]) : p \in Pools, i \in Sizes}
System == Nodes \ (user \cup Pooled)  \* what malloc may return

\* mmpl_create
Init ==
    /\ pool = [p \in Pools |-> [free |-> [i \in Sizes |-> <<>>],
                                free_size |-> [i \in Sizes |-> 0],
                                current_free_index |-> 0,
                                get_cnt |-> 0,
                                latest_get_cnt |-> [i \in 0..MMPL_MAX_INDEX |-> 0]]]
    /\ index = [n \in Nodes |-> 0]
    /\ use_flg = [n \in Nodes |-> 0]
    /\ user = {}
    /\ crashed = FALSE

\* k blocks leave the front of list i: the last block sets free_size to 0,
\* every other one subtracts i.
Unlink(q, i, k) ==
    LET left == SubSeq(q.free[i], k + 1, Len(q.free[i])) IN
    [q EXCEPT !.free[i] = left,
              !.free_size[i] = IF left = <<>> THEN 0 ELSE @ - k * i,
              !.current_free_index = @ - k * i]
-----------------------------------------------------------------------------
(* mmpl_getmem; i is the size of the request, 0 for one that is not pooled *)

\* The statistics at the end of mmpl_getmem.
Counted(q, i) == [q EXCEPT !.get_cnt = @ + 1, !.latest_get_cnt[i] = q.get_cnt + 1]

HandOut(n) == /\ use_flg' = [use_flg EXCEPT ![n] = 1]
              /\ user' = user \cup {n}

\* No block of that size is free, or it is too large: malloc.
GetNew(p, i, n) ==
    /\ i # 0 => pool[p].free[i] = <<>>
    /\ n \in System
    /\ index' = [index EXCEPT ![n] = i]
    /\ pool' = [pool EXCEPT ![p] = Counted(@, i)]
    /\ HandOut(n)

\* Mutant: the counters are not updated when a block leaves its list.
GetFreeUncounted(p, i) ==
    /\ i # 0
    /\ pool[p].free[i] # <<>>
    /\ pool' = [pool EXCEPT ![p] = Counted([@ EXCEPT !.free[i] = Tail(@)], i)]
    /\ HandOut(Head(pool[p].free[i]))
    /\ UNCHANGED index

\* Mutant: the block is not removed from its list.
GetFreeLinked(p, i) ==
    /\ i # 0
    /\ pool[p].free[i] # <<>>
    /\ pool' = [pool EXCEPT ![p] = Counted(@, i)]
    /\ HandOut(Head(pool[p].free[i]))
    /\ UNCHANGED index

\* The first block of the list.
GetFree(p, i) ==
    /\ i # 0
    /\ pool[p].free[i] # <<>>
    /\ pool' = [pool EXCEPT ![p] = Counted(Unlink(@, i, 1), i)]
    /\ HandOut(Head(pool[p].free[i]))
    /\ UNCHANGED index

\* malloc may also fail: NULL is returned and nothing has changed.
mmpl_getmem(p, i) ==
    /\ ~crashed
    /\ pool[p].get_cnt < MaxGets
    /\ GetFree(p, i) \/ \E n \in Nodes : GetNew(p, i, n)
    /\ UNCHANGED crashed
-----------------------------------------------------------------------------
(* mmpl_rls_oldestfree *)

\* Mutant: the sizes are not sorted.
inc_getcnt_unsorted(q) == [j \in Sizes |-> j]

\* The sizes in ascending order of their last request: a selection sort.
inc_getcnt_array(q) ==
    LET count(a, j) == q.latest_get_cnt[a[j]]
        Least(a, i) == CHOOSE k \in i..MMPL_MAX_INDEX :
                          /\ \A j \in i..MMPL_MAX_INDEX : count(a, k) <= count(a, j)
                          /\ \A j \in i..(k - 1) : count(a, k) < count(a, j)
        Swap(a, i, k) == [a EXCEPT ![i] = a[k], ![k] = a[i]]
        sorted[i \in 0..MMPL_MAX_INDEX] ==
            IF i = 0 THEN [j \in Sizes |-> j]
                     ELSE Swap(sorted[i - 1], i, Least(sorted[i - 1], i))
    IN  sorted[MMPL_MAX_INDEX]

\* The sizes with free blocks, least recently requested first.
Candidates(q) == SelectSeq(inc_getcnt_array(q), LAMBDA i : q.free_size[i] > 0)

\* The sizes to trim.  When there are fewer candidates than the array has
\* elements, the rest repeats the last one only if it was found at the very end
\* of the search; otherwise it repeats an element that was never set.
oldest_index_array(q, garbage) ==
    LET found == Candidates(q)
        filler == IF Last(found) = Last(inc_getcnt_array(q)) THEN Last(found) ELSE garbage
    IN  [k \in 1..MMPL_OLDEST_RANGE |-> IF k <= Len(found) THEN found[k] ELSE filler]

\* Half of the blocks of size i, and one more, go back to the system.
Trim(q, i) == LET free_node_num == q.free_size[i] \div i IN
              IF free_node_num = 0 THEN q ELSE Unlink(q, i, free_node_num \div 2 + 1)

mmpl_rls_oldestfree(q, garbage) == FoldLeft(Trim, q, oldest_index_array(q, garbage))
-----------------------------------------------------------------------------
(* mmpl_rlsmem *)

\* The second block of the list is the one that was released last.
Insert(s, n) == IF s = <<>> THEN <<n>> ELSE <<Head(s), n>> \o Tail(s)

\* A block that is too large to be pooled: free.
ReleaseLarge(i) == i = 0 /\ UNCHANGED <<pool, crashed>>

\* The pool would hold too much: free, and trim the pool.
ReleaseFull(p, i) ==
    /\ i > 0
    /\ pool[p].current_free_index + i > max_free_index
    /\ IF Candidates(pool[p]) = <<>>
       THEN UNCHANGED <<pool, crashed>>
       ELSE \E garbage \in Uninit :
                IF ToSet(oldest_index_array(pool[p], garbage)) \subseteq Sizes
                THEN /\ pool' = [pool EXCEPT ![p] = mmpl_rls_oldestfree(@, garbage)]
                     /\ UNCHANGED crashed
                ELSE crashed' = TRUE /\ UNCHANGED pool

\* The block goes to its list.
ReleaseKept(p, n, i) ==
    /\ i > 0
    /\ pool[p].current_free_index + i <= max_free_index
    /\ pool' = [pool EXCEPT ![p] = [@ EXCEPT !.free[i] = Insert(@, n),
                                             !.free_size[i] = @ + i,
                                             !.current_free_index = @ + i]]
    /\ UNCHANGED crashed

\* A block that is not in use is left alone.  (It is in a list; one that was given
\* back to the system may not even be looked at.)
ReleaseAgain(n) ==
    /\ n \in Pooled
    /\ use_flg[n] = 0
    /\ UNCHANGED <<pool, index, use_flg, user, crashed>>

ReleaseUsed(p, n) ==
    /\ n \in user
    /\ use_flg[n] = 1
    /\ use_flg' = [use_flg EXCEPT ![n] = 0]
    /\ user' = user \ {n}
    /\ ReleaseLarge(index[n]) \/ ReleaseFull(p, index[n]) \/ ReleaseKept(p, n, index[n])
    /\ UNCHANGED index

mmpl_rlsmem(p, n) == ~crashed /\ (ReleaseAgain(n) \/ ReleaseUsed(p, n))
-----------------------------------------------------------------------------
Next == \E p \in Pools :
            \/ \E i \in 0..MMPL_MAX_INDEX : mmpl_getmem(p, i)
            \/ \E n \in Nodes : mmpl_rlsmem(p, n)

Spec == Init /\ [][Next]_vars
-----------------------------------------------------------------------------
(* Properties *)

TypeOK ==
    /\ pool \in [Pools -> [free : [Sizes -> Seq(Nodes)],
                           free_size : [Sizes -> Nat],
                           current_free_index : Nat,
                           get_cnt : Nat,
                           latest_get_cnt : [0..MMPL_MAX_INDEX -> Nat]]]
    /\ index \in [Nodes -> 0..MMPL_MAX_INDEX]
    /\ use_flg \in [Nodes -> {0, 1}]
    /\ user \subseteq Nodes
    /\ crashed \in BOOLEAN

\* The counters of a pool agree with its lists: free_size is what a list holds,
\* current_free_index what all of them hold, whatever was taken, released and
\* trimmed, which is never more than max_free_index.
CountersExact ==
    /\ TypeOK
    /\ \A p \in Pools :
        /\ pool[p].current_free_index <= max_free_index
        /\ \A i \in Sizes : pool[p].free_size[i] = i * Len(pool[p].free[i])
        /\ pool[p].current_free_index
               = FoldFunction(LAMBDA a, b : a + b, 0, pool[p].free_size)

\* A block has one owner: it is in one list of one pool, once, in the list of
\* its size, and then it is not in the hands of the program.
OneOwner ==
    /\ \A p \in Pools, i \in Sizes :
          /\ IsInjective(pool[p].free[i])
          /\ \A n \in ToSet(pool[p].free[i]) : index[n] = i /\ use_flg[n] = 0 /\ n \notin user
    /\ \A p, o \in Pools, i \in Sizes :
          p # o => ToSet(pool[p].free[i]) \cap ToSet(pool[o].free[i]) = {}

\* The trim takes the least recently requested sizes: a size with free blocks
\* that it spares was requested no earlier than any size it takes.
OldestTrimmed ==
    \A p \in Pools :
        LET found == Candidates(pool[p])
            chosen == {found[k] : k \in DOMAIN found \cap 1..MMPL_OLDEST_RANGE} IN
        \A i \in Sizes \ chosen, k \in chosen :
            pool[p].free_size[i] > 0
                => pool[p].latest_get_cnt[k] <= pool[p].latest_get_cnt[i]

\* mmpl_rls_oldestfree says that it handles fewer sizes with free blocks than
\* MMPL_OLDEST_RANGE: it never uses an index outside its arrays.
NoWildIndex == ~crashed
=============================================================================
