----------------------- MODULE ServiceDiscoveryProofs -----------------------
(***************************************************************************)
(* Proofs about the service discovery, for any numbers of threads, forms,  *)
(* services and endpoints.                                                 *)
(*                                                                         *)
(* A thread that builds a node holds find_mutex and the table's write      *)
(* lock, and has seen the bucket empty under the mutex: nobody has a node  *)
(* of the service, and nobody gets the new one before it is built.  An     *)
(* endpoint is in the list of one node, whose spin lock the thread holds   *)
(* that compares and counts: what it saw below the limit stays below it.   *)
(* OrderInv adds that a list is sorted by level, has each endpoint once    *)
(* and that a thread has the best of the endpoints it has looked at;       *)
(* ServiceInv that the endpoints of a node are registered for its service  *)
(* and that a thread looks for the service it was asked for.               *)
(***************************************************************************)
EXTENDS ServiceDiscovery, FiniteSetTheorems, WellFoundedInduction, SequenceTheorems, TLAPS

USE DEF table, load, locks
-----------------------------------------------------------------------------
(* The inductive invariant *)

Buckets == 0..(service_tb_size - 1)
Names == {NameIn[f] : f \in Forms}
Entries == UNION {ToSet(Registry[s]) : s \in DOMAIN Registry}
PCs == {"idle", "rdlock", "lookup", "mutex", "wrlock", "add", "etcd", "walk", "unwrlock",
        "fail", "failed", "unmutex", "spin", "choose", "unspin", "request"}
Nodes == [name : Names, list : Seq(Nat)]
Endpoints == [at : {AddressIn[e.key] : e \in Entries}, load_level : {atoi(e.value) : e \in Entries}]
CallSet == [name : Names \cup {<<>>}, meant : {ServiceOf[f] : f \in Forms} \cup {<<>>},
            lookup : 0..3, node : Nat, nodes : Seq(Entries \cup {NULL}),
            unseen : Seq(Nat), seen : Seq(Int), optimal : Nat]

Shapes ==
    /\ service_tb \in [Buckets -> Seq(Nat)]
    /\ node \in Seq(Nodes) /\ endpoint \in Seq(Endpoints)
    /\ request_num \in Seq(Int) /\ outstanding \in Seq(Nat)
    /\ Len(request_num) = Len(endpoint) /\ Len(outstanding) = Len(endpoint)
    /\ spinlock \in Seq(Threads \cup {NULL}) /\ Len(spinlock) = Len(node)
    /\ find_mutex \in Threads \cup {NULL} /\ writer \in Threads \cup {NULL}
    /\ readers \subseteq Threads
    /\ pc \in [Threads -> PCs] /\ call \in [Threads -> CallSet]
    /\ calls \in 0..MaxCalls /\ wild \in BOOLEAN

\* A node is in the chain of its bucket, an endpoint in the list of one node.
TableInv ==
    /\ \A b \in Buckets : \A n \in ToSet(service_tb[b]) : n \in DOMAIN node /\ Bucket[node[n].name] = b
    /\ \A n \in DOMAIN node : n \in ToSet(service_tb[Bucket[node[n].name]])
    /\ \A m, n \in DOMAIN node : node[m].name = node[n].name => m = n
    /\ \A n \in DOMAIN node : ToSet(node[n].list) \subseteq DOMAIN endpoint
    /\ \A m, n \in DOMAIN node : m # n => ToSet(node[m].list) \cap ToSet(node[n].list) = {}

Chain(t) == service_tb[Bucket[call[t].name]]

\* The locks a thread holds.
Locked(t) ==
    /\ pc[t] \in {"add", "etcd", "walk", "unwrlock", "fail", "failed"} => writer = t
    /\ pc[t] \in {"wrlock", "add", "etcd", "walk", "unwrlock", "fail", "unmutex"} => find_mutex = t
    /\ pc[t] \in {"rdlock", "lookup"} /\ call[t].lookup # 1 => find_mutex = t
    /\ pc[t] = "lookup" => t \in readers
    /\ pc[t] \in {"choose", "unspin"} => spinlock[call[t].node] = t

\* What a thread knows of the table, and of the endpoint it has chosen so far.
Knows(t) ==
    /\ call[t].node \in {0} \cup DOMAIN node /\ call[t].optimal \in {0} \cup DOMAIN endpoint
    /\ pc[t] # "idle" => call[t].name \in Names
    /\ pc[t] \in {"rdlock", "lookup"} => call[t].lookup # 0
    /\ pc[t] \in {"wrlock", "add"} => Chain(t) = <<>>
    /\ pc[t] \in {"etcd", "walk", "unwrlock"} => Chain(t) # <<>>
    /\ pc[t] \in {"rdlock", "lookup"} /\ call[t].lookup = 3 => Chain(t) # <<>>
    /\ pc[t] \in {"etcd", "walk", "unmutex", "spin", "choose", "unspin"} => call[t].node # 0
    /\ pc[t] = "choose" => ToSet(call[t].unseen) \subseteq ToSet(node[call[t].node].list)
    /\ pc[t] = "choose" /\ call[t].optimal # 0 =>
          /\ call[t].optimal \in ToSet(node[call[t].node].list)
          /\ request_num[call[t].optimal] < Limit
    /\ pc[t] \in {"unspin", "request"} /\ ~wild => call[t].optimal # 0

ThreadInv == (readers # {} => writer = NULL) /\ \A t \in Threads : Locked(t) /\ Knows(t)

\* The node that is built is nobody else's.
BuiltInv ==
    \A t, u \in Threads :
        pc[t] \in {"etcd", "walk"} /\ pc[u] \in {"unmutex", "spin", "choose", "unspin"}
            => call[t].node # call[u].node

\* Threads that have counted a request and not sent it yet.
Sending(e) == {t \in Threads : pc[t] \in {"unspin", "request"} /\ call[t].optimal = e}
LoadInv ==
    \A e \in DOMAIN endpoint :
        /\ request_num[e] <= Limit
        /\ outstanding[e] + Cardinality(Sending(e)) <= request_num[e]

FindInv == Shapes /\ TableInv /\ ThreadInv /\ BuiltInv /\ LoadInv
-----------------------------------------------------------------------------
(* Induction and recursion over the naturals *)

\* A set of numbers has a least one.
LEMMA LeastOf ==
    ASSUME NEW T \in SUBSET Nat, T # {}
    PROVE  \E m \in T : \A k \in T : m <= k
<1> DEFINE R == OpToRel(<, Nat)
<1>1. \E m \in T : \A k \in T : ~ (<<k, m>> \in R)
  <2>1. IsWellFoundedOn(R, Nat)
    BY NatLessThanWellFounded
  <2> HIDE DEF R
  <2> QED
    BY <2>1, WFMin
<1>2. PICK m \in T : \A k \in T : ~ (<<k, m>> \in R)
  BY <1>1
<1>3. \A k \in T : m <= k
  <2> SUFFICES ASSUME NEW k \in T, k < m PROVE FALSE
    OBVIOUS
  <2>1. <<k, m>> \in R
    BY DEF OpToRel
  <2> QED
    BY <2>1, <1>2
<1> QED
  BY <1>3

\* Induction, for the set of the numbers with some property.
LEMMA SetInduction ==
    ASSUME NEW T, 0 \in T, \A n \in Nat : n \in T => n + 1 \in T
    PROVE  \A n \in Nat : n \in T
<1> SUFFICES ASSUME Nat \ T # {} PROVE FALSE
  OBVIOUS
<1>1. PICK m \in Nat \ T : \A k \in Nat \ T : m <= k
  BY LeastOf
<1>2. m # 0 /\ m - 1 \in Nat
  BY <1>1
<1>3. m - 1 \in T
  BY <1>1, <1>2
<1>4. (m - 1) + 1 \in T
  BY <1>3, <1>2
<1> QED
  BY <1>4, <1>1

\* The tables of the first n + 1 values of a recursion that begins with c.
Table(S, c, G, n) ==
    {f \in [0..n -> S] : f[0] = c /\ \A i \in 0..(n - 1) : f[i + 1] = G[i][f[i]]}

LEMMA TableExists ==
    ASSUME NEW S, NEW c \in S, NEW G \in [Nat -> [S -> S]], NEW n \in Nat
    PROVE  Table(S, c, G, n) # {}
<1> DEFINE T == {k \in Nat : Table(S, c, G, k) # {}}
<1>1. 0 \in T
  <2>1. [i \in 0..0 |-> c] \in Table(S, c, G, 0)
    BY DEF Table
  <2> QED
    BY <2>1
<1>2. ASSUME NEW k \in Nat, k \in T PROVE k + 1 \in T
  <2>1. PICK f \in [0..k -> S] : f[0] = c /\ \A i \in 0..(k - 1) : f[i + 1] = G[i][f[i]]
    BY <1>2 DEF Table
  <2> DEFINE g == [i \in 0..(k + 1) |-> IF i = k + 1 THEN G[k][f[k]] ELSE f[i]]
  <2>2. G[k][f[k]] \in S
    BY <2>1
  <2>3. g \in [0..(k + 1) -> S]
    BY <2>1, <2>2
  <2>4. g[0] = c
    BY <2>1
  <2>5. ASSUME NEW i \in 0..k PROVE g[i + 1] = G[i][g[i]]
    BY <2>1, <2>5
  <2>6. g \in Table(S, c, G, k + 1)
    <3>1. (k + 1) - 1 = k
      OBVIOUS
    <3> HIDE DEF g
    <3> QED
      BY <2>3, <2>4, <2>5, <3>1 DEF Table
  <2> QED
    BY <2>6
<1>3. \A k \in Nat : k \in T
  <2> HIDE DEF T
  <2> QED
    BY <1>1, <1>2, SetInduction
<1> QED
  BY <1>3

LEMMA TableUnique ==
    ASSUME NEW S, NEW c \in S, NEW G \in [Nat -> [S -> S]], NEW m \in Nat, NEW n \in Nat, m <= n,
           NEW f \in Table(S, c, G, m), NEW g \in Table(S, c, G, n)
    PROVE  f[m] = g[m]
<1> DEFINE T == {k \in Nat : k <= m => f[k] = g[k]}
<1>1. 0 \in T
  BY DEF Table
<1>2. ASSUME NEW k \in Nat, k \in T PROVE k + 1 \in T
  BY <1>2 DEF Table
<1>3. \A k \in Nat : k \in T
  <2> HIDE DEF T
  <2> QED
    BY <1>1, <1>2, SetInduction
<1> QED
  BY <1>3

\* f is the function that a recursion defines.
Recurses(f, S, c, G) == f \in [Nat -> S] /\ f[0] = c /\ \A i \in Nat : f[i + 1] = G[i][f[i]]

LEMMA RecursionExists ==
    ASSUME NEW S, NEW c \in S, NEW G \in [Nat -> [S -> S]]
    PROVE  \E f : Recurses(f, S, c, G)
<1> DEFINE t == [n \in Nat |-> CHOOSE f : f \in Table(S, c, G, n)]
<1> DEFINE f == [n \in Nat |-> t[n][n]]
<1>1. ASSUME NEW n \in Nat PROVE t[n] \in Table(S, c, G, n)
  <2>1. \E h : h \in Table(S, c, G, n)
    BY TableExists
  <2> QED
    BY <2>1
<1> HIDE DEF t
<1>2. f \in [Nat -> S]
  BY <1>1 DEF Table
<1>3. f[0] = c
  BY <1>1 DEF Table
<1>4. ASSUME NEW i \in Nat PROVE f[i + 1] = G[i][f[i]]
  <2>1. t[i] \in Table(S, c, G, i) /\ t[i + 1] \in Table(S, c, G, i + 1) /\ i <= i + 1 /\ i + 1 \in Nat
    BY <1>1
  <2>2. t[i][i] = t[i + 1][i]
    BY <2>1, TableUnique
  <2>3. t[i + 1][i + 1] = G[i][t[i + 1][i]]
    BY <2>1 DEF Table
  <2> QED
    BY <2>2, <2>3
<1>5. Recurses(f, S, c, G)
  <2> HIDE DEF f
  <2> QED
    BY <1>2, <1>3, <1>4 DEF Recurses
<1> QED
  BY <1>5

\* What G makes of place i of a function rests on the higher places only.
Backward(G, S, n) ==
    /\ G \in [1..n -> [[1..n -> S] -> S]]
    /\ \A i \in 1..n : \A g, h \in [1..n -> S] :
           (\A j \in 1..n : j > i => g[j] = h[j]) => G[i][g] = G[i][h]

\* Such a recursion defines a function.
LEMMA BackwardExists ==
    ASSUME NEW n \in Nat, NEW S, NEW c \in S, NEW G, Backward(G, S, n)
    PROVE  \E h \in [1..n -> S] : \A i \in 1..n : h[i] = G[i][h]
<1>0. /\ G \in [1..n -> [[1..n -> S] -> S]]
      /\ \A i \in 1..n : \A g, h \in [1..n -> S] :
             (\A j \in 1..n : j > i => g[j] = h[j]) => G[i][g] = G[i][h]
  BY DEF Backward
<1> DEFINE T == {k \in Nat : k <= n => \E h \in [1..n -> S] : \A i \in 1..n : i > n - k => h[i] = G[i][h]}
<1>1. 0 \in T
  <2>1. [i \in 1..n |-> c] \in [1..n -> S]
    OBVIOUS
  <2>2. \A i \in 1..n : ~ (i > n - 0)
    OBVIOUS
  <2>3. \E h \in [1..n -> S] : \A i \in 1..n : i > n - 0 => h[i] = G[i][h]
    BY <2>1, <2>2
  <2> QED
    BY <2>3
<1>2. ASSUME NEW k \in Nat, k \in T PROVE k + 1 \in T
  <2> SUFFICES ASSUME k + 1 <= n
               PROVE  \E h \in [1..n -> S] : \A i \in 1..n : i > n - (k + 1) => h[i] = G[i][h]
    OBVIOUS
  <2>1. PICK h \in [1..n -> S] : \A i \in 1..n : i > n - k => h[i] = G[i][h]
    BY <1>2
  <2>2. PICK m \in 1..n : m = n - k
    OBVIOUS
  <2> DEFINE g == [h EXCEPT ![m] = G[m][h]]
  <2>3. g \in [1..n -> S] /\ g[m] = G[m][h] /\ \A j \in 1..n : j # m => g[j] = h[j]
    BY <1>0
  <2> HIDE DEF g
  <2>4. ASSUME NEW i \in 1..n, i > n - (k + 1) PROVE g[i] = G[i][g]
    <3>1. i >= m
      BY <2>2, <2>4
    <3>2. \A j \in 1..n : j > i => g[j] = h[j]
      BY <2>3, <3>1
    <3>3. G[i][g] = G[i][h]
      BY <1>0, <2>3, <3>2
    <3>4. CASE i = m
      BY <3>3, <3>4, <2>3
    <3>5. CASE i # m
      <4>1. i > n - k
        BY <3>1, <3>5, <2>2
      <4> QED
        BY <4>1, <2>1, <2>3, <3>3, <3>5
    <3> QED
      BY <3>4, <3>5
  <2> QED
    BY <2>3, <2>4
<1>3. \A k \in Nat : k \in T
  <2> HIDE DEF T
  <2> QED
    BY <1>1, <1>2, SetInduction
<1>4. n \in T /\ n <= n
  <2> HIDE DEF T
  <2> QED
    BY <1>3
<1>5. PICK h \in [1..n -> S] : \A i \in 1..n : i > n - n => h[i] = G[i][h]
  BY <1>4
<1>6. \A i \in 1..n : i > n - n
  OBVIOUS
<1> QED
  BY <1>5, <1>6
-----------------------------------------------------------------------------
(* Names and their hash codes *)

Byte == 0..255
Octets == Seq(Byte)

\* The hash code is unsigned.
LEMMA HashNat ==
    ASSUME NEW str \in Octets
    PROVE  sd_hash_code(str) \in Nat
<1>1. PICK n \in Nat : n = Len(str)
  BY LenProperties DEF Octets
<1>2. \A i \in 1..n : str[i] \in Nat
  <2>1. \A i \in 1..n : str[i] \in Byte
    BY <1>1, ElementOfSeq DEF Octets
  <2> QED
    BY <2>1 DEF Byte
<1>3. service_tb_size \in Nat /\ service_tb_size > 0
  BY SizeAssumption
<1>4. \A a, b \in Nat : (31 * a + b) % service_tb_size \in Nat
  <2>1. \A x \in Nat : x % service_tb_size \in Nat
    BY <1>3
  <2>2. \A a, b \in Nat : 31 * a + b \in Nat
    OBVIOUS
  <2> QED
    BY <2>1, <2>2
<1> DEFINE Step(i, a) == (31 * a + str[i]) % service_tb_size
<1> DEFINE Good(f) == f = [i \in 0..n |-> IF i = 0 THEN 0 ELSE Step(i, f[i - 1])]
<1> DEFINE h == CHOOSE f : Good(f)
<1>5. sd_hash_code(str) = h[n]
  BY <1>1 DEF sd_hash_code
<1>6. ASSUME NEW i \in 1..n, NEW a \in Nat PROVE Step(i, a) \in Nat
  BY <1>2, <1>4
<1> HIDE DEF Step
<1>7. \E f : Good(f)
  <2> DEFINE G == [i \in Nat |-> [x \in Nat |-> IF i < n THEN Step(i + 1, x) ELSE x]]
  <2>1. G \in [Nat -> [Nat -> Nat]]
    <3>1. ASSUME NEW i \in Nat, NEW x \in Nat PROVE (IF i < n THEN Step(i + 1, x) ELSE x) \in Nat
      <4>1. CASE i < n
        <5>1. i + 1 \in 1..n
          BY <4>1
        <5> QED
          BY <5>1, <1>6, <4>1
      <4> QED
        BY <4>1
    <3> QED
      BY <3>1
  <2>2. PICK g : Recurses(g, Nat, 0, G)
    <3> HIDE DEF G
    <3> QED
      BY <2>1, RecursionExists
  <2> DEFINE f == [i \in 0..n |-> g[i]]
  <2>3. ASSUME NEW i \in 0..n PROVE f[i] = IF i = 0 THEN 0 ELSE Step(i, f[i - 1])
    <3>1. CASE i = 0
      BY <3>1, <2>2 DEF Recurses
    <3>2. CASE i # 0
      <4>1. i - 1 \in Nat /\ (i - 1) + 1 = i /\ i - 1 \in 0..n /\ i - 1 < n
        BY <3>2
      <4>2. g[i] = G[i - 1][g[i - 1]] /\ g[i - 1] \in Nat
        BY <2>2, <4>1 DEF Recurses
      <4>3. g[i] = Step(i, g[i - 1])
        BY <4>1, <4>2
      <4> QED
        BY <4>1, <4>3, <3>2
    <3> QED
      BY <3>1, <3>2
  <2>4. Good(f)
    BY <2>3
  <2> QED
    BY <2>4
<1>8. Good(h)
  BY <1>7
<1> HIDE DEF h
<1>9. h[0] = 0 /\ \A k \in Nat : k < n => h[k + 1] = Step(k + 1, h[k])
  BY <1>8
<1> DEFINE T == {k \in Nat : k <= n => h[k] \in Nat}
<1>10. 0 \in T
  BY <1>9
<1>11. ASSUME NEW k \in Nat, k \in T PROVE k + 1 \in T
  <2> SUFFICES ASSUME k + 1 <= n PROVE h[k + 1] \in Nat
    OBVIOUS
  <2>1. k + 1 \in 1..n /\ h[k] \in Nat /\ h[k + 1] = Step(k + 1, h[k])
    BY <1>9, <1>11
  <2> QED
    BY <2>1, <1>6
<1>12. \A k \in Nat : k \in T
  <2> HIDE DEF T
  <2> QED
    BY <1>10, <1>11, SetInduction
<1>13. n \in T /\ n <= n
  BY <1>12
<1> QED
  BY <1>5, <1>13

\* One step of get_service_name, with what the later steps return.
Valued(src, value, i) ==
    CASE CharAt(src, i) \in {0, AMP} -> <<>>
      [] CharAt(src, i) = EQ -> value[i + 1]
      [] CharAt(src, i) = PERCENT ->
           <<(16 * hex2dec(CharAt(src, i + 1)) + hex2dec(CharAt(src, i + 2))) % 256>>
           \o value[i + 3]
      [] OTHER -> <<CharAt(src, i)>> \o value[i + 1]

LEMMA CharFacts ==
    ASSUME NEW src \in Octets, NEW i \in Nat
    PROVE  CharAt(src, i) \in Byte /\ (i > Len(src) => CharAt(src, i) = 0)
<1>1. DOMAIN src = 1..Len(src) /\ Len(src) \in Nat
  BY LenProperties DEF Octets
<1>2. \A j \in 1..Len(src) : src[j] \in Byte
  BY ElementOfSeq DEF Octets
<1>3. 0 \in Byte
  BY DEF Byte
<1> QED
  BY <1>1, <1>2, <1>3 DEF CharAt

LEMMA OneMore ==
    ASSUME NEW x \in Byte, NEW s \in Octets
    PROVE  <<x>> \o s \in Octets
  BY DEF Octets

LEMMA HexInt == \A c \in Byte : hex2dec(c) \in Int
  BY DEF hex2dec, Byte

LEMMA ValuedEnd ==
    ASSUME NEW src, NEW f, NEW i, CharAt(src, i) \in {0, AMP}
    PROVE  Valued(src, f, i) = <<>>
<1>1. CharAt(src, i) # EQ /\ CharAt(src, i) # PERCENT
  BY DEF AMP, EQ, PERCENT
<1> QED
  BY <1>1, Zenon DEF Valued

\* Which case a character is in, and what follows.
ByCharacter(src, f, i) ==
    \/ Valued(src, f, i) = <<>>
    \/ Valued(src, f, i) = f[i + 1] /\ i <= Len(src)
    \/ \E x \in Byte : Valued(src, f, i) = <<x>> \o f[i + 3] /\ i <= Len(src)
    \/ Valued(src, f, i) = <<CharAt(src, i)>> \o f[i + 1] /\ i <= Len(src)

LEMMA ValuedCases ==
    ASSUME NEW src \in Octets, NEW f, NEW i \in Nat
    PROVE  ByCharacter(src, f, i)
<1>1. CASE CharAt(src, i) \in {0, AMP}
  BY <1>1, ValuedEnd DEF ByCharacter
<1>2. CASE CharAt(src, i) \notin {0, AMP}
  <2>0. i \in Nat /\ i + 1 \in Nat /\ i + 2 \in Nat
    OBVIOUS
  <2>1. i <= Len(src)
    <3>1. Len(src) \in Nat
      BY LenProperties DEF Octets
    <3>2. ~ (i > Len(src))
      BY <1>2, <2>0, CharFacts
    <3> QED
      BY <3>1, <3>2
  <2>2. CASE CharAt(src, i) = EQ
    <3>1. CharAt(src, i) # PERCENT
      BY <2>2 DEF EQ, PERCENT
    <3>2. Valued(src, f, i) = f[i + 1]
      BY <1>2, <2>2, <3>1, Zenon DEF Valued
    <3> QED
      BY <2>1, <2>2, <3>2 DEF ByCharacter
  <2>3. CASE CharAt(src, i) = PERCENT
    <3>1. CharAt(src, i) # EQ
      BY <2>3 DEF EQ, PERCENT
    <3> DEFINE x == (16 * hex2dec(CharAt(src, i + 1)) + hex2dec(CharAt(src, i + 2))) % 256
    <3>2. Valued(src, f, i) = <<x>> \o f[i + 3]
      BY <1>2, <2>3, <3>1, Zenon DEF Valued
    <3>3. x \in Byte
      <4>1. CharAt(src, i + 1) \in Byte /\ CharAt(src, i + 2) \in Byte
        BY <2>0, CharFacts
      <4>2. \A c \in Byte : hex2dec(c) \in Int
        BY HexInt
      <4>3. \A a, b \in Int : (16 * a + b) % 256 \in 0..255
        OBVIOUS
      <4> QED
        BY <4>1, <4>2, <4>3 DEF Byte
    <3> HIDE DEF x
    <3> QED
      BY <2>1, <2>3, <3>2, <3>3 DEF ByCharacter
  <2>4. CASE CharAt(src, i) \notin {EQ, PERCENT}
    <3>1. Valued(src, f, i) = <<CharAt(src, i)>> \o f[i + 1]
      BY <1>2, <2>4, Zenon DEF Valued
    <3> QED
      BY <2>1, <3>1 DEF ByCharacter
  <2> QED
    BY <2>2, <2>3, <2>4
<1> QED
  BY <1>1, <1>2

LEMMA ValuedIn ==
    ASSUME NEW src \in Octets, NEW n \in Nat, n = Len(src), NEW f, NEW i \in 1..(n + 3),
           i <= n => f[i + 1] \in Octets /\ f[i + 3] \in Octets
    PROVE  Valued(src, f, i) \in Octets
<1>1. CASE Valued(src, f, i) = <<>>
  BY <1>1 DEF Octets
<1>2. CASE Valued(src, f, i) = f[i + 1] /\ i <= n
  BY <1>2
<1>3. CASE \E x \in Byte : Valued(src, f, i) = <<x>> \o f[i + 3] /\ i <= n
  BY <1>3, OneMore
<1>4. CASE Valued(src, f, i) = <<CharAt(src, i)>> \o f[i + 1] /\ i <= n
  <2>1. CharAt(src, i) \in Byte
    BY CharFacts
  <2> QED
    BY <2>1, <1>4, OneMore
<1>5. ByCharacter(src, f, i)
  BY ValuedCases
<1> QED
  BY <1>1, <1>2, <1>3, <1>4, <1>5 DEF ByCharacter

\* The first of the two characters between which a name ends, or 0.
Border(src) == SelectInSeq(src, LAMBDA c : c \in {EQ, AMP})

LEMMA BorderFacts ==
    ASSUME NEW src \in Octets, Border(src) # 0
    PROVE  Border(src) \in 1..Len(src)
<1> DEFINE I == {i \in 1..Len(src) : src[i] \in {EQ, AMP}}
<1>1. Border(src) = IF I # {} THEN Min(I) ELSE 0
  BY DEF Border, SelectInSeq
<1>2. I # {}
  BY <1>1
<1>3. I \in SUBSET Nat
  OBVIOUS
<1>4. \E x \in I : \A y \in I : x <= y
  <2> HIDE DEF I
  <2> QED
    BY <1>2, <1>3, LeastOf
<1>5. Min(I) \in I
  BY <1>4 DEF Min
<1> QED
  BY <1>1, <1>2, <1>5

LEMMA ValueDef ==
    ASSUME NEW src \in Octets, NEW m \in Nat, m = Len(src) + 3
    PROVE  \E f : /\ \A i \in 1..m : f[i] = Valued(src, f, i)
                  /\ get_service_name(src) =
                        IF Border(src) = 0 \/ src[Border(src)] = AMP THEN <<>> ELSE f[Border(src)]
<1> DEFINE Good(f) == f = [i \in 1..m |-> Valued(src, f, i)]
<1> DEFINE value == CHOOSE f : Good(f)
<1>1. get_service_name(src) = IF Border(src) = 0 \/ src[Border(src)] = AMP THEN <<>> ELSE value[Border(src)]
  BY DEF get_service_name, Valued, Border
<1>2. \E f : Good(f)
  <2> DEFINE G == [i \in 1..m |-> [f \in [1..m -> Octets] |-> Valued(src, f, i)]]
  <2>0. PICK n \in Nat : n = Len(src) /\ m = n + 3
    BY LenProperties DEF Octets
  <2>1. ASSUME NEW i \in 1..m, NEW f \in [1..m -> Octets] PROVE Valued(src, f, i) \in Octets
    <3>1. i <= n => f[i + 1] \in Octets /\ f[i + 3] \in Octets
      BY <2>0
    <3> QED
      BY <3>1, <2>0, ValuedIn
  <2>2. ASSUME NEW i \in 1..m, NEW g \in [1..m -> Octets], NEW h \in [1..m -> Octets],
               \A j \in 1..m : j > i => g[j] = h[j]
        PROVE  G[i][g] = G[i][h]
    <3>1. i <= n => g[i + 1] = h[i + 1] /\ g[i + 3] = h[i + 3]
      BY <2>2, <2>0
    <3>2. i > n => CharAt(src, i) = 0
      BY <2>0, CharFacts
    <3>3. Valued(src, g, i) = Valued(src, h, i)
      <4>1. CASE i > n
        <5>1. CharAt(src, i) \in {0, AMP}
          BY <4>1, <3>2
        <5> QED
          BY <5>1, ValuedEnd
      <4>2. CASE i <= n
        BY <4>2, <3>1 DEF Valued
      <4> QED
        BY <4>1, <4>2, <2>0
    <3> QED
      BY <3>3
  <2>3. PICK c \in Octets : TRUE
    BY DEF Octets
  <2>4. PICK f \in [1..m -> Octets] : \A i \in 1..m : f[i] = G[i][f]
    <3>1. G \in [1..m -> [[1..m -> Octets] -> Octets]]
      BY <2>1
    <3> HIDE DEF G
    <3>2. Backward(G, Octets, m)
      BY <3>1, <2>2 DEF Backward
    <3>3. \E f \in [1..m -> Octets] : \A i \in 1..m : f[i] = G[i][f]
      BY <2>3, <3>2, BackwardExists
    <3> QED
      BY <3>3
  <2>5. \A i \in 1..m : f[i] = Valued(src, f, i)
    BY <2>4
  <2>6. Good(f)
    BY <2>5
  <2> QED
    BY <2>6
<1>3. Good(value)
  BY <1>2
<1> HIDE DEF value
<1>4. \A i \in 1..m : value[i] = Valued(src, value, i)
  BY <1>3
<1> QED
  BY <1>1, <1>4

\* A name is a sequence of bytes.
LEMMA NameOctets ==
    ASSUME NEW src \in Octets
    PROVE  get_service_name(src) \in Octets
<1>1. PICK n \in Nat : n = Len(src) /\ n + 3 \in Nat
  BY LenProperties DEF Octets
<1>2. PICK f : /\ \A i \in 1..(n + 3) : f[i] = Valued(src, f, i)
               /\ get_service_name(src) =
                     IF Border(src) = 0 \/ src[Border(src)] = AMP THEN <<>> ELSE f[Border(src)]
  BY <1>1, ValueDef
<1>3. <<>> \in Octets
  BY DEF Octets
<1> DEFINE T == {k \in Nat : \A i \in 1..(n + 3) : i > n + 3 - k => f[i] \in Octets}
<1>4. 0 \in T
  OBVIOUS
<1>5. ASSUME NEW k \in Nat, k \in T PROVE k + 1 \in T
  <2> SUFFICES ASSUME NEW i \in 1..(n + 3), i > n + 3 - (k + 1) PROVE f[i] \in Octets
    OBVIOUS
  <2>1. \A j \in 1..(n + 3) : j > i => f[j] \in Octets
    BY <1>5
  <2>2. i <= n => f[i + 1] \in Octets /\ f[i + 3] \in Octets
    BY <2>1
  <2>5. Valued(src, f, i) \in Octets
    BY <1>1, <2>2, ValuedIn
  <2> QED
    BY <2>5, <1>2
<1>6. \A k \in Nat : k \in T
  <2> HIDE DEF T
  <2> QED
    BY <1>4, <1>5, SetInduction
<1>7. ASSUME NEW i \in 1..(n + 3) PROVE f[i] \in Octets
  <2>1. n + 3 \in T /\ i > n + 3 - (n + 3)
    BY <1>1, <1>6
  <2> QED
    BY <2>1
<1>8. CASE Border(src) = 0 \/ src[Border(src)] = AMP
  BY <1>8, <1>2, <1>3
<1>9. CASE ~ (Border(src) = 0 \/ src[Border(src)] = AMP)
  <2>1. Border(src) \in 1..(n + 3)
    BY <1>9, <1>1, BorderFacts
  <2> QED
    BY <2>1, <1>7, <1>9, <1>2
<1> QED
  BY <1>8, <1>9

LEMMA HashOfName == \A f \in Forms : sd_hash_code(NameIn[f]) \in Nat
<1> SUFFICES ASSUME NEW f \in Forms PROVE sd_hash_code(NameIn[f]) \in Nat
  OBVIOUS
<1>1. f \in Octets
  BY FormsAssumption DEF Octets, Byte
<1>2. NameIn[f] = get_service_name(f)
  BY DEF NameIn
<1> QED
  BY <1>1, <1>2, NameOctets, HashNat

HexDigits == 48..57 \cup 65..70 \cup 97..102

\* The first parameter of the form has the value v: place p[k] is where byte k of
\* it begins, as itself or as an escape of two digits.
Escapes(src, v, p) ==
    /\ p \in [1..(Len(v) + 1) -> 2..(Len(src) + 1)]
    /\ src[p[1] - 1] = EQ /\ \A j \in 1..(p[1] - 2) : src[j] \notin {EQ, AMP}
    /\ \A k \in 1..Len(v) :
          LET i == p[k] IN
          \/ /\ i <= Len(src) /\ src[i] \notin {0, AMP, EQ, PERCENT}
             /\ v[k] = src[i] /\ p[k + 1] = i + 1
          \/ /\ i + 2 <= Len(src) /\ src[i] = PERCENT /\ {src[i + 1], src[i + 2]} \subseteq HexDigits
             /\ v[k] = 16 * hex2dec(src[i + 1]) + hex2dec(src[i + 2]) /\ p[k + 1] = i + 3
    /\ LET i == p[Len(v) + 1] IN i <= Len(src) => src[i] \in {0, AMP}

LEMMA HexValue ==
    ASSUME NEW c \in HexDigits
    PROVE  hex2dec(c) \in 0..15
  BY DEF HexDigits, hex2dec

\* From byte k on.
Since(v, k) == SubSeq(v, k, Len(v))

LEMMA SinceFacts ==
    ASSUME NEW v \in Octets, NEW k \in 1..Len(v)
    PROVE  Since(v, k) = <<v[k]>> \o Since(v, k + 1)
<1>1. PICK n \in Nat : n = Len(v) /\ k \in 1..n
  BY LenProperties DEF Octets
<1>2. Since(v, k) \in Seq(Byte) /\ Since(v, k + 1) \in Seq(Byte) /\ <<v[k]>> \in Seq(Byte)
  BY <1>1, SubSeqProperties, ElementOfSeq DEF Since, Octets
<1> QED
  BY <1>1, <1>2 DEF Since, Octets

LEMMA CharIn ==
    ASSUME NEW src \in Octets, NEW n \in Nat, n = Len(src), NEW i \in 1..n
    PROVE  CharAt(src, i) = src[i]
<1>1. DOMAIN src = 1..n
  BY LenProperties DEF Octets
<1> QED
  BY <1>1 DEF CharAt

LEMMA BorderIs ==
    ASSUME NEW src \in Octets, NEW n \in Nat, n = Len(src), NEW b \in 1..n, src[b] = EQ,
           \A j \in 1..(b - 1) : src[j] \notin {EQ, AMP}
    PROVE  Border(src) = b
<1> DEFINE I == {i \in 1..n : src[i] \in {EQ, AMP}}
<1>1. Border(src) = IF I # {} THEN Min(I) ELSE 0
  BY DEF Border, SelectInSeq
<1>2. b \in I /\ \A y \in I : b <= y
  OBVIOUS
<1>3. \A x \in I : x \in Nat
  OBVIOUS
<1> HIDE DEF I
<1>4. \A x \in I : (\A y \in I : x <= y) => x = b
  BY <1>2, <1>3
<1>5. Min(I) = b
  BY <1>2, <1>4 DEF Min
<1> QED
  BY <1>1, <1>2, <1>5

\* get_service_name finds the bytes that were escaped.
LEMMA NameRight ==
    ASSUME NEW src \in Octets, NEW v \in Octets, NEW p, Escapes(src, v, p)
    PROVE  get_service_name(src) = v
<1>1. PICK n \in Nat, m \in Nat : n = Len(src) /\ m = Len(v) /\ n + 3 \in Nat
  BY LenProperties DEF Octets
<1>2. PICK f : /\ \A i \in 1..(n + 3) : f[i] = Valued(src, f, i)
               /\ get_service_name(src) =
                     IF Border(src) = 0 \/ src[Border(src)] = AMP THEN <<>> ELSE f[Border(src)]
  BY <1>1, ValueDef
<1>p. p \in [1..(m + 1) -> 2..(n + 1)]
  BY <1>1 DEF Escapes
<1> DEFINE T == {k \in Nat : k <= m => f[p[m + 1 - k]] = Since(v, m + 1 - k)}
<1>3. 0 \in T
  <2>1. PICK i \in 2..(n + 1) : i = p[m + 1]
    BY <1>p
  <2>2. i <= n => src[i] \in {0, AMP}
    BY <1>1, <2>1 DEF Escapes
  <2>3. CharAt(src, i) \in {0, AMP}
    <3>1. CASE i <= n
      BY <3>1, <2>2, <1>1, CharIn
    <3>2. CASE i > n
      BY <3>2, <1>1, CharFacts
    <3> QED
      BY <3>1, <3>2
  <2>4. f[i] = <<>>
    BY <2>3, <1>2, ValuedEnd
  <2>5. Since(v, m + 1) = <<>>
    BY <1>1 DEF Since, Octets
  <2>6. f[p[m + 1]] = Since(v, m + 1)
    BY <2>1, <2>4, <2>5
  <2> QED
    BY <2>6
<1>4. ASSUME NEW j \in Nat, j \in T PROVE j + 1 \in T
  <2> SUFFICES ASSUME j + 1 <= m PROVE f[p[m + 1 - (j + 1)]] = Since(v, m + 1 - (j + 1))
    OBVIOUS
  <2>1. PICK k \in 1..m : k = m + 1 - (j + 1) /\ k + 1 = m + 1 - j
    OBVIOUS
  <2>2. f[p[k + 1]] = Since(v, k + 1)
    BY <1>4, <2>1
  <2>3. Since(v, k) = <<v[k]>> \o Since(v, k + 1)
    BY <1>1, SinceFacts
  <2>4. PICK i \in 2..(n + 1) : i = p[k]
    BY <1>p
  <2>5. f[i] = Valued(src, f, i)
    BY <1>2
  <2>6. CASE i <= n /\ src[i] \notin {0, AMP, EQ, PERCENT} /\ v[k] = src[i] /\ p[k + 1] = i + 1
    <3>1. CharAt(src, i) = src[i]
      BY <2>6, <1>1, CharIn
    <3>2. Valued(src, f, i) = <<src[i]>> \o f[i + 1]
      BY <2>6, <3>1, Zenon DEF Valued
    <3> QED
      BY <3>2, <2>1, <2>2, <2>3, <2>4, <2>5, <2>6
  <2>7. CASE /\ i + 2 <= n /\ src[i] = PERCENT /\ {src[i + 1], src[i + 2]} \subseteq HexDigits
             /\ v[k] = 16 * hex2dec(src[i + 1]) + hex2dec(src[i + 2]) /\ p[k + 1] = i + 3
    <3>1. hex2dec(src[i + 1]) \in 0..15 /\ hex2dec(src[i + 2]) \in 0..15
      BY <2>7, HexValue
    <3>2. v[k] = (16 * hex2dec(src[i + 1]) + hex2dec(src[i + 2])) % 256
      <4>1. \A a, b \in 0..15 : (16 * a + b) % 256 = 16 * a + b
        OBVIOUS
      <4> QED
        BY <4>1, <3>1, <2>7
    <3>3. CharAt(src, i) = src[i] /\ CharAt(src, i + 1) = src[i + 1] /\ CharAt(src, i + 2) = src[i + 2]
      <4>1. i \in 1..n /\ i + 1 \in 1..n /\ i + 2 \in 1..n
        BY <2>7
      <4> QED
        BY <4>1, <1>1, CharIn
    <3>4. CharAt(src, i) = PERCENT /\ CharAt(src, i) \notin {0, AMP} /\ CharAt(src, i) # EQ
      BY <3>3, <2>7 DEF PERCENT, AMP, EQ
    <3>5. Valued(src, f, i) = <<(16 * hex2dec(src[i + 1]) + hex2dec(src[i + 2])) % 256>> \o f[i + 3]
      BY <3>3, <3>4, Zenon DEF Valued
    <3> QED
      BY <3>2, <3>5, <2>1, <2>2, <2>3, <2>4, <2>5, <2>7
  <2> QED
    BY <2>4, <2>6, <2>7, <1>1 DEF Escapes
<1>5. \A k \in Nat : k \in T
  <2> HIDE DEF T
  <2> QED
    BY <1>3, <1>4, SetInduction
<1>6. f[p[1]] = Since(v, 1)
  <2>1. m \in T /\ m + 1 - m = 1
    BY <1>5
  <2> QED
    BY <2>1
<1>7. Since(v, 1) = v
  BY <1>1 DEF Since, Octets
<1>8. PICK b \in 1..n : b = p[1] - 1 /\ b + 1 = p[1]
  BY <1>p
<1>9. Border(src) = b /\ src[b] = EQ
  <2>1. src[b] = EQ /\ \A j \in 1..(b - 1) : src[j] \notin {EQ, AMP}
    BY <1>8, <1>p DEF Escapes
  <2> QED
    BY <2>1, <1>1, BorderIs
<1>10. f[b] = f[b + 1]
  <2>1. CharAt(src, b) = EQ
    BY <1>9, <1>1, CharIn
  <2>2. CharAt(src, b) \notin {0, AMP} /\ CharAt(src, b) # PERCENT
    BY <2>1 DEF EQ, AMP, PERCENT
  <2>3. Valued(src, f, b) = f[b + 1]
    BY <2>1, <2>2, Zenon DEF Valued
  <2> QED
    BY <2>3, <1>2
<1>11. get_service_name(src) = f[b]
  <2>1. b # 0 /\ src[b] # AMP
    BY <1>9 DEF EQ, AMP
  <2> QED
    BY <2>1, <1>2, <1>9
<1> QED
  BY <1>6, <1>7, <1>8, <1>10, <1>11

\* The content handler decodes the service name of every form, of any length and
\* escaped in any way, to the bytes that its sender put in.
THEOREM NamesDecoded ==
    ASSUME \A f \in Forms : ServiceOf[f] \in Octets /\ \E p : Escapes(f, ServiceOf[f], p)
    PROVE  \A f \in Forms : NameIn[f] = ServiceOf[f]
<1> SUFFICES ASSUME NEW f \in Forms PROVE NameIn[f] = ServiceOf[f]
  OBVIOUS
<1>1. f \in Octets
  BY FormsAssumption DEF Octets, Byte
<1>2. PICK p : Escapes(f, ServiceOf[f], p)
  OBVIOUS
<1>3. get_service_name(f) = ServiceOf[f]
  BY <1>1, <1>2, NameRight
<1> QED
  BY <1>3 DEF NameIn
-----------------------------------------------------------------------------
(* Constants and sequences *)

LEMMA Consts ==
    /\ service_tb_size \in Nat /\ service_tb_size > 0
    /\ Limit \in Nat /\ Limit > 0 /\ MaxCalls \in Nat
    /\ IsFiniteSet(Threads) /\ NULL \notin Threads
  BY SizeAssumption, LimitAssumption, ThreadsAssumption

LEMMA BucketRange == \A s \in Names : Bucket[s] \in Buckets
<1> SUFFICES ASSUME NEW s \in Names PROVE Bucket[s] \in Buckets
  OBVIOUS
<1>1. sd_hash_code(s) \in Nat
  BY HashOfName DEF Names
<1>2. Bucket[s] = sd_hash_code(s) % service_tb_size
  BY DEF Bucket, Names
<1>3. PICK h \in Nat : h = sd_hash_code(s)
  BY <1>1
<1>4. h % service_tb_size \in 0..(service_tb_size - 1)
  BY Consts
<1> QED
  BY <1>2, <1>3, <1>4 DEF Buckets

LEMMA LeastIn ==
    ASSUME NEW S \in SUBSET Nat, S # {}
    PROVE  Min(S) \in S /\ \A y \in S : Min(S) =< y
<1>1. PICK m \in S : \A y \in S : ~ (<<y, m>> \in OpToRel(<, Nat))
  <2>1. \E m \in S : \A y \in S : ~ (<<y, m>> \in OpToRel(<, Nat))
    BY NatLessThanWellFounded, WFMin
  <2> QED
    BY <2>1
<1>2. \A y \in S : m =< y
  <2> SUFFICES ASSUME NEW y \in S, y < m PROVE FALSE
    OBVIOUS
  <2>1. <<y, m>> \in OpToRel(<, Nat)
    BY DEF OpToRel
  <2> QED
    BY <1>1, <2>1
<1> QED
  BY <1>2 DEF Min

LEMMA InsertFacts ==
    ASSUME NEW s \in Seq(Nat), NEW e \in Nat, NEW i \in 1..Len(s)
    PROVE  /\ InsertAt(s, i, e) \in Seq(Nat) /\ Len(InsertAt(s, i, e)) = Len(s) + 1
           /\ InsertAt(s, i, e)[i] = e
           /\ \A j \in 1..(i - 1) : InsertAt(s, i, e)[j] = s[j]
           /\ \A j \in (i + 1)..(Len(s) + 1) : InsertAt(s, i, e)[j] = s[j - 1]
<1> DEFINE a == SubSeq(s, 1, i - 1)
           b == SubSeq(s, i, Len(s))
<1>1. a \in Seq(Nat) /\ Len(a) = i - 1 /\ \A j \in 1..(i - 1) : a[j] = s[j]
  BY SubSeqProperties
<1>2. b \in Seq(Nat) /\ Len(b) = Len(s) - i + 1 /\ \A j \in 1..(Len(s) - i + 1) : b[j] = s[i + j - 1]
  BY SubSeqProperties
<1>3. InsertAt(s, i, e) = (a \o <<e>>) \o b
  BY DEF InsertAt
<1> HIDE DEF a, b
<1>4. PICK c : c = a \o <<e>>
  OBVIOUS
<1>5. c \in Seq(Nat) /\ Len(c) = i
  BY <1>1, <1>4
<1>6. c[i] = e /\ \A j \in 1..(i - 1) : c[j] = s[j]
  BY <1>1, <1>4
<1>7. /\ c \o b \in Seq(Nat) /\ Len(c \o b) = Len(c) + Len(b)
      /\ \A j \in 1..(Len(c) + Len(b)) : (c \o b)[j] = IF j <= Len(c) THEN c[j] ELSE b[j - Len(c)]
  BY <1>2, <1>5, ConcatProperties
<1>8. PICK l \in Nat : l = Len(s) /\ i \in 1..l
  OBVIOUS
<1>9. Len(c) + Len(b) = l + 1
  BY <1>2, <1>5, <1>8
<1>10. \A j \in 1..i : (c \o b)[j] = c[j]
  BY <1>5, <1>7, <1>8, <1>9
<1>11. \A j \in (i + 1)..(l + 1) : (c \o b)[j] = s[j - 1]
  <2> SUFFICES ASSUME NEW j \in (i + 1)..(l + 1) PROVE (c \o b)[j] = s[j - 1]
    OBVIOUS
  <2>0. j \in 1..(l + 1) /\ ~ (j <= i)
    BY <1>8
  <2>1. (c \o b)[j] = b[j - i]
    <3>1. \A k \in 1..(l + 1) : (c \o b)[k] = IF k <= i THEN c[k] ELSE b[k - i]
      BY <1>5, <1>7, <1>9, Zenon
    <3> QED
      BY <2>0, <3>1, Zenon
  <2>2. j - i \in 1..(l - i + 1) /\ i + (j - i) - 1 = j - 1
    BY <1>8
  <2> QED
    BY <1>2, <1>8, <2>1, <2>2
<1>12. PICK r : r = c \o b
  OBVIOUS
<1>13. InsertAt(s, i, e) = r
  BY <1>3, <1>4, <1>12
<1>14. /\ r \in Seq(Nat) /\ Len(r) = l + 1 /\ r[i] = e
       /\ \A j \in 1..(i - 1) : r[j] = s[j]
       /\ \A j \in (i + 1)..(l + 1) : r[j] = s[j - 1]
  <2>1. r \in Seq(Nat) /\ Len(r) = l + 1 /\ (\A j \in (i + 1)..(l + 1) : r[j] = s[j - 1])
        /\ \A j \in 1..i : r[j] = c[j]
    BY <1>7, <1>9, <1>10, <1>11, <1>12
  <2>2. i \in 1..i /\ \A j \in 1..(i - 1) : j \in 1..i
    BY <1>8
  <2> QED
    BY <1>6, <2>1, <2>2
<1> QED
  BY <1>8, <1>13, <1>14
-----------------------------------------------------------------------------
LEMMA FindInit == Init => FindInv
<1> SUFFICES ASSUME Init PROVE FindInv
  OBVIOUS
<1> USE Consts
<1>1. NoCall \in CallSet
  BY DEF NoCall, CallSet
<1>2. service_tb \in [Buckets -> Seq(Nat)]
  BY DEF Init, Buckets
<1>3. /\ node = <<>> /\ endpoint = <<>> /\ request_num = <<>> /\ outstanding = <<>>
      /\ spinlock = <<>> /\ DOMAIN node = {} /\ DOMAIN endpoint = {}
  BY DEF Init
<1>4. pc \in [Threads -> PCs] /\ call \in [Threads -> CallSet]
  BY <1>1 DEF Init, PCs
<1>5. calls \in 0..MaxCalls /\ wild \in BOOLEAN /\ readers \subseteq Threads
  <2>1. wild \in BOOLEAN
    BY Zenon DEF Init
  <2>2. calls \in 0..MaxCalls /\ readers \subseteq Threads
    BY DEF Init
  <2> QED
    BY <2>1, <2>2
<1>6. Shapes
  BY <1>2, <1>3, <1>4, <1>5 DEF Shapes, Init
<1>7. \A b \in Buckets : ToSet(service_tb[b]) = {}
  BY DEF Init, Buckets, ToSet
<1>8. TableInv
  BY <1>3, <1>7 DEF TableInv
<1>9. \A t \in Threads : pc[t] = "idle" /\ call[t].node = 0 /\ call[t].optimal = 0
  BY DEF Init, NoCall
<1>10. ThreadInv
  BY <1>9 DEF ThreadInv, Locked, Knows, Init
<1>11. BuiltInv /\ LoadInv
  BY <1>3, <1>9 DEF BuiltInv, LoadInv
<1> QED
  BY <1>6, <1>8, <1>10, <1>11 DEF FindInv
-----------------------------------------------------------------------------
(* Steps that change neither the table nor the load *)

LocksOK ==
    /\ find_mutex \in Threads \cup {NULL} /\ writer \in Threads \cup {NULL}
    /\ readers \subseteq Threads
    /\ spinlock \in Seq(Threads \cup {NULL}) /\ Len(spinlock) = Len(node)
    /\ readers # {} => writer = NULL

\* The other threads keep their locks.
OthersKeep(t) ==
    \A u \in Threads \ {t} :
        /\ find_mutex = u => find_mutex' = u
        /\ writer = u => writer' = u
        /\ u \in readers => u \in readers'
        /\ \A n \in DOMAIN node : spinlock[n] = u => spinlock'[n] = u

\* The thread goes to a place where its node is not shared with a builder's.
NotShared(t, to, c) ==
    \A u \in Threads \ {t} :
        /\ to \in {"etcd", "walk"} /\ pc[u] \in {"unmutex", "spin", "choose", "unspin"}
              => c.node # call[u].node
        /\ pc[u] \in {"etcd", "walk"} /\ to \in {"unmutex", "spin", "choose", "unspin"}
              => call[u].node # c.node

\* The thread neither counts nor sends a request.
SameSending(t, to, c) ==
    \/ pc[t] \notin {"unspin", "request"} /\ to \notin {"unspin", "request"}
    \/ pc[t] \in {"unspin", "request"} /\ to \in {"unspin", "request"} /\ c.optimal = call[t].optimal

LEMMA LocalStep ==
    ASSUME FindInv, NEW t \in Threads, NEW to \in PCs, NEW c \in CallSet,
           UNCHANGED <<service_tb, node, endpoint, request_num, outstanding, wild>>,
           pc' = [pc EXCEPT ![t] = to], call' = [call EXCEPT ![t] = c],
           LocksOK', calls' \in 0..MaxCalls, OthersKeep(t),
           Locked(t)', Knows(t)', NotShared(t, to, c), SameSending(t, to, c)
    PROVE  FindInv'
<1>1. pc'[t] = to /\ call'[t] = c /\ \A u \in Threads \ {t} : pc'[u] = pc[u] /\ call'[u] = call[u]
  BY DEF FindInv, Shapes
<1>2. Shapes'
  <2>1. pc' \in [Threads -> PCs] /\ call' \in [Threads -> CallSet]
    BY DEF FindInv, Shapes
  <2> QED
    BY <2>1 DEF FindInv, Shapes, LocksOK
<1>3. TableInv'
  BY DEF FindInv, TableInv
<1>4. ASSUME NEW u \in Threads \ {t} PROVE Locked(u)' /\ Knows(u)'
  <2>1. Locked(u) /\ Knows(u)
    BY <1>4 DEF FindInv, ThreadInv
  <2>2. pc'[u] = pc[u] /\ call'[u] = call[u]
    BY <1>1
  <2>3. Locked(u)'
    <3>1. pc[u] \in {"choose", "unspin"} => call[u].node \in DOMAIN node
      BY <2>1 DEF Knows
    <3> QED
      BY <2>1, <2>2, <3>1 DEF Locked, OthersKeep
  <2>4. Knows(u)'
    BY <2>1, <2>2 DEF Knows, Chain
  <2> QED
    BY <2>3, <2>4
<1>5. ThreadInv'
  BY <1>4 DEF ThreadInv, LocksOK
<1>6. BuiltInv'
  <2> SUFFICES ASSUME NEW x \in Threads, NEW u \in Threads,
                      pc'[x] \in {"etcd", "walk"}, pc'[u] \in {"unmutex", "spin", "choose", "unspin"}
               PROVE  call'[x].node # call'[u].node
    BY DEF BuiltInv
  <2>1. x # u
    OBVIOUS
  <2>2. CASE x = t
    BY <1>1, <2>1, <2>2 DEF NotShared
  <2>3. CASE u = t
    BY <1>1, <2>1, <2>3 DEF NotShared
  <2>4. CASE x # t /\ u # t
    BY <1>1, <2>4 DEF FindInv, BuiltInv
  <2> QED
    BY <2>2, <2>3, <2>4
<1>7. LoadInv'
  <2>1. ASSUME NEW e PROVE Sending(e)' = Sending(e)
    <3>1. \A u \in Threads : u \in Sending(e)' <=> u \in Sending(e)
      <4> SUFFICES ASSUME NEW u \in Threads PROVE u \in Sending(e)' <=> u \in Sending(e)
        OBVIOUS
      <4>1. CASE u = t
        BY <1>1, <4>1 DEF Sending, SameSending
      <4>2. CASE u # t
        BY <1>1, <4>2 DEF Sending
      <4> QED
        BY <4>1, <4>2
    <3> QED
      BY <3>1 DEF Sending
  <2> QED
    BY <2>1 DEF FindInv, LoadInv
<1> QED
  BY <1>2, <1>3, <1>5, <1>6, <1>7 DEF FindInv

\* What is known of a thread and its variables before each of its steps.
LEMMA Typed ==
    ASSUME FindInv, NEW t \in Threads
    PROVE  /\ pc[t] \in PCs /\ call[t] \in CallSet /\ Locked(t) /\ Knows(t)
           /\ LocksOK /\ calls \in 0..MaxCalls
           /\ \A x : pc' = [pc EXCEPT ![t] = x] => pc'[t] = x
           /\ \A x : call' = [call EXCEPT ![t] = x] => call'[t] = x
           /\ call = [call EXCEPT ![t] = call[t]]
  BY DEF FindInv, Shapes, ThreadInv, LocksOK

LEMMA SameLocks ==
    ASSUME FindInv, NEW t \in Threads, UNCHANGED <<node, find_mutex, writer, readers, spinlock>>
    PROVE  LocksOK' /\ OthersKeep(t)
<1>1. LocksOK
  BY Typed
<1> QED
  BY <1>1 DEF LocksOK, OthersKeep

LEMMA SameNode ==
    ASSUME FindInv, NEW t \in Threads, NEW to, NEW c,
           \/ to \notin {"etcd", "walk", "unmutex", "spin", "choose", "unspin"}
           \/ c.node = call[t].node /\ pc[t] \in {"etcd", "walk"} /\ to \in {"etcd", "walk"}
           \/ /\ c.node = call[t].node /\ pc[t] \in {"unmutex", "spin", "choose", "unspin"}
              /\ to \in {"unmutex", "spin", "choose", "unspin"}
    PROVE  NotShared(t, to, c)
  BY DEF FindInv, BuiltInv, NotShared

LEMMA HandlerStep == ASSUME FindInv, NEW t \in Threads, content_handler(t) PROVE FindInv'
<1>1. PICK f \in Forms :
        call' = [call EXCEPT ![t] = [NoCall EXCEPT !.name = NameIn[f], !.lookup = 1, !.meant = ServiceOf[f]]]
  BY DEF content_handler
<1>2. PICK c : c = [NoCall EXCEPT !.name = NameIn[f], !.lookup = 1, !.meant = ServiceOf[f]]
  OBVIOUS
<1>3. c \in CallSet /\ c.node = 0 /\ c.optimal = 0 /\ c.lookup = 1 /\ c.name \in Names
  <2>1. NameIn[f] \in Names /\ ServiceOf[f] \in {ServiceOf[g] : g \in Forms}
    BY DEF Names
  <2>2. c = [name |-> NameIn[f], meant |-> ServiceOf[f], lookup |-> 1, node |-> 0, nodes |-> <<>>,
             unseen |-> <<>>, seen |-> <<>>, optimal |-> 0]
    BY <1>2 DEF NoCall
  <2> QED
    BY <2>1, <2>2 DEF CallSet
<1>4. /\ pc[t] = "idle" /\ pc' = [pc EXCEPT ![t] = "rdlock"] /\ call' = [call EXCEPT ![t] = c]
      /\ UNCHANGED <<table, load, locks, wild>> /\ calls < MaxCalls /\ calls' = calls + 1
  BY <1>1, <1>2 DEF content_handler, Goto
<1>5. pc'[t] = "rdlock" /\ call'[t] = c
  BY <1>4, Typed
<1>6. calls' \in 0..MaxCalls
  BY <1>4, Typed, Consts
<1>7. Locked(t)' /\ Knows(t)'
  BY <1>3, <1>5 DEF Locked, Knows
<1>8. LocksOK' /\ OthersKeep(t)
  BY <1>4, SameLocks
<1>9. NotShared(t, "rdlock", c) /\ SameSending(t, "rdlock", c) /\ "rdlock" \in PCs
  BY <1>4, SameNode DEF SameSending, PCs
<1> QED
  BY <1>3, <1>4, <1>6, <1>7, <1>8, <1>9, LocalStep

LEMMA RdLockStep == ASSUME FindInv, NEW t \in Threads, RdLock(t) PROVE FindInv'
<1>1. /\ pc[t] = "rdlock" /\ pc' = [pc EXCEPT ![t] = "lookup"] /\ writer = NULL /\ readers' = readers \cup {t}
      /\ UNCHANGED <<table, load, find_mutex, writer, spinlock, call, calls, wild>>
  BY DEF RdLock, Goto
<1>2. call' = [call EXCEPT ![t] = call[t]]
  BY <1>1, Typed
<1>3. pc'[t] = "lookup" /\ call'[t] = call[t]
  BY <1>1, Typed
<1>4. Locked(t) /\ Knows(t) /\ call[t] \in CallSet
  BY Typed
<1>5. Locked(t)' /\ Knows(t)'
  BY <1>1, <1>3, <1>4 DEF Locked, Knows, Chain
<1>6. LocksOK' /\ OthersKeep(t) /\ calls' \in 0..MaxCalls
  BY <1>1, Typed DEF LocksOK, OthersKeep
<1>7. NotShared(t, "lookup", call[t]) /\ SameSending(t, "lookup", call[t]) /\ "lookup" \in PCs
  BY <1>1, SameNode DEF SameSending, PCs
<1> QED
  BY <1>1, <1>2, <1>4, <1>5, <1>6, <1>7, LocalStep

LEMMA ChainHead ==
    ASSUME FindInv, NEW b \in Buckets, service_tb[b] # <<>>
    PROVE  Head(service_tb[b]) \in ToSet(service_tb[b]) /\ Head(service_tb[b]) \in DOMAIN node
           /\ Head(service_tb[b]) \in Nat \ {0}
<1>1. service_tb[b] \in Seq(Nat)
  BY DEF FindInv, Shapes
<1>2. Head(service_tb[b]) \in ToSet(service_tb[b])
  BY <1>1 DEF ToSet
<1>3. Head(service_tb[b]) \in DOMAIN node
  BY <1>2 DEF FindInv, TableInv
<1> QED
  BY <1>2, <1>3 DEF FindInv, Shapes

LEMMA LookupStep == ASSUME FindInv, NEW t \in Threads, Lookup(t) PROVE FindInv'
<1>1. PICK found : found = IF Chain(t) = <<>> THEN 0 ELSE Head(Chain(t))
  OBVIOUS
<1>2. PICK to : to = CASE call[t].lookup = 1 -> (IF found = 0 THEN "mutex" ELSE "spin")
                      [] call[t].lookup = 2 -> (IF found = 0 THEN "wrlock" ELSE "unmutex")
                      [] call[t].lookup = 3 -> "unmutex"
  OBVIOUS
<1>3. /\ pc[t] = "lookup" /\ pc' = [pc EXCEPT ![t] = to] /\ readers' = readers \ {t}
      /\ call' = [call EXCEPT ![t].node = found]
      /\ UNCHANGED <<table, load, find_mutex, writer, spinlock, calls, wild>>
  BY <1>1, <1>2 DEF Lookup, Goto, Chain
<1>4. Locked(t) /\ Knows(t) /\ call[t] \in CallSet /\ pc[t] \in PCs
  BY Typed
<1>5. call[t].name \in Names /\ Bucket[call[t].name] \in Buckets
  BY <1>3, <1>4, BucketRange DEF Knows
<1>6. found \in Nat /\ (Chain(t) = <<>> => found = 0) /\ (Chain(t) # <<>> => found \in DOMAIN node /\ found # 0)
  BY <1>1, <1>5, ChainHead DEF Chain
<1>7. call[t].lookup \in {1, 2, 3} /\ (call[t].lookup = 3 => Chain(t) # <<>>)
  BY <1>3, <1>4 DEF Knows, CallSet
<1>8. to \in PCs /\ to \in {"mutex", "spin", "wrlock", "unmutex"}
      /\ (to \in {"wrlock", "unmutex"} => call[t].lookup # 1)
      /\ (to = "wrlock" => Chain(t) = <<>>) /\ (to \in {"spin", "unmutex"} => found # 0)
  BY <1>2, <1>6, <1>7 DEF PCs
<1>9. PICK c : c = [call[t] EXCEPT !.node = found]
  OBVIOUS
<1>10. c \in CallSet /\ c.node = found /\ c.name = call[t].name /\ c.optimal = call[t].optimal /\ c.lookup = call[t].lookup
  BY <1>4, <1>6, <1>9 DEF CallSet
<1>11. call' = [call EXCEPT ![t] = c]
  BY <1>3, <1>9
<1>12. pc'[t] = to /\ call'[t] = c
  BY <1>3, <1>11, Typed
<1>13. Locked(t)'
  BY <1>3, <1>4, <1>8, <1>12 DEF Locked
<1>14. Knows(t)'
  <2>1. Chain(t)' = Chain(t)
    BY <1>3, <1>10, <1>12 DEF Chain
  <2> QED
    BY <1>3, <1>4, <1>5, <1>6, <1>8, <1>10, <1>12, <2>1 DEF Knows
<1>15. t \in readers /\ writer = NULL
  BY <1>3, <1>4, Typed DEF Locked, LocksOK
<1>16. \A u \in Threads : pc[u] \notin {"etcd", "walk"}
  BY <1>15, Typed, Consts DEF Locked
<1>17. LocksOK' /\ OthersKeep(t) /\ calls' \in 0..MaxCalls
  BY <1>3, <1>15, Typed DEF LocksOK, OthersKeep
<1>18. NotShared(t, to, c) /\ SameSending(t, to, c)
  BY <1>3, <1>8, <1>16 DEF NotShared, SameSending
<1> QED
  BY <1>3, <1>8, <1>10, <1>11, <1>13, <1>14, <1>17, <1>18, LocalStep
-----------------------------------------------------------------------------
(* The discovery *)

LEMMA LockFindStep == ASSUME FindInv, NEW t \in Threads, LockFind(t) PROVE FindInv'
<1>1. /\ pc[t] = "mutex" /\ pc' = [pc EXCEPT ![t] = "rdlock"] /\ find_mutex = NULL /\ find_mutex' = t
      /\ call' = [call EXCEPT ![t].lookup = 2]
      /\ UNCHANGED <<service_tb, node, endpoint, request_num, outstanding, writer, readers, spinlock, calls, wild>>
  BY DEF LockFind, Goto
<1>2. Locked(t) /\ Knows(t) /\ call[t] \in CallSet
  BY Typed
<1>0. PICK l \in 0..3 : l = 2
  OBVIOUS
<1>3. PICK c : c = [call[t] EXCEPT !.lookup = l]
  OBVIOUS
<1>4. c \in CallSet /\ c.lookup = 2 /\ c.name = call[t].name /\ c.node = call[t].node /\ c.optimal = call[t].optimal
  BY <1>0, <1>2, <1>3 DEF CallSet
<1>5. call' = [call EXCEPT ![t] = c]
  BY <1>0, <1>1, <1>3
<1>6. pc'[t] = "rdlock" /\ call'[t] = c
  BY <1>1, <1>5, Typed
<1>7. Locked(t)' /\ Knows(t)'
  BY <1>1, <1>2, <1>4, <1>6 DEF Locked, Knows
<1>8. LocksOK' /\ OthersKeep(t) /\ calls' \in 0..MaxCalls
  BY <1>1, Typed, Consts DEF LocksOK, OthersKeep
<1>9. NotShared(t, "rdlock", c) /\ SameSending(t, "rdlock", c) /\ "rdlock" \in PCs
  BY <1>1, SameNode DEF SameSending, PCs
<1> QED
  BY <1>1, <1>4, <1>5, <1>7, <1>8, <1>9, LocalStep

LEMMA WrLockStep == ASSUME FindInv, NEW t \in Threads, WrLock(t) PROVE FindInv'
<1>1. /\ pc[t] = "wrlock" /\ pc' = [pc EXCEPT ![t] = "add"] /\ writer = NULL /\ readers = {} /\ writer' = t
      /\ UNCHANGED <<service_tb, node, endpoint, request_num, outstanding, find_mutex, readers, spinlock, call, calls, wild>>
  BY DEF WrLock, Goto
<1>2. Locked(t) /\ Knows(t) /\ call[t] \in CallSet /\ call' = [call EXCEPT ![t] = call[t]]
  BY <1>1, Typed
<1>3. pc'[t] = "add" /\ call'[t] = call[t]
  BY <1>1, Typed
<1>4. Locked(t)' /\ Knows(t)'
  BY <1>1, <1>2, <1>3 DEF Locked, Knows, Chain
<1>5. LocksOK' /\ OthersKeep(t) /\ calls' \in 0..MaxCalls
  BY <1>1, Typed, Consts DEF LocksOK, OthersKeep
<1>6. NotShared(t, "add", call[t]) /\ SameSending(t, "add", call[t]) /\ "add" \in PCs
  BY <1>1, SameNode DEF SameSending, PCs
<1> QED
  BY <1>1, <1>2, <1>4, <1>5, <1>6, LocalStep

LEMMA AnswerTyped ==
    ASSUME NEW s, NEW a, a \in {"nodes", "null_value"} => s \in DOMAIN Registry
    PROVE  Answer(s, a) \in Seq(Entries \cup {NULL})
<1>1. ASSUME s \in DOMAIN Registry PROVE Registry[s] \in Seq(Entries \cup {NULL})
  <2>1. ToSet(Registry[s]) \subseteq Entries \cup {NULL} /\ Registry[s] \in Seq(ToSet(Registry[s]))
    BY <1>1, RegistryAssumption DEF Entries
  <2> QED
    BY <2>1, SeqMonotonic
<1>2. CASE a = "nodes"
  BY <1>1, <1>2 DEF Answer
<1>3. CASE a = "null_value"
  <2>1. Registry[s] \in Seq(Entries \cup {NULL})
    BY <1>1, <1>3
  <2>2. [Registry[s] EXCEPT ![Len(Registry[s])] = NULL] \in Seq(Entries \cup {NULL})
    <3>1. CASE Registry[s] = <<>>
      <4>1. [Registry[s] EXCEPT ![Len(Registry[s])] = NULL] = <<>>
        BY <3>1
      <4> QED
        BY <4>1, EmptySeq
    <3>2. CASE Registry[s] # <<>>
      <4>1. Len(Registry[s]) \in 1..Len(Registry[s])
        BY <2>1, <3>2
      <4> QED
        BY <2>1, <4>1, ExceptSeq
    <3> QED
      BY <3>1, <3>2
  <2> QED
    BY <1>3, <2>2 DEF Answer
<1>4. CASE a \notin {"nodes", "null_value"}
  BY <1>4 DEF Answer
<1> QED
  BY <1>2, <1>3, <1>4

LEMMA EtcdStep == ASSUME FindInv, NEW t \in Threads, etcd_get(t) PROVE FindInv'
<1>1. PICK a \in EtcdAnswers :
          /\ a \in {"nodes", "null_value"} => call[t].name \in DOMAIN Registry
          /\ Goto(t, "etcd", IF a \in {"nodes", "null_value"} THEN "walk" ELSE "fail")
          /\ call' = [call EXCEPT ![t].nodes = Answer(call[t].name, a)]
  BY DEF etcd_get
<1>2. PICK to \in {"walk", "fail"} : to = IF a \in {"nodes", "null_value"} THEN "walk" ELSE "fail"
  OBVIOUS
<1>3. /\ pc[t] = "etcd" /\ pc' = [pc EXCEPT ![t] = to] /\ to \in PCs
      /\ UNCHANGED <<service_tb, node, endpoint, request_num, outstanding, find_mutex, writer, readers, spinlock, calls, wild>>
  BY <1>1, <1>2 DEF Goto, etcd_get, PCs
<1>4. Locked(t) /\ Knows(t) /\ call[t] \in CallSet /\ calls' \in 0..MaxCalls
  BY <1>3, Typed
<1>5. PICK s : s = Answer(call[t].name, a)
  OBVIOUS
<1>6. s \in Seq(Entries \cup {NULL})
  BY <1>1, <1>5, AnswerTyped
<1>7. PICK c : c = [call[t] EXCEPT !.nodes = s]
  OBVIOUS
<1>8. c \in CallSet /\ c.name = call[t].name /\ c.node = call[t].node /\ c.optimal = call[t].optimal
  BY <1>4, <1>6, <1>7 DEF CallSet
<1>9. call' = [call EXCEPT ![t] = c]
  BY <1>1, <1>5, <1>7
<1>10. pc'[t] = to /\ call'[t] = c
  BY <1>3, <1>9, Typed
<1>11. Locked(t)' /\ Knows(t)'
  BY <1>2, <1>3, <1>4, <1>8, <1>10 DEF Locked, Knows, Chain
<1>12. LocksOK' /\ OthersKeep(t)
  BY <1>3, SameLocks
<1>13. NotShared(t, to, c) /\ SameSending(t, to, c)
  BY <1>2, <1>3, <1>8, SameNode DEF SameSending
<1> QED
  BY <1>3, <1>4, <1>8, <1>9, <1>11, <1>12, <1>13, LocalStep

LEMMA ConnectFailsStep == ASSUME FindInv, NEW t \in Threads, ConnectFails(t) PROVE FindInv'
<1>1. /\ pc[t] = "walk" /\ pc' = pc /\ call[t].nodes # <<>> /\ call' = [call EXCEPT ![t].nodes = Tail(@)]
      /\ UNCHANGED <<service_tb, node, endpoint, request_num, outstanding, find_mutex, writer, readers, spinlock, calls, wild>>
  BY DEF ConnectFails
<1>2. Locked(t) /\ Knows(t) /\ call[t] \in CallSet /\ calls' \in 0..MaxCalls /\ pc' = [pc EXCEPT ![t] = "walk"]
  BY <1>1, Typed DEF FindInv, Shapes
<1>3. Tail(call[t].nodes) \in Seq(Entries \cup {NULL})
  <2>1. call[t].nodes \in Seq(Entries \cup {NULL})
    BY <1>2 DEF CallSet
  <2> QED
    BY <1>1, <2>1, HeadTailProperties
<1>4. PICK c : c = [call[t] EXCEPT !.nodes = Tail(call[t].nodes)]
  OBVIOUS
<1>5. c \in CallSet /\ c.name = call[t].name /\ c.node = call[t].node /\ c.optimal = call[t].optimal
  BY <1>2, <1>3, <1>4 DEF CallSet
<1>6. call' = [call EXCEPT ![t] = c]
  BY <1>1, <1>4
<1>7. pc'[t] = "walk" /\ call'[t] = c
  BY <1>1, <1>6, Typed
<1>8. Locked(t)' /\ Knows(t)'
  BY <1>1, <1>2, <1>5, <1>7 DEF Locked, Knows, Chain
<1>9. LocksOK' /\ OthersKeep(t)
  BY <1>1, SameLocks
<1>10. NotShared(t, "walk", c) /\ SameSending(t, "walk", c) /\ "walk" \in PCs
  BY <1>1, <1>5, SameNode DEF SameSending, PCs
<1> QED
  BY <1>1, <1>2, <1>5, <1>6, <1>8, <1>9, <1>10, LocalStep

LEMMA WalkEndsStep == ASSUME FindInv, NEW t \in Threads, WalkEnds(t) PROVE FindInv'
<1>1. PICK to \in {"unwrlock", "fail"} : to = IF call[t].nodes = <<>> THEN "unwrlock" ELSE "fail"
  OBVIOUS
<1>2. /\ pc[t] = "walk" /\ pc' = [pc EXCEPT ![t] = to] /\ to \in PCs
      /\ UNCHANGED <<service_tb, node, endpoint, request_num, outstanding, find_mutex, writer, readers, spinlock, call, calls, wild>>
  BY <1>1 DEF WalkEnds, Goto, PCs
<1>3. /\ Locked(t) /\ Knows(t) /\ call[t] \in CallSet /\ calls' \in 0..MaxCalls
      /\ call' = [call EXCEPT ![t] = call[t]]
  BY <1>2, Typed
<1>4. pc'[t] = to /\ call'[t] = call[t]
  BY <1>2, Typed
<1>5. Locked(t)' /\ Knows(t)'
  BY <1>1, <1>2, <1>3, <1>4 DEF Locked, Knows, Chain
<1>6. LocksOK' /\ OthersKeep(t)
  BY <1>2, SameLocks
<1>7. NotShared(t, to, call[t]) /\ SameSending(t, to, call[t])
  BY <1>1, <1>2, SameNode DEF SameSending
<1> QED
  BY <1>2, <1>3, <1>5, <1>6, <1>7, LocalStep

LEMMA FailUnlockFindStep == ASSUME FindInv, NEW t \in Threads, FailUnlockFind(t) PROVE FindInv'
<1>1. /\ pc[t] = "fail" /\ pc' = [pc EXCEPT ![t] = "failed"] /\ find_mutex' = NULL
      /\ UNCHANGED <<service_tb, node, endpoint, request_num, outstanding, writer, readers, spinlock, call, calls, wild>>
  BY DEF FailUnlockFind, Goto
<1>2. Locked(t) /\ Knows(t) /\ call[t] \in CallSet /\ call' = [call EXCEPT ![t] = call[t]]
  BY <1>1, Typed
<1>3. pc'[t] = "failed" /\ call'[t] = call[t] /\ find_mutex = t
  BY <1>1, <1>2, Typed DEF Locked
<1>4. Locked(t)' /\ Knows(t)'
  BY <1>1, <1>2, <1>3 DEF Locked, Knows, Chain
<1>5. LocksOK' /\ OthersKeep(t) /\ calls' \in 0..MaxCalls
  BY <1>1, <1>3, Typed DEF LocksOK, OthersKeep
<1>6. NotShared(t, "failed", call[t]) /\ SameSending(t, "failed", call[t]) /\ "failed" \in PCs
  BY <1>1, SameNode DEF SameSending, PCs
<1> QED
  BY <1>1, <1>2, <1>4, <1>5, <1>6, LocalStep

LEMMA FailUnlockTableStep == ASSUME FindInv, NEW t \in Threads, FailUnlockTable(t) PROVE FindInv'
<1>1. /\ pc[t] = "failed" /\ pc' = [pc EXCEPT ![t] = "idle"] /\ writer' = NULL
      /\ call' = [call EXCEPT ![t] = NoCall]
      /\ UNCHANGED <<service_tb, node, endpoint, request_num, outstanding, find_mutex, readers, spinlock, calls, wild>>
  BY DEF FailUnlockTable, Goto
<1>2. NoCall \in CallSet /\ NoCall.node = 0 /\ NoCall.optimal = 0
  BY DEF NoCall, CallSet
<1>3. pc'[t] = "idle" /\ call'[t] = NoCall /\ writer = t
  BY <1>1, Typed DEF Locked
<1>4. Locked(t)' /\ Knows(t)'
  BY <1>2, <1>3 DEF Locked, Knows
<1>5. LocksOK' /\ OthersKeep(t) /\ calls' \in 0..MaxCalls
  BY <1>1, <1>3, Typed DEF LocksOK, OthersKeep
<1>6. NotShared(t, "idle", NoCall) /\ SameSending(t, "idle", NoCall) /\ "idle" \in PCs
  BY <1>1, SameNode DEF SameSending, PCs
<1> QED
  BY <1>1, <1>2, <1>4, <1>5, <1>6, LocalStep

LEMMA UnlockTableStep == ASSUME FindInv, NEW t \in Threads, UnlockTable(t) PROVE FindInv'
<1>0. PICK l \in 0..3 : l = 3
  OBVIOUS
<1>1. /\ pc[t] = "unwrlock" /\ pc' = [pc EXCEPT ![t] = "rdlock"] /\ writer' = NULL
      /\ call' = [call EXCEPT ![t].lookup = l]
      /\ UNCHANGED <<service_tb, node, endpoint, request_num, outstanding, find_mutex, readers, spinlock, calls, wild>>
  BY <1>0 DEF UnlockTable, Goto
<1>2. Locked(t) /\ Knows(t) /\ call[t] \in CallSet
  BY Typed
<1>3. PICK c : c = [call[t] EXCEPT !.lookup = l]
  OBVIOUS
<1>4. c \in CallSet /\ c.lookup = 3 /\ c.name = call[t].name /\ c.node = call[t].node /\ c.optimal = call[t].optimal
  BY <1>0, <1>2, <1>3 DEF CallSet
<1>5. call' = [call EXCEPT ![t] = c]
  BY <1>1, <1>3
<1>6. pc'[t] = "rdlock" /\ call'[t] = c /\ writer = t
  BY <1>1, <1>2, <1>5, Typed DEF Locked
<1>7. Locked(t)' /\ Knows(t)'
  <2>1. Chain(t)' = Chain(t) /\ Chain(t) # <<>> /\ c.name \in Names /\ find_mutex' = t
    BY <1>1, <1>2, <1>4, <1>6 DEF Knows, Locked, Chain
  <2>2. c.node \in {0} \cup DOMAIN node /\ c.optimal \in {0} \cup DOMAIN endpoint
    BY <1>2, <1>4 DEF Knows
  <2>3. call'[t].lookup = 3 /\ call'[t].node = c.node /\ call'[t].optimal = c.optimal /\ call'[t].name = c.name
    BY <1>4, <1>6
  <2>4. Locked(t)'
    BY <1>6, <2>1 DEF Locked
  <2>5. Knows(t)'
    BY <1>1, <1>6, <2>1, <2>2, <2>3 DEF Knows
  <2> QED
    BY <2>4, <2>5
<1>8. LocksOK' /\ OthersKeep(t) /\ calls' \in 0..MaxCalls
  BY <1>1, <1>6, Typed DEF LocksOK, OthersKeep
<1>9. NotShared(t, "rdlock", c) /\ SameSending(t, "rdlock", c) /\ "rdlock" \in PCs
  BY <1>1, SameNode DEF SameSending, PCs
<1> QED
  BY <1>1, <1>4, <1>5, <1>7, <1>8, <1>9, LocalStep

LEMMA UnlockFindStep == ASSUME FindInv, NEW t \in Threads, UnlockFind(t) PROVE FindInv'
<1>1. /\ pc[t] = "unmutex" /\ pc' = [pc EXCEPT ![t] = "spin"] /\ find_mutex' = NULL
      /\ UNCHANGED <<service_tb, node, endpoint, request_num, outstanding, writer, readers, spinlock, call, calls, wild>>
  BY DEF UnlockFind, Goto
<1>2. Locked(t) /\ Knows(t) /\ call[t] \in CallSet /\ call' = [call EXCEPT ![t] = call[t]]
  BY <1>1, Typed
<1>3. pc'[t] = "spin" /\ call'[t] = call[t] /\ find_mutex = t
  BY <1>1, <1>2, Typed DEF Locked
<1>4. Locked(t)' /\ Knows(t)'
  BY <1>1, <1>2, <1>3 DEF Locked, Knows, Chain
<1>5. LocksOK' /\ OthersKeep(t) /\ calls' \in 0..MaxCalls
  BY <1>1, <1>3, Typed DEF LocksOK, OthersKeep
<1>6. NotShared(t, "spin", call[t]) /\ SameSending(t, "spin", call[t]) /\ "spin" \in PCs
  BY <1>1, SameNode DEF SameSending, PCs
<1> QED
  BY <1>1, <1>2, <1>4, <1>5, <1>6, LocalStep
-----------------------------------------------------------------------------
(* The choice *)

LEMMA SpinLockStep == ASSUME FindInv, NEW t \in Threads, SpinLock(t) PROVE FindInv'
<1>0. Locked(t) /\ Knows(t) /\ call[t] \in CallSet /\ call[t].node \in Nat
  BY Typed DEF CallSet
<1>1. PICK n \in Nat, z \in Nat : n = call[t].node /\ z = 0
  BY <1>0
<1>2. /\ pc[t] = "spin" /\ pc' = [pc EXCEPT ![t] = "choose"] /\ spinlock[n] = NULL
      /\ spinlock' = [spinlock EXCEPT ![n] = t]
      /\ call' = [call EXCEPT ![t].unseen = node[n].list, ![t].optimal = z]
      /\ UNCHANGED <<service_tb, node, endpoint, request_num, outstanding, find_mutex, writer, readers, calls, wild>>
  BY <1>1 DEF SpinLock, Goto
<1>3. n \in DOMAIN node /\ node[n].list \in Seq(Nat) /\ LocksOK /\ DOMAIN node = 1..Len(node)
  <2>1. n \in DOMAIN node
    BY <1>0, <1>1, <1>2 DEF Knows
  <2>2. node \in Seq(Nodes) /\ DOMAIN node = 1..Len(node)
    BY DEF FindInv, Shapes
  <2>3. node[n] \in Nodes
    BY <2>1, <2>2
  <2>4. LocksOK
    BY Typed
  <2> QED
    BY <2>1, <2>2, <2>3, <2>4 DEF Nodes
<1>4. PICK c : c = [call[t] EXCEPT !.unseen = node[n].list, !.optimal = z]
  OBVIOUS
<1>5. c \in CallSet /\ c.name = call[t].name /\ c.node = n /\ c.optimal = 0 /\ c.unseen = node[n].list
  BY <1>0, <1>1, <1>3, <1>4 DEF CallSet
<1>6. call' = [call EXCEPT ![t] = c]
  BY <1>2, <1>4
<1>7. pc'[t] = "choose" /\ call'[t] = c
  BY <1>2, <1>6, Typed
<1>8. spinlock'[n] = t /\ LocksOK' /\ OthersKeep(t) /\ calls' \in 0..MaxCalls
  <2>1. spinlock' \in Seq(Threads \cup {NULL}) /\ Len(spinlock') = Len(node)
    <3>1. n \in 1..Len(spinlock) /\ spinlock \in Seq(Threads \cup {NULL}) /\ Len(spinlock) = Len(node)
      BY <1>3 DEF LocksOK
    <3>2. t \in Threads \cup {NULL}
      OBVIOUS
    <3> QED
      BY <1>2, <3>1, <3>2, ExceptSeq
  <2>2. spinlock'[n] = t /\ \A m \in DOMAIN node : m # n => spinlock'[m] = spinlock[m]
    BY <1>2, <1>3 DEF LocksOK
  <2> QED
    BY <1>2, <1>3, <2>1, <2>2, Typed, Consts DEF LocksOK, OthersKeep
<1>9. Locked(t)' /\ Knows(t)'
  <2>1. c.name \in Names /\ n # 0
    BY <1>0, <1>1, <1>2, <1>5 DEF Knows
  <2> QED
    BY <1>2, <1>3, <1>5, <1>7, <1>8, <2>1 DEF Locked, Knows
<1>10. NotShared(t, "choose", c) /\ SameSending(t, "choose", c) /\ "choose" \in PCs
  BY <1>1, <1>2, <1>5, SameNode DEF SameSending, PCs
<1> QED
  BY <1>2, <1>5, <1>6, <1>8, <1>9, <1>10, LocalStep

LEMMA ConsiderStep == ASSUME FindInv, NEW t \in Threads, Consider(t) PROVE FindInv'
<1>1. /\ pc[t] = "choose" /\ pc' = pc /\ call[t].unseen # <<>>
      /\ UNCHANGED <<service_tb, node, endpoint, request_num, outstanding, find_mutex, writer, readers, spinlock, calls, wild>>
  BY DEF Consider
<1>2. /\ Locked(t) /\ Knows(t) /\ call[t] \in CallSet /\ calls' \in 0..MaxCalls
      /\ pc' = [pc EXCEPT ![t] = "choose"]
  BY <1>1, Typed DEF FindInv, Shapes
<1>3. PICK e : e = Head(call[t].unseen)
  OBVIOUS
<1>4. /\ call[t].unseen \in Seq(Nat) /\ e \in ToSet(call[t].unseen) /\ e \in Nat
      /\ Tail(call[t].unseen) \in Seq(Nat) /\ ToSet(Tail(call[t].unseen)) \subseteq ToSet(call[t].unseen)
  <2>1. PICK q \in Seq(Nat) : q = call[t].unseen
    BY <1>2 DEF CallSet
  <2>2. /\ Head(q) \in Nat /\ Tail(q) \in Seq(Nat) /\ Len(Tail(q)) = Len(q) - 1 /\ Head(q) = q[1]
        /\ \A i \in 1..Len(Tail(q)) : Tail(q)[i] = q[i + 1]
    BY <1>1, <2>1, HeadTailProperties
  <2>3. Len(q) \in Nat \ {0} /\ DOMAIN q = 1..Len(q) /\ DOMAIN Tail(q) = 1..Len(Tail(q))
    BY <1>1, <2>1, <2>2
  <2>4. Head(q) \in ToSet(q)
    BY <2>2, <2>3 DEF ToSet
  <2>5. \A i \in DOMAIN Tail(q) : Tail(q)[i] \in ToSet(q)
    BY <2>2, <2>3 DEF ToSet
  <2> QED
    BY <1>3, <2>1, <2>2, <2>4, <2>5 DEF ToSet
<1>5. e \in ToSet(node[call[t].node].list) /\ call[t].node \in DOMAIN node /\ call[t].node # 0
  BY <1>1, <1>2, <1>4 DEF Knows
<1>6. e \in DOMAIN endpoint
  BY <1>5 DEF FindInv, TableInv
<1>7. PICK w : w = [x \in DOMAIN endpoint |-> IF x = e THEN request_num[e]
                                              ELSE IF x \in DOMAIN call[t].seen THEN call[t].seen[x] ELSE -1]
  OBVIOUS
<1>8. w \in Seq(Int)
  <2>1. call[t].seen \in Seq(Int) /\ request_num \in Seq(Int) /\ Len(endpoint) \in Nat
        /\ DOMAIN endpoint = 1..Len(endpoint) /\ DOMAIN request_num = DOMAIN endpoint
    BY <1>2 DEF CallSet, FindInv, Shapes
  <2>2. request_num[e] \in Int /\ \A x \in DOMAIN call[t].seen : call[t].seen[x] \in Int
    BY <1>6, <2>1
  <2>3. \A x \in DOMAIN endpoint :
           (IF x = e THEN request_num[e]
            ELSE IF x \in DOMAIN call[t].seen THEN call[t].seen[x] ELSE -1) \in Int
    BY <2>2
  <2>4. w \in [1..Len(endpoint) -> Int]
    <3>1. w \in [DOMAIN endpoint -> Int]
      BY <1>7, <2>3, Zenon
    <3>2. DOMAIN endpoint = 1..Len(endpoint)
      BY <2>1
    <3> QED
      BY <3>1, <3>2, Zenon
  <2>5. PICK n \in Nat : n = Len(endpoint)
    BY <2>1
  <2>6. w \in [1..n -> Int]
    BY <2>4, <2>5
  <2> QED
    BY <2>6
<1>9. PICK o : o = IF Better(t, e) THEN e ELSE call[t].optimal
  OBVIOUS
<1>10. /\ o \in Nat /\ o \in {0} \cup DOMAIN endpoint
       /\ o # 0 => o \in ToSet(node[call[t].node].list) /\ request_num[o] < Limit
  <2>1. CASE Better(t, e)
    BY <1>4, <1>5, <1>6, <1>9, <2>1 DEF Better
  <2>2. CASE ~Better(t, e)
    BY <1>1, <1>2, <1>9, <2>2 DEF Knows, CallSet
  <2> QED
    BY <2>1, <2>2
<1>11. PICK c : c = [call[t] EXCEPT !.unseen = Tail(call[t].unseen), !.seen = w, !.optimal = o]
  OBVIOUS
<1>12. /\ c \in CallSet /\ c.name = call[t].name /\ c.node = call[t].node /\ c.optimal = o
       /\ c.unseen = Tail(call[t].unseen)
  BY <1>2, <1>4, <1>8, <1>10, <1>11 DEF CallSet
<1>13. call' = [call EXCEPT ![t] = c]
  BY <1>3, <1>7, <1>9, <1>11 DEF Consider
<1>14. pc'[t] = "choose" /\ call'[t] = c
  BY <1>1, <1>13, Typed
<1>15. Locked(t)' /\ Knows(t)'
  <2>1. Locked(t)'
    BY <1>1, <1>2, <1>12, <1>14 DEF Locked
  <2>2. c.name \in Names /\ ToSet(c.unseen) \subseteq ToSet(node[c.node].list)
    BY <1>1, <1>2, <1>4, <1>12 DEF Knows
  <2>3. Knows(t)'
    BY <1>1, <1>5, <1>10, <1>12, <1>14, <2>2 DEF Knows
  <2> QED
    BY <2>1, <2>3
<1>16. LocksOK' /\ OthersKeep(t)
  BY <1>1, SameLocks
<1>17. NotShared(t, "choose", c) /\ SameSending(t, "choose", c) /\ "choose" \in PCs
  BY <1>1, <1>12, SameNode DEF SameSending, PCs
<1> QED
  BY <1>1, <1>2, <1>12, <1>13, <1>15, <1>16, <1>17, LocalStep

LEMMA SpinUnlockStep == ASSUME FindInv, NEW t \in Threads, SpinUnlock(t) PROVE FindInv'
<1>1. /\ pc[t] = "unspin" /\ pc' = [pc EXCEPT ![t] = "request"]
      /\ spinlock' = [spinlock EXCEPT ![call[t].node] = NULL]
      /\ UNCHANGED <<service_tb, node, endpoint, request_num, outstanding, find_mutex, writer, readers, call, calls, wild>>
  BY DEF SpinUnlock, Goto
<1>2. Locked(t) /\ Knows(t) /\ call[t] \in CallSet /\ call' = [call EXCEPT ![t] = call[t]] /\ LocksOK
  BY <1>1, Typed
<1>3. pc'[t] = "request" /\ call'[t] = call[t] /\ spinlock[call[t].node] = t /\ call[t].node \in DOMAIN node
  BY <1>1, <1>2, Typed DEF Locked, Knows
<1>4. Locked(t)' /\ Knows(t)'
  BY <1>1, <1>2, <1>3 DEF Locked, Knows
<1>5. LocksOK' /\ OthersKeep(t) /\ calls' \in 0..MaxCalls
  <2>1. spinlock' \in Seq(Threads \cup {NULL}) /\ Len(spinlock') = Len(node)
    BY <1>1, <1>2, <1>3 DEF LocksOK
  <2>2. \A m \in DOMAIN node : m # call[t].node => spinlock'[m] = spinlock[m]
    BY <1>1, <1>2, <1>3 DEF LocksOK, FindInv, Shapes
  <2> QED
    BY <1>1, <1>2, <1>3, <2>1, <2>2, Typed DEF LocksOK, OthersKeep
<1>6. NotShared(t, "request", call[t]) /\ SameSending(t, "request", call[t]) /\ "request" \in PCs
  BY <1>1, SameNode DEF SameSending, PCs
<1> QED
  BY <1>1, <1>2, <1>4, <1>5, <1>6, LocalStep
-----------------------------------------------------------------------------
(* Steps that change the load *)

LEMMA SendingFinite == \A e : IsFiniteSet(Sending(e)) /\ Cardinality(Sending(e)) \in Nat
<1> SUFFICES ASSUME NEW e PROVE IsFiniteSet(Sending(e)) /\ Cardinality(Sending(e)) \in Nat
  OBVIOUS
<1>1. Sending(e) \in SUBSET Threads
  BY DEF Sending
<1> QED
  BY <1>1, Consts, FS_Subset, FS_CardinalityType

\* Nobody else is about to choose what a thread has chosen.
LEMMA OneChooser ==
    ASSUME FindInv, NEW t \in Threads, NEW u \in Threads, pc[t] = "choose", pc[u] = "choose",
           call[t].optimal # 0, call[t].optimal = call[u].optimal
    PROVE  t = u
<1>1. Locked(t) /\ Knows(t) /\ Locked(u) /\ Knows(u)
  BY Typed
<1>2. /\ call[t].node \in DOMAIN node /\ call[u].node \in DOMAIN node
      /\ call[t].optimal \in ToSet(node[call[t].node].list) /\ call[t].optimal \in ToSet(node[call[u].node].list)
  BY <1>1 DEF Knows
<1>3. call[t].node = call[u].node
  BY <1>2 DEF FindInv, TableInv
<1> QED
  BY <1>1, <1>3 DEF Locked

LEMMA TakeStep == ASSUME FindInv, NEW t \in Threads, Take(t) PROVE FindInv'
<1>0. PICK w \in Seq(Int) : w = <<>>
  BY EmptySeq
<1>1. /\ pc[t] = "choose" /\ pc' = [pc EXCEPT ![t] = "unspin"] /\ call' = [call EXCEPT ![t].seen = w] /\ ~wild
      /\ UNCHANGED <<service_tb, node, endpoint, outstanding, find_mutex, writer, readers, spinlock, calls>>
  BY <1>0 DEF Take, Goto
<1>2. Locked(t) /\ Knows(t) /\ call[t] \in CallSet
  BY Typed
<1>3. PICK c : c = [call[t] EXCEPT !.seen = w]
  OBVIOUS
<1>4. c \in CallSet /\ c.name = call[t].name /\ c.node = call[t].node /\ c.optimal = call[t].optimal
  BY <1>2, <1>3 DEF CallSet
<1>5. call' = [call EXCEPT ![t] = c]
  BY <1>1, <1>3
<1>6. /\ pc'[t] = "unspin" /\ call'[t] = c
      /\ \A u \in Threads \ {t} : pc'[u] = pc[u] /\ call'[u] = call[u]
      /\ pc' \in [Threads -> PCs] /\ call' \in [Threads -> CallSet]
  BY <1>1, <1>4, <1>5 DEF FindInv, Shapes, PCs
<1>7. PICK o \in Nat : o = call[t].optimal
  BY <1>2 DEF CallSet
<1>8. \/ o = 0 /\ wild' = TRUE /\ request_num' = request_num
      \/ o # 0 /\ wild' = FALSE /\ request_num' = [request_num EXCEPT ![o] = @ + 1]
  BY <1>1, <1>7 DEF Take, FindInv, Shapes
<1>9. o \in {0} \cup DOMAIN endpoint /\ (o # 0 => request_num[o] < Limit)
  BY <1>1, <1>2, <1>7 DEF Knows
<1>10. /\ request_num' \in Seq(Int) /\ Len(request_num') = Len(endpoint) /\ request_num \in Seq(Int)
       /\ DOMAIN endpoint = DOMAIN request_num
       /\ \A e \in DOMAIN endpoint : e # o => request_num'[e] = request_num[e]
       /\ o # 0 => request_num'[o] = request_num[o] + 1 /\ request_num[o] \in Int
  <2>1. /\ request_num \in Seq(Int) /\ Len(request_num) = Len(endpoint)
        /\ DOMAIN endpoint = 1..Len(endpoint) /\ DOMAIN request_num = 1..Len(endpoint)
    BY DEF FindInv, Shapes
  <2>2. CASE o = 0
    BY <1>8, <2>1, <2>2
  <2>3. CASE o # 0
    <3>1. o \in 1..Len(request_num) /\ o \in DOMAIN request_num
      BY <1>9, <2>1, <2>3
    <3>2. request_num[o] \in Int /\ request_num[o] + 1 \in Int
      BY <2>1, <3>1
    <3>3. request_num' = [request_num EXCEPT ![o] = request_num[o] + 1]
      BY <1>8, <2>3
    <3>4. request_num' \in Seq(Int) /\ Len(request_num') = Len(request_num)
      BY <2>1, <3>1, <3>2, <3>3, ExceptSeq
    <3>5. /\ request_num'[o] = request_num[o] + 1
          /\ \A e \in DOMAIN request_num : e # o => request_num'[e] = request_num[e]
      BY <2>1, <3>1, <3>3
    <3> QED
      BY <2>1, <3>2, <3>4, <3>5
  <2> QED
    BY <2>2, <2>3
<1>11. Shapes'
  <2>1. wild' \in BOOLEAN
    BY <1>8
  <2> QED
    BY <1>1, <1>6, <1>10, <2>1 DEF FindInv, Shapes
<1>12. TableInv'
  BY <1>1 DEF FindInv, TableInv
<1>13. ASSUME NEW u \in Threads PROVE Locked(u)' /\ Knows(u)'
  <2>1. Locked(u) /\ Knows(u)
    BY Typed
  <2>2. CASE u = t
    <3>1. Locked(t)'
      BY <1>1, <1>2, <1>4, <1>6 DEF Locked
    <3>2. Knows(t)'
      BY <1>1, <1>2, <1>4, <1>6, <1>7, <1>8 DEF Knows
    <3> QED
      BY <2>2, <3>1, <3>2
  <2>3. CASE u # t
    <3>1. pc'[u] = pc[u] /\ call'[u] = call[u]
      BY <1>6, <2>3
    <3>2. Locked(u)'
      BY <1>1, <2>1, <3>1 DEF Locked
    <3>3. pc[u] = "choose" /\ call[u].optimal # 0 => request_num'[call[u].optimal] = request_num[call[u].optimal]
      <4> SUFFICES ASSUME pc[u] = "choose", call[u].optimal # 0
                   PROVE  request_num'[call[u].optimal] = request_num[call[u].optimal]
        OBVIOUS
      <4>1. call[u].optimal # o
        BY <1>1, <1>7, <2>3, OneChooser
      <4>2. call[u].optimal \in DOMAIN endpoint
        BY <2>1 DEF Knows
      <4> QED
        BY <1>10, <4>1, <4>2
    <3>4. Chain(u)' = Chain(u) /\ (~wild' => ~wild)
      BY <1>1, <3>1 DEF Chain
    <3>5. Knows(u)'
      BY <1>1, <2>1, <3>1, <3>3, <3>4 DEF Knows
    <3> QED
      BY <3>2, <3>5
  <2> QED
    BY <2>2, <2>3
<1>14. ThreadInv'
  BY <1>1, <1>13 DEF ThreadInv, FindInv
<1>15. BuiltInv'
  <2> SUFFICES ASSUME NEW x \in Threads, NEW u \in Threads,
                      pc'[x] \in {"etcd", "walk"}, pc'[u] \in {"unmutex", "spin", "choose", "unspin"}
               PROVE  call'[x].node # call'[u].node
    BY DEF BuiltInv
  <2>1. x # t /\ pc[x] \in {"etcd", "walk"} /\ pc[u] \in {"unmutex", "spin", "choose", "unspin"}
    BY <1>1, <1>6
  <2>2. call'[x].node = call[x].node /\ call'[u].node = call[u].node
    BY <1>4, <1>6, <2>1
  <2> QED
    BY <2>1, <2>2 DEF FindInv, BuiltInv
<1>16. LoadInv'
  <2> SUFFICES ASSUME NEW e \in DOMAIN endpoint
               PROVE  /\ request_num'[e] <= Limit
                      /\ outstanding[e] + Cardinality(Sending(e)') <= request_num'[e]
    BY <1>1 DEF LoadInv
  <2>1. request_num[e] <= Limit /\ outstanding[e] + Cardinality(Sending(e)) <= request_num[e]
    BY DEF FindInv, LoadInv
  <2>2. Cardinality(Sending(e)) \in Nat /\ IsFiniteSet(Sending(e)) /\ outstanding[e] \in Nat /\ request_num[e] \in Int
    BY SendingFinite DEF FindInv, Shapes
  <2>3. CASE e = o
    <3>1. Sending(e)' = Sending(e) \cup {t} /\ t \notin Sending(e)
      BY <1>1, <1>4, <1>6, <1>7, <2>3 DEF Sending
    <3>2. Cardinality(Sending(e)') = Cardinality(Sending(e)) + 1
      BY <2>2, <3>1, FS_AddElement
    <3>3. e # 0
      BY DEF FindInv, Shapes
    <3>4. request_num'[e] = request_num[e] + 1 /\ request_num[e] < Limit
      BY <1>9, <1>10, <2>3, <3>3
    <3> QED
      BY <2>1, <2>2, <3>2, <3>4, Consts
  <2>4. CASE e # o
    <3>1. Sending(e)' = Sending(e)
      BY <1>1, <1>4, <1>6, <1>7, <2>4 DEF Sending
    <3> QED
      BY <1>10, <2>1, <2>4, <3>1
  <2> QED
    BY <2>3, <2>4
<1> QED
  BY <1>11, <1>12, <1>14, <1>15, <1>16 DEF FindInv

\* A request is sent, or is not and stays counted.
LEMMA RequestStep == ASSUME FindInv, NEW t \in Threads, Request(t) PROVE FindInv'
<1>0. PICK c \in CallSet : c = NoCall
  <2>1. NoCall \in CallSet
    BY DEF NoCall, CallSet
  <2> QED
    BY <2>1
<1>1. /\ pc[t] = "request" /\ pc' = [pc EXCEPT ![t] = "idle"] /\ call' = [call EXCEPT ![t] = c] /\ ~wild
      /\ UNCHANGED <<service_tb, node, endpoint, request_num, find_mutex, writer, readers, spinlock, calls, wild>>
  BY <1>0 DEF Request, Goto
<1>2. c.node = 0 /\ c.optimal = 0
  BY <1>0 DEF NoCall
<1>3. Locked(t) /\ Knows(t) /\ call[t] \in CallSet
  BY Typed
<1>4. /\ pc'[t] = "idle" /\ call'[t] = c
      /\ \A u \in Threads \ {t} : pc'[u] = pc[u] /\ call'[u] = call[u]
      /\ pc' \in [Threads -> PCs] /\ call' \in [Threads -> CallSet]
  BY <1>1 DEF FindInv, Shapes, PCs
<1>5. PICK o \in Nat : o = call[t].optimal
  BY <1>3 DEF CallSet
<1>6. o \in DOMAIN endpoint
  BY <1>1, <1>3, <1>5 DEF Knows
<1>7. /\ outstanding \in Seq(Nat) /\ Len(outstanding) = Len(endpoint)
      /\ DOMAIN outstanding = 1..Len(outstanding) /\ DOMAIN endpoint = 1..Len(endpoint)
  BY DEF FindInv, Shapes
<1>8. o \in 1..Len(outstanding) /\ outstanding[o] \in Nat /\ outstanding[o] + 1 \in Nat
  BY <1>6, <1>7
<1>9. outstanding' = outstanding \/ outstanding' = [outstanding EXCEPT ![o] = outstanding[o] + 1]
  BY <1>5 DEF Request
<1>10. /\ outstanding' \in Seq(Nat) /\ Len(outstanding') = Len(endpoint)
       /\ \A e \in DOMAIN endpoint : e # o => outstanding'[e] = outstanding[e]
       /\ outstanding'[o] <= outstanding[o] + 1
  <2>1. CASE outstanding' = outstanding
    BY <1>7, <1>8, <2>1
  <2>2. CASE outstanding' = [outstanding EXCEPT ![o] = outstanding[o] + 1]
    <3>1. outstanding' \in Seq(Nat) /\ Len(outstanding') = Len(outstanding)
      BY <1>7, <1>8, <2>2, ExceptSeq
    <3>2. outstanding'[o] = outstanding[o] + 1 /\ \A e \in DOMAIN endpoint : e # o => outstanding'[e] = outstanding[e]
      BY <1>7, <1>8, <2>2
    <3> QED
      BY <1>7, <1>8, <3>1, <3>2
  <2> QED
    BY <1>9, <2>1, <2>2
<1>11. Shapes'
  BY <1>1, <1>4, <1>10 DEF FindInv, Shapes
<1>12. TableInv'
  BY <1>1 DEF FindInv, TableInv
<1>13. ASSUME NEW u \in Threads PROVE Locked(u)' /\ Knows(u)'
  <2>1. Locked(u) /\ Knows(u)
    BY Typed
  <2>2. CASE u = t
    BY <1>2, <1>4, <2>2 DEF Locked, Knows
  <2>3. CASE u # t
    BY <1>1, <1>4, <2>1, <2>3 DEF Locked, Knows, Chain
  <2> QED
    BY <2>2, <2>3
<1>14. ThreadInv'
  BY <1>1, <1>13 DEF ThreadInv, FindInv
<1>15. BuiltInv'
  BY <1>4 DEF FindInv, BuiltInv
<1>16. LoadInv'
  <2> SUFFICES ASSUME NEW e \in DOMAIN endpoint
               PROVE  /\ request_num[e] <= Limit
                      /\ outstanding'[e] + Cardinality(Sending(e)') <= request_num[e]
    BY <1>1 DEF LoadInv
  <2>1. request_num[e] <= Limit /\ outstanding[e] + Cardinality(Sending(e)) <= request_num[e]
    BY DEF FindInv, LoadInv
  <2>2. Cardinality(Sending(e)) \in Nat /\ IsFiniteSet(Sending(e)) /\ outstanding[e] \in Nat /\ request_num[e] \in Int
    BY SendingFinite DEF FindInv, Shapes
  <2>3. CASE e = o
    <3>1. Sending(e)' = Sending(e) \ {t} /\ t \in Sending(e)
      BY <1>1, <1>4, <1>5, <2>3 DEF Sending
    <3>2. Cardinality(Sending(e)') = Cardinality(Sending(e)) - 1
      BY <2>2, <3>1, FS_RemoveElement
    <3>3. outstanding'[e] \in Nat /\ outstanding'[e] <= outstanding[e] + 1
      BY <1>7, <1>10, <2>3
    <3> QED
      BY <2>1, <2>2, <3>2, <3>3
  <2>4. CASE e # o
    <3>1. Sending(e)' = Sending(e)
      BY <1>1, <1>4, <1>5, <2>4 DEF Sending
    <3> QED
      BY <1>10, <2>1, <2>4, <3>1
  <2> QED
    BY <2>3, <2>4
<1> QED
  BY <1>11, <1>12, <1>14, <1>15, <1>16 DEF FindInv

LEMMA ResponseStep == ASSUME FindInv, NEW r \in DOMAIN endpoint, Response(r) PROVE FindInv'
<1>1. /\ outstanding' = [outstanding EXCEPT ![r] = outstanding[r] - 1]
      /\ request_num' = [request_num EXCEPT ![r] = request_num[r] - 1] /\ outstanding[r] > 0
      /\ UNCHANGED <<service_tb, node, endpoint, find_mutex, writer, readers, spinlock, pc, call, calls, wild>>
  BY DEF Response
<1>2. /\ outstanding \in Seq(Nat) /\ Len(outstanding) = Len(endpoint)
      /\ request_num \in Seq(Int) /\ Len(request_num) = Len(endpoint)
      /\ DOMAIN outstanding = 1..Len(outstanding) /\ DOMAIN endpoint = 1..Len(endpoint)
      /\ DOMAIN request_num = 1..Len(request_num)
  BY DEF FindInv, Shapes
<1>3. /\ r \in 1..Len(outstanding) /\ outstanding[r] \in Nat /\ outstanding[r] - 1 \in Nat
      /\ r \in 1..Len(request_num) /\ request_num[r] \in Int /\ request_num[r] - 1 \in Int
  BY <1>1, <1>2
<1>4. /\ outstanding' \in Seq(Nat) /\ Len(outstanding') = Len(endpoint)
      /\ request_num' \in Seq(Int) /\ Len(request_num') = Len(endpoint)
  BY <1>1, <1>2, <1>3, ExceptSeq
<1>5. /\ \A e \in DOMAIN endpoint : e # r => outstanding'[e] = outstanding[e] /\ request_num'[e] = request_num[e]
      /\ outstanding'[r] = outstanding[r] - 1 /\ request_num'[r] = request_num[r] - 1
  BY <1>1, <1>2, <1>3
<1>6. Shapes'
  BY <1>1, <1>4 DEF FindInv, Shapes
<1>7. TableInv' /\ BuiltInv'
  BY <1>1 DEF FindInv, TableInv, BuiltInv
<1>8. \A e \in DOMAIN endpoint : request_num[e] < Limit => request_num'[e] < Limit
  <2> SUFFICES ASSUME NEW e \in DOMAIN endpoint, request_num[e] < Limit PROVE request_num'[e] < Limit
    OBVIOUS
  <2>1. CASE e = r
    BY <1>3, <1>5, <2>1, Consts
  <2>2. CASE e # r
    BY <1>5, <2>2
  <2> QED
    BY <2>1, <2>2
<1>9. ASSUME NEW u \in Threads PROVE Locked(u)' /\ Knows(u)'
  <2>1. Locked(u) /\ Knows(u)
    BY Typed
  <2>2. Locked(u)'
    BY <1>1, <2>1 DEF Locked
  <2>3. Chain(u)' = Chain(u) /\ call[u].optimal \in {0} \cup DOMAIN endpoint
    BY <1>1, <2>1 DEF Chain, Knows
  <2>4. Knows(u)'
    BY <1>1, <1>8, <2>1, <2>3 DEF Knows
  <2> QED
    BY <2>2, <2>4
<1>10. ThreadInv'
  BY <1>1, <1>9 DEF ThreadInv, FindInv
<1>11. LoadInv'
  <2> SUFFICES ASSUME NEW e \in DOMAIN endpoint
               PROVE  /\ request_num'[e] <= Limit
                      /\ outstanding'[e] + Cardinality(Sending(e)') <= request_num'[e]
    BY <1>1 DEF LoadInv
  <2>1. request_num[e] <= Limit /\ outstanding[e] + Cardinality(Sending(e)) <= request_num[e]
    BY DEF FindInv, LoadInv
  <2>2. Cardinality(Sending(e)) \in Nat
    BY SendingFinite
  <2>3. Sending(e)' = Sending(e)
    BY <1>1 DEF Sending
  <2>4. CASE e = r
    BY <1>3, <1>5, <2>1, <2>2, <2>3, <2>4, Consts
  <2>5. CASE e # r
    BY <1>5, <2>1, <2>3, <2>5
  <2> QED
    BY <2>4, <2>5
<1> QED
  BY <1>6, <1>7, <1>10, <1>11 DEF FindInv
-----------------------------------------------------------------------------
(* Steps that change the table *)

\* The bucket was seen empty under find_mutex: the service is not there yet.
LEMMA AddEffect ==
    ASSUME FindInv, NEW t \in Threads, sd_add_and_init_service(t)
    PROVE  /\ pc[t] = "add" /\ pc' = [pc EXCEPT ![t] = "etcd"]
           /\ call[t].name \in Names /\ Bucket[call[t].name] \in Buckets /\ Chain(t) = <<>>
           /\ call' = [call EXCEPT ![t].node = Len(node) + 1]
           /\ node' = Append(node, [name |-> call[t].name, list |-> <<>>])
           /\ service_tb' = [service_tb EXCEPT ![Bucket[call[t].name]] = <<Len(node) + 1>>]
           /\ spinlock' = Append(spinlock, NULL)
           /\ UNCHANGED <<endpoint, request_num, outstanding, find_mutex, writer, readers, calls, wild>>
<1>1. pc[t] = "add" /\ pc' = [pc EXCEPT ![t] = "etcd"]
      /\ UNCHANGED <<endpoint, request_num, outstanding, find_mutex, writer, readers, calls>>
  BY DEF sd_add_and_init_service, Goto
<1>2. Knows(t)
  BY Typed
<1>3. call[t].name \in Names /\ Chain(t) = <<>>
  BY <1>1, <1>2 DEF Knows
<1>4. Bucket[call[t].name] \in Buckets
  BY <1>3, BucketRange
<1> DEFINE q == service_tb[Bucket[call[t].name]]
           I == {i \in 1..Len(q) : node[q[i]].name = call[t].name}
<1>5. q = <<>> /\ I = {}
  BY <1>3 DEF Chain
<1>6. (IF I # {} THEN Min(I) ELSE 0) = 0
  BY <1>5
<1>7. /\ call' = [call EXCEPT ![t].node = Len(node) + 1]
      /\ node' = Append(node, [name |-> call[t].name, list |-> <<>>])
      /\ service_tb' = [service_tb EXCEPT ![Bucket[call[t].name]] = <<Len(node) + 1>> \o q]
      /\ spinlock' = Append(spinlock, NULL) /\ wild' = wild
  <2>0. ~ (0 > 0)
    OBVIOUS
  <2>1. ~ ((IF I # {} THEN Min(I) ELSE 0) > 0)
    BY <1>6, <2>0, Zenon
  <2> QED
    BY <2>1, Zenon DEF sd_add_and_init_service, SelectInSeq, I, q
<1>8. <<Len(node) + 1>> \o q = <<Len(node) + 1>>
  BY <1>5, ConcatEmptySeq DEF FindInv, Shapes
<1> QED
  BY <1>1, <1>3, <1>4, <1>7, <1>8

\* The table gets one more node, without endpoints.
LEMMA AddTable ==
    ASSUME FindInv, NEW t \in Threads, sd_add_and_init_service(t),
           NEW n \in Nat, n = Len(node) + 1
    PROVE  /\ node' \in Seq(Nodes) /\ Len(node') = n /\ DOMAIN node' = 1..n
           /\ n \notin DOMAIN node /\ DOMAIN node' = DOMAIN node \cup {n} /\ n # 0
           /\ node'[n] \in Nodes /\ node'[n].name = call[t].name /\ node'[n].list = <<>>
           /\ \A m \in DOMAIN node : node'[m] = node[m]
<1>1. node \in Seq(Nodes) /\ Len(node) \in Nat /\ DOMAIN node = 1..Len(node)
  BY DEF FindInv, Shapes
<1>2. PICK d : d = [name |-> call[t].name, list |-> <<>>]
  OBVIOUS
<1>3. d \in Nodes /\ d.name = call[t].name /\ d.list = <<>> /\ node' = Append(node, d)
  <2>1. call[t].name \in Names /\ node' = Append(node, [name |-> call[t].name, list |-> <<>>])
    BY AddEffect
  <2>2. <<>> \in Seq(Nat)
    OBVIOUS
  <2> QED
    BY <1>2, <2>1, <2>2 DEF Nodes
<1>4. /\ node' \in Seq(Nodes) /\ Len(node') = Len(node) + 1
      /\ \A m \in 1..Len(node) : node'[m] = node[m]
      /\ node'[Len(node) + 1] = d
  BY <1>1, <1>3, AppendProperties
<1>5. DOMAIN node' = 1..n
  BY <1>4
<1> QED
  BY <1>1, <1>3, <1>4, <1>5

LEMMA AddStep == ASSUME FindInv, NEW t \in Threads, sd_add_and_init_service(t) PROVE FindInv'
<1>1. node \in Seq(Nodes) /\ Len(node) \in Nat /\ DOMAIN node = 1..Len(node) /\ LocksOK
  BY Typed DEF FindInv, Shapes
<1>2. PICK n \in Nat : n = Len(node) + 1
  BY <1>1
<1>3. PICK s \in Names : s = call[t].name
  BY AddEffect
<1>4. PICK d : d = node'[n]
  OBVIOUS
<1>5. d \in Nodes /\ d.name = s /\ ToSet(d.list) = {}
  <2>1. node'[n] \in Nodes /\ node'[n].name = call[t].name /\ node'[n].list = <<>>
    BY <1>2, AddTable
  <2>2. ToSet(<<>>) = {}
    BY DEF ToSet
  <2> QED
    BY <1>3, <1>4, <2>1, <2>2
<1>6. /\ pc[t] = "add" /\ pc' = [pc EXCEPT ![t] = "etcd"] /\ Bucket[s] \in Buckets
      /\ service_tb[Bucket[s]] = <<>>
      /\ call' = [call EXCEPT ![t].node = n]
      /\ service_tb' = [service_tb EXCEPT ![Bucket[s]] = <<n>>]
      /\ spinlock' = Append(spinlock, NULL)
      /\ UNCHANGED <<endpoint, request_num, outstanding, find_mutex, writer, readers, calls, wild>>
  BY <1>2, <1>3, AddEffect DEF Chain
<1>7. Locked(t) /\ Knows(t) /\ call[t] \in CallSet
  BY Typed
<1>8. PICK c : c = [call[t] EXCEPT !.node = n]
  OBVIOUS
<1>9. c \in CallSet /\ c.name = s /\ c.node = n /\ c.optimal = call[t].optimal /\ call' = [call EXCEPT ![t] = c]
  BY <1>3, <1>6, <1>7, <1>8 DEF CallSet
<1>10. /\ pc'[t] = "etcd" /\ call'[t] = c
       /\ \A u \in Threads \ {t} : pc'[u] = pc[u] /\ call'[u] = call[u]
       /\ pc' \in [Threads -> PCs] /\ call' \in [Threads -> CallSet]
  BY <1>6, <1>9 DEF FindInv, Shapes, PCs
<1>11. writer = t /\ find_mutex = t
  BY <1>6, <1>7 DEF Locked
<1>12. /\ node' \in Seq(Nodes) /\ Len(node') = n /\ DOMAIN node' = 1..n
       /\ n \notin DOMAIN node /\ DOMAIN node' = DOMAIN node \cup {n} /\ n # 0
       /\ node'[n] = d /\ \A m \in DOMAIN node : node'[m] = node[m]
  BY <1>2, <1>4, AddTable
<1>13. /\ spinlock' \in Seq(Threads \cup {NULL}) /\ Len(spinlock') = n
       /\ \A m \in DOMAIN node : spinlock'[m] = spinlock[m]
  <2>1. spinlock \in Seq(Threads \cup {NULL}) /\ Len(spinlock) = Len(node) /\ NULL \in Threads \cup {NULL}
    BY <1>1 DEF LocksOK
  <2>2. /\ spinlock' \in Seq(Threads \cup {NULL}) /\ Len(spinlock') = Len(spinlock) + 1
        /\ \A m \in 1..Len(spinlock) : spinlock'[m] = spinlock[m]
    BY <1>6, <2>1, AppendProperties
  <2> QED
    BY <1>1, <1>2, <2>1, <2>2
<1>14. /\ service_tb \in [Buckets -> Seq(Nat)] /\ service_tb' \in [Buckets -> Seq(Nat)]
       /\ service_tb'[Bucket[s]] = <<n>>
       /\ \A b \in Buckets : b # Bucket[s] => service_tb'[b] = service_tb[b]
  BY <1>2, <1>6 DEF FindInv, Shapes
<1>15. ToSet(service_tb'[Bucket[s]]) = {n} /\ ToSet(service_tb[Bucket[s]]) = {}
  BY <1>6, <1>14 DEF ToSet
<1>16. Shapes'
  BY <1>6, <1>10, <1>12, <1>13, <1>14 DEF FindInv, Shapes
<1>17. \A m \in DOMAIN node : node[m].name \in Names /\ Bucket[node[m].name] \in Buckets /\ Bucket[node[m].name] # Bucket[s]
  <2> SUFFICES ASSUME NEW m \in DOMAIN node
               PROVE  node[m].name \in Names /\ Bucket[node[m].name] \in Buckets /\ Bucket[node[m].name] # Bucket[s]
    OBVIOUS
  <2>1. node[m] \in Nodes
    BY <1>1
  <2>2. m \in ToSet(service_tb[Bucket[node[m].name]])
    BY DEF FindInv, TableInv
  <2> QED
    BY <1>15, <2>1, <2>2, BucketRange DEF Nodes
<1>18. TableInv'
  <2>1. \A b \in Buckets : \A m \in ToSet(service_tb'[b]) : m \in DOMAIN node' /\ Bucket[node'[m].name] = b
    <3> SUFFICES ASSUME NEW b \in Buckets, NEW m \in ToSet(service_tb'[b])
                 PROVE  m \in DOMAIN node' /\ Bucket[node'[m].name] = b
      OBVIOUS
    <3>1. CASE b = Bucket[s]
      <4>1. m = n
        BY <1>15, <3>1
      <4> QED
        BY <1>5, <1>12, <3>1, <4>1
    <3>2. CASE b # Bucket[s]
      <4>1. m \in ToSet(service_tb[b])
        BY <1>14, <3>2
      <4>2. m \in DOMAIN node /\ Bucket[node[m].name] = b
        BY <4>1 DEF FindInv, TableInv
      <4> QED
        BY <1>12, <4>2
    <3> QED
      BY <3>1, <3>2
  <2>2. \A m \in DOMAIN node' : m \in ToSet(service_tb'[Bucket[node'[m].name]])
    <3> SUFFICES ASSUME NEW m \in DOMAIN node' PROVE m \in ToSet(service_tb'[Bucket[node'[m].name]])
      OBVIOUS
    <3>1. CASE m = n
      BY <1>5, <1>12, <1>15, <3>1
    <3>2. CASE m # n
      <4>1. m \in DOMAIN node /\ node'[m] = node[m]
        BY <1>12, <3>2
      <4>2. m \in ToSet(service_tb[Bucket[node[m].name]])
        BY <4>1 DEF FindInv, TableInv
      <4> QED
        BY <1>14, <1>17, <4>1, <4>2
    <3> QED
      BY <3>1, <3>2
  <2>3. \A m, k \in DOMAIN node' : node'[m].name = node'[k].name => m = k
    <3>1. \A m, k \in DOMAIN node : node[m].name = node[k].name => m = k
      BY DEF FindInv, TableInv
    <3>2. \A m \in DOMAIN node : node[m].name # s
      BY <1>17
    <3> QED
      BY <1>5, <1>12, <3>1, <3>2
  <2>4. \A m \in DOMAIN node' : ToSet(node'[m].list) \subseteq DOMAIN endpoint
    <3>1. \A m \in DOMAIN node : ToSet(node[m].list) \subseteq DOMAIN endpoint
      BY DEF FindInv, TableInv
    <3> QED
      BY <1>5, <1>12, <3>1
  <2>5. \A m, k \in DOMAIN node' : m # k => ToSet(node'[m].list) \cap ToSet(node'[k].list) = {}
    <3>1. \A m, k \in DOMAIN node : m # k => ToSet(node[m].list) \cap ToSet(node[k].list) = {}
      BY DEF FindInv, TableInv
    <3> QED
      BY <1>5, <1>12, <3>1
  <2> QED
    BY <1>6, <2>1, <2>2, <2>3, <2>4, <2>5 DEF TableInv
<1>19. ASSUME NEW u \in Threads PROVE Locked(u)' /\ Knows(u)'
  <2>1. Locked(u) /\ Knows(u)
    BY Typed
  <2>2. CASE u = t
    <3>1. Locked(t)'
      BY <1>6, <1>10, <1>11 DEF Locked
    <3>2. Chain(t)' = <<n>> /\ Chain(t)' # <<>>
      <4>1. call'[t].name = s
        BY <1>9, <1>10
      <4>2. Chain(t)' = service_tb'[Bucket[s]]
        BY <4>1 DEF Chain
      <4>3. <<n>> # <<>>
        OBVIOUS
      <4> QED
        BY <1>14, <4>2, <4>3
    <3>3. call'[t].node = n /\ call'[t].optimal = call[t].optimal /\ call'[t].name = s
      BY <1>9, <1>10
    <3>4. call'[t].optimal \in {0} \cup DOMAIN endpoint'
      BY <1>6, <1>7, <3>3 DEF Knows
    <3>5. Knows(t)'
      BY <1>10, <1>12, <3>2, <3>3, <3>4 DEF Knows
    <3> QED
      BY <2>2, <3>1, <3>5
  <2>3. CASE u # t
    <3>1. pc'[u] = pc[u] /\ call'[u] = call[u]
      BY <1>10, <2>3
    <3>2. pc[u] \notin {"wrlock", "add", "etcd", "walk", "unwrlock", "fail", "unmutex"}
      BY <1>11, <2>1, <2>3 DEF Locked
    <3>3. call[u].node \in {0} \cup DOMAIN node
      BY <2>1 DEF Knows
    <3>4. Locked(u)'
      <4>1. pc[u] \in {"choose", "unspin"} => call[u].node \in DOMAIN node
        BY <2>1 DEF Knows
      <4> QED
        BY <1>6, <1>13, <2>1, <3>1, <4>1 DEF Locked
    <3>5. pc[u] # "idle" /\ Chain(u) # <<>> => Chain(u)' # <<>>
      <4> SUFFICES ASSUME pc[u] # "idle", Chain(u) # <<>> PROVE Chain(u)' # <<>>
        OBVIOUS
      <4>1. call[u].name \in Names /\ Bucket[call[u].name] \in Buckets
        BY <2>1, BucketRange DEF Knows
      <4>2. Bucket[call[u].name] # Bucket[s]
        BY <1>6 DEF Chain
      <4> QED
        BY <1>14, <3>1, <4>1, <4>2 DEF Chain
    <3>6. Knows(u)'
      <4>1. pc[u] = "choose" => call[u].node \in DOMAIN node /\ node'[call[u].node] = node[call[u].node]
        BY <1>12, <2>1 DEF Knows
      <4>2. call[u].node \in {0} \cup DOMAIN node'
        BY <1>12, <3>3
      <4> QED
        BY <1>6, <2>1, <3>1, <3>2, <3>5, <4>1, <4>2 DEF Knows
    <3> QED
      BY <3>4, <3>6
  <2> QED
    BY <2>2, <2>3
<1>20. ThreadInv'
  BY <1>6, <1>19 DEF ThreadInv, FindInv
<1>21. BuiltInv'
  <2> SUFFICES ASSUME NEW x \in Threads, NEW u \in Threads,
                      pc'[x] \in {"etcd", "walk"}, pc'[u] \in {"unmutex", "spin", "choose", "unspin"}
               PROVE  call'[x].node # call'[u].node
    BY DEF BuiltInv
  <2>1. u # t /\ pc'[u] = pc[u] /\ call'[u] = call[u] /\ call[u].node \in DOMAIN node
    <3>1. u # t /\ pc'[u] = pc[u] /\ call'[u] = call[u]
      BY <1>10
    <3> QED
      BY <3>1, Typed DEF Knows
  <2>2. x = t
    <3> SUFFICES ASSUME x # t PROVE FALSE
      OBVIOUS
    <3>1. pc[x] \in {"etcd", "walk"} /\ Locked(x)
      BY <1>10, Typed
    <3> QED
      BY <1>11, <3>1 DEF Locked
  <2> QED
    BY <1>9, <1>10, <1>12, <2>1, <2>2
<1>22. LoadInv'
  <2>1. ASSUME NEW e PROVE Sending(e)' = Sending(e)
    BY <1>6, <1>10 DEF Sending
  <2> QED
    BY <1>6, <2>1 DEF FindInv, LoadInv
<1> QED
  BY <1>16, <1>18, <1>20, <1>21, <1>22 DEF FindInv

\* Where an endpoint is inserted: behind those with a larger level.
LEMMA InsertPlace ==
    ASSUME NEW list \in Seq(Nat), NEW level, NEW e \in Nat
    PROVE  \/ /\ sd_insert_endpoint(list, level, e) = Append(list, e)
              /\ \A j \in 1..Len(list) : ~ (level >= endpoint[list[j]].load_level)
           \/ \E i \in 1..Len(list) :
                 /\ sd_insert_endpoint(list, level, e) = InsertAt(list, i, e)
                 /\ level >= endpoint[list[i]].load_level
                 /\ \A j \in 1..(i - 1) : ~ (level >= endpoint[list[j]].load_level)
<1> DEFINE I == {i \in 1..Len(list) : level >= endpoint[list[i]].load_level}
<1>1. Len(list) \in Nat /\ I \in SUBSET Nat
  OBVIOUS
<1>2. PICK at : at = IF I # {} THEN Min(I) ELSE 0
  OBVIOUS
<1>3. sd_insert_endpoint(list, level, e) = IF at = 0 THEN Append(list, e) ELSE InsertAt(list, at, e)
  BY <1>2, Zenon DEF sd_insert_endpoint, SelectInSeq
<1>4. CASE I = {}
  BY <1>2, <1>3, <1>4
<1>5. CASE I # {}
  <2>1. at \in I /\ \A y \in I : at =< y
    BY <1>1, <1>2, <1>5, LeastIn
  <2>2. at \in 1..Len(list) /\ at # 0 /\ level >= endpoint[list[at]].load_level
    BY <2>1
  <2>3. \A j \in 1..(at - 1) : ~ (level >= endpoint[list[j]].load_level)
    <3> SUFFICES ASSUME NEW j \in 1..(at - 1), level >= endpoint[list[j]].load_level PROVE FALSE
      OBVIOUS
    <3>1. j \in 1..Len(list) /\ ~ (at =< j)
      BY <1>1, <2>2
    <3>2. j \in I
      BY <3>1
    <3> QED
      BY <2>1, <3>1, <3>2
  <2> QED
    BY <1>3, <2>2, <2>3
<1> QED
  BY <1>4, <1>5

LEMMA InsertSet ==
    ASSUME NEW list \in Seq(Nat), NEW level, NEW e \in Nat
    PROVE  /\ sd_insert_endpoint(list, level, e) \in Seq(Nat)
           /\ ToSet(sd_insert_endpoint(list, level, e)) \subseteq ToSet(list) \cup {e}
<1>1. PICK r : r = sd_insert_endpoint(list, level, e)
  OBVIOUS
<1>2. DOMAIN list = 1..Len(list) /\ Len(list) \in Nat
  OBVIOUS
<1>3. CASE r = Append(list, e)
  <2>1. /\ r \in Seq(Nat) /\ Len(r) = Len(list) + 1 /\ r[Len(list) + 1] = e
        /\ \A j \in 1..Len(list) : r[j] = list[j]
    BY <1>3, AppendProperties
  <2>2. \A j \in DOMAIN r : r[j] \in ToSet(list) \cup {e}
    <3> SUFFICES ASSUME NEW j \in 1..(Len(list) + 1) PROVE r[j] \in ToSet(list) \cup {e}
      BY <2>1
    <3>1. CASE j = Len(list) + 1
      BY <2>1, <3>1
    <3>2. CASE j # Len(list) + 1
      <4>1. j \in 1..Len(list)
        BY <1>2, <3>2
      <4> QED
        BY <1>2, <2>1, <4>1 DEF ToSet
    <3> QED
      BY <3>1, <3>2
  <2> QED
    BY <1>1, <2>1, <2>2 DEF ToSet
<1>4. ASSUME NEW i \in 1..Len(list), r = InsertAt(list, i, e)
      PROVE  r \in Seq(Nat) /\ ToSet(r) \subseteq ToSet(list) \cup {e}
  <2>1. /\ r \in Seq(Nat) /\ Len(r) = Len(list) + 1 /\ r[i] = e
        /\ \A j \in 1..(i - 1) : r[j] = list[j]
        /\ \A j \in (i + 1)..(Len(list) + 1) : r[j] = list[j - 1]
    <3>0. i \in 1..Len(list)
      BY <1>4
    <3>1. InsertAt(list, i, e) \in Seq(Nat) /\ Len(InsertAt(list, i, e)) = Len(list) + 1
      BY <3>0, InsertFacts
    <3>2. InsertAt(list, i, e)[i] = e
      BY <3>0, InsertFacts
    <3>3. \A j \in 1..(i - 1) : InsertAt(list, i, e)[j] = list[j]
      BY <3>0, InsertFacts
    <3>4. \A j \in (i + 1)..(Len(list) + 1) : InsertAt(list, i, e)[j] = list[j - 1]
      BY <3>0, InsertFacts
    <3> QED
      BY <1>4, <3>1, <3>2, <3>3, <3>4
  <2>2. \A j \in DOMAIN r : r[j] \in ToSet(list) \cup {e}
    <3> SUFFICES ASSUME NEW j \in 1..(Len(list) + 1) PROVE r[j] \in ToSet(list) \cup {e}
      BY <2>1
    <3>1. CASE j = i
      BY <2>1, <3>1
    <3>2. CASE j < i
      <4>1. j \in 1..(i - 1) /\ j \in DOMAIN list
        BY <1>2, <3>2
      <4> QED
        BY <2>1, <4>1 DEF ToSet
    <3>3. CASE j > i
      <4>1. j \in (i + 1)..(Len(list) + 1) /\ j - 1 \in DOMAIN list
        BY <1>2, <3>3
      <4> QED
        BY <2>1, <4>1 DEF ToSet
    <3> QED
      BY <1>2, <3>1, <3>2, <3>3
  <2> QED
    BY <2>1, <2>2 DEF ToSet
<1> QED
  BY <1>1, <1>3, <1>4, InsertPlace

\* The endpoint is new, and is inserted into the list of the thread's node.
EndpointAdded(t, n, e, entry, level, L) ==
    /\ n = call[t].node /\ entry = Head(call[t].nodes) /\ level = atoi(entry.value)
    /\ e = Len(endpoint) + 1 /\ node[n].list \in Seq(Nat)
    /\ L = sd_insert_endpoint(node[n].list, level, e)
    /\ endpoint' \in Seq(Endpoints) /\ Len(endpoint') = e
    /\ DOMAIN endpoint' = DOMAIN endpoint \cup {e} /\ e \notin DOMAIN endpoint /\ e # 0
    /\ endpoint'[e].at = AddressIn[entry.key] /\ endpoint'[e].load_level = level
    /\ \A x \in DOMAIN endpoint : endpoint'[x] = endpoint[x]
    /\ node' \in Seq(Nodes) /\ Len(node') = Len(node) /\ DOMAIN node' = DOMAIN node
    /\ node'[n].name = node[n].name /\ node'[n].list = L
    /\ \A m \in DOMAIN node : m # n => node'[m] = node[m]
    /\ Tail(call[t].nodes) \in Seq(Entries \cup {NULL})

LEMMA AddEndpointEffect ==
    ASSUME FindInv, NEW t \in Threads, AddEndpoint(t)
    PROVE  \E n \in DOMAIN node, e \in Nat, entry \in Entries, L \in Seq(Nat) :
             \E level : EndpointAdded(t, n, e, entry, level, L)
<1>1. /\ pc[t] = "walk" /\ pc' = pc /\ call[t].nodes # <<>> /\ Head(call[t].nodes) # NULL
      /\ UNCHANGED <<service_tb, find_mutex, writer, readers, spinlock, calls, wild>>
  BY DEF AddEndpoint
<1>2. Locked(t) /\ Knows(t) /\ call[t] \in CallSet
  BY Typed
<1>3. PICK n \in Nat : n = call[t].node
  BY <1>2 DEF CallSet
<1>4. n \in DOMAIN node /\ call[t].name \in Names
  BY <1>1, <1>2, <1>3 DEF Knows
<1>5. /\ node \in Seq(Nodes) /\ DOMAIN node = 1..Len(node) /\ endpoint \in Seq(Endpoints)
      /\ DOMAIN endpoint = 1..Len(endpoint) /\ Len(endpoint) \in Nat
      /\ request_num \in Seq(Int) /\ Len(request_num) = Len(endpoint)
      /\ outstanding \in Seq(Nat) /\ Len(outstanding) = Len(endpoint)
  BY DEF FindInv, Shapes
<1>6. node[n] \in Nodes /\ node[n].list \in Seq(Nat)
  <2>1. node[n] \in Nodes
    BY <1>4, <1>5
  <2> QED
    BY <2>1 DEF Nodes
<1>7. PICK e \in Nat : e = Len(endpoint) + 1
  BY <1>5
<1>8. PICK entry : entry = Head(call[t].nodes)
  OBVIOUS
<1>9. entry \in Entries /\ Tail(call[t].nodes) \in Seq(Entries \cup {NULL})
  <2>1. PICK q \in Seq(Entries \cup {NULL}) : q = call[t].nodes
    BY <1>2 DEF CallSet
  <2>2. Head(q) \in Entries \cup {NULL} /\ Tail(q) \in Seq(Entries \cup {NULL})
    BY <1>1, <2>1, HeadTailProperties
  <2> QED
    BY <1>1, <1>8, <2>1, <2>2
<1>10. PICK level : level = atoi(entry.value)
  OBVIOUS
<1>11. PICK L : L = sd_insert_endpoint(node[n].list, level, e)
  OBVIOUS
<1>12. L \in Seq(Nat) /\ ToSet(L) \subseteq ToSet(node[n].list) \cup {e}
  BY <1>6, <1>11, InsertSet
<1>13. PICK p : p = [at |-> AddressIn[entry.key], load_level |-> level]
  OBVIOUS
<1>14. p \in Endpoints
  BY <1>9, <1>10, <1>13 DEF Endpoints
<1>15. /\ endpoint' = Append(endpoint, p) /\ request_num' = Append(request_num, 0)
       /\ outstanding' = Append(outstanding, 0)
       /\ node' = [node EXCEPT ![n].list = L]
       /\ call' = [call EXCEPT ![t].nodes = Tail(call[t].nodes)]
  BY <1>3, <1>7, <1>8, <1>10, <1>11, <1>13 DEF AddEndpoint
<1>16. /\ endpoint' \in Seq(Endpoints) /\ Len(endpoint') = e
       /\ DOMAIN endpoint' = DOMAIN endpoint \cup {e} /\ e \notin DOMAIN endpoint /\ e # 0
       /\ endpoint'[e] = p /\ \A x \in DOMAIN endpoint : endpoint'[x] = endpoint[x]
  <2>1. /\ endpoint' \in Seq(Endpoints) /\ Len(endpoint') = Len(endpoint) + 1
        /\ endpoint'[Len(endpoint) + 1] = p
        /\ \A x \in 1..Len(endpoint) : endpoint'[x] = endpoint[x]
    BY <1>5, <1>14, <1>15, AppendProperties
  <2>2. DOMAIN endpoint' = 1..e
    BY <1>7, <2>1
  <2> QED
    BY <1>5, <1>7, <2>1, <2>2
<1>17. p.at = AddressIn[entry.key] /\ p.load_level = level
  BY <1>13
<1>19. PICK d : d = [node[n] EXCEPT !.list = L]
  OBVIOUS
<1>20. d \in Nodes /\ d.name = node[n].name /\ d.list = L
  BY <1>6, <1>12, <1>19 DEF Nodes
<1>21. node' = [node EXCEPT ![n] = d]
  BY <1>15, <1>19
<1>22. /\ node' \in Seq(Nodes) /\ Len(node') = Len(node) /\ DOMAIN node' = DOMAIN node
       /\ node'[n] = d /\ \A m \in DOMAIN node : m # n => node'[m] = node[m]
  <2>1. n \in 1..Len(node)
    BY <1>4, <1>5
  <2>2. node' \in Seq(Nodes) /\ Len(node') = Len(node)
    BY <1>5, <1>20, <1>21, <2>1, ExceptSeq
  <2> QED
    BY <1>4, <1>5, <1>21, <2>2
<1>23. EndpointAdded(t, n, e, entry, level, L)
  BY <1>3, <1>6, <1>7, <1>8, <1>9, <1>10, <1>11, <1>16, <1>17, <1>20, <1>22 DEF EndpointAdded
<1> QED
  <2>1. \E x : EndpointAdded(t, n, e, entry, x, L)
    BY <1>23
  <2> QED
    BY <1>4, <1>9, <1>12, <2>1

LEMMA AddEndpointStep == ASSUME FindInv, NEW t \in Threads, AddEndpoint(t) PROVE FindInv'
<1>1. /\ pc[t] = "walk" /\ pc' = pc
      /\ call' = [call EXCEPT ![t].nodes = Tail(call[t].nodes)]
      /\ request_num' = Append(request_num, 0) /\ outstanding' = Append(outstanding, 0)
      /\ UNCHANGED <<service_tb, find_mutex, writer, readers, spinlock, calls, wild>>
  BY DEF AddEndpoint
<1>2. Locked(t) /\ Knows(t) /\ call[t] \in CallSet
  BY Typed
<1>0. PICK n \in DOMAIN node, e \in Nat, entry \in Entries, L \in Seq(Nat) :
          \E x : EndpointAdded(t, n, e, entry, x, L)
  BY AddEndpointEffect
<1>10. PICK level : EndpointAdded(t, n, e, entry, level, L)
  BY <1>0
<1>3. /\ n = call[t].node /\ e = Len(endpoint) + 1 /\ node[n].list \in Seq(Nat)
      /\ L = sd_insert_endpoint(node[n].list, level, e)
      /\ endpoint' \in Seq(Endpoints) /\ Len(endpoint') = e
      /\ DOMAIN endpoint' = DOMAIN endpoint \cup {e} /\ e \notin DOMAIN endpoint /\ e # 0
      /\ node' \in Seq(Nodes) /\ Len(node') = Len(node) /\ DOMAIN node' = DOMAIN node
      /\ node'[n].name = node[n].name /\ node'[n].list = L
      /\ \A m \in DOMAIN node : m # n => node'[m] = node[m]
      /\ Tail(call[t].nodes) \in Seq(Entries \cup {NULL})
  BY <1>10 DEF EndpointAdded
<1>5. /\ request_num \in Seq(Int) /\ Len(request_num) = Len(endpoint) /\ Len(endpoint) \in Nat
      /\ outstanding \in Seq(Nat) /\ Len(outstanding) = Len(endpoint)
      /\ DOMAIN endpoint = 1..Len(endpoint)
  BY DEF FindInv, Shapes
<1>7. n \in DOMAIN node /\ call[t].name \in Names
  BY <1>1, <1>2, <1>3 DEF Knows
<1>12. ToSet(L) \subseteq ToSet(node[n].list) \cup {e}
  BY <1>3, InsertSet
<1>17. /\ request_num' \in Seq(Int) /\ Len(request_num') = e /\ request_num'[e] = 0
       /\ \A x \in DOMAIN endpoint : request_num'[x] = request_num[x]
  <2>1. /\ request_num' \in Seq(Int) /\ Len(request_num') = Len(request_num) + 1
        /\ request_num'[Len(request_num) + 1] = 0
        /\ \A x \in 1..Len(request_num) : request_num'[x] = request_num[x]
    BY <1>5, <1>1, AppendProperties
  <2> QED
    BY <1>3, <1>5, <2>1
<1>18. /\ outstanding' \in Seq(Nat) /\ Len(outstanding') = e /\ outstanding'[e] = 0
       /\ \A x \in DOMAIN endpoint : outstanding'[x] = outstanding[x]
  <2>1. /\ outstanding' \in Seq(Nat) /\ Len(outstanding') = Len(outstanding) + 1
        /\ outstanding'[Len(outstanding) + 1] = 0
        /\ \A x \in 1..Len(outstanding) : outstanding'[x] = outstanding[x]
    BY <1>5, <1>1, AppendProperties
  <2> QED
    BY <1>3, <1>5, <2>1
<1>23. \A m \in DOMAIN node : node'[m].name = node[m].name
  BY <1>3
<1>24. PICK c : c = [call[t] EXCEPT !.nodes = Tail(call[t].nodes)]
  OBVIOUS
<1>25. c \in CallSet /\ c.name = call[t].name /\ c.node = n /\ c.optimal = call[t].optimal
  BY <1>2, <1>3, <1>24 DEF CallSet
<1>26. call' = [call EXCEPT ![t] = c]
  BY <1>1, <1>24
<1>27. /\ call'[t] = c /\ \A u \in Threads \ {t} : call'[u] = call[u]
       /\ call' \in [Threads -> CallSet]
  BY <1>25, <1>26 DEF FindInv, Shapes
<1>28. Shapes'
  BY <1>1, <1>3, <1>17, <1>18, <1>27 DEF FindInv, Shapes
<1>29. TableInv'
  <2>1. \A b \in Buckets : \A m \in ToSet(service_tb'[b]) : m \in DOMAIN node' /\ Bucket[node'[m].name] = b
    <3>1. service_tb' = service_tb /\ DOMAIN node' = DOMAIN node
      BY <1>1, <1>3
    <3>2. \A b \in Buckets : \A m \in ToSet(service_tb[b]) : m \in DOMAIN node /\ Bucket[node[m].name] = b
      BY DEF FindInv, TableInv
    <3> QED
      BY <1>23, <3>1, <3>2
  <2>2. \A m \in DOMAIN node' : m \in ToSet(service_tb'[Bucket[node'[m].name]])
    BY <1>1, <1>3, <1>23 DEF FindInv, TableInv
  <2>3. \A m, k \in DOMAIN node' : node'[m].name = node'[k].name => m = k
    BY <1>3, <1>23 DEF FindInv, TableInv
  <2>4. \A m \in DOMAIN node : ToSet(node[m].list) \subseteq DOMAIN endpoint
    BY DEF FindInv, TableInv
  <2>5. \A m \in DOMAIN node : node'[m].list = IF m = n THEN L ELSE node[m].list
    BY <1>3
  <2>6. \A m \in DOMAIN node' : ToSet(node'[m].list) \subseteq DOMAIN endpoint'
    BY <1>3, <1>12, <2>4, <2>5
  <2>7. \A m, k \in DOMAIN node' : m # k => ToSet(node'[m].list) \cap ToSet(node'[k].list) = {}
    <3> SUFFICES ASSUME NEW m \in DOMAIN node, NEW k \in DOMAIN node, m # k
                 PROVE  ToSet(node'[m].list) \cap ToSet(node'[k].list) = {}
      BY <1>3
    <3>1. ToSet(node[m].list) \cap ToSet(node[k].list) = {}
      BY DEF FindInv, TableInv
    <3>2. CASE m = n
      BY <1>12, <1>3, <2>4, <2>5, <3>1, <3>2
    <3>3. CASE k = n
      BY <1>12, <1>3, <2>4, <2>5, <3>1, <3>3
    <3>4. CASE m # n /\ k # n
      BY <2>5, <3>1, <3>4
    <3> QED
      BY <3>2, <3>3, <3>4
  <2> QED
    BY <2>1, <2>2, <2>3, <2>6, <2>7 DEF TableInv
<1>30. \A u \in Threads : /\ call'[u].node = call[u].node /\ call'[u].optimal = call[u].optimal
                           /\ call'[u].name = call[u].name
  BY <1>3, <1>25, <1>27
<1>31. ASSUME NEW u \in Threads PROVE Locked(u)' /\ Knows(u)'
  <2>1. Locked(u) /\ Knows(u)
    BY Typed
  <2>2. Chain(u)' = Chain(u)
    BY <1>1, <1>30 DEF Chain
  <2>3. call[u].node \in {0} \cup DOMAIN node' /\ call[u].optimal \in {0} \cup DOMAIN endpoint'
    BY <1>3, <2>1 DEF Knows
  <2>4. CASE u = t
    <3>1. Locked(t)'
      BY <1>1, <1>2 DEF Locked
    <3>2. Knows(t)'
      BY <1>1, <1>2, <1>30, <2>2, <2>3, <2>4 DEF Knows
    <3> QED
      BY <2>4, <3>1, <3>2
  <2>5. CASE u # t
    <3>1. call'[u] = call[u] /\ pc'[u] = pc[u]
      BY <1>1, <1>27, <2>5
    <3>2. Locked(u)'
      BY <1>1, <2>1, <3>1 DEF Locked
    <3>3. pc[u] = "choose" => node'[call[u].node] = node[call[u].node]
      <4> SUFFICES ASSUME pc[u] = "choose" PROVE node'[call[u].node] = node[call[u].node]
        OBVIOUS
      <4>1. call[u].node # n
        BY <1>1, <1>3 DEF FindInv, BuiltInv
      <4>2. call[u].node \in DOMAIN node
        BY <2>1 DEF Knows
      <4> QED
        BY <1>3, <4>1, <4>2
    <3>4. call[u].optimal # 0 => request_num'[call[u].optimal] = request_num[call[u].optimal]
      BY <1>17, <2>1 DEF Knows
    <3>5. Knows(u)'
      BY <1>1, <2>1, <2>2, <2>3, <3>1, <3>3, <3>4 DEF Knows
    <3> QED
      BY <3>2, <3>5
  <2> QED
    BY <2>4, <2>5
<1>32. ThreadInv'
  BY <1>1, <1>31 DEF ThreadInv, FindInv
<1>33. BuiltInv'
  BY <1>1, <1>30 DEF FindInv, BuiltInv
<1>34. LoadInv'
  <2>1. \A x : Sending(x)' = Sending(x)
    BY <1>1, <1>30 DEF Sending
  <2>2. Cardinality(Sending(e)) = 0
    <3>1. \A u \in Threads : call[u].optimal # e
      BY <1>3, Typed DEF Knows
    <3>2. Sending(e) = {}
      BY <3>1 DEF Sending
    <3> QED
      BY <3>2, FS_EmptySet
  <2>3. \A x \in DOMAIN endpoint : /\ request_num[x] <= Limit
                                   /\ outstanding[x] + Cardinality(Sending(x)) <= request_num[x]
    BY DEF FindInv, LoadInv
  <2>4. ASSUME NEW x \in DOMAIN endpoint \cup {e}
        PROVE  /\ request_num'[x] <= Limit
               /\ outstanding'[x] + Cardinality(Sending(x)) <= request_num'[x]
    <3>1. CASE x = e
      BY <1>17, <1>18, <2>2, <3>1, Consts
    <3>2. CASE x # e
      BY <1>17, <1>18, <2>3, <3>2
    <3> QED
      BY <3>1, <3>2
  <2> QED
    BY <1>3, <2>1, <2>4 DEF LoadInv
<1> QED
  BY <1>28, <1>29, <1>32, <1>33, <1>34 DEF FindInv
-----------------------------------------------------------------------------
LEMMA FindStep == FindInv /\ [Next]_vars => FindInv'
<1> SUFFICES ASSUME FindInv, [Next]_vars PROVE FindInv'
  OBVIOUS
<1>1. ASSUME NEW t \in Threads, content_handler(t) PROVE FindInv'
  BY <1>1, HandlerStep
<1>2. ASSUME NEW t \in Threads, Find(t) PROVE FindInv'
  BY <1>2, LockFindStep, WrLockStep, AddStep, EtcdStep, AddEndpointStep, ConnectFailsStep,
     WalkEndsStep, FailUnlockFindStep, FailUnlockTableStep, UnlockTableStep, UnlockFindStep DEF Find
<1>3. ASSUME NEW t \in Threads, Choose(t) PROVE FindInv'
  BY <1>3, SpinLockStep, ConsiderStep, TakeStep, SpinUnlockStep, RequestStep DEF Choose
<1>4. ASSUME NEW t \in Threads, Handling(t) PROVE FindInv'
  BY <1>2, <1>3, <1>4, RdLockStep, LookupStep DEF Handling
<1>5. ASSUME NEW e \in DOMAIN endpoint, Response(e) PROVE FindInv'
  BY <1>5, ResponseStep
<1>6. CASE UNCHANGED vars
  <2>1. /\ UNCHANGED <<service_tb, node, endpoint, request_num, outstanding>>
        /\ UNCHANGED <<find_mutex, writer, readers, spinlock, pc, call, calls, wild>>
    BY <1>6 DEF vars
  <2>2. Shapes' /\ TableInv'
    BY <2>1 DEF FindInv, Shapes, TableInv
  <2>3. ThreadInv' /\ BuiltInv'
    BY <2>1 DEF FindInv, ThreadInv, Locked, Knows, Chain, BuiltInv
  <2>4. LoadInv'
    BY <2>1 DEF FindInv, LoadInv, Sending
  <2> QED
    BY <2>2, <2>3, <2>4 DEF FindInv
<1> QED
  BY <1>1, <1>4, <1>5, <1>6 DEF Next
-----------------------------------------------------------------------------
(* Theorems *)

\* The invariant of the discovery and the choice: who holds the locks, what a
\* thread knows of the table while it holds them, and that the requests counted
\* on an endpoint are those in flight and those about to be sent, at least.
THEOREM FindInvariant == Spec => []FindInv
  BY FindInit, FindStep, PTL DEF Spec

\* sd_service_find makes one node for a service, however many threads look for
\* it at once: sd_add_and_init_service never comes upon a node it would release.
THEOREM FoundOnceHolds == Spec => []FoundOnce
<1>1. FindInv => FoundOnce
  <2> SUFFICES ASSUME FindInv PROVE FoundOnce
    OBVIOUS
  <2>1. /\ node \in Seq(Nodes) /\ endpoint \in Seq(Endpoints) /\ request_num \in Seq(Int) /\ outstanding \in Seq(Nat)
        /\ spinlock \in Seq(Threads \cup {NULL}) /\ service_tb \in [Buckets -> Seq(Nat)]
        /\ Len(request_num) = Len(endpoint) /\ Len(outstanding) = Len(endpoint) /\ Len(spinlock) = Len(node)
    BY DEF FindInv, Shapes
  <2>2. service_tb \in [0..(service_tb_size - 1) -> Seq(DOMAIN node)]
    <3>1. ASSUME NEW b \in Buckets PROVE service_tb[b] \in Seq(DOMAIN node)
      <4>1. service_tb[b] \in Seq(Nat) /\ ToSet(service_tb[b]) \subseteq DOMAIN node
        BY <2>1 DEF FindInv, TableInv
      <4>2. \A i \in 1..Len(service_tb[b]) : service_tb[b][i] \in DOMAIN node
        BY <4>1 DEF ToSet
      <4> QED
        BY <4>1, <4>2
    <3> QED
      BY <2>1, <3>1 DEF Buckets
  <2>3. ASSUME NEW n \in DOMAIN node PROVE node[n].name \in DOMAIN Bucket /\ node[n].list \in Seq(DOMAIN endpoint)
    <3>1. node[n] \in Nodes
      BY <2>1
    <3>2. node[n].list \in Seq(Nat) /\ ToSet(node[n].list) \subseteq DOMAIN endpoint /\ node[n].name \in Names
      BY <3>1 DEF Nodes, FindInv, TableInv
    <3>3. \A i \in 1..Len(node[n].list) : node[n].list[i] \in DOMAIN endpoint
      BY <3>2 DEF ToSet
    <3>4. node[n].list \in Seq(DOMAIN endpoint)
      BY <3>2, <3>3
    <3> QED
      BY <3>2, <3>4 DEF Bucket, Names
  <2>4. DOMAIN request_num = DOMAIN endpoint /\ DOMAIN outstanding = DOMAIN endpoint /\ DOMAIN spinlock = DOMAIN node
    BY <2>1
  <2>5. ASSUME NEW e \in DOMAIN endpoint PROVE request_num[e] \in Nat /\ outstanding[e] \in Nat
    <3>1. request_num[e] \in Int /\ outstanding[e] \in Nat /\ Cardinality(Sending(e)) \in Nat
      BY <2>1, <2>4, SendingFinite
    <3>2. outstanding[e] + Cardinality(Sending(e)) <= request_num[e]
      BY DEF FindInv, LoadInv
    <3> QED
      BY <3>1, <3>2
  <2>6. \A t \in Threads : call[t].node \in {0} \cup DOMAIN node /\ call[t].optimal \in {0} \cup DOMAIN endpoint
    BY DEF FindInv, ThreadInv, Knows
  <2>7. DOMAIN pc = Threads /\ DOMAIN call = Threads /\ readers \subseteq Threads
        /\ {find_mutex, writer} \subseteq Threads \cup {NULL} /\ calls \in 0..MaxCalls /\ wild \in BOOLEAN
    BY DEF FindInv, Shapes
  <2>8. TypeOK
    BY <2>2, <2>3, <2>4, <2>5, <2>6, <2>7 DEF TypeOK
  <2>9. ASSUME NEW t \in Threads, pc[t] = "add", NEW n \in DOMAIN node PROVE node[n].name # call[t].name
    <3>1. Chain(t) = <<>>
      BY <2>9 DEF FindInv, ThreadInv, Knows
    <3>2. n \in ToSet(service_tb[Bucket[node[n].name]])
      BY DEF FindInv, TableInv
    <3> QED
      BY <3>1, <3>2 DEF Chain, ToSet
  <2> QED
    BY <2>8, <2>9 DEF FoundOnce, FindInv, TableInv
<1> QED
  BY <1>1, FindInvariant, PTL

\* No thread walks a list of endpoints that sd_service_find still inserts into,
\* although the two take different locks of the node.
THEOREM NotWalkedWhileBuiltHolds == Spec => []NotWalkedWhileBuilt
<1>1. FindInv => NotWalkedWhileBuilt
  BY DEF FindInv, BuiltInv, NotWalkedWhileBuilt, Building
<1> QED
  BY <1>1, FindInvariant, PTL

\* sd_get_optimal_endpoint never takes an endpoint past the limit: between the
\* comparison and the count only responses change request_num.
THEOREM LimitKeptHolds == Spec => []LimitKept
<1>1. FindInv => LimitKept
  BY DEF FindInv, LoadInv, LimitKept
<1> QED
  BY <1>1, FindInvariant, PTL
-----------------------------------------------------------------------------
(* The least loaded endpoint *)

Lvl(e) == endpoint[e].load_level

\* A list has an endpoint once, and larger levels first.
Sorted(list) ==
    \A i, j \in 1..Len(list) : i < j => list[i] # list[j] /\ Lvl(list[i]) >= Lvl(list[j])

\* An endpoint with room, as the thread has seen it.
HasRoom(c, e) == c.seen[e] < Limit /\ Lvl(e) > 0

\* b is no worse than e.
NoWorse(c, b, e) ==
    /\ c.seen[b] * Lvl(e) <= c.seen[e] * Lvl(b)
    /\ c.seen[b] * Lvl(e) = c.seen[e] * Lvl(b) => Lvl(b) >= Lvl(e)

\* Of k endpoints that were looked at, the best is known.
BestOf(c, list, k) ==
    /\ \A j \in 1..k : list[j] \in DOMAIN c.seen
    /\ c.optimal = 0 => \A j \in 1..k : ~HasRoom(c, list[j])
    /\ c.optimal # 0 =>
          /\ HasRoom(c, c.optimal) /\ \E j \in 1..k : c.optimal = list[j]
          /\ \A j \in 1..k : HasRoom(c, list[j]) => NoWorse(c, c.optimal, list[j])

\* What was not looked at is the rest of the list.
ChoiceInv(t) ==
    pc[t] = "choose" =>
        \E k \in 0..Len(node[call[t].node].list) :
            /\ Len(call[t].unseen) = Len(node[call[t].node].list) - k
            /\ \A i \in 1..Len(call[t].unseen) : call[t].unseen[i] = node[call[t].node].list[k + i]
            /\ BestOf(call[t], node[call[t].node].list, k)

OrderInv ==
    /\ \A n \in DOMAIN node : Sorted(node[n].list)
    /\ \A t \in Threads : ChoiceInv(t)

\* A step of a thread leaves the variables of the others alone.
Frame(t) == \A u \in Threads \ {t} : pc'[u] = pc[u] /\ call'[u] = call[u]

LEMMA FrameHolds ==
    ASSUME FindInv, NEW t \in Threads, content_handler(t) \/ Handling(t)
    PROVE  Frame(t)
<1>0. DOMAIN pc = Threads /\ DOMAIN call = Threads
  BY DEF FindInv, Shapes
<1>1. ASSUME NEW a, NEW b, Goto(t, a, b) PROVE \A u \in Threads \ {t} : pc'[u] = pc[u]
  BY <1>0, <1>1 DEF Goto
<1>2. CASE content_handler(t)
  BY <1>0, <1>1, <1>2 DEF content_handler, Frame
<1>3. CASE RdLock(t) \/ WrLock(t) \/ WalkEnds(t) \/ FailUnlockFind(t) \/ UnlockFind(t) \/ SpinUnlock(t)
  BY <1>0, <1>1, <1>3 DEF RdLock, WrLock, WalkEnds, FailUnlockFind, UnlockFind, SpinUnlock, Frame
<1>4. CASE Lookup(t)
  BY <1>0, <1>1, <1>4 DEF Lookup, Frame
<1>5. CASE LockFind(t) \/ FailUnlockTable(t) \/ UnlockTable(t) \/ SpinLock(t) \/ Take(t) \/ Request(t)
  BY <1>0, <1>1, <1>5 DEF LockFind, FailUnlockTable, UnlockTable, SpinLock, Take, Request, Frame
<1>6. CASE sd_add_and_init_service(t)
  <2>1. pc' = [pc EXCEPT ![t] = "etcd"] /\ call' = [call EXCEPT ![t].node = Len(node) + 1]
    BY <1>6, AddEffect
  <2> QED
    BY <1>0, <2>1 DEF Frame
<1>7. CASE etcd_get(t)
  BY <1>0, <1>1, <1>7 DEF etcd_get, Frame
<1>8. CASE AddEndpoint(t) \/ ConnectFails(t) \/ Consider(t)
  BY <1>0, <1>8 DEF AddEndpoint, ConnectFails, Consider, Frame
<1> QED
  BY <1>2, <1>3, <1>4, <1>5, <1>6, <1>7, <1>8 DEF Handling, Find, Choose

LEMMA Levels == ASSUME FindInv PROVE \A e \in DOMAIN endpoint : Lvl(e) \in Nat
<1> SUFFICES ASSUME NEW e \in DOMAIN endpoint PROVE Lvl(e) \in Nat
  OBVIOUS
<1>1. endpoint[e] \in Endpoints
  BY DEF FindInv, Shapes
<1>2. \A x \in Entries : atoi(x.value) \in Nat
  BY LevelAssumption DEF Entries
<1> QED
  BY <1>1, <1>2 DEF Endpoints, Lvl

\* The endpoints of a list, by their places.
LEMMA ListTyped ==
    ASSUME FindInv, NEW n \in DOMAIN node
    PROVE  /\ node[n].list \in Seq(Nat) /\ Len(node[n].list) \in Nat
           /\ \A j \in 1..Len(node[n].list) : node[n].list[j] \in DOMAIN endpoint
<1>1. node[n] \in Nodes
  BY DEF FindInv, Shapes
<1>2. node[n].list \in Seq(Nat)
  BY <1>1 DEF Nodes
<1>3. ToSet(node[n].list) \subseteq DOMAIN endpoint
  BY DEF FindInv, TableInv
<1> QED
  BY <1>2, <1>3 DEF ToSet

LEMMA SortedKept ==
    ASSUME FindInv, NEW n \in DOMAIN node, Sorted(node[n].list), NEW q, q = node[n].list,
           \A x \in DOMAIN endpoint : endpoint'[x] = endpoint[x]
    PROVE  Sorted(q)'
<1>1. \A j \in 1..Len(q) : q[j] \in DOMAIN endpoint
  BY ListTyped
<1> QED
  BY <1>1 DEF Sorted, Lvl

\* What a thread has found out stays true when others add endpoints elsewhere.
LEMMA ChoiceKept ==
    ASSUME FindInv, NEW u \in Threads, ChoiceInv(u), pc'[u] = pc[u], call'[u] = call[u],
           pc[u] = "choose" => node'[call[u].node] = node[call[u].node],
           \A x \in DOMAIN endpoint : endpoint'[x] = endpoint[x]
    PROVE  ChoiceInv(u)'
<1> SUFFICES ASSUME pc[u] = "choose" PROVE ChoiceInv(u)'
  BY DEF ChoiceInv
<1>1. PICK c : c = call[u]
  OBVIOUS
<1>2. call[u].node \in DOMAIN node /\ call[u].optimal \in {0} \cup DOMAIN endpoint
  BY Typed DEF Knows
<1>3. PICK q : q = node[call[u].node].list
  OBVIOUS
<1>4. (\A j \in 1..Len(q) : q[j] \in DOMAIN endpoint) /\ Len(q) \in Nat
  BY <1>2, <1>3, ListTyped
<1>5. PICK k \in 0..Len(q) : /\ Len(c.unseen) = Len(q) - k
                             /\ \A i \in 1..Len(c.unseen) : c.unseen[i] = q[k + i]
                             /\ BestOf(c, q, k)
  BY <1>1, <1>3 DEF ChoiceInv
<1>6. \A j \in 1..k : q[j] \in DOMAIN endpoint
  BY <1>4
<1>7. \A x \in DOMAIN endpoint : Lvl(x)' = Lvl(x)
  BY DEF Lvl
<1>8. BestOf(c, q, k)'
  <2>1. c.optimal \in {0} \cup DOMAIN endpoint
    BY <1>1, <1>2
  <2>2. \A x \in DOMAIN endpoint : HasRoom(c, x)' <=> HasRoom(c, x)
    BY <1>7 DEF HasRoom
  <2>3. \A x, y \in DOMAIN endpoint : NoWorse(c, x, y)' <=> NoWorse(c, x, y)
    BY <1>7 DEF NoWorse
  <2> QED
    BY <1>5, <1>6, <2>1, <2>2, <2>3 DEF BestOf
<1>9. call'[u] = c /\ node'[call'[u].node].list = q
  BY <1>1, <1>3
<1> QED
  BY <1>5, <1>8, <1>9 DEF ChoiceInv

LEMMA OrderInit == Init => OrderInv
  BY DEF Init, OrderInv, ChoiceInv

\* Steps of a thread that is then not choosing, and that leave the lists alone.
LEMMA NotChoosing ==
    ASSUME FindInv, OrderInv, NEW t \in Threads, Frame(t), UNCHANGED <<node, endpoint>>, pc'[t] # "choose"
    PROVE  OrderInv'
<1>1. ASSUME NEW n \in DOMAIN node PROVE Sorted(node[n].list)'
  <2>1. PICK q : q = node[n].list
    OBVIOUS
  <2>2. Sorted(q)'
    BY <2>1, SortedKept DEF OrderInv
  <2> QED
    BY <2>1, <2>2 DEF Sorted, Lvl
<1>2. ASSUME NEW u \in Threads PROVE ChoiceInv(u)'
  <2>1. CASE u = t
    BY <2>1 DEF ChoiceInv
  <2>2. CASE u # t
    BY <2>2, ChoiceKept DEF OrderInv, Frame
  <2> QED
    BY <2>1, <2>2
<1> QED
  BY <1>1, <1>2 DEF OrderInv

LEMMA SpinLockOrder == ASSUME FindInv, OrderInv, NEW t \in Threads, SpinLock(t) PROVE OrderInv'
<1>1. /\ UNCHANGED <<node, endpoint>> /\ pc[t] = "spin"
      /\ call' = [call EXCEPT ![t].unseen = node[call[t].node].list, ![t].optimal = 0]
  BY DEF SpinLock, Goto
<1>2. Frame(t)
  BY FrameHolds DEF Handling, Choose
<1>3. PICK q : q = node[call[t].node].list
  OBVIOUS
<1>4. Len(q) \in Nat
  <2>1. call[t].node \in DOMAIN node
    BY <1>1, Typed DEF Knows
  <2> QED
    BY <1>3, <2>1, ListTyped
<1>5. call'[t].unseen = q /\ call'[t].optimal = 0 /\ call'[t].node = call[t].node
  <2>1. call[t] \in CallSet /\ DOMAIN call = Threads
    BY Typed DEF FindInv, Shapes
  <2> QED
    BY <1>1, <1>3, <2>1 DEF CallSet
<1>6. PICK c : c = call'[t]
  OBVIOUS
<1>7. BestOf(c, q, 0)'
  BY <1>5, <1>6 DEF BestOf
<1>8. ChoiceInv(t)'
  <2>1. node'[call'[t].node].list = q
    BY <1>1, <1>3, <1>5
  <2>2. 0 \in 0..Len(q) /\ Len(c.unseen) = Len(q) - 0 /\ \A i \in 1..Len(c.unseen) : c.unseen[i] = q[0 + i]
    BY <1>4, <1>5, <1>6
  <2> QED
    BY <1>6, <1>7, <2>1, <2>2 DEF ChoiceInv
<1>9. ASSUME NEW n \in DOMAIN node PROVE Sorted(node[n].list)'
  BY <1>1 DEF OrderInv, Sorted, Lvl
<1>10. ASSUME NEW u \in Threads \ {t} PROVE ChoiceInv(u)'
  BY <1>1, <1>2, ChoiceKept DEF OrderInv, Frame
<1> QED
  BY <1>1, <1>8, <1>9, <1>10 DEF OrderInv

LEMMA AddOrder == ASSUME FindInv, OrderInv, NEW t \in Threads, sd_add_and_init_service(t) PROVE OrderInv'
<1>1. pc'[t] = "etcd" /\ endpoint' = endpoint
  BY AddEffect, Typed
<1>2. PICK n \in Nat : n = Len(node) + 1
  BY DEF FindInv, Shapes
<1>3. DOMAIN node' = DOMAIN node \cup {n} /\ node'[n].list = <<>> /\ \A m \in DOMAIN node : node'[m] = node[m]
  BY <1>2, AddTable
<1>4. Frame(t)
  BY FrameHolds DEF Handling, Find
<1>5. ASSUME NEW m \in DOMAIN node' PROVE Sorted(node[m].list)'
  <2>1. CASE m = n
    <3>1. Len(node'[m].list) = 0
      BY <1>3, <2>1
    <3> QED
      BY <3>1 DEF Sorted
  <2>2. CASE m # n
    <3>1. m \in DOMAIN node /\ node'[m] = node[m]
      BY <1>3, <2>2
    <3> QED
      BY <1>1, <3>1 DEF OrderInv, Sorted, Lvl
  <2> QED
    BY <2>1, <2>2
<1>6. ASSUME NEW u \in Threads PROVE ChoiceInv(u)'
  <2>1. CASE u = t
    BY <1>1, <2>1 DEF ChoiceInv
  <2>2. CASE u # t
    <3>1. pc[u] = "choose" => node'[call[u].node] = node[call[u].node]
      BY <1>3, Typed DEF Knows
    <3> QED
      BY <1>1, <1>4, <2>2, <3>1, ChoiceKept DEF OrderInv, Frame
  <2> QED
    BY <2>1, <2>2
<1> QED
  BY <1>5, <1>6 DEF OrderInv

\* sd_insert_endpoint keeps the order of the levels.
LEMMA InsertSorted ==
    ASSUME NEW q \in Seq(Nat), NEW level \in Nat, NEW e \in Nat, Sorted(q),
           \A j \in 1..Len(q) : q[j] \in DOMAIN endpoint /\ Lvl(q[j]) \in Nat, e \notin DOMAIN endpoint,
           \A x \in DOMAIN endpoint : endpoint'[x] = endpoint[x], endpoint'[e].load_level = level,
           NEW L, L = sd_insert_endpoint(q, level, e)
    PROVE  Sorted(L)'
<1>0. PICK l \in Nat : l = Len(q)
  OBVIOUS
<1>1. /\ \A j \in 1..l : Lvl(q[j])' = Lvl(q[j]) /\ Lvl(q[j]) \in Nat /\ q[j] # e
      /\ Lvl(e)' = level
  BY <1>0 DEF Lvl
<1>2. \A i, j \in 1..l : i < j => q[i] # q[j] /\ Lvl(q[i]) >= Lvl(q[j])
  BY <1>0 DEF Sorted
<1>3. CASE L = Append(q, e) /\ \A j \in 1..l : ~ (level >= Lvl(q[j]))
  <2>1. Len(L) = l + 1 /\ L[l + 1] = e /\ \A j \in 1..l : L[j] = q[j]
    BY <1>0, <1>3, AppendProperties
  <2>2. ASSUME NEW i \in 1..(l + 1), NEW j \in 1..(l + 1), i < j
        PROVE  L[i] # L[j] /\ Lvl(L[i])' >= Lvl(L[j])'
    <3>1. i \in 1..l
      BY <2>2
    <3>2. CASE j = l + 1
      <4>1. L[j] = e /\ L[i] = q[i] /\ ~ (level >= Lvl(q[i])) /\ Lvl(q[i]) \in Nat
        BY <1>1, <1>3, <2>1, <3>1, <3>2
      <4>2. Lvl(L[i])' = Lvl(q[i]) /\ Lvl(L[j])' = level
        BY <1>1, <3>1, <4>1
      <4> QED
        BY <1>1, <3>1, <4>1, <4>2
    <3>3. CASE j # l + 1
      <4>1. j \in 1..l
        BY <3>3
      <4>2. L[i] = q[i] /\ L[j] = q[j]
        BY <2>1, <3>1, <4>1
      <4>3. Lvl(L[i])' = Lvl(q[i]) /\ Lvl(L[j])' = Lvl(q[j])
        BY <1>1, <3>1, <4>1, <4>2
      <4> QED
        BY <1>2, <2>2, <3>1, <4>1, <4>2, <4>3
    <3> QED
      BY <3>2, <3>3
  <2> QED
    BY <2>1, <2>2 DEF Sorted
<1>4. ASSUME NEW p \in 1..l, L = InsertAt(q, p, e), level >= Lvl(q[p]),
             \A j \in 1..(p - 1) : ~ (level >= Lvl(q[j]))
      PROVE  Sorted(L)'
  <2>1. /\ Len(L) = l + 1 /\ L[p] = e /\ \A j \in 1..(p - 1) : L[j] = q[j]
        /\ \A j \in (p + 1)..(l + 1) : L[j] = q[j - 1]
    <3>0. p \in 1..Len(q)
      BY <1>0, <1>4
    <3>1. Len(InsertAt(q, p, e)) = Len(q) + 1
      BY <3>0, InsertFacts
    <3>2. InsertAt(q, p, e)[p] = e
      BY <3>0, InsertFacts
    <3>3. \A j \in 1..(p - 1) : InsertAt(q, p, e)[j] = q[j]
      BY <3>0, InsertFacts
    <3>4. \A j \in (p + 1)..(Len(q) + 1) : InsertAt(q, p, e)[j] = q[j - 1]
      BY <3>0, InsertFacts
    <3> QED
      BY <1>0, <1>4, <3>1, <3>2, <3>3, <3>4
  <2>2. ASSUME NEW j \in 1..(p - 1)
        PROVE  j \in 1..l /\ L[j] = q[j] /\ Lvl(L[j])' = Lvl(q[j]) /\ Lvl(q[j]) > level
    <3>1. j \in 1..l /\ L[j] = q[j] /\ ~ (level >= Lvl(q[j]))
      BY <1>4, <2>1
    <3> QED
      BY <1>1, <3>1
  <2>3. ASSUME NEW j \in (p + 1)..(l + 1)
        PROVE  j - 1 \in 1..l /\ L[j] = q[j - 1] /\ Lvl(L[j])' = Lvl(q[j - 1]) /\ level >= Lvl(q[j - 1])
    <3>1. j - 1 \in p..l /\ j - 1 \in 1..l /\ L[j] = q[j - 1]
      BY <2>1
    <3>2. PICK k \in 1..l : k = j - 1
      BY <3>1
    <3>3. Lvl(L[j])' = Lvl(q[k]) /\ Lvl(q[k]) \in Nat /\ Lvl(q[p]) \in Nat
      BY <1>1, <3>1, <3>2
    <3>4. k = p \/ p < k
      BY <3>1, <3>2
    <3>5. level >= Lvl(q[k])
      <4>1. CASE k = p
        BY <1>4, <4>1
      <4>2. CASE p < k
        <5>1. Lvl(q[p]) >= Lvl(q[k])
          BY <1>2, <4>2
        <5> QED
          BY <1>4, <3>3, <5>1
      <4> QED
        BY <3>4, <4>1, <4>2
    <3> QED
      BY <3>1, <3>2, <3>3, <3>5
  <2>4. ASSUME NEW i \in 1..(l + 1), NEW j \in 1..(l + 1), i < j
        PROVE  L[i] # L[j] /\ Lvl(L[i])' >= Lvl(L[j])'
    <3>1. CASE j \in 1..(p - 1)
      <4>1. i \in 1..(p - 1)
        BY <2>4, <3>1
      <4>2. L[i] = q[i] /\ L[j] = q[j] /\ Lvl(L[i])' = Lvl(q[i]) /\ Lvl(L[j])' = Lvl(q[j]) /\ i \in 1..l /\ j \in 1..l
        BY <2>2, <3>1, <4>1
      <4> QED
        BY <1>2, <2>4, <4>2
    <3>2. CASE j = p
      <4>1. i \in 1..(p - 1)
        BY <2>4, <3>2
      <4>2. /\ L[i] = q[i] /\ Lvl(L[i])' = Lvl(q[i]) /\ Lvl(q[i]) > level /\ i \in 1..l
            /\ L[j] = e /\ Lvl(L[j])' = level
        BY <1>1, <2>1, <2>2, <3>2, <4>1
      <4> QED
        BY <1>1, <4>2
    <3>3. CASE j \in (p + 1)..(l + 1)
      <4>1. j - 1 \in 1..l /\ L[j] = q[j - 1] /\ Lvl(L[j])' = Lvl(q[j - 1]) /\ level >= Lvl(q[j - 1])
        BY <2>3, <3>3
      <4>2. PICK k \in 1..l : k = j - 1
        BY <4>1
      <4>3. L[j] = q[k] /\ Lvl(L[j])' = Lvl(q[k]) /\ level >= Lvl(q[k]) /\ Lvl(q[k]) \in Nat
        BY <1>1, <4>1, <4>2
      <4>4. CASE i \in 1..(p - 1)
        <5>1. L[i] = q[i] /\ Lvl(L[i])' = Lvl(q[i]) /\ i \in 1..l /\ i < k
          BY <2>2, <3>3, <4>2, <4>4
        <5> QED
          BY <1>2, <4>3, <5>1
      <4>5. CASE i = p
        BY <1>1, <2>1, <4>3, <4>5
      <4>6. CASE i \in (p + 1)..(l + 1)
        <5>1. i - 1 \in 1..l /\ L[i] = q[i - 1] /\ Lvl(L[i])' = Lvl(q[i - 1])
          BY <2>3, <4>6
        <5>2. PICK h \in 1..l : h = i - 1
          BY <5>1
        <5>3. h < k
          BY <2>4, <4>2, <5>2
        <5> QED
          BY <1>2, <4>3, <5>1, <5>2, <5>3
      <4> QED
        BY <4>4, <4>5, <4>6
    <3> QED
      BY <3>1, <3>2, <3>3
  <2> QED
    BY <2>1, <2>4 DEF Sorted
<1>5. \/ /\ L = Append(q, e) /\ \A j \in 1..Len(q) : ~ (level >= endpoint[q[j]].load_level)
      \/ \E p \in 1..Len(q) :
            /\ L = InsertAt(q, p, e) /\ level >= endpoint[q[p]].load_level
            /\ \A j \in 1..(p - 1) : ~ (level >= endpoint[q[j]].load_level)
  BY InsertPlace
<1>6. \/ L = Append(q, e) /\ \A j \in 1..l : ~ (level >= Lvl(q[j]))
      \/ \E p \in 1..l : /\ L = InsertAt(q, p, e) /\ level >= Lvl(q[p])
                         /\ \A j \in 1..(p - 1) : ~ (level >= Lvl(q[j]))
  BY <1>0, <1>5 DEF Lvl
<1> QED
  BY <1>3, <1>4, <1>6

LEMMA AddEndpointOrder == ASSUME FindInv, OrderInv, NEW t \in Threads, AddEndpoint(t) PROVE OrderInv'
<1>1. PICK n \in DOMAIN node, e \in Nat, entry \in Entries, L \in Seq(Nat) :
          \E x : EndpointAdded(t, n, e, entry, x, L)
  BY AddEndpointEffect
<1>2. PICK level : EndpointAdded(t, n, e, entry, level, L)
  BY <1>1
<1>3. /\ n = call[t].node /\ level = atoi(entry.value) /\ L = sd_insert_endpoint(node[n].list, level, e)
      /\ e \notin DOMAIN endpoint /\ endpoint'[e].load_level = level
      /\ \A x \in DOMAIN endpoint : endpoint'[x] = endpoint[x]
      /\ DOMAIN node' = DOMAIN node /\ node'[n].list = L
      /\ \A m \in DOMAIN node : m # n => node'[m] = node[m]
  BY <1>2 DEF EndpointAdded
<1>4. pc[t] = "walk" /\ pc' = pc
  BY DEF AddEndpoint
<1>5. Frame(t)
  BY FrameHolds DEF Handling, Find
<1>6. level \in Nat
  BY <1>3, LevelAssumption DEF Entries
<1>7. PICK q : q = node[n].list
  OBVIOUS
<1>8. q \in Seq(Nat) /\ Sorted(q) /\ \A j \in 1..Len(q) : q[j] \in DOMAIN endpoint /\ Lvl(q[j]) \in Nat
  BY <1>7, ListTyped, Levels DEF OrderInv
<1>9. Sorted(L)'
  BY <1>3, <1>6, <1>7, <1>8, InsertSorted
<1>10. ASSUME NEW m \in DOMAIN node PROVE Sorted(node[m].list)'
  <2>1. CASE m = n
    <3>1. node'[m].list = L
      BY <1>3, <2>1
    <3> QED
      BY <1>9, <3>1 DEF Sorted, Lvl
  <2>2. CASE m # n
    <3>1. PICK r : r = node[m].list
      OBVIOUS
    <3>2. Sorted(r)'
      BY <1>3, <3>1, SortedKept DEF OrderInv
    <3>3. node'[m].list = r
      BY <1>3, <2>2, <3>1
    <3> QED
      BY <3>2, <3>3 DEF Sorted, Lvl
  <2> QED
    BY <2>1, <2>2
<1>11. ASSUME NEW u \in Threads PROVE ChoiceInv(u)'
  <2>1. CASE u = t
    BY <1>4, <2>1 DEF ChoiceInv
  <2>2. CASE u # t
    <3>1. pc[u] = "choose" => call[u].node # n /\ call[u].node \in DOMAIN node
      BY <1>3, <1>4, Typed DEF FindInv, BuiltInv, Knows
    <3>2. pc[u] = "choose" => node'[call[u].node] = node[call[u].node]
      BY <1>3, <3>1
    <3> QED
      BY <1>3, <1>5, <2>2, <3>2, ChoiceKept DEF OrderInv, Frame
  <2> QED
    BY <2>1, <2>2
<1> QED
  BY <1>3, <1>10, <1>11 DEF OrderInv

(* Requests per level, compared by cross-multiplication *)

LEMMA LessTimes == ASSUME NEW x \in Int, NEW y \in Int, NEW n \in Int, n > 0, x < y PROVE x * n < y * n
  BY SMT

LEMMA LeqTimes == ASSUME NEW x \in Int, NEW y \in Int, NEW n \in Int, n > 0, x <= y PROVE x * n <= y * n
  BY SMT

LEMMA Cross ==
    ASSUME NEW a \in Int, NEW b \in Int, NEW c \in Int, NEW l \in Int, NEW m \in Int, NEW n \in Int,
           l > 0, m > 0, n > 0, a * m < b * l, b * n <= c * m
    PROVE  a * n < c * l
<1>1. (a * m) * n < (b * l) * n
  BY LessTimes
<1>2. (b * n) * l <= (c * m) * l
  BY LeqTimes
<1>3. (a * n) * m < (c * l) * m
  BY <1>1, <1>2, SMT
<1>4. ~ (c * l <= a * n)
  <2> SUFFICES ASSUME c * l <= a * n PROVE FALSE
    OBVIOUS
  <2>1. (c * l) * m <= (a * n) * m
    BY LeqTimes
  <2> QED
    BY <1>3, <2>1, SMT
<1> QED
  BY <1>4, SMT

\* One more endpoint: the best of k and the next is the best of k + 1.
LEMMA BestOfNext ==
    ASSUME NEW q, NEW k \in Nat, NEW c, NEW d, NEW e, e = q[k + 1],
           \A j \in 1..(k + 1) : Lvl(q[j]) \in Nat,
           \A j \in 1..k : q[j] # e /\ Lvl(q[j]) >= Lvl(e),
           \A j \in 1..k : c.seen[q[j]] \in Int /\ d.seen[q[j]] = c.seen[q[j]],
           \A j \in 1..(k + 1) : q[j] \in DOMAIN d.seen, d.seen[e] \in Int, Limit \in Nat,
           BestOf(c, q, k), \A j \in 1..(k + 1) : q[j] # 0,
           NEW better, better <=> /\ d.seen[e] < Limit
                                  /\ IF c.optimal = 0 THEN Lvl(e) > 0
                                     ELSE Fewer(d.seen[e], Lvl(e), c.seen[c.optimal], Lvl(c.optimal)),
           d.optimal = IF better THEN e ELSE c.optimal
    PROVE  BestOf(d, q, k + 1)
<1>1. (k + 1) \in 1..(k + 1) /\ (\A j \in 1..k : j \in 1..(k + 1)) /\ (\A j \in 1..(k + 1) : j = k + 1 \/ j \in 1..k)
  OBVIOUS
<1>2. \A j \in 1..k : HasRoom(d, q[j]) <=> HasRoom(c, q[j])
  BY DEF HasRoom
<1>3. HasRoom(d, e) <=> d.seen[e] < Limit /\ Lvl(e) > 0
  BY DEF HasRoom
<1>4. CASE better
  <2>1. d.optimal = e /\ HasRoom(d, e) /\ e # 0
    BY <1>1, <1>3, <1>4 DEF Fewer
  <2>2. NoWorse(d, e, e)
    <3>1. Lvl(e) \in Nat
      BY <1>1
    <3> QED
      BY <3>1 DEF NoWorse
  <2>3. ASSUME NEW j \in 1..k, HasRoom(d, q[j]) PROVE NoWorse(d, e, q[j])
    <3>1. HasRoom(c, q[j])
      BY <1>2, <2>3
    <3>2. c.optimal # 0 /\ HasRoom(c, c.optimal) /\ NoWorse(c, c.optimal, q[j])
      BY <2>3, <3>1 DEF BestOf
    <3>3. PICK i \in 1..k : c.optimal = q[i]
      BY <3>2 DEF BestOf
    <3>4. /\ d.seen[e] * Lvl(c.optimal) < c.seen[c.optimal] * Lvl(e) /\ Lvl(e) > 0
      BY <1>4, <3>2 DEF Fewer
    <3>5. PICK x \in Int, y \in Int, z \in Int, f \in Int, g \in Int, h \in Int :
            /\ x = d.seen[e] /\ y = c.seen[c.optimal] /\ z = c.seen[q[j]]
            /\ f = Lvl(e) /\ g = Lvl(c.optimal) /\ h = Lvl(q[j])
      <4>1. d.seen[e] \in Int /\ c.seen[c.optimal] \in Int /\ c.seen[q[j]] \in Int
        BY <2>3, <3>3
      <4>2. Lvl(e) \in Int /\ Lvl(c.optimal) \in Int /\ Lvl(q[j]) \in Int
        BY <1>1, <2>3, <3>3
      <4> QED
        BY <4>1, <4>2
    <3>6. f > 0 /\ g > 0 /\ h > 0
      BY <3>1, <3>2, <3>4, <3>5 DEF HasRoom
    <3>7. x * g < y * f /\ y * h <= z * g
      BY <3>2, <3>4, <3>5 DEF NoWorse
    <3>8. x * h < z * f
      BY <3>6, <3>7, Cross
    <3>9. x * h \in Int /\ z * f \in Int
      OBVIOUS
    <3>10. d.seen[q[j]] = z
      BY <2>3, <3>5
    <3> QED
      BY <3>5, <3>8, <3>9, <3>10 DEF NoWorse
  <2> QED
    BY <1>1, <2>1, <2>2, <2>3 DEF BestOf
<1>5. CASE ~better /\ c.optimal = 0
  <2>1. ~HasRoom(d, e) /\ d.optimal = 0
    BY <1>3, <1>5
  <2> QED
    BY <1>1, <1>2, <1>5, <2>1 DEF BestOf
<1>6. CASE ~better /\ c.optimal # 0
  <2>1. d.optimal = c.optimal /\ d.optimal # 0
    BY <1>6
  <2>2. PICK i \in 1..k : c.optimal = q[i]
    BY <1>6 DEF BestOf
  <2>3. HasRoom(d, d.optimal)
    BY <1>2, <1>6, <2>1, <2>2 DEF BestOf
  <2>4. ASSUME NEW j \in 1..k, HasRoom(d, q[j]) PROVE NoWorse(d, d.optimal, q[j])
    <3>1. NoWorse(c, c.optimal, q[j])
      BY <1>2, <1>6, <2>4 DEF BestOf
    <3>2. d.seen[q[j]] = c.seen[q[j]] /\ d.seen[d.optimal] = c.seen[c.optimal]
      BY <2>1, <2>2, <2>4
    <3> QED
      BY <2>1, <3>1, <3>2 DEF NoWorse
  <2>5. ASSUME HasRoom(d, e) PROVE NoWorse(d, d.optimal, e)
    <3>1. ~ (d.seen[e] * Lvl(c.optimal) < c.seen[c.optimal] * Lvl(e))
      BY <1>3, <1>6, <2>5 DEF Fewer
    <3>2. PICK x \in Int, y \in Int, f \in Int, g \in Int :
            x = d.seen[e] /\ y = c.seen[c.optimal] /\ f = Lvl(e) /\ g = Lvl(c.optimal)
      <4>1. d.seen[e] \in Int /\ c.seen[c.optimal] \in Int
        BY <2>2
      <4>2. Lvl(e) \in Int /\ Lvl(c.optimal) \in Int
        BY <1>1, <2>2
      <4> QED
        BY <4>1, <4>2
    <3>3. y * f <= x * g
      BY <3>1, <3>2
    <3>4. g >= f
      BY <2>2, <3>2
    <3>5. d.seen[d.optimal] = y
      BY <2>1, <2>2, <3>2
    <3> QED
      BY <2>1, <3>2, <3>3, <3>4, <3>5 DEF NoWorse
  <2> QED
    BY <1>1, <2>1, <2>2, <2>3, <2>4, <2>5 DEF BestOf
<1> QED
  BY <1>4, <1>5, <1>6

LEMMA ConsiderOrder == ASSUME FindInv, OrderInv, NEW t \in Threads, Consider(t) PROVE OrderInv'
<1>1. /\ pc[t] = "choose" /\ pc' = pc /\ call[t].unseen # <<>> /\ UNCHANGED <<node, endpoint>>
  BY DEF Consider
<1>2. call[t] \in CallSet /\ Knows(t) /\ Frame(t) /\ ChoiceInv(t) /\ DOMAIN call = Threads
  BY Typed, FrameHolds DEF Handling, Choose, OrderInv, FindInv, Shapes
<1>3. PICK n \in DOMAIN node : n = call[t].node
  BY <1>1, <1>2 DEF Knows
<1>4. PICK q \in Seq(Nat) : q = node[n].list
  BY ListTyped
<1>5. PICK c \in CallSet : c = call[t]
  BY <1>2
<1>6. /\ Len(q) \in Nat /\ \A j \in 1..Len(q) : q[j] \in DOMAIN endpoint /\ Lvl(q[j]) \in Nat
      /\ \A i, j \in 1..Len(q) : i < j => q[i] # q[j] /\ Lvl(q[i]) >= Lvl(q[j])
  BY <1>4, ListTyped, Levels DEF OrderInv, Sorted
<1>7. PICK k \in 0..Len(q) : /\ Len(c.unseen) = Len(q) - k
                             /\ \A i \in 1..Len(c.unseen) : c.unseen[i] = q[k + i]
                             /\ BestOf(c, q, k)
  BY <1>1, <1>2, <1>3, <1>4, <1>5 DEF ChoiceInv
<1>8. PICK r \in Seq(Nat) : r = c.unseen
  BY DEF CallSet
<1>9. PICK e : e = Head(r)
  OBVIOUS
<1>10. /\ Len(r) \in Nat \ {0} /\ e = r[1] /\ Tail(r) \in Seq(Nat) /\ Len(Tail(r)) = Len(r) - 1
       /\ \A i \in 1..Len(Tail(r)) : Tail(r)[i] = r[i + 1]
  BY <1>1, <1>5, <1>8, <1>9, EmptySeq, HeadTailProperties
<1>11. k \in Nat /\ k + 1 \in 1..Len(q) /\ e = q[k + 1] /\ \A j \in 1..k : j \in 1..Len(q) /\ j < k + 1
  BY <1>6, <1>7, <1>8, <1>10
<1>12. PICK d : d = call'[t]
  OBVIOUS
<1>13. /\ d.unseen = Tail(r) /\ d.node = n
       /\ d.seen = [x \in DOMAIN endpoint |-> IF x = e THEN request_num[e]
                                               ELSE IF x \in DOMAIN c.seen THEN c.seen[x] ELSE -1]
       /\ d.optimal = IF Better(t, e) THEN e ELSE c.optimal
  <2>1. call' = [call EXCEPT ![t].unseen = Tail(call[t].unseen),
                            ![t].seen = [x \in DOMAIN endpoint |->
                                IF x = e THEN request_num[e]
                                ELSE IF x \in DOMAIN call[t].seen THEN call[t].seen[x] ELSE -1],
                            ![t].optimal = IF Better(t, e) THEN e ELSE call[t].optimal]
    BY <1>5, <1>8, <1>9 DEF Consider
  <2> QED
    BY <1>2, <1>3, <1>5, <1>8, <1>12, <2>1 DEF CallSet
<1>14. request_num[e] \in Int /\ e \in DOMAIN endpoint
  <2>1. e \in DOMAIN endpoint
    BY <1>6, <1>11
  <2>2. request_num \in Seq(Int) /\ DOMAIN request_num = DOMAIN endpoint
    BY DEF FindInv, Shapes
  <2> QED
    BY <2>1, <2>2
<1>15. DOMAIN d.seen = DOMAIN endpoint /\ d.seen[e] = request_num[e]
  BY <1>13, <1>14
<1>16. ASSUME NEW j \in 1..k PROVE /\ q[j] # e /\ Lvl(q[j]) >= Lvl(e)
                                   /\ c.seen[q[j]] \in Int /\ d.seen[q[j]] = c.seen[q[j]]
  <2>1. q[j] # e /\ Lvl(q[j]) >= Lvl(e) /\ q[j] \in DOMAIN endpoint
    BY <1>6, <1>11
  <2>2. q[j] \in DOMAIN c.seen
    BY <1>7 DEF BestOf
  <2>3. c.seen \in Seq(Int)
    BY DEF CallSet
  <2>4. c.seen[q[j]] \in Int
    BY <2>2, <2>3
  <2> QED
    BY <1>13, <2>1, <2>2, <2>4
<1>17. PICK better \in BOOLEAN : better = Better(t, e)
  BY DEF Better
<1>18. better <=> /\ d.seen[e] < Limit
                  /\ IF c.optimal = 0 THEN Lvl(e) > 0
                     ELSE Fewer(d.seen[e], Lvl(e), c.seen[c.optimal], Lvl(c.optimal))
  BY <1>5, <1>15, <1>17 DEF Better, Lvl
<1>19. BestOf(d, q, k + 1)
  <2>1. \A j \in 1..(k + 1) : Lvl(q[j]) \in Nat /\ q[j] \in DOMAIN d.seen /\ q[j] # 0
    <3>1. \A j \in 1..(k + 1) : j \in 1..Len(q)
      BY <1>6, <1>11
    <3>2. 0 \notin DOMAIN endpoint
      BY DEF FindInv, Shapes
    <3> QED
      BY <1>6, <1>15, <3>1, <3>2
  <2>2. d.optimal = IF better THEN e ELSE c.optimal
    BY <1>13, <1>17
  <2>3. d.seen[e] \in Int /\ Limit \in Nat
    BY <1>14, <1>15, Consts
  <2> QED
    BY <1>7, <1>11, <1>16, <1>18, <2>1, <2>2, <2>3, BestOfNext
<1>20. BestOf(d, q, k + 1)'
  BY <1>1, <1>19 DEF BestOf, HasRoom, NoWorse, Lvl
<1>21. ChoiceInv(t)'
  <2>1. node'[call'[t].node].list = q /\ call'[t] = d
    BY <1>1, <1>4, <1>12, <1>13
  <2>2. k + 1 \in 0..Len(q) /\ Len(d.unseen) = Len(q) - (k + 1)
    <3>1. Len(d.unseen) = Len(r) - 1
      BY <1>10, <1>13
    <3>2. Len(r) = Len(q) - k
      BY <1>7, <1>8
    <3>3. Len(q) \in Nat /\ k \in Nat /\ k + 1 \in 1..Len(q)
      BY <1>6, <1>11
    <3> QED
      BY <3>1, <3>2, <3>3
  <2>3. ASSUME NEW i \in 1..Len(d.unseen) PROVE d.unseen[i] = q[(k + 1) + i]
    <3>1. i \in 1..Len(Tail(r)) /\ i + 1 \in 1..Len(r) /\ k + (i + 1) = (k + 1) + i
      BY <1>10, <1>11, <1>13
    <3>2. d.unseen[i] = r[i + 1] /\ r[i + 1] = q[k + (i + 1)]
      BY <1>7, <1>8, <1>10, <1>13, <3>1
    <3> QED
      BY <3>1, <3>2
  <2> QED
    BY <1>20, <2>1, <2>2, <2>3 DEF ChoiceInv
<1>22. ASSUME NEW m \in DOMAIN node PROVE Sorted(node[m].list)'
  BY <1>1 DEF OrderInv, Sorted, Lvl
<1>23. ASSUME NEW u \in Threads \ {t} PROVE ChoiceInv(u)'
  BY <1>1, <1>2, ChoiceKept DEF OrderInv, Frame
<1> QED
  BY <1>1, <1>21, <1>22, <1>23 DEF OrderInv

LEMMA OrderStep == FindInv /\ OrderInv /\ [Next]_vars => OrderInv'
<1> SUFFICES ASSUME FindInv, OrderInv, [Next]_vars PROVE OrderInv'
  OBVIOUS
<1>1. ASSUME NEW t \in Threads, content_handler(t) PROVE OrderInv'
  <2>1. pc'[t] = "rdlock" /\ UNCHANGED <<node, endpoint>>
    BY <1>1, Typed DEF content_handler, Goto
  <2> QED
    BY <1>1, <2>1, FrameHolds, NotChoosing
<1>2. ASSUME NEW t \in Threads, Handling(t) PROVE OrderInv'
  <2>0. Frame(t) /\ DOMAIN pc = Threads
    BY <1>2, FrameHolds DEF FindInv, Shapes
  <2>1. CASE RdLock(t) \/ LockFind(t) \/ WrLock(t) \/ FailUnlockFind(t) \/ FailUnlockTable(t)
             \/ UnlockTable(t) \/ UnlockFind(t) \/ Take(t) \/ SpinUnlock(t) \/ Request(t)
    <3>1. pc'[t] # "choose" /\ UNCHANGED <<node, endpoint>>
      BY <2>0, <2>1 DEF RdLock, LockFind, WrLock, FailUnlockFind, FailUnlockTable, UnlockTable, UnlockFind,
                       Take, SpinUnlock, Request, Goto
    <3> QED
      BY <2>0, <3>1, NotChoosing
  <2>2. CASE Lookup(t)
    <3>1. Knows(t) /\ call[t] \in CallSet /\ pc[t] = "lookup"
      BY <2>2, Typed DEF Lookup, Goto
    <3>2. call[t].lookup \in {1, 2, 3}
      BY <3>1 DEF Knows, CallSet
    <3>3. pc'[t] # "choose" /\ UNCHANGED <<node, endpoint>>
      BY <2>0, <2>2, <3>2 DEF Lookup, Goto
    <3> QED
      BY <2>0, <3>3, NotChoosing
  <2>3. CASE etcd_get(t) \/ WalkEnds(t)
    <3>1. pc'[t] # "choose" /\ UNCHANGED <<node, endpoint>>
      BY <2>0, <2>3 DEF etcd_get, WalkEnds, Goto
    <3> QED
      BY <2>0, <3>1, NotChoosing
  <2>4. CASE ConnectFails(t)
    <3>1. pc'[t] # "choose" /\ UNCHANGED <<node, endpoint>>
      BY <2>4 DEF ConnectFails
    <3> QED
      BY <2>0, <3>1, NotChoosing
  <2> QED
    BY <1>2, <2>1, <2>2, <2>3, <2>4, AddOrder, AddEndpointOrder, SpinLockOrder, ConsiderOrder
       DEF Handling, Find, Choose
<1>3. CASE UNCHANGED <<node, endpoint, pc, call>>
  <2>1. ASSUME NEW n \in DOMAIN node PROVE Sorted(node[n].list)'
    BY <1>3 DEF OrderInv, Sorted, Lvl
  <2>2. ASSUME NEW u \in Threads PROVE ChoiceInv(u)'
    BY <1>3, ChoiceKept DEF OrderInv
  <2> QED
    BY <1>3, <2>1, <2>2 DEF OrderInv
<1>4. ASSUME NEW e \in DOMAIN endpoint, Response(e) PROVE OrderInv'
  BY <1>3, <1>4 DEF Response
<1>5. CASE UNCHANGED vars
  BY <1>3, <1>5 DEF vars
<1> QED
  BY <1>1, <1>2, <1>4, <1>5 DEF Next

\* sd_get_optimal_endpoint chooses the endpoint with the fewest requests per
\* level of those that had room when it looked at them: the list is sorted by
\* level, so that a later endpoint has to be strictly better to be preferred.
THEOREM LeastLoadedHolds == Spec => []LeastLoaded
<1>1. FindInv /\ OrderInv => LeastLoaded
  <2> SUFFICES ASSUME FindInv, OrderInv, NEW t \in Threads,
                      pc[t] = "choose", call[t].unseen = <<>>, call[t].optimal # 0
               PROVE  /\ call[t].seen[call[t].optimal] < Limit
                      /\ \A e \in ToSet(node[call[t].node].list) :
                            HasRoom(call[t], e) => NoWorse(call[t], call[t].optimal, e)
    BY DEF LeastLoaded, HasRoom, NoWorse, Lvl
  <2>1. call[t].node \in DOMAIN node
    BY Typed DEF Knows
  <2>2. PICK q \in Seq(Nat) : q = node[call[t].node].list
    BY <2>1, ListTyped
  <2>3. BestOf(call[t], q, Len(q))
    <3>1. PICK k \in 0..Len(q) : Len(call[t].unseen) = Len(q) - k /\ BestOf(call[t], q, k)
      BY <2>2 DEF OrderInv, ChoiceInv
    <3>2. Len(call[t].unseen) = 0 /\ Len(q) \in Nat
      OBVIOUS
    <3>3. k = Len(q)
      BY <3>1, <3>2
    <3> QED
      BY <3>1, <3>3
  <2>4. \A e \in ToSet(q) : \E j \in 1..Len(q) : e = q[j]
    BY DEF ToSet
  <2> QED
    BY <2>2, <2>3, <2>4 DEF BestOf, HasRoom
<1> QED
  BY <1>1, FindInit, FindStep, OrderInit, OrderStep, PTL DEF Spec
-----------------------------------------------------------------------------
(* The right service *)

Ats(s) == {entry.at : entry \in ToSet(Registry[s])}

RightInv(t) ==
    /\ pc[t] # "idle" => call[t].meant = call[t].name
    /\ pc[t] \in {"etcd", "walk", "unmutex", "spin", "choose"} => node[call[t].node].name = call[t].name
    /\ pc[t] = "walk" => /\ call[t].name \in DOMAIN Registry
                         /\ ToSet(call[t].nodes) \subseteq ToSet(Registry[call[t].name]) \cup {NULL}
    /\ pc[t] \in {"unspin", "request"} /\ ~wild => endpoint[call[t].optimal].at \in Ats(call[t].name)

ServiceInv ==
    /\ \A n \in DOMAIN node : \A e \in ToSet(node[n].list) : endpoint[e].at \in Ats(node[n].name)
    /\ \A t \in Threads : RightInv(t)

LEMMA RightKept ==
    ASSUME FindInv, NEW u \in Threads, RightInv(u), pc'[u] = pc[u], call'[u] = call[u], wild => wild',
           \A m \in DOMAIN node : node'[m].name = node[m].name,
           \A x \in DOMAIN endpoint : endpoint'[x] = endpoint[x]
    PROVE  RightInv(u)'
<1>1. /\ pc[u] \in {"etcd", "walk", "unmutex", "spin", "choose"} => call[u].node \in DOMAIN node
      /\ pc[u] \in {"unspin", "request"} /\ ~wild => call[u].optimal \in DOMAIN endpoint
  BY Typed DEF Knows
<1> QED
  BY <1>1 DEF RightInv, Ats

\* The fields that say what a thread looks for.
SameGoal(t) ==
    /\ call'[t].name = call[t].name /\ call'[t].meant = call[t].meant
    /\ call'[t].node = call[t].node

LEMMA QuietRight ==
    ASSUME FindInv, ServiceInv, NEW t \in Threads, Frame(t), UNCHANGED <<node, endpoint>>, wild => wild',
           RightInv(t)'
    PROVE  ServiceInv'
<1>1. ASSUME NEW u \in Threads PROVE RightInv(u)'
  <2>1. CASE u = t
    BY <2>1
  <2>2. CASE u # t
    BY <2>2, RightKept DEF ServiceInv, Frame
  <2> QED
    BY <2>1, <2>2
<1>2. ASSUME NEW n \in DOMAIN node, NEW e \in ToSet(node[n].list) PROVE endpoint[e].at \in Ats(node[n].name)
  BY <1>2 DEF ServiceInv
<1> QED
  BY <1>1, <1>2 DEF ServiceInv, Ats

LEMMA SameRight ==
    ASSUME ServiceInv, NEW t \in Threads, UNCHANGED <<node, endpoint, wild>>, SameGoal(t), pc[t] # "idle",
           pc'[t] \in {"etcd", "walk", "unmutex", "spin", "choose"}
               => pc[t] \in {"etcd", "walk", "unmutex", "spin", "choose"},
           pc'[t] # "walk",
           pc'[t] \in {"unspin", "request"} => pc[t] \in {"unspin", "request"} /\ call'[t].optimal = call[t].optimal
    PROVE  RightInv(t)'
<1>1. RightInv(t)
  BY DEF ServiceInv
<1> QED
  BY <1>1 DEF RightInv, SameGoal, Ats

LEMMA IdleRight == ASSUME NEW t \in Threads, pc'[t] = "idle" PROVE RightInv(t)'
  BY DEF RightInv

LEMMA HandlerRight ==
    ASSUME NamesRight, FindInv, ServiceInv, NEW t \in Threads, content_handler(t) PROVE ServiceInv'
<1>1. PICK f \in Forms :
        call' = [call EXCEPT ![t] = [NoCall EXCEPT !.name = NameIn[f], !.lookup = 1, !.meant = ServiceOf[f]]]
  BY DEF content_handler
<1>2. call'[t].name = NameIn[f] /\ call'[t].meant = ServiceOf[f]
  <2>1. PICK c : c = [NoCall EXCEPT !.name = NameIn[f], !.lookup = 1, !.meant = ServiceOf[f]]
    OBVIOUS
  <2>2. c.name = NameIn[f] /\ c.meant = ServiceOf[f]
    BY <2>1 DEF NoCall
  <2>3. call'[t] = c
    BY <1>1, <2>1, Typed
  <2> QED
    BY <2>2, <2>3
<1>3. NameIn[f] = ServiceOf[f]
  BY DEF NamesRight
<1>4. pc'[t] = "rdlock" /\ UNCHANGED <<node, endpoint, wild>>
  BY Typed DEF content_handler, Goto
<1>5. RightInv(t)'
  BY <1>2, <1>3, <1>4 DEF RightInv
<1> QED
  BY <1>4, <1>5, FrameHolds, QuietRight

\* The first node of the bucket is the service's, as buckets are apart.
LEMMA LookupRight ==
    ASSUME NamesRight, FindInv, ServiceInv, NEW t \in Threads, Lookup(t) PROVE ServiceInv'
<1>1. PICK found : found = IF Chain(t) = <<>> THEN 0 ELSE Head(Chain(t))
  OBVIOUS
<1>2. /\ pc[t] = "lookup" /\ call' = [call EXCEPT ![t].node = found] /\ UNCHANGED <<node, endpoint, wild>>
      /\ pc' = [pc EXCEPT ![t] = CASE call[t].lookup = 1 -> (IF found = 0 THEN "mutex" ELSE "spin")
                                   [] call[t].lookup = 2 -> (IF found = 0 THEN "wrlock" ELSE "unmutex")
                                   [] call[t].lookup = 3 -> "unmutex"]
  BY <1>1 DEF Lookup, Goto, Chain
<1>3. Knows(t) /\ call[t] \in CallSet /\ RightInv(t) /\ DOMAIN call = Threads /\ DOMAIN pc = Threads
  BY Typed DEF ServiceInv, FindInv, Shapes
<1>4. call[t].lookup \in {1, 2, 3} /\ (call[t].lookup = 3 => Chain(t) # <<>>) /\ call[t].name \in Names
  BY <1>2, <1>3 DEF Knows, CallSet
<1>5. /\ pc'[t] \in {"mutex", "spin", "wrlock", "unmutex"}
      /\ pc'[t] \in {"spin", "unmutex"} => Chain(t) # <<>> \/ found # 0
  BY <1>2, <1>3, <1>4
<1>6. call'[t].name = call[t].name /\ call'[t].meant = call[t].meant /\ call'[t].node = found
  BY <1>2, <1>3 DEF CallSet
<1>7. Chain(t) # <<>> => node[found].name = call[t].name
  <2> SUFFICES ASSUME Chain(t) # <<>> PROVE node[found].name = call[t].name
    OBVIOUS
  <2>1. PICK b \in Buckets : b = Bucket[call[t].name]
    BY <1>4, BucketRange
  <2>2. found \in ToSet(service_tb[b]) /\ found \in DOMAIN node
    BY <1>1, <2>1, ChainHead DEF Chain
  <2>3. Bucket[node[found].name] = b /\ node[found] \in Nodes
    BY <2>2 DEF FindInv, TableInv, Shapes
  <2>4. node[found].name \in DOMAIN Bucket /\ call[t].name \in DOMAIN Bucket
    BY <1>4, <2>3 DEF Nodes, Names, Bucket
  <2> QED
    BY <2>1, <2>3, <2>4 DEF NamesRight
<1>8. RightInv(t)'
  <2>1. call'[t].meant = call'[t].name
    BY <1>2, <1>3, <1>6 DEF RightInv
  <2>2. pc'[t] \in {"spin", "unmutex"} => node'[call'[t].node].name = call'[t].name
    BY <1>1, <1>2, <1>5, <1>6, <1>7
  <2> QED
    BY <1>5, <2>1, <2>2 DEF RightInv
<1>9. Frame(t)
  BY FrameHolds DEF Handling
<1> QED
  BY <1>2, <1>8, <1>9, QuietRight

LEMMA AddRight ==
    ASSUME FindInv, ServiceInv, NEW t \in Threads, sd_add_and_init_service(t) PROVE ServiceInv'
<1>1. PICK n \in Nat : n = Len(node) + 1
  BY DEF FindInv, Shapes
<1>2. /\ DOMAIN node' = DOMAIN node \cup {n} /\ n \notin DOMAIN node
      /\ node'[n].list = <<>> /\ node'[n].name = call[t].name
      /\ \A m \in DOMAIN node : node'[m] = node[m]
  BY <1>1, AddTable
<1>3. /\ pc[t] = "add" /\ pc'[t] = "etcd" /\ UNCHANGED <<endpoint, wild>>
      /\ call' = [call EXCEPT ![t].node = n]
  BY <1>1, AddEffect, Typed
<1>4. call'[t].name = call[t].name /\ call'[t].meant = call[t].meant /\ call'[t].node = n
  <2>1. call[t] \in CallSet /\ DOMAIN call = Threads
    BY Typed DEF FindInv, Shapes
  <2> QED
    BY <1>3, <2>1 DEF CallSet
<1>5. RightInv(t)'
  <2>1. RightInv(t)
    BY DEF ServiceInv
  <2> QED
    BY <1>2, <1>3, <1>4, <2>1 DEF RightInv
<1>6. Frame(t)
  BY FrameHolds DEF Handling, Find
<1>7. ASSUME NEW u \in Threads PROVE RightInv(u)'
  <2>1. CASE u = t
    BY <1>5, <2>1
  <2>2. CASE u # t
    BY <1>2, <1>3, <1>6, <2>2, RightKept DEF ServiceInv, Frame
  <2> QED
    BY <2>1, <2>2
<1>8. ASSUME NEW m \in DOMAIN node', NEW e \in ToSet(node'[m].list) PROVE endpoint'[e].at \in Ats(node'[m].name)
  <2>1. m # n
    BY <1>2, <1>8 DEF ToSet
  <2>2. m \in DOMAIN node /\ node'[m] = node[m]
    BY <1>2, <1>8, <2>1
  <2> QED
    BY <1>3, <1>8, <2>2 DEF ServiceInv
<1> QED
  BY <1>7, <1>8 DEF ServiceInv, Ats

LEMMA EtcdRight == ASSUME FindInv, ServiceInv, NEW t \in Threads, etcd_get(t) PROVE ServiceInv'
<1>1. PICK a \in EtcdAnswers :
          /\ a \in {"nodes", "null_value"} => call[t].name \in DOMAIN Registry
          /\ Goto(t, "etcd", IF a \in {"nodes", "null_value"} THEN "walk" ELSE "fail")
          /\ call' = [call EXCEPT ![t].nodes = Answer(call[t].name, a)]
  BY DEF etcd_get
<1>2. UNCHANGED <<node, endpoint, wild>> /\ pc[t] = "etcd" /\ pc'[t] \in {"walk", "fail"}
      /\ (pc'[t] = "walk" => a \in {"nodes", "null_value"})
  BY <1>1, Typed DEF etcd_get, Goto
<1>3. /\ call'[t].name = call[t].name /\ call'[t].meant = call[t].meant /\ call'[t].node = call[t].node
      /\ call'[t].nodes = Answer(call[t].name, a)
  <2>1. call[t] \in CallSet /\ DOMAIN call = Threads
    BY Typed DEF FindInv, Shapes
  <2> QED
    BY <1>1, <2>1 DEF CallSet
<1>4. ASSUME a \in {"nodes", "null_value"}
      PROVE  ToSet(Answer(call[t].name, a)) \subseteq ToSet(Registry[call[t].name]) \cup {NULL}
  <2>1. CASE a = "nodes"
    BY <2>1 DEF Answer
  <2>2. CASE a = "null_value"
    <3>1. PICK q : q = Registry[call[t].name]
      OBVIOUS
    <3>2. Answer(call[t].name, a) = [q EXCEPT ![Len(q)] = NULL]
      BY <2>2, <3>1 DEF Answer
    <3>3. PICK r : r = [q EXCEPT ![Len(q)] = NULL]
      OBVIOUS
    <3>4. DOMAIN r = DOMAIN q /\ \A i \in DOMAIN q : r[i] = NULL \/ r[i] = q[i]
      BY <3>3
    <3> QED
      BY <3>1, <3>2, <3>3, <3>4 DEF ToSet
  <2> QED
    BY <1>4, <2>1, <2>2
<1>5. RightInv(t)'
  <2>1. RightInv(t)
    BY DEF ServiceInv
  <2>2. call'[t].meant = call'[t].name /\ node'[call'[t].node].name = call'[t].name
    BY <1>2, <1>3, <2>1 DEF RightInv
  <2> QED
    BY <1>1, <1>2, <1>3, <1>4, <2>2 DEF RightInv
<1>6. Frame(t)
  BY FrameHolds DEF Handling, Find
<1> QED
  BY <1>2, <1>5, <1>6, QuietRight

\* What is left of etcd's answer.
LEMMA TailRight ==
    ASSUME FindInv, NEW t \in Threads, call[t].nodes # <<>>
    PROVE  /\ Head(call[t].nodes) \in ToSet(call[t].nodes)
           /\ ToSet(Tail(call[t].nodes)) \subseteq ToSet(call[t].nodes)
<1>1. PICK q \in Seq(Entries \cup {NULL}) : q = call[t].nodes
  BY Typed DEF CallSet
<1>2. /\ Len(q) \in Nat \ {0} /\ Head(q) = q[1] /\ Len(Tail(q)) = Len(q) - 1 /\ Tail(q) \in Seq(Entries \cup {NULL})
      /\ \A i \in 1..Len(Tail(q)) : Tail(q)[i] = q[i + 1]
  BY <1>1, EmptySeq, HeadTailProperties
<1>3. DOMAIN q = 1..Len(q) /\ DOMAIN Tail(q) = 1..Len(Tail(q))
  BY <1>2
<1>4. Head(q) \in ToSet(q)
  BY <1>2, <1>3 DEF ToSet
<1>5. \A i \in DOMAIN Tail(q) : Tail(q)[i] \in ToSet(q)
  BY <1>2, <1>3 DEF ToSet
<1> QED
  BY <1>1, <1>4, <1>5 DEF ToSet

\* A thread that walks goes on with the rest.
LEMMA WalkRight ==
    ASSUME FindInv, ServiceInv, NEW t \in Threads, pc[t] = "walk", pc'[t] = "walk", call[t].nodes # <<>>,
           call' = [call EXCEPT ![t].nodes = Tail(call[t].nodes)],
           \A m \in DOMAIN node : node'[m].name = node[m].name
    PROVE  RightInv(t)'
<1>1. /\ call'[t].name = call[t].name /\ call'[t].meant = call[t].meant /\ call'[t].node = call[t].node
      /\ call'[t].nodes = Tail(call[t].nodes)
  <2>1. call[t] \in CallSet /\ DOMAIN call = Threads
    BY Typed DEF FindInv, Shapes
  <2> QED
    BY <2>1 DEF CallSet
<1>2. RightInv(t) /\ call[t].node \in DOMAIN node
  BY Typed DEF ServiceInv, Knows
<1>3. node'[call'[t].node].name = call'[t].name
  BY <1>1, <1>2 DEF RightInv
<1> QED
  BY <1>1, <1>2, <1>3, TailRight DEF RightInv

LEMMA AddEndpointRight ==
    ASSUME NamesRight, FindInv, ServiceInv, NEW t \in Threads, AddEndpoint(t) PROVE ServiceInv'
<1>1. PICK n \in DOMAIN node, e \in Nat, entry \in Entries, L \in Seq(Nat) :
          \E x : EndpointAdded(t, n, e, entry, x, L)
  BY AddEndpointEffect
<1>2. PICK level : EndpointAdded(t, n, e, entry, level, L)
  BY <1>1
<1>3. /\ n = call[t].node /\ entry = Head(call[t].nodes) /\ L = sd_insert_endpoint(node[n].list, level, e)
      /\ node[n].list \in Seq(Nat) /\ endpoint'[e].at = AddressIn[entry.key]
      /\ \A x \in DOMAIN endpoint : endpoint'[x] = endpoint[x]
      /\ DOMAIN node' = DOMAIN node /\ node'[n].list = L /\ node'[n].name = node[n].name
      /\ \A m \in DOMAIN node : m # n => node'[m] = node[m]
  BY <1>2 DEF EndpointAdded
<1>4. /\ pc[t] = "walk" /\ pc' = pc /\ wild' = wild /\ call[t].nodes # <<>> /\ Head(call[t].nodes) # NULL
      /\ call' = [call EXCEPT ![t].nodes = Tail(call[t].nodes)]
  BY DEF AddEndpoint
<1>5. \A m \in DOMAIN node : node'[m].name = node[m].name
  BY <1>3
<1>6. RightInv(t)'
  BY <1>4, <1>5, WalkRight
<1>7. Frame(t)
  BY FrameHolds DEF Handling, Find
<1>8. ASSUME NEW u \in Threads PROVE RightInv(u)'
  <2>1. CASE u = t
    BY <1>6, <2>1
  <2>2. CASE u # t
    BY <1>3, <1>4, <1>5, <1>7, <2>2, RightKept DEF ServiceInv, Frame
  <2> QED
    BY <2>1, <2>2
<1>9. endpoint'[e].at \in Ats(node[n].name)
  <2>1. RightInv(t)
    BY DEF ServiceInv
  <2>2. /\ call[t].name \in DOMAIN Registry /\ node[n].name = call[t].name
        /\ ToSet(call[t].nodes) \subseteq ToSet(Registry[call[t].name]) \cup {NULL}
    BY <1>3, <1>4, <2>1 DEF RightInv
  <2>3. entry \in ToSet(Registry[call[t].name])
    BY <1>3, <1>4, <2>2, TailRight
  <2>4. AddressIn[entry.key] = entry.at
    BY <2>2, <2>3 DEF NamesRight
  <2> QED
    BY <1>3, <2>2, <2>3, <2>4 DEF Ats
<1>10. ASSUME NEW m \in DOMAIN node', NEW x \in ToSet(node'[m].list) PROVE endpoint'[x].at \in Ats(node'[m].name)
  <2>0. m \in DOMAIN node /\ node'[m].name = node[m].name
    BY <1>3, <1>5, <1>10
  <2>1. CASE x \in ToSet(node[m].list)
    <3>1. x \in DOMAIN endpoint
      BY <2>0, <2>1 DEF FindInv, TableInv
    <3> QED
      BY <1>3, <2>0, <2>1, <3>1 DEF ServiceInv
  <2>2. CASE x \notin ToSet(node[m].list)
    <3>1. m = n
      BY <1>3, <1>10, <2>0, <2>2
    <3>2. x = e
      BY <1>3, <1>10, <2>2, <3>1, InsertSet
    <3> QED
      BY <1>9, <2>0, <3>1, <3>2
  <2> QED
    BY <2>1, <2>2
<1> QED
  BY <1>8, <1>10 DEF ServiceInv, Ats

LEMMA TakeRight == ASSUME FindInv, ServiceInv, NEW t \in Threads, Take(t) PROVE ServiceInv'
<1>0. PICK w \in Seq(Int) : w = <<>>
  BY EmptySeq
<1>1. /\ pc[t] = "choose" /\ pc'[t] = "unspin" /\ call' = [call EXCEPT ![t].seen = w] /\ ~wild
      /\ UNCHANGED <<node, endpoint>> /\ (call[t].optimal = 0 => wild')
  BY <1>0, Typed DEF Take, Goto
<1>2. /\ call'[t].name = call[t].name /\ call'[t].meant = call[t].meant /\ call'[t].optimal = call[t].optimal
  <2>1. call[t] \in CallSet /\ DOMAIN call = Threads
    BY Typed DEF FindInv, Shapes
  <2> QED
    BY <1>1, <2>1 DEF CallSet
<1>3. RightInv(t) /\ Knows(t)
  BY Typed DEF ServiceInv
<1>4. call[t].optimal # 0 => endpoint[call[t].optimal].at \in Ats(call[t].name)
  <2> SUFFICES ASSUME call[t].optimal # 0 PROVE endpoint[call[t].optimal].at \in Ats(call[t].name)
    OBVIOUS
  <2>1. call[t].node \in DOMAIN node /\ call[t].optimal \in ToSet(node[call[t].node].list)
    BY <1>1, <1>3 DEF Knows
  <2>2. node[call[t].node].name = call[t].name
    BY <1>1, <1>3 DEF RightInv
  <2> QED
    BY <2>1, <2>2 DEF ServiceInv
<1>5. RightInv(t)'
  BY <1>1, <1>2, <1>3, <1>4 DEF RightInv, Ats
<1>6. Frame(t)
  BY FrameHolds DEF Handling, Choose
<1> QED
  BY <1>1, <1>5, <1>6, QuietRight

LEMMA ServiceInit == Init => ServiceInv
  BY DEF Init, ServiceInv, RightInv

LEMMA ServiceStep == NamesRight /\ FindInv /\ ServiceInv /\ [Next]_vars => ServiceInv'
<1> SUFFICES ASSUME NamesRight, FindInv, ServiceInv, [Next]_vars PROVE ServiceInv'
  OBVIOUS
<1>1. ASSUME NEW t \in Threads, Handling(t) PROVE ServiceInv'
  <2>0. Frame(t) /\ DOMAIN pc = Threads /\ DOMAIN call = Threads /\ call[t] \in CallSet
    BY <1>1, FrameHolds, Typed DEF FindInv, Shapes
  <2>1. CASE RdLock(t) \/ WrLock(t) \/ WalkEnds(t) \/ FailUnlockFind(t) \/ UnlockFind(t) \/ SpinUnlock(t)
    <3>1. UNCHANGED <<node, endpoint, wild, call>> /\ pc[t] # "idle"
      BY <2>1 DEF RdLock, WrLock, WalkEnds, FailUnlockFind, UnlockFind, SpinUnlock, Goto
    <3>2. \/ pc'[t] \in {"lookup", "add", "unwrlock", "fail", "failed"}
          \/ pc[t] = "unmutex" /\ pc'[t] = "spin"
          \/ pc[t] = "unspin" /\ pc'[t] = "request"
      BY <2>0, <2>1 DEF RdLock, WrLock, WalkEnds, FailUnlockFind, UnlockFind, SpinUnlock, Goto
    <3>3. RightInv(t)'
      BY <3>1, <3>2, SameRight DEF SameGoal
    <3> QED
      BY <2>0, <3>1, <3>3, QuietRight
  <2>2. CASE LockFind(t) \/ UnlockTable(t)
    <3>1. UNCHANGED <<node, endpoint, wild>> /\ pc[t] # "idle" /\ pc'[t] = "rdlock"
      BY <2>0, <2>2 DEF LockFind, UnlockTable, Goto
    <3>2. PICK l : call' = [call EXCEPT ![t].lookup = l]
      BY <2>2 DEF LockFind, UnlockTable
    <3>3. SameGoal(t)
      BY <2>0, <3>2 DEF SameGoal, CallSet
    <3>4. RightInv(t)'
      BY <3>1, <3>3, SameRight
    <3> QED
      BY <2>0, <3>1, <3>4, QuietRight
  <2>3. CASE SpinLock(t)
    <3>1. UNCHANGED <<node, endpoint, wild>> /\ pc[t] = "spin" /\ pc'[t] = "choose"
          /\ call' = [call EXCEPT ![t].unseen = node[call[t].node].list, ![t].optimal = 0]
      BY <2>0, <2>3 DEF SpinLock, Goto
    <3>2. SameGoal(t)
      BY <2>0, <3>1 DEF SameGoal, CallSet
    <3>3. RightInv(t)'
      BY <3>1, <3>2, SameRight
    <3> QED
      BY <2>0, <3>1, <3>3, QuietRight
  <2>4. CASE Consider(t)
    <3>1. UNCHANGED <<node, endpoint, wild>> /\ pc[t] = "choose" /\ pc'[t] = "choose"
      BY <2>4 DEF Consider
    <3>2. \E x, y, z : call' = [call EXCEPT ![t].unseen = x, ![t].seen = y, ![t].optimal = z]
      BY <2>4 DEF Consider
    <3>3. SameGoal(t)
      BY <2>0, <3>2 DEF SameGoal, CallSet
    <3>4. RightInv(t)'
      BY <3>1, <3>3, SameRight
    <3> QED
      BY <2>0, <3>1, <3>4, QuietRight
  <2>5. CASE FailUnlockTable(t) \/ Request(t)
    <3>1. UNCHANGED <<node, endpoint, wild>> /\ pc'[t] = "idle"
      BY <2>0, <2>5 DEF FailUnlockTable, Request, Goto
    <3> QED
      BY <2>0, <3>1, IdleRight, QuietRight
  <2>6. CASE ConnectFails(t)
    <3>1. /\ UNCHANGED <<node, endpoint, wild, pc>> /\ pc[t] = "walk" /\ call[t].nodes # <<>>
          /\ call' = [call EXCEPT ![t].nodes = Tail(call[t].nodes)]
      BY <2>6 DEF ConnectFails
    <3>2. RightInv(t)'
      BY <3>1, WalkRight
    <3> QED
      BY <2>0, <3>1, <3>2, QuietRight
  <2> QED
    BY <1>1, <2>1, <2>2, <2>3, <2>4, <2>5, <2>6, LookupRight, AddRight, EtcdRight, AddEndpointRight, TakeRight
       DEF Handling, Find, Choose
<1>2. CASE UNCHANGED <<node, endpoint, pc, call, wild>>
  <2>1. ASSUME NEW u \in Threads PROVE RightInv(u)'
    BY <1>2, RightKept DEF ServiceInv
  <2> QED
    BY <1>2, <2>1 DEF ServiceInv, Ats
<1>3. ASSUME NEW e \in DOMAIN endpoint, Response(e) PROVE ServiceInv'
  BY <1>2, <1>3 DEF Response
<1>4. CASE UNCHANGED vars
  BY <1>2, <1>4 DEF vars
<1> QED
  BY <1>1, <1>3, <1>4, HandlerRight DEF Next

\* A request goes to an address that was registered for the service its form
\* means, however many handlers look up and build at once, when forms and keys
\* are decoded right and services have buckets of their own: content_handler
\* takes the first node of the bucket without comparing its name.
THEOREM RightServiceHolds == ASSUME NamesRight PROVE Spec => []RightService
<1>1. FindInv /\ ServiceInv => RightService
  <2> SUFFICES ASSUME FindInv, ServiceInv, NEW t \in Threads, pc[t] \in {"unspin", "request"}, ~wild
               PROVE  \E i \in DOMAIN Registry[call[t].meant] :
                          Registry[call[t].meant][i].at = endpoint[call[t].optimal].at
    BY DEF RightService
  <2>1. call[t].meant = call[t].name /\ endpoint[call[t].optimal].at \in Ats(call[t].name)
    BY DEF ServiceInv, RightInv
  <2> QED
    BY <2>1 DEF Ats, ToSet
<1>2. FindInv /\ ServiceInv /\ [Next]_vars => ServiceInv'
  BY ServiceStep
<1> QED
  BY <1>1, <1>2, FindInit, FindStep, ServiceInit, PTL DEF Spec
=============================================================================
