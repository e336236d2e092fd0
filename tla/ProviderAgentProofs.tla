------------------------ MODULE ProviderAgentProofs ------------------------
(***************************************************************************)
(* Proofs about the provider agent, for any number of connections, threads *)
(* and requests, forms and results of any lengths that fit into a header,  *)
(* and bytes that come in pieces of any sizes.                             *)
(*                                                                         *)
(* CutInv places each decoder in its stream: behind the requests it has    *)
(* cut, with the part of the next one that has come.  AnswersInv adds that *)
(* a request which was cut is in one place on its way to Dubbo and back,   *)
(* and that the Dubbo decoder stands in the frames of the answers.  The    *)
(* parser is shown to undo the encoding of every form.                     *)
(***************************************************************************)
EXTENDS ProviderAgent, SequenceTheorems, WellFoundedInduction, TLAPS

-----------------------------------------------------------------------------
(* Induction and recursion over the naturals *)

\* A set of numbers has a least one.
LEMMA LeastOf ==
    ASSUME NEW T \in SUBSET Nat, T # {}
    PROVE  \E m \in T : \A k \in T : m <= k
<1> DEFINE R == OpToRel(<, Nat)
<1>1. \E m \in T : \A k \in T : ~ (<<k, m>> \in R)
  <2>1. IsWellFoundedOn(R, Nat)
    BY NatLessThanWellFounded
  <2> HIDE DEF R
  <2> QED
    BY <2>1, WFMin
<1>2. PICK m \in T : \A k \in T : ~ (<<k, m>> \in R)
  BY <1>1
<1>3. \A k \in T : m <= k
  <2> SUFFICES ASSUME NEW k \in T, k < m PROVE FALSE
    OBVIOUS
  <2>1. <<k, m>> \in R
    BY DEF OpToRel
  <2> QED
    BY <2>1, <1>2
<1> QED
  BY <1>3

\* Induction, for the set of the numbers with some property.
LEMMA SetInduction ==
    ASSUME NEW T, 0 \in T, \A n \in Nat : n \in T => n + 1 \in T
    PROVE  \A n \in Nat : n \in T
<1> SUFFICES ASSUME Nat \ T # {} PROVE FALSE
  OBVIOUS
<1>1. PICK m \in Nat \ T : \A k \in Nat \ T : m <= k
  BY LeastOf
<1>2. m # 0 /\ m - 1 \in Nat
  BY <1>1
<1>3. m - 1 \in T
  BY <1>1, <1>2
<1>4. (m - 1) + 1 \in T
  BY <1>3, <1>2
<1> QED
  BY <1>4, <1>1

\* The tables of the first n + 1 values of a recursion that begins with c.
Table(S, c, G, n) ==
    {f \in [0..n -> S] : f[0] = c /\ \A i \in 0..(n - 1) : f[i + 1] = G[i][f[i]]}

LEMMA TableExists ==
    ASSUME NEW S, NEW c \in S, NEW G \in [Nat -> [S -> S]], NEW n \in Nat
    PROVE  Table(S, c, G, n) # {}
<1> DEFINE T == {k \in Nat : Table(S, c, G, k) # {}}
<1>1. 0 \in T
  <2>1. [i \in 0..0 |-> c] \in Table(S, c, G, 0)
    BY DEF Table
  <2> QED
    BY <2>1
<1>2. ASSUME NEW k \in Nat, k \in T PROVE k + 1 \in T
  <2>1. PICK f \in [0..k -> S] : f[0] = c /\ \A i \in 0..(k - 1) : f[i + 1] = G[i][f[i]]
    BY <1>2 DEF Table
  <2> DEFINE g == [i \in 0..(k + 1) |-> IF i = k + 1 THEN G[k][f[k]] ELSE f[i]]
  <2>2. G[k][f[k]] \in S
    BY <2>1
  <2>3. g \in [0..(k + 1) -> S]
    BY <2>1, <2>2
  <2>4. g[0] = c
    BY <2>1
  <2>5. ASSUME NEW i \in 0..k PROVE g[i + 1] = G[i][g[i]]
    BY <2>1, <2>5
  <2>6. g \in Table(S, c, G, k + 1)
    <3>1. (k + 1) - 1 = k
      OBVIOUS
    <3> HIDE DEF g
    <3> QED
      BY <2>3, <2>4, <2>5, <3>1 DEF Table
  <2> QED
    BY <2>6
<1>3. \A k \in Nat : k \in T
  <2> HIDE DEF T
  <2> QED
    BY <1>1, <1>2, SetInduction
<1> QED
  BY <1>3

LEMMA TableUnique ==
    ASSUME NEW S, NEW c \in S, NEW G \in [Nat -> [S -> S]], NEW m \in Nat, NEW n \in Nat, m <= n,
           NEW f \in Table(S, c, G, m), NEW g \in Table(S, c, G, n)
    PROVE  f[m] = g[m]
<1> DEFINE T == {k \in Nat : k <= m => f[k] = g[k]}
<1>1. 0 \in T
  BY DEF Table
<1>2. ASSUME NEW k \in Nat, k \in T PROVE k + 1 \in T
  BY <1>2 DEF Table
<1>3. \A k \in Nat : k \in T
  <2> HIDE DEF T
  <2> QED
    BY <1>1, <1>2, SetInduction
<1> QED
  BY <1>3

\* f is the function that a recursion defines.
Recurses(f, S, c, G) == f \in [Nat -> S] /\ f[0] = c /\ \A i \in Nat : f[i + 1] = G[i][f[i]]

LEMMA RecursionExists ==
    ASSUME NEW S, NEW c \in S, NEW G \in [Nat -> [S -> S]]
    PROVE  \E f : Recurses(f, S, c, G)
<1> DEFINE t == [n \in Nat |-> CHOOSE f : f \in Table(S, c, G, n)]
<1> DEFINE f == [n \in Nat |-> t[n][n]]
<1>1. ASSUME NEW n \in Nat PROVE t[n] \in Table(S, c, G, n)
  <2>1. \E h : h \in Table(S, c, G, n)
    BY TableExists
  <2> QED
    BY <2>1
<1> HIDE DEF t
<1>2. f \in [Nat -> S]
  BY <1>1 DEF Table
<1>3. f[0] = c
  BY <1>1 DEF Table
<1>4. ASSUME NEW i \in Nat PROVE f[i + 1] = G[i][f[i]]
  <2>1. t[i] \in Table(S, c, G, i) /\ t[i + 1] \in Table(S, c, G, i + 1) /\ i <= i + 1 /\ i + 1 \in Nat
    BY <1>1
  <2>2. t[i][i] = t[i + 1][i]
    BY <2>1, TableUnique
  <2>3. t[i + 1][i + 1] = G[i][t[i + 1][i]]
    BY <2>1 DEF Table
  <2> QED
    BY <2>2, <2>3
<1>5. Recurses(f, S, c, G)
  <2> HIDE DEF f
  <2> QED
    BY <1>2, <1>3, <1>4 DEF Recurses
<1> QED
  BY <1>5

\* What G makes of place i of a function rests on the higher places only.
Backward(G, S, n) ==
    /\ G \in [1..n -> [[1..n -> S] -> S]]
    /\ \A i \in 1..n : \A g, h \in [1..n -> S] :
           (\A j \in 1..n : j > i => g[j] = h[j]) => G[i][g] = G[i][h]

\* Such a recursion defines a function.
LEMMA BackwardExists ==
    ASSUME NEW n \in Nat, NEW S, NEW c \in S, NEW G, Backward(G, S, n)
    PROVE  \E h \in [1..n -> S] : \A i \in 1..n : h[i] = G[i][h]
<1>0. /\ G \in [1..n -> [[1..n -> S] -> S]]
      /\ \A i \in 1..n : \A g, h \in [1..n -> S] :
             (\A j \in 1..n : j > i => g[j] = h[j]) => G[i][g] = G[i][h]
  BY DEF Backward
<1> DEFINE T == {k \in Nat : k <= n => \E h \in [1..n -> S] : \A i \in 1..n : i > n - k => h[i] = G[i][h]}
<1>1. 0 \in T
  <2>1. [i \in 1..n |-> c] \in [1..n -> S]
    OBVIOUS
  <2>2. \A i \in 1..n : ~ (i > n - 0)
    OBVIOUS
  <2>3. \E h \in [1..n -> S] : \A i \in 1..n : i > n - 0 => h[i] = G[i][h]
    BY <2>1, <2>2
  <2> QED
    BY <2>3
<1>2. ASSUME NEW k \in Nat, k \in T PROVE k + 1 \in T
  <2> SUFFICES ASSUME k + 1 <= n
               PROVE  \E h \in [1..n -> S] : \A i \in 1..n : i > n - (k + 1) => h[i] = G[i][h]
    OBVIOUS
  <2>1. PICK h \in [1..n -> S] : \A i \in 1..n : i > n - k => h[i] = G[i][h]
    BY <1>2
  <2>2. PICK m \in 1..n : m = n - k
    OBVIOUS
  <2> DEFINE g == [h EXCEPT ![m] = G[m][h]]
  <2>3. g \in [1..n -> S] /\ g[m] = G[m][h] /\ \A j \in 1..n : j # m => g[j] = h[j]
    BY <1>0
  <2> HIDE DEF g
  <2>4. ASSUME NEW i \in 1..n, i > n - (k + 1) PROVE g[i] = G[i][g]
    <3>1. i >= m
      BY <2>2, <2>4
    <3>2. \A j \in 1..n : j > i => g[j] = h[j]
      BY <2>3, <3>1
    <3>3. G[i][g] = G[i][h]
      BY <1>0, <2>3, <3>2
    <3>4. CASE i = m
      BY <3>3, <3>4, <2>3
    <3>5. CASE i # m
      <4>1. i > n - k
        BY <3>1, <3>5, <2>2
      <4> QED
        BY <4>1, <2>1, <2>3, <3>3, <3>5
    <3> QED
      BY <3>4, <3>5
  <2> QED
    BY <2>3, <2>4
<1>3. \A k \in Nat : k \in T
  <2> HIDE DEF T
  <2> QED
    BY <1>1, <1>2, SetInduction
<1>4. n \in T /\ n <= n
  <2> HIDE DEF T
  <2> QED
    BY <1>3
<1>5. PICK h \in [1..n -> S] : \A i \in 1..n : i > n - n => h[i] = G[i][h]
  BY <1>4
<1>6. \A i \in 1..n : i > n - n
  OBVIOUS
<1> QED
  BY <1>5, <1>6
-----------------------------------------------------------------------------
(* The numbers in a header *)

LEMMA ShiftedDef ==
    ASSUME NEW v \in Nat
    PROVE  /\ Shifted(v, 0) = v
           /\ \A k \in Nat : Shifted(v, k) \in Nat /\ Shifted(v, k + 1) = Shifted(v, k) \div 256
<1> DEFINE Good(f) == f = [i \in Nat |-> IF i = 0 THEN v ELSE f[i - 1] \div 256]
<1> DEFINE rest == CHOOSE f : Good(f)
<1>1. \A k : Shifted(v, k) = rest[k]
  BY DEF Shifted
<1>2. \E f : Good(f)
  <2> DEFINE G == [i \in Nat |-> [x \in Nat |-> x \div 256]]
  <2>1. G \in [Nat -> [Nat -> Nat]]
    OBVIOUS
  <2>2. PICK f : Recurses(f, Nat, v, G)
    <3> HIDE DEF G
    <3> QED
      BY <2>1, RecursionExists
  <2>3. ASSUME NEW i \in Nat PROVE f[i] = IF i = 0 THEN v ELSE f[i - 1] \div 256
    <3>1. CASE i = 0
      BY <3>1, <2>2 DEF Recurses
    <3>2. CASE i # 0
      <4>1. i - 1 \in Nat /\ (i - 1) + 1 = i
        BY <3>2
      <4>2. f[i] = G[i - 1][f[i - 1]]
        BY <2>2, <4>1 DEF Recurses
      <4> QED
        BY <4>1, <4>2, <3>2, <2>2 DEF Recurses
    <3> QED
      BY <3>1, <3>2
  <2>4. Good(f)
    BY <2>3, <2>2 DEF Recurses
  <2> QED
    BY <2>4
<1>3. Good(rest)
  BY <1>2
<1> HIDE DEF rest
<1>4. rest[0] = v /\ \A k \in Nat : rest[k + 1] = rest[k] \div 256
  BY <1>3
<1>5. \A k \in Nat : rest[k] \in Nat
  <2> DEFINE T == {k \in Nat : rest[k] \in Nat}
  <2>1. 0 \in T
    BY <1>4
  <2>2. \A k \in Nat : k \in T => k + 1 \in T
    BY <1>4
  <2>3. \A k \in Nat : k \in T
    <3> HIDE DEF T
    <3> QED
      BY <2>1, <2>2, SetInduction
  <2> QED
    BY <2>3
<1> QED
  BY <1>1, <1>4, <1>5

\* A byte more of the number.
LEMMA DigitStep ==
    ASSUME NEW q \in Nat, NEW r \in Nat, r = q \div 256
    PROVE  r * 256 + (q % 256) = q
  OBVIOUS

Byte == 0..255
Octets == Seq(Byte)

\* The digit that stands at place i of w.
Digit(v, w, i) == Shifted(v, w - i) % 256

\* bytes2long and bytes2int undo long2bytes and int2bytes.
LEMMA NumberOfDigits ==
    ASSUME NEW v \in Nat, NEW w \in Nat, Fits(v, w), NEW b \in Octets,
           Len(b) = w, \A i \in 1..w : b[i] = Digit(v, w, i)
    PROVE  Number(b) = v
<1> DEFINE Good(f) == f = [i \in 0..w |-> IF i = 0 THEN 0 ELSE f[i - 1] * 256 + b[i]]
<1> DEFINE of == CHOOSE f : Good(f)
<1>1. Number(b) = of[w]
  BY DEF Number
<1>2. \E f : Good(f)
  <2> DEFINE G == [i \in Nat |-> [x \in Nat |-> IF i < w THEN x * 256 + b[i + 1] ELSE x]]
  <2>1. G \in [Nat -> [Nat -> Nat]]
    <3>1. ASSUME NEW i \in Nat, NEW x \in Nat PROVE (IF i < w THEN x * 256 + b[i + 1] ELSE x) \in Nat
      <4>1. CASE i < w
        <5>1. i + 1 \in 1..Len(b)
          BY <4>1
        <5>2. b[i + 1] \in Byte
          BY <5>1, ElementOfSeq DEF Octets
        <5>3. \A y \in Byte : y \in Nat
          BY DEF Byte
        <5>4. b[i + 1] \in Nat
          BY <5>2, <5>3
        <5> QED
          BY <5>4
      <4> QED
        BY <4>1
    <3> QED
      BY <3>1
  <2>2. PICK g : Recurses(g, Nat, 0, G)
    <3> HIDE DEF G
    <3> QED
      BY <2>1, RecursionExists
  <2> DEFINE f == [i \in 0..w |-> g[i]]
  <2>3. ASSUME NEW i \in 0..w PROVE f[i] = IF i = 0 THEN 0 ELSE f[i - 1] * 256 + b[i]
    <3>1. CASE i = 0
      BY <3>1, <2>2 DEF Recurses
    <3>2. CASE i # 0
      <4>1. i - 1 \in Nat /\ (i - 1) + 1 = i /\ i - 1 \in 0..w /\ i - 1 < w
        BY <3>2
      <4>2. g[i] = G[i - 1][g[i - 1]] /\ g[i - 1] \in Nat
        BY <2>2, <4>1 DEF Recurses
      <4>3. g[i] = g[i - 1] * 256 + b[i]
        BY <4>1, <4>2
      <4> QED
        BY <4>1, <4>3, <3>2
    <3> QED
      BY <3>1, <3>2
  <2>4. Good(f)
    BY <2>3
  <2> QED
    BY <2>4
<1>3. Good(of)
  BY <1>2
<1> HIDE DEF of
<1>4. of[0] = 0 /\ \A k \in Nat : k < w => of[k + 1] = of[k] * 256 + b[k + 1]
  BY <1>3
<1> DEFINE T == {k \in Nat : k <= w => of[k] = Shifted(v, w - k)}
<1>5. 0 \in T
  BY <1>4 DEF Fits
<1>6. ASSUME NEW k \in Nat, k \in T PROVE k + 1 \in T
  <2> SUFFICES ASSUME k + 1 <= w PROVE of[k + 1] = Shifted(v, w - (k + 1))
    OBVIOUS
  <2>1. PICK m \in Nat : m = w - (k + 1) /\ w - k = m + 1
    OBVIOUS
  <2>2. Shifted(v, m) \in Nat /\ Shifted(v, m + 1) = Shifted(v, m) \div 256 /\ Shifted(v, m + 1) \in Nat
    <3>1. m + 1 \in Nat
      OBVIOUS
    <3>2. \A j \in Nat : Shifted(v, j) \in Nat /\ Shifted(v, j + 1) = Shifted(v, j) \div 256
      BY ShiftedDef
    <3> QED
      BY <3>1, <3>2
  <2>3. of[k] = Shifted(v, m + 1)
    BY <1>6, <2>1
  <2>4. b[k + 1] = Shifted(v, m) % 256
    BY <2>1 DEF Digit
  <2>5. of[k + 1] = Shifted(v, m + 1) * 256 + (Shifted(v, m) % 256)
    BY <1>4, <2>3, <2>4
  <2> QED
    BY <2>1, <2>2, <2>5, DigitStep
<1>7. \A k \in Nat : k \in T
  <2> HIDE DEF T
  <2> QED
    BY <1>5, <1>6, SetInduction
<1>8. of[w] = Shifted(v, 0)
  BY <1>7
<1> QED
  BY <1>1, <1>8, ShiftedDef

LEMMA ConcatFacts ==
    ASSUME NEW s \in Octets, NEW t \in Octets
    PROVE  /\ s \o t \in Octets /\ Len(s \o t) = Len(s) + Len(t)
           /\ Len(s) \in Nat /\ Len(t) \in Nat
           /\ \A j \in 1..Len(s) : (s \o t)[j] = s[j]
           /\ \A j \in 1..Len(t) : (s \o t)[Len(s) + j] = t[j]
  BY DEF Octets

\* w is s, of length a, followed by t, of length b.
Joined(w, s, t, a, b) ==
    /\ w \in Octets /\ Len(w) = a + b
    /\ \A j \in 1..a : w[j] = s[j]
    /\ \A j \in 1..b : w[a + j] = t[j]

LEMMA ConcatJoins ==
    ASSUME NEW s \in Octets, NEW t \in Octets
    PROVE  Joined(s \o t, s, t, Len(s), Len(t)) /\ Len(s) \in Nat /\ Len(t) \in Nat
  BY ConcatFacts DEF Joined

LEMMA SubSeqFacts ==
    ASSUME NEW s \in Octets, NEW m \in Nat \ {0}, NEW n \in Nat, m <= n + 1, n <= Len(s)
    PROVE  /\ SubSeq(s, m, n) \in Octets /\ Len(SubSeq(s, m, n)) = n + 1 - m
           /\ \A j \in 1..(n + 1 - m) : SubSeq(s, m, n)[j] = s[m - 1 + j]
<1>1. \A i \in m..n : s[i] \in Byte
  BY DEF Octets
<1> QED
  BY <1>1 DEF Octets

LEMMA WidthFacts ==
    /\ IdWidth \in Nat /\ SizeWidth \in Nat /\ HEADER_LENGTH \in Nat
    /\ IdWidth > 0 /\ SizeWidth > 0 /\ HEADER_LENGTH > 0
  BY WidthsAssumption DEF HEADER_LENGTH

LEMMA DigitsFacts ==
    ASSUME NEW v \in Nat, NEW w \in Nat
    PROVE  /\ Digits(v, w) \in Octets /\ Len(Digits(v, w)) = w
           /\ \A i \in 1..w : Digits(v, w)[i] = Digit(v, w, i)
<1>1. ASSUME NEW i \in 1..w PROVE Digit(v, w, i) \in Byte
  <2>1. w - i \in Nat
    OBVIOUS
  <2>2. Shifted(v, w - i) \in Nat
    BY <2>1, ShiftedDef
  <2> QED
    BY <2>2 DEF Byte, Digit
<1>2. Digits(v, w) \in [1..w -> Byte] /\ \A i \in 1..w : Digits(v, w)[i] = Digit(v, w, i)
  BY <1>1 DEF Digits, Digit
<1>3. Digits(v, w) \in Octets
  BY <1>2 DEF Octets
<1> QED
  BY <1>2, <1>3 DEF Octets

\* What a frame consists of.
LEMMA FrameFacts ==
    ASSUME NEW id \in Nat, NEW data \in Octets
    PROVE  /\ Frame(id, data) \in Octets
           /\ Len(Frame(id, data)) = HEADER_LENGTH + Len(data)
           /\ \A j \in 1..IdWidth : Frame(id, data)[j] = Digit(id, IdWidth, j)
           /\ \A j \in 1..SizeWidth :
                 Frame(id, data)[IdWidth + j] = Digit(Len(data), SizeWidth, j)
           /\ \A j \in 1..Len(data) : Frame(id, data)[HEADER_LENGTH + j] = data[j]
<1> DEFINE a == Digits(id, IdWidth)
           b == Digits(Len(data), SizeWidth)
<1>1. a \in Octets /\ Len(a) = IdWidth /\ \A j \in 1..IdWidth : a[j] = Digit(id, IdWidth, j)
  BY DigitsFacts, WidthFacts
<1>2. /\ b \in Octets /\ Len(b) = SizeWidth
      /\ \A j \in 1..SizeWidth : b[j] = Digit(Len(data), SizeWidth, j)
  <2>1. Len(data) \in Nat
    BY DEF Octets
  <2> QED
    BY <2>1, DigitsFacts, WidthFacts
<1>3. Frame(id, data) = (a \o b) \o data
  BY DEF Frame, acm_long2bytes, acm_int2bytes
<1> HIDE DEF a, b
<1>4. /\ a \o b \in Octets /\ Len(a \o b) = HEADER_LENGTH
      /\ \A j \in 1..IdWidth : (a \o b)[j] = a[j]
      /\ \A j \in 1..SizeWidth : (a \o b)[IdWidth + j] = b[j]
  <2>1. HEADER_LENGTH = IdWidth + SizeWidth
    BY DEF HEADER_LENGTH
  <2> QED
    BY <1>1, <1>2, <2>1, ConcatFacts
<1>5. PICK h \in Octets : h = a \o b
  BY <1>4
<1>6. /\ h \o data \in Octets /\ Len(h \o data) = HEADER_LENGTH + Len(data)
      /\ \A j \in 1..HEADER_LENGTH : (h \o data)[j] = h[j]
      /\ \A j \in 1..Len(data) : (h \o data)[HEADER_LENGTH + j] = data[j]
  BY <1>4, <1>5, ConcatFacts
<1>7. \A j \in 1..IdWidth : j \in 1..HEADER_LENGTH
  BY WidthFacts DEF HEADER_LENGTH
<1>8. \A j \in 1..SizeWidth : IdWidth + j \in 1..HEADER_LENGTH
  BY WidthFacts DEF HEADER_LENGTH
<1>9. \A j \in 1..IdWidth : Frame(id, data)[j] = Digit(id, IdWidth, j)
  BY <1>1, <1>3, <1>4, <1>5, <1>6, <1>7
<1>10. \A j \in 1..SizeWidth : Frame(id, data)[IdWidth + j] = Digit(Len(data), SizeWidth, j)
  <2>1. TAKE j \in 1..SizeWidth
  <2>2. PICK i \in 1..HEADER_LENGTH : i = IdWidth + j
    BY <1>8
  <2>3. Frame(id, data)[i] = h[i]
    BY <1>3, <1>5, <1>6
  <2>4. h[i] = b[j]
    BY <1>4, <1>5, <2>2
  <2> QED
    BY <1>2, <2>2, <2>3, <2>4
<1> QED
  BY <1>3, <1>5, <1>6, <1>9, <1>10

\* A header says the id and the length of the data.
LEMMA HeaderRead ==
    ASSUME NEW id \in Nat, NEW data \in Octets, Fits(id, IdWidth), Fits(Len(data), SizeWidth),
           NEW b \in Octets, Len(b) >= HEADER_LENGTH,
           \A j \in 1..HEADER_LENGTH : b[j] = Frame(id, data)[j]
    PROVE  bytes2long(b) = id /\ bytes2int(b) = Len(data)
<1> DEFINE x == SubSeq(b, 1, IdWidth)
           y == SubSeq(b, IdWidth + 1, HEADER_LENGTH)
<1>0. Len(b) \in Nat /\ HEADER_LENGTH = IdWidth + SizeWidth
  BY DEF Octets, HEADER_LENGTH
<1>1. /\ x \in Octets /\ Len(x) = IdWidth
      /\ \A i \in 1..IdWidth : x[i] = b[i]
  <2>1. 1 <= IdWidth + 1 /\ IdWidth <= Len(b) /\ IdWidth + 1 - 1 = IdWidth
    BY <1>0, WidthFacts
  <2>2. /\ x \in Octets /\ Len(x) = IdWidth + 1 - 1
        /\ \A j \in 1..(IdWidth + 1 - 1) : x[j] = b[1 - 1 + j]
    BY <2>1, WidthFacts, SubSeqFacts
  <2>3. \A j \in 1..IdWidth : 1 - 1 + j = j
    BY WidthFacts
  <2> QED
    BY <2>1, <2>2, <2>3
<1>2. /\ y \in Octets /\ Len(y) = SizeWidth
      /\ \A i \in 1..SizeWidth : y[i] = b[IdWidth + i]
  <2>1. PICK m \in Nat \ {0} : m = IdWidth + 1
    BY WidthFacts
  <2>2. m <= HEADER_LENGTH + 1 /\ HEADER_LENGTH <= Len(b) /\ HEADER_LENGTH + 1 - m = SizeWidth /\ m - 1 = IdWidth
    BY <1>0, <2>1, WidthFacts
  <2>3. /\ y \in Octets /\ Len(y) = SizeWidth
        /\ \A j \in 1..SizeWidth : y[j] = b[IdWidth + j]
    BY <2>1, <2>2, WidthFacts, SubSeqFacts
  <2> QED
    BY <1>0, <2>3
<1> HIDE DEF x, y
<1>3. \A i \in 1..IdWidth : x[i] = Digit(id, IdWidth, i)
  <2>1. \A j \in 1..IdWidth : j \in 1..HEADER_LENGTH
    BY WidthFacts DEF HEADER_LENGTH
  <2> QED
    BY <1>1, <2>1, FrameFacts
<1>4. \A i \in 1..SizeWidth : y[i] = Digit(Len(data), SizeWidth, i)
  <2>1. \A j \in 1..SizeWidth : IdWidth + j \in 1..HEADER_LENGTH
    BY WidthFacts DEF HEADER_LENGTH
  <2>2. \A i \in 1..SizeWidth : y[i] = Frame(id, data)[IdWidth + i]
    BY <1>2, <2>1
  <2> QED
    BY <2>2, FrameFacts
<1>5. Number(x) = id
  BY <1>1, <1>3, WidthFacts, NumberOfDigits
<1>6. Number(y) = Len(data)
  <2>1. Len(data) \in Nat
    BY DEF Octets
  <2> QED
    BY <1>2, <1>4, <2>1, WidthFacts, NumberOfDigits
<1> QED
  BY <1>5, <1>6 DEF bytes2long, bytes2int, x, y
-----------------------------------------------------------------------------
(* The stream of a consumer *)

\* F holds what FlattenSeq has made of the first sequences.
Flattens(F, s, n) ==
    /\ F \in [0..n -> Octets] /\ F[0] = <<>>
    /\ \A k \in 1..n : F[k] = F[k - 1] \o s[k]

LEMMA FlattenedNonempty ==
    ASSUME NEW n \in Nat \ {0}, NEW s \in Seq(Octets), Len(s) = n
    PROVE  \E F : Flattens(F, s, n) /\ FlattenSeq(s) = F[n]
<1> DEFINE Good(f) == f = [i \in 1..n |-> IF i = 1 THEN s[i] ELSE f[i - 1] \o s[i]]
<1> DEFINE flatten == CHOOSE f : Good(f)
<1>1. FlattenSeq(s) = flatten[n]
  BY DEF FlattenSeq
<1>0. \A i \in 1..n : s[i] \in Octets
  BY ElementOfSeq
<1>2. \E f : Good(f)
  <2> DEFINE G == [i \in Nat |-> [x \in Octets |-> IF i < n THEN x \o s[i + 1] ELSE x]]
  <2>1. G \in [Nat -> [Octets -> Octets]]
    <3>1. ASSUME NEW i \in Nat, NEW x \in Octets PROVE (IF i < n THEN x \o s[i + 1] ELSE x) \in Octets
      <4>1. CASE i < n
        <5>1. s[i + 1] \in Octets
          BY <1>0, <4>1
        <5> QED
          BY <5>1, ConcatFacts
      <4> QED
        BY <4>1
    <3> QED
      BY <3>1
  <2>2. PICK g : Recurses(g, Octets, <<>>, G)
    <3>1. <<>> \in Octets
      BY EmptySeq DEF Octets
    <3> HIDE DEF G
    <3> QED
      BY <2>1, <3>1, RecursionExists
  <2> DEFINE f == [i \in 1..n |-> g[i]]
  <2>3. ASSUME NEW i \in 1..n PROVE g[i] = g[i - 1] \o s[i]
    <3>1. i - 1 \in Nat /\ (i - 1) + 1 = i /\ i - 1 < n
      OBVIOUS
    <3>2. g[i] = G[i - 1][g[i - 1]] /\ g[i - 1] \in Octets
      BY <2>2, <3>1 DEF Recurses
    <3> QED
      BY <3>1, <3>2
  <2>4. g[1] = s[1]
    <3>1. 1 \in 1..n /\ 1 - 1 = 0
      OBVIOUS
    <3>2. g[1] = g[1 - 1] \o s[1]
      BY <2>3, <3>1
    <3>3. g[1 - 1] = <<>>
      BY <2>2, <3>1 DEF Recurses
    <3> QED
      BY <3>1, <3>2, <3>3, <1>0, ConcatEmptySeq DEF Octets
  <2>5. ASSUME NEW i \in 1..n PROVE f[i] = IF i = 1 THEN s[i] ELSE f[i - 1] \o s[i]
    <3>1. CASE i = 1
      BY <2>4, <3>1
    <3>2. CASE i # 1
      <4>1. i - 1 \in 1..n
        BY <3>2
      <4> HIDE DEF G
      <4> QED
        BY <2>3, <3>2, <4>1
    <3> QED
      BY <3>1, <3>2
  <2>6. Good(f)
    BY <2>5
  <2> QED
    BY <2>6
<1>3. Good(flatten)
  BY <1>2
<1> HIDE DEF flatten
<1> DEFINE T == {k \in Nat : k + 1 <= n => flatten[k + 1] \in Octets}
<1>4. 0 \in T
  BY <1>3, <1>0
<1>5. ASSUME NEW k \in Nat, k \in T PROVE k + 1 \in T
  <2> SUFFICES ASSUME k + 1 + 1 <= n PROVE flatten[k + 1 + 1] \in Octets
    OBVIOUS
  <2>1. PICK m \in 1..n : m = k + 1 + 1 /\ m # 1 /\ m - 1 = k + 1
    OBVIOUS
  <2>2. flatten[m] = flatten[m - 1] \o s[m]
    BY <1>3, <2>1
  <2>3. flatten[k + 1] \in Octets
    BY <1>5
  <2> QED
    BY <2>1, <2>2, <2>3, <1>0, ConcatFacts
<1>6. \A k \in Nat : k \in T
  <2> HIDE DEF T
  <2> QED
    BY <1>4, <1>5, SetInduction
<1>7. ASSUME NEW k \in 1..n PROVE flatten[k] \in Octets
  <2>1. k - 1 \in Nat /\ k - 1 + 1 = k /\ k - 1 + 1 <= n
    OBVIOUS
  <2> QED
    BY <2>1, <1>6
<1> DEFINE F == [k \in 0..n |-> IF k = 0 THEN <<>> ELSE flatten[k]]
<1>8. F \in [0..n -> Octets] /\ F[0] = <<>>
  <2>1. <<>> \in Octets
    BY EmptySeq DEF Octets
  <2> QED
    BY <1>7, <2>1
<1>9. ASSUME NEW k \in 1..n PROVE F[k] = F[k - 1] \o s[k]
  <2>1. CASE k = 1
    <3>1. F[k] = s[k] /\ F[k - 1] = <<>>
      BY <2>1, <1>3
    <3> QED
      BY <3>1, <1>0, ConcatEmptySeq DEF Octets
  <2>2. CASE k # 1
    <3>1. k - 1 \in 1..n /\ k \in 0..n /\ k # 0 /\ k - 1 # 0 /\ k - 1 \in 0..n
      BY <2>2
    <3> QED
      BY <3>1, <2>2, <1>3
  <2> QED
    BY <2>1, <2>2
<1>10. FlattenSeq(s) = F[n]
  BY <1>1
<1> QED
  <2>1. Flattens(F, s, n)
    <3> HIDE DEF F
    <3> QED
      BY <1>8, <1>9 DEF Flattens
  <2> QED
    BY <2>1, <1>10

LEMMA Flattened ==
    ASSUME NEW s \in Seq(Octets)
    PROVE  \E F : Flattens(F, s, Len(s)) /\ FlattenSeq(s) = F[Len(s)]
<1>0. Len(s) \in Nat
  BY LenProperties
<1>1. CASE Len(s) = 0
  <2>1. s = <<>>
    BY <1>1, EmptySeq
  <2>2. FlattenSeq(s) = <<>>
    BY <1>1, <2>1 DEF FlattenSeq
  <2> DEFINE F == [k \in 0..0 |-> <<>>]
  <2>3. F \in [0..0 -> Octets] /\ F[0] = <<>>
    <3>1. <<>> \in Octets
      BY EmptySeq DEF Octets
    <3> QED
      BY <3>1
  <2>4. Flattens(F, s, 0)
    <3> HIDE DEF F
    <3> QED
      BY <2>3 DEF Flattens
  <2> QED
    BY <1>1, <2>2, <2>3, <2>4
<1>2. CASE Len(s) # 0
  BY <1>0, <1>2, FlattenedNonempty
<1> QED
  BY <1>1, <1>2

\* What has been flattened stays where it is.
Keeps(F, m, u) == Len(F[m]) <= Len(F[u]) /\ \A j \in 1..Len(F[m]) : F[u][j] = F[m][j]

LEMMA FlattenKeeps ==
    ASSUME NEW n \in Nat, NEW s \in Seq(Octets), Len(s) = n, NEW F, Flattens(F, s, n),
           NEW m \in 0..n
    PROVE  Keeps(F, m, n)
<1> DEFINE T == {i \in Nat : m + i <= n => /\ Len(F[m]) <= Len(F[m + i])
                                            /\ \A j \in 1..Len(F[m]) : F[m + i][j] = F[m][j]}
<1>0. \A i \in 0..n : F[i] \in Octets /\ Len(F[i]) \in Nat
  BY DEF Flattens, Octets
<1>1. 0 \in T
  <2>1. m + 0 = m
    OBVIOUS
  <2> QED
    BY <2>1, <1>0
<1>2. ASSUME NEW i \in Nat, i \in T PROVE i + 1 \in T
  <2> SUFFICES ASSUME m + (i + 1) <= n
               PROVE  /\ Len(F[m]) <= Len(F[m + (i + 1)])
                      /\ \A j \in 1..Len(F[m]) : F[m + (i + 1)][j] = F[m][j]
    OBVIOUS
  <2>1. PICK u \in 1..n : u = m + (i + 1) /\ u - 1 = m + i /\ u - 1 \in 0..n
    OBVIOUS
  <2>2. F[u] = F[u - 1] \o s[u] /\ s[u] \in Octets /\ F[u - 1] \in Octets
    BY <2>1, <1>0, ElementOfSeq DEF Flattens
  <2>3. /\ Len(F[u - 1]) <= Len(F[u]) /\ Len(F[u - 1]) \in Nat /\ Len(F[u]) \in Nat
        /\ \A j \in 1..Len(F[u - 1]) : F[u][j] = F[u - 1][j]
    <3>1. /\ Len(F[u]) = Len(F[u - 1]) + Len(s[u]) /\ Len(F[u - 1]) \in Nat /\ Len(s[u]) \in Nat
          /\ \A j \in 1..Len(F[u - 1]) : F[u][j] = F[u - 1][j]
      BY <2>2, ConcatFacts
    <3>2. Len(F[u - 1]) <= Len(F[u]) /\ Len(F[u]) \in Nat
      <4>1. PICK x \in Nat, y \in Nat : x = Len(F[u - 1]) /\ y = Len(s[u])
        BY <3>1
      <4>2. Len(F[u]) = x + y
        BY <3>1, <4>1
      <4>3. x <= x + y /\ x + y \in Nat
        OBVIOUS
      <4> QED
        BY <4>1, <4>2, <4>3
    <3> QED
      BY <3>1, <3>2
  <2>4. /\ Len(F[m]) <= Len(F[u - 1]) /\ Len(F[m]) \in Nat
        /\ \A j \in 1..Len(F[m]) : F[u - 1][j] = F[m][j]
    BY <1>2, <2>1, <1>0
  <2> QED
    BY <2>1, <2>3, <2>4
<1>3. \A i \in Nat : i \in T
  <2> HIDE DEF T
  <2> QED
    BY <1>1, <1>2, SetInduction
<1>4. n - m \in Nat /\ m + (n - m) = n /\ m + (n - m) <= n
  OBVIOUS
<1> QED
  BY <1>3, <1>4 DEF Keeps

FrameOf(c, k) == Frame(Sent[c][k].id, Sent[c][k].form)

\* S is where the frames of a consumer start in its stream.
Starts(c, S) ==
    LET n == Len(Sent[c]) IN
    /\ S \in [1..(n + 1) -> Nat] /\ S[1] = 0 /\ S[n + 1] = Len(Stream[c])
    /\ \A k \in 1..n : /\ S[k + 1] = S[k] + Len(FrameOf(c, k))
                        /\ S[k + 1] <= Len(Stream[c])
                        /\ \A j \in 1..Len(FrameOf(c, k)) : Stream[c][S[k] + j] = FrameOf(c, k)[j]

LEMMA SentFacts ==
    ASSUME NEW c \in Channels
    PROVE  /\ Len(Sent[c]) \in Nat /\ DOMAIN Sent[c] = 1..Len(Sent[c])
           /\ \A k \in 1..Len(Sent[c]) :
                 /\ Sent[c][k].id \in Nat /\ Fits(Sent[c][k].id, IdWidth)
                 /\ Sent[c][k].form \in DOMAIN Meaning
                 /\ Sent[c][k].form \in Octets /\ Fits(Len(Sent[c][k].form), SizeWidth)
                 /\ Sent[c][k] = [id |-> Sent[c][k].id, form |-> Sent[c][k].form]
<1>1. Sent[c] \in Seq([id : Nat, form : DOMAIN Meaning])
  BY SentAssumption
<1>2. Len(Sent[c]) \in Nat /\ DOMAIN Sent[c] = 1..Len(Sent[c])
  BY <1>1, LenProperties
<1>3. ASSUME NEW k \in 1..Len(Sent[c])
      PROVE  /\ Sent[c][k].id \in Nat /\ Sent[c][k].form \in DOMAIN Meaning
             /\ Sent[c][k] = [id |-> Sent[c][k].id, form |-> Sent[c][k].form]
  <2>1. Sent[c][k] \in [id : Nat, form : DOMAIN Meaning]
    BY <1>1, ElementOfSeq
  <2> QED
    BY <2>1
<1>4. \A k \in 1..Len(Sent[c]) : Fits(Sent[c][k].id, IdWidth)
  BY <1>2, SentAssumption
<1>5. \A k \in 1..Len(Sent[c]) : Sent[c][k].form \in Octets /\ Fits(Len(Sent[c][k].form), SizeWidth)
  BY <1>3, MeaningAssumption DEF Octets, Byte
<1> QED
  BY <1>2, <1>3, <1>4, <1>5

LEMMA FrameOfFacts ==
    ASSUME NEW c \in Channels, NEW k \in 1..Len(Sent[c])
    PROVE  /\ FrameOf(c, k) \in Octets
           /\ Len(FrameOf(c, k)) = HEADER_LENGTH + Len(Sent[c][k].form)
           /\ Len(Sent[c][k].form) \in Nat
           /\ \A j \in 1..Len(Sent[c][k].form) : FrameOf(c, k)[HEADER_LENGTH + j] = Sent[c][k].form[j]
<1>1. Sent[c][k].id \in Nat /\ Sent[c][k].form \in Octets
  BY SentFacts
<1>2. Len(Sent[c][k].form) \in Nat
  BY <1>1, LenProperties DEF Octets
<1> QED
  BY <1>1, <1>2, FrameFacts DEF FrameOf

LEMMA StreamCut ==
    ASSUME NEW c \in Channels
    PROVE  Stream[c] \in Octets /\ \E S : Starts(c, S)
<1> DEFINE n == Len(Sent[c])
           s == [i \in DOMAIN Sent[c] |-> FrameOf(c, i)]
<1>0. n \in Nat /\ DOMAIN Sent[c] = 1..n
  BY SentFacts
<1>1. s \in Seq(Octets) /\ Len(s) = n
  <2>1. \A i \in 1..n : FrameOf(c, i) \in Octets
    BY FrameOfFacts
  <2>2. s \in [1..n -> Octets]
    BY <1>0, <2>1
  <2> QED
    BY <2>2, <1>0
<1>2. Stream[c] = FlattenSeq(s)
  BY DEF Stream, FrameOf
<1>3. PICK F : Flattens(F, s, n) /\ FlattenSeq(s) = F[n]
  BY <1>1, Flattened
<1>4. \A i \in 0..n : F[i] \in Octets /\ Len(F[i]) \in Nat
  BY <1>3 DEF Flattens, Octets
<1>5. \A k \in 1..n : s[k] = FrameOf(c, k)
  BY <1>0
<1> HIDE DEF s
<1> DEFINE S == [k \in 1..(n + 1) |-> Len(F[k - 1])]
<1>6. S \in [1..(n + 1) -> Nat]
  <2>1. ASSUME NEW k \in 1..(n + 1) PROVE Len(F[k - 1]) \in Nat
    <3>1. k - 1 \in 0..n
      BY <1>0
    <3> QED
      BY <3>1, <1>4
  <2> QED
    BY <2>1
<1>7. S[1] = 0
  <2>1. 1 \in 1..(n + 1) /\ 1 - 1 = 0
    BY <1>0
  <2>2. Len(F[0]) = 0
    BY <1>3, EmptySeq DEF Flattens
  <2> QED
    BY <2>1, <2>2
<1>8. S[n + 1] = Len(Stream[c])
  <2>1. n + 1 \in 1..(n + 1) /\ (n + 1) - 1 = n
    BY <1>0
  <2> QED
    BY <2>1, <1>2, <1>3
<1>9. ASSUME NEW k \in 1..n
      PROVE  /\ S[k + 1] = S[k] + Len(FrameOf(c, k)) /\ S[k + 1] <= Len(Stream[c])
             /\ \A j \in 1..Len(FrameOf(c, k)) : Stream[c][S[k] + j] = FrameOf(c, k)[j]
  <2>1. /\ k \in 0..n /\ k - 1 \in 0..n /\ k \in 1..(n + 1) /\ k + 1 \in 1..(n + 1) /\ (k + 1) - 1 = k
        /\ n - k \in Nat /\ k + (n - k) = n /\ k + (n - k) <= n
    BY <1>0
  <2>2. S[k] = Len(F[k - 1]) /\ S[k + 1] = Len(F[k])
    BY <2>1
  <2>3. F[k] = F[k - 1] \o FrameOf(c, k)
    BY <1>3, <1>5 DEF Flattens
  <2>4. /\ Len(F[k]) = Len(F[k - 1]) + Len(FrameOf(c, k))
        /\ Len(F[k - 1]) \in Nat /\ Len(FrameOf(c, k)) \in Nat
        /\ \A j \in 1..Len(FrameOf(c, k)) : F[k][Len(F[k - 1]) + j] = FrameOf(c, k)[j]
    <3>1. F[k - 1] \in Octets /\ FrameOf(c, k) \in Octets
      BY <2>1, <1>4, FrameOfFacts
    <3> QED
      BY <2>3, <3>1, ConcatFacts
  <2>5. /\ Len(F[k]) <= Len(F[n])
        /\ \A j \in 1..Len(F[k]) : F[n][j] = F[k][j]
    <3>1. Keeps(F, k, n)
      <4> HIDE DEF n
      <4> QED
        BY <1>0, <1>1, <1>3, <2>1, FlattenKeeps
    <3> QED
      BY <3>1 DEF Keeps
  <2>6. \A j \in 1..Len(FrameOf(c, k)) : Len(F[k - 1]) + j \in 1..Len(F[k])
    BY <2>4
  <2>7. Stream[c] = F[n]
    BY <1>2, <1>3
  <2> HIDE DEF S
  <2> QED
    BY <2>1, <2>2, <2>4, <2>5, <2>6, <2>7
<1>10. Starts(c, S)
  <2> HIDE DEF S
  <2> QED
    BY <1>6, <1>7, <1>8, <1>9 DEF Starts
<1>11. Stream[c] \in Octets
  BY <1>0, <1>2, <1>3, <1>4
<1> QED
  BY <1>10, <1>11

Start == [c \in Channels |-> CHOOSE S : Starts(c, S)]

LEMMA StreamFacts ==
    ASSUME NEW c \in Channels
    PROVE  /\ Stream[c] \in Octets /\ Len(Stream[c]) \in Nat
           /\ Start[c][1] = 0 /\ Start[c][Len(Sent[c]) + 1] = Len(Stream[c])
           /\ \A k \in 1..(Len(Sent[c]) + 1) : Start[c][k] \in Nat /\ Start[c][k] <= Len(Stream[c])
<1>1. Starts(c, Start[c])
  BY StreamCut DEF Start
<1>2. Stream[c] \in Octets /\ Len(Stream[c]) \in Nat
  BY StreamCut, LenProperties DEF Octets
<1>3. Len(Sent[c]) \in Nat
  BY SentFacts
<1>4. ASSUME NEW k \in 1..(Len(Sent[c]) + 1) PROVE Start[c][k] \in Nat /\ Start[c][k] <= Len(Stream[c])
  <2>1. CASE k = 1
    BY <1>1, <1>2, <2>1 DEF Starts
  <2>2. CASE k # 1
    <3>1. PICK j \in 1..Len(Sent[c]) : j + 1 = k
      BY <1>3, <2>2
    <3> QED
      BY <1>1, <3>1 DEF Starts
  <2> QED
    BY <2>1, <2>2
<1> QED
  BY <1>1, <1>2, <1>4 DEF Starts

\* What stands where in the stream.
LEMMA FramePlace ==
    ASSUME NEW c \in Channels, NEW k \in 1..Len(Sent[c])
    PROVE  /\ Start[c][k + 1] = Start[c][k] + HEADER_LENGTH + Len(Sent[c][k].form)
           /\ Len(Sent[c][k].form) \in Nat /\ Start[c][k] \in Nat
           /\ \A j \in 1..HEADER_LENGTH : Stream[c][Start[c][k] + j] = FrameOf(c, k)[j]
           /\ \A j \in 1..Len(Sent[c][k].form) :
                 Stream[c][Start[c][k] + HEADER_LENGTH + j] = Sent[c][k].form[j]
<1>1. Starts(c, Start[c])
  BY StreamCut DEF Start
<1>2. PICK z \in Nat : z = Len(Sent[c][k].form)
  BY FrameOfFacts
<1>3. PICK f : f = FrameOf(c, k) /\ Len(f) = HEADER_LENGTH + z
  BY FrameOfFacts, <1>2
<1>4. PICK a \in Nat : a = Start[c][k]
  <2>1. k \in 1..(Len(Sent[c]) + 1)
    BY SentFacts
  <2> QED
    BY <2>1, StreamFacts
<1>5. Start[c][k + 1] = a + (HEADER_LENGTH + z)
  BY <1>1, <1>3, <1>4 DEF Starts
<1>6. \A j \in 1..(HEADER_LENGTH + z) : Stream[c][a + j] = f[j]
  BY <1>1, <1>3, <1>4 DEF Starts
<1>7. \A j \in 1..HEADER_LENGTH : Stream[c][a + j] = f[j]
  BY <1>6, WidthFacts
<1>8. ASSUME NEW j \in 1..z PROVE Stream[c][a + HEADER_LENGTH + j] = Sent[c][k].form[j]
  <2>1. HEADER_LENGTH + j \in 1..(HEADER_LENGTH + z) /\ a + (HEADER_LENGTH + j) = a + HEADER_LENGTH + j
    BY WidthFacts
  <2>2. f[HEADER_LENGTH + j] = Sent[c][k].form[j]
    BY <1>2, <1>3, FrameOfFacts
  <2> QED
    BY <2>1, <2>2, <1>6
<1>9. a + (HEADER_LENGTH + z) = a + HEADER_LENGTH + z
  BY WidthFacts
<1> QED
  BY <1>2, <1>3, <1>4, <1>5, <1>7, <1>8, <1>9
-----------------------------------------------------------------------------
(* The decoder of a consumer's connection *)

DecoderSet == [isHeader : BOOLEAN, header : Octets, requestId : Nat, dataLength : Nat, data : Octets]

\* What the decoder has of a header is what the stream has of it.
HeaderPart(c, k, d, p) ==
    /\ p = Start[c][k] + Len(d.header) /\ Len(d.header) < HEADER_LENGTH
    /\ d.data = <<>>
    /\ \A j \in 1..Len(d.header) : d.header[j] = Stream[c][Start[c][k] + j]

\* It has read the header, and of the data what the stream has of it.
DataPart(c, k, d, p) ==
    /\ k <= Len(Sent[c]) /\ Len(d.header) = HEADER_LENGTH
    /\ d.requestId = Sent[c][k].id /\ d.dataLength = Len(Sent[c][k].form)
    /\ Len(d.data) <= d.dataLength
    /\ p = Start[c][k] + HEADER_LENGTH + Len(d.data)
    /\ \A j \in 1..Len(d.data) : d.data[j] = Sent[c][k].form[j]

\* The bytes in are those of the stream behind position p.
Ahead(c, in, p) ==
    /\ p \in Nat /\ p + Len(in) <= Len(Stream[c])
    /\ \A j \in 1..Len(in) : in[j] = Stream[c][p + j]

\* With these bytes at hand, the decoder d of connection c is inside request k.
Decodes(c, k, d, in, p) ==
    /\ k \in 1..(Len(Sent[c]) + 1) /\ Ahead(c, in, p)
    /\ d.isHeader = TRUE => HeaderPart(c, k, d, p)
    /\ d.isHeader = FALSE => DataPart(c, k, d, p)

LEMMA TakeFacts ==
    ASSUME NEW s \in Octets, NEW n \in Nat, n <= Len(s)
    PROVE  /\ Take(s, n) \in Octets /\ Len(Take(s, n)) = n
           /\ \A j \in 1..n : Take(s, n)[j] = s[j]
<1>1. 1 <= n + 1 /\ n + 1 - 1 = n /\ \A j \in 1..n : 1 - 1 + j = j
  OBVIOUS
<1>2. /\ SubSeq(s, 1, n) \in Octets /\ Len(SubSeq(s, 1, n)) = n + 1 - 1
      /\ \A j \in 1..(n + 1 - 1) : SubSeq(s, 1, n)[j] = s[1 - 1 + j]
  BY <1>1, SubSeqFacts
<1> QED
  BY <1>1, <1>2 DEF Take

LEMMA DropFacts ==
    ASSUME NEW s \in Octets, NEW n \in Nat, n <= Len(s)
    PROVE  /\ Drop(s, n) \in Octets /\ Len(Drop(s, n)) = Len(s) - n
           /\ Len(s) \in Nat
           /\ \A j \in 1..(Len(s) - n) : Drop(s, n)[j] = s[n + j]
<1>0. Len(s) \in Nat
  BY LenProperties DEF Octets
<1>1. PICK m \in Nat \ {0} : m = n + 1
  OBVIOUS
<1>2. m <= Len(s) + 1 /\ Len(s) + 1 - m = Len(s) - n /\ m - 1 = n
  BY <1>0, <1>1
<1>3. /\ SubSeq(s, m, Len(s)) \in Octets /\ Len(SubSeq(s, m, Len(s))) = Len(s) - n
      /\ \A j \in 1..(Len(s) - n) : SubSeq(s, m, Len(s))[j] = s[n + j]
  BY <1>0, <1>2, SubSeqFacts
<1> QED
  BY <1>0, <1>1, <1>3 DEF Drop

LEMMA AheadDrop ==
    ASSUME NEW c \in Channels, NEW in \in Octets, NEW p, Ahead(c, in, p), NEW m \in Nat, m <= Len(in)
    PROVE  Ahead(c, Drop(in, m), p + m)
<1>1. PICK r \in Octets : r = Drop(in, m)
  BY DropFacts
<1>2. PICK z \in Nat : z = Len(in)
  BY DropFacts
<1>3. Len(r) = z - m /\ \A j \in 1..(z - m) : r[j] = in[m + j]
  BY <1>1, <1>2, DropFacts
<1>4. p \in Nat /\ p + z <= Len(Stream[c]) /\ Len(Stream[c]) \in Nat
  BY <1>2, StreamFacts DEF Ahead
<1>5. p + m \in Nat /\ p + m + Len(r) <= Len(Stream[c])
  BY <1>2, <1>3, <1>4
<1>6. ASSUME NEW j \in 1..(z - m) PROVE r[j] = Stream[c][p + m + j]
  <2>1. m + j \in 1..z /\ p + (m + j) = p + m + j
    BY <1>2, <1>4
  <2>2. in[m + j] = Stream[c][p + (m + j)]
    BY <1>2, <2>1 DEF Ahead
  <2> QED
    BY <1>3, <2>1, <2>2
<1> QED
  BY <1>1, <1>3, <1>5, <1>6 DEF Ahead

\* There is room for a header only in front of the end.
LEMMA RoomForHeader ==
    ASSUME NEW c \in Channels, NEW k \in 1..(Len(Sent[c]) + 1),
           Start[c][k] + HEADER_LENGTH <= Len(Stream[c])
    PROVE  k \in 1..Len(Sent[c])
<1>1. Len(Sent[c]) \in Nat /\ HEADER_LENGTH \in Nat /\ HEADER_LENGTH > 0
  BY SentFacts, WidthFacts
<1>2. Start[c][k] \in Nat /\ Len(Stream[c]) \in Nat
  BY StreamFacts
<1>3. k # Len(Sent[c]) + 1
  BY <1>1, <1>2, StreamFacts
<1> QED
  BY <1>1, <1>3

\* w is what the stream has of request k up to position q.
HeaderBytes(w, c, k, q) ==
    /\ w \in Octets /\ q = Start[c][k] + Len(w)
    /\ \A j \in 1..Len(w) : w[j] = Stream[c][Start[c][k] + j]

LEMMA HeaderPieces ==
    ASSUME NEW c \in Channels, NEW k \in 1..(Len(Sent[c]) + 1), NEW d \in DecoderSet, NEW in \in Octets,
           NEW p, Ahead(c, in, p), HeaderPart(c, k, d, p), NEW t \in Nat, t <= Len(in)
    PROVE  /\ Len(d.header \o Take(in, t)) = Len(d.header) + t
           /\ HeaderBytes(d.header \o Take(in, t), c, k, p + t)
<1>1. PICK u \in Octets : u = Take(in, t) /\ Len(u) = t /\ \A j \in 1..t : u[j] = in[j]
  BY TakeFacts
<1>2. PICK v \in Octets : v = d.header
  BY DEF DecoderSet
<1>3. PICK h \in Nat : h = Len(v)
  BY ConcatFacts
<1>4. PICK a \in Nat : a = Start[c][k]
  BY StreamFacts
<1>5. p = a + h /\ \A j \in 1..h : v[j] = Stream[c][a + j]
  BY <1>2, <1>3, <1>4 DEF HeaderPart
<1>6. PICK z \in Nat : z = Len(in)
  BY DropFacts
<1>7. \A j \in 1..t : u[j] = Stream[c][p + j]
  BY <1>1, <1>6 DEF Ahead
<1>8. PICK w : w = v \o u /\ Joined(w, v, u, h, t)
  BY <1>1, <1>3, ConcatJoins
<1>9. ASSUME NEW j \in 1..(h + t) PROVE w[j] = Stream[c][a + j]
  <2>1. CASE j <= h
    <3>1. j \in 1..h
      BY <1>9, <2>1
    <3> QED
      BY <3>1, <1>5, <1>8 DEF Joined
  <2>2. CASE j > h
    <3>1. PICK i \in 1..t : j = h + i /\ a + j = p + i
      <4>1. j - h \in 1..t /\ j = h + (j - h) /\ a + j = p + (j - h)
        BY <1>9, <2>2, <1>5
      <4> QED
        BY <4>1
    <3>2. w[h + i] = u[i] /\ u[i] = Stream[c][p + i]
      BY <3>1, <1>7, <1>8 DEF Joined
    <3> QED
      BY <3>1, <3>2
  <2>3. j \in Int /\ h \in Int
    BY <1>9
  <2> QED
    BY <2>1, <2>2, <2>3
<1>10. p + t = a + (h + t)
  BY <1>5
<1>11. w \in Octets /\ Len(w) = h + t
  BY <1>8 DEF Joined
<1>12. HeaderBytes(w, c, k, p + t)
  BY <1>4, <1>9, <1>10, <1>11 DEF HeaderBytes
<1> QED
  BY <1>1, <1>2, <1>3, <1>8, <1>11, <1>12

LEMMA ReadsOn ==
    ASSUME NEW d \in DecoderSet, NEW in \in Octets, d.isHeader = FALSE
    PROVE  ReadHeader(d, in) = d
  BY DEF ReadHeader

LEMMA LeastFacts ==
    ASSUME NEW a \in Nat, NEW b \in Nat
    PROVE  /\ Least(a, b) \in Nat /\ Least(a, b) <= a /\ Least(a, b) <= b
           /\ Least(a, b) = a \/ Least(a, b) = b
  BY DEF Least

\* ReadHeader takes the header, or as much of it as there is.
HeaderTaken(c, k, d, in, p, e, m) ==
    /\ e \in DecoderSet /\ m \in Nat /\ m <= Len(in) /\ m = Len(e.header) - Len(d.header)
    /\ Decodes(c, k, e, Drop(in, m), p + m)
    /\ e.isHeader = TRUE => m = Len(in)

LEMMA ReadHeaderRight ==
    ASSUME NEW c \in Channels, NEW k, NEW d \in DecoderSet, NEW in \in Octets, NEW p,
           Decodes(c, k, d, in, p)
    PROVE  \E m : HeaderTaken(c, k, d, in, p, ReadHeader(d, in), m)
<1>0. /\ k \in 1..(Len(Sent[c]) + 1) /\ Ahead(c, in, p) /\ p \in Nat
      /\ Len(in) \in Nat /\ Len(d.header) \in Nat /\ HEADER_LENGTH \in Nat
  BY WidthFacts, LenProperties DEF Decodes, Ahead, Octets, DecoderSet
<1>1. CASE d.isHeader = FALSE
  <2>1. Decodes(c, k, d, Drop(in, 0), p + 0)
    <3>1. Ahead(c, Drop(in, 0), p + 0) /\ p + 0 = p
      BY <1>0, AheadDrop
    <3> QED
      BY <1>1, <3>1 DEF Decodes
  <2>2. HeaderTaken(c, k, d, in, p, d, 0)
    BY <1>0, <1>1, <2>1 DEF HeaderTaken
  <2> QED
    BY <1>1, <2>2, ReadsOn
<1>2. CASE d.isHeader = TRUE
  <2>1. HeaderPart(c, k, d, p) /\ Len(d.header) < HEADER_LENGTH
    BY <1>2 DEF Decodes, HeaderPart
  <2>2. PICK h \in Nat : h = Len(d.header)
    BY <1>0
  <2>3. PICK t \in Nat : /\ t = Least(HEADER_LENGTH - h, Len(in)) /\ t <= Len(in) /\ t <= HEADER_LENGTH - h
                         /\ t = HEADER_LENGTH - h \/ t = Len(in)
    <3>1. HEADER_LENGTH - h \in Nat
      BY <1>0, <2>1, <2>2
    <3> QED
      BY <1>0, <3>1, LeastFacts
  <2>4. PICK w : w = d.header \o Take(in, t)
    OBVIOUS
  <2>5. /\ w \in Octets /\ Len(w) = h + t /\ p + t = Start[c][k] + (h + t)
        /\ \A j \in 1..(h + t) : w[j] = Stream[c][Start[c][k] + j]
    <3>1. Len(w) = h + t /\ HeaderBytes(w, c, k, p + t)
      BY <1>0, <2>1, <2>2, <2>3, <2>4, HeaderPieces
    <3> QED
      BY <3>1 DEF HeaderBytes
  <2>6. Ahead(c, Drop(in, t), p + t)
    BY <1>0, <2>3, AheadDrop
  <2>7. CASE h + t < HEADER_LENGTH
    <3>1. t = Len(in)
      BY <2>3, <2>7, <1>0
    <3>2. ReadHeader(d, in) = [d EXCEPT !.header = w]
      BY <1>2, <2>2, <2>3, <2>4, <2>5, <2>7 DEF ReadHeader
    <3>3. PICK e : e = [d EXCEPT !.header = w]
      OBVIOUS
    <3>4. /\ e \in DecoderSet /\ e.isHeader = TRUE /\ e.header = w /\ e.data = d.data
      BY <1>2, <2>5, <3>3 DEF DecoderSet
    <3>5. HeaderPart(c, k, e, p + t)
      BY <2>1, <2>5, <2>7, <3>4 DEF HeaderPart
    <3>6. Decodes(c, k, e, Drop(in, t), p + t)
      BY <1>0, <2>6, <3>4, <3>5 DEF Decodes
    <3>7. t = Len(e.header) - Len(d.header)
      BY <2>2, <2>5, <3>4
    <3>8. HeaderTaken(c, k, d, in, p, e, t)
      BY <2>3, <3>1, <3>4, <3>6, <3>7 DEF HeaderTaken
    <3> QED
      BY <3>2, <3>3, <3>8
  <2>8. CASE ~(h + t < HEADER_LENGTH)
    <3>1. h + t = HEADER_LENGTH
      BY <2>3, <2>8, <1>0
    <3>2. ReadHeader(d, in) = [isHeader |-> FALSE, header |-> w, requestId |-> bytes2long(w),
                               dataLength |-> bytes2int(w), data |-> <<>>]
      BY <1>2, <2>2, <2>3, <2>4, <2>5, <2>8 DEF ReadHeader
    <3>3. k \in 1..Len(Sent[c])
      <4>1. Start[c][k] + HEADER_LENGTH <= Len(Stream[c])
        <5>1. p + t <= Len(Stream[c])
          <6>1. Len(Drop(in, t)) \in Nat
            BY <2>3, DropFacts, LenProperties DEF Octets
          <6>2. p + t + Len(Drop(in, t)) <= Len(Stream[c]) /\ p + t \in Nat
            BY <2>6 DEF Ahead
          <6>3. Len(Stream[c]) \in Nat
            BY StreamFacts
          <6> QED
            BY <6>1, <6>2, <6>3
        <5> QED
          BY <5>1, <2>5, <3>1
      <4> QED
        BY <1>0, <4>1, RoomForHeader
    <3>4. bytes2long(w) = Sent[c][k].id /\ bytes2int(w) = Len(Sent[c][k].form)
      <4>1. \A j \in 1..HEADER_LENGTH : w[j] = FrameOf(c, k)[j]
        BY <2>5, <3>1, <3>3, FramePlace
      <4>2. Len(w) >= HEADER_LENGTH
        BY <2>5, <3>1, <1>0
      <4>3. /\ Sent[c][k].id \in Nat /\ Sent[c][k].form \in Octets /\ Fits(Sent[c][k].id, IdWidth)
            /\ Fits(Len(Sent[c][k].form), SizeWidth)
        BY <3>3, SentFacts
      <4> QED
        BY <2>5, <4>1, <4>2, <4>3, HeaderRead DEF FrameOf
    <3>5. PICK e : e = ReadHeader(d, in)
      OBVIOUS
    <3>6. /\ e.isHeader = FALSE /\ e.header = w /\ e.requestId = Sent[c][k].id
          /\ e.dataLength = Len(Sent[c][k].form) /\ e.data = <<>>
      BY <3>2, <3>4, <3>5
    <3>7. Sent[c][k].id \in Nat /\ Len(Sent[c][k].form) \in Nat /\ <<>> \in Octets /\ Len(<<>>) = 0
      BY <3>3, SentFacts, FrameOfFacts, EmptySeq DEF Octets
    <3>8. e \in DecoderSet
      BY <2>5, <3>2, <3>4, <3>5, <3>7 DEF DecoderSet
    <3>9. DataPart(c, k, e, p + t)
      <4>1. Start[c][k] \in Nat /\ Len(Sent[c]) \in Nat
        BY <3>3, FramePlace, SentFacts
      <4>2. p + t = Start[c][k] + HEADER_LENGTH + Len(e.data) /\ k <= Len(Sent[c])
        BY <1>0, <2>5, <3>1, <3>3, <3>6, <3>7, <4>1
      <4>3. Len(e.data) <= e.dataLength /\ Len(e.header) = HEADER_LENGTH
        BY <2>5, <3>1, <3>6, <3>7
      <4>4. \A j \in 1..Len(e.data) : FALSE
        BY <3>6, <3>7
      <4> QED
        BY <3>6, <4>2, <4>3, <4>4 DEF DataPart
    <3>10. Decodes(c, k, e, Drop(in, t), p + t)
      BY <1>0, <2>6, <3>6, <3>9 DEF Decodes
    <3>11. t = Len(e.header) - Len(d.header)
      BY <2>2, <2>5, <3>6
    <3>12. HeaderTaken(c, k, d, in, p, e, t)
      BY <2>3, <3>6, <3>8, <3>10, <3>11 DEF HeaderTaken
    <3> QED
      BY <3>5, <3>12
  <2> QED
    BY <2>7, <2>8
<1> QED
  BY <1>1, <1>2 DEF DecoderSet

\* w is the data of request k as far as it goes.
DataBytes(w, c, k) == w \in Octets /\ \A j \in 1..Len(w) : w[j] = Sent[c][k].form[j]

\* The data goes on where it was left.
LEMMA DataPieces ==
    ASSUME NEW c \in Channels, NEW k \in 1..Len(Sent[c]), NEW e \in DecoderSet, NEW in \in Octets,
           NEW q, Ahead(c, in, q), DataPart(c, k, e, q),
           NEW t \in Nat, t <= Len(in), Len(e.data) + t <= Len(Sent[c][k].form)
    PROVE  Len(e.data \o Take(in, t)) = Len(e.data) + t /\ DataBytes(e.data \o Take(in, t), c, k)
<1>1. PICK u \in Octets : u = Take(in, t) /\ Len(u) = t /\ \A j \in 1..t : u[j] = in[j]
  BY TakeFacts
<1>2. PICK v \in Octets : v = e.data
  BY DEF DecoderSet
<1>3. PICK h \in Nat : h = Len(v)
  BY ConcatFacts
<1>4. PICK a \in Nat : a = Start[c][k]
  BY FramePlace
<1>5. PICK z \in Nat : z = Len(Sent[c][k].form)
  BY FramePlace
<1>6. q = a + HEADER_LENGTH + h /\ \A j \in 1..h : v[j] = Sent[c][k].form[j]
  BY <1>2, <1>3, <1>4 DEF DataPart
<1>7. PICK y \in Nat : y = Len(in)
  BY DropFacts
<1>8. \A j \in 1..t : u[j] = Stream[c][q + j]
  <2>1. TAKE j \in 1..t
  <2>2. j \in 1..y
    BY <1>7
  <2>3. in[j] = Stream[c][q + j]
    BY <1>7, <2>2 DEF Ahead
  <2> QED
    BY <1>1, <2>3
<1>9. PICK w : w = v \o u /\ Joined(w, v, u, h, t)
  BY <1>1, <1>3, ConcatJoins
<1>10. ASSUME NEW j \in 1..(h + t) PROVE w[j] = Sent[c][k].form[j]
  <2>1. CASE j <= h
    <3>1. j \in 1..h
      BY <1>10, <2>1
    <3> QED
      BY <3>1, <1>6, <1>9 DEF Joined
  <2>2. CASE j > h
    <3>1. PICK i \in 1..t : j = h + i /\ a + HEADER_LENGTH + j = q + i
      <4>1. j - h \in 1..t /\ j = h + (j - h) /\ a + HEADER_LENGTH + j = q + (j - h)
        BY <1>10, <2>2, <1>6, WidthFacts
      <4> QED
        BY <4>1
    <3>2. w[h + i] = u[i] /\ u[i] = Stream[c][q + i]
      BY <3>1, <1>8, <1>9 DEF Joined
    <3>3. j \in 1..z
      BY <1>2, <1>3, <1>5, <1>10
    <3>4. Stream[c][a + HEADER_LENGTH + j] = Sent[c][k].form[j]
      BY <3>3, <1>4, <1>5, FramePlace
    <3> QED
      BY <3>1, <3>2, <3>4
  <2>3. j \in Int /\ h \in Int
    BY <1>10
  <2> QED
    BY <2>1, <2>2, <2>3
<1>11. w \in Octets /\ Len(w) = h + t
  BY <1>9 DEF Joined
<1>12. DataBytes(w, c, k)
  BY <1>10, <1>11 DEF DataBytes
<1> QED
  BY <1>1, <1>2, <1>3, <1>9, <1>11, <1>12

\* A request is complete: it is the one that was sent, and the decoder is in
\* front of the next one.
BodyDone(c, k, e, in, q, need) ==
    /\ need \in Nat /\ need <= Len(in)
    /\ k \in 1..Len(Sent[c]) /\ e.requestId = Sent[c][k].id
    /\ e.data \o Take(in, need) = Sent[c][k].form
    /\ Decodes(c, k + 1, Fresh, Drop(in, need), q + need)

LEMMA BodyComplete ==
    ASSUME NEW c \in Channels, NEW k, NEW e \in DecoderSet, NEW in \in Octets, NEW q,
           Decodes(c, k, e, in, q), e.isHeader = FALSE,
           NEW need, need = e.dataLength - Len(e.data), Len(in) >= need
    PROVE  BodyDone(c, k, e, in, q, need)
<1>1. DataPart(c, k, e, q) /\ Ahead(c, in, q) /\ k \in 1..(Len(Sent[c]) + 1)
  BY DEF Decodes
<1>2. Len(Sent[c]) \in Nat
  BY SentFacts
<1>3. k \in 1..Len(Sent[c])
  BY <1>1, <1>2 DEF DataPart
<1>4. PICK h \in Nat : h = Len(e.data)
  BY LenProperties DEF DecoderSet, Octets
<1>5. PICK z \in Nat : z = Len(Sent[c][k].form)
  BY <1>3, FramePlace
<1>6. PICK y \in Nat : y = Len(in)
  BY DropFacts
<1>7. /\ need \in Nat /\ need <= Len(in) /\ h + need = z
      /\ Len(e.data) + need <= Len(Sent[c][k].form)
  BY <1>1, <1>4, <1>5, <1>6 DEF DataPart
<1>8. e.data \o Take(in, need) = Sent[c][k].form
  <2>1. PICK w : w = e.data \o Take(in, need)
    OBVIOUS
  <2>2. w \in Octets /\ Len(w) = h + need /\ \A j \in 1..Len(w) : w[j] = Sent[c][k].form[j]
    <3>1. Len(w) = h + need /\ DataBytes(w, c, k)
      BY <1>1, <1>3, <1>4, <1>7, <2>1, DataPieces
    <3> QED
      BY <3>1 DEF DataBytes
  <2>3. Sent[c][k].form \in Octets
    BY <1>3, SentFacts
  <2>4. w = Sent[c][k].form
    BY <1>5, <1>7, <2>2, <2>3, SeqEqual DEF Octets
  <2> QED
    BY <2>1, <2>4
<1>9. Ahead(c, Drop(in, need), q + need)
  BY <1>1, <1>7, AheadDrop
<1>10. HeaderPart(c, k + 1, Fresh, q + need)
  <2>1. Fresh.header = <<>> /\ Fresh.data = <<>> /\ Len(<<>>) = 0
    BY EmptySeq DEF Fresh
  <2>2. PICK a \in Nat : a = Start[c][k]
    BY <1>3, FramePlace
  <2>3. Start[c][k + 1] = a + HEADER_LENGTH + z
    BY <1>3, <1>5, <2>2, FramePlace
  <2>4. q = a + HEADER_LENGTH + h
    BY <1>1, <1>4, <2>2 DEF DataPart
  <2>5. q + need = Start[c][k + 1] + 0
    <3>1. HEADER_LENGTH \in Nat
      BY WidthFacts
    <3>2. PICK g \in Nat : g = need /\ h + g = z
      BY <1>7
    <3>3. (a + HEADER_LENGTH + h) + g = (a + HEADER_LENGTH + z) + 0
      BY <3>1, <3>2
    <3> QED
      BY <2>3, <2>4, <3>2, <3>3
  <2>6. \A j \in 1..Len(Fresh.header) : FALSE
    BY <2>1
  <2> QED
    BY <2>1, <2>5, <2>6, WidthFacts DEF HeaderPart
<1>11. Decodes(c, k + 1, Fresh, Drop(in, need), q + need)
  <2>1. k + 1 \in 1..(Len(Sent[c]) + 1) /\ Fresh.isHeader = TRUE
    BY <1>2, <1>3 DEF Fresh
  <2> QED
    BY <1>9, <1>10, <2>1 DEF Decodes
<1> QED
  BY <1>1, <1>3, <1>7, <1>8, <1>11 DEF DataPart, BodyDone

\* There is less than the rest of the data: the decoder has it all.
LEMMA BodyPart ==
    ASSUME NEW c \in Channels, NEW k, NEW e \in DecoderSet, NEW in \in Octets, NEW q,
           Decodes(c, k, e, in, q), e.isHeader = FALSE, ~(Len(in) >= e.dataLength - Len(e.data))
    PROVE  /\ [e EXCEPT !.data = @ \o in] \in DecoderSet
           /\ Decodes(c, k, [e EXCEPT !.data = @ \o in], <<>>, q + Len(in))
<1>1. DataPart(c, k, e, q) /\ Ahead(c, in, q) /\ k \in 1..(Len(Sent[c]) + 1)
  BY DEF Decodes
<1>2. Len(Sent[c]) \in Nat
  BY SentFacts
<1>3. k \in 1..Len(Sent[c])
  BY <1>1, <1>2 DEF DataPart
<1>4. PICK h \in Nat : h = Len(e.data)
  BY LenProperties DEF DecoderSet, Octets
<1>5. PICK z \in Nat : z = Len(Sent[c][k].form)
  BY <1>3, FramePlace
<1>6. PICK y \in Nat : y = Len(in) /\ y <= Len(in)
  BY DropFacts
<1>7. h + y < z /\ e.dataLength = z /\ Len(e.data) + y <= Len(Sent[c][k].form)
  BY <1>1, <1>4, <1>5, <1>6 DEF DataPart
<1>8. Take(in, y) = in
  BY <1>6, SubSeqFull DEF Take, Octets
<1>9. PICK w : w = e.data \o in
  OBVIOUS
<1>10. w \in Octets /\ Len(w) = h + y /\ \A j \in 1..Len(w) : w[j] = Sent[c][k].form[j]
  <2>1. Len(w) = h + y /\ DataBytes(w, c, k)
    <3>1. w = e.data \o Take(in, y)
      BY <1>8, <1>9
    <3> QED
      BY <1>1, <1>3, <1>4, <1>6, <1>7, <3>1, DataPieces
  <2> QED
    BY <2>1 DEF DataBytes
<1>11. PICK f : f = [e EXCEPT !.data = @ \o in]
  OBVIOUS
<1>12. f = [e EXCEPT !.data = w]
  BY <1>9, <1>11 DEF DecoderSet
<1>13. /\ f \in DecoderSet /\ f.isHeader = FALSE /\ f.data = w /\ f.header = e.header
       /\ f.requestId = e.requestId /\ f.dataLength = e.dataLength
  BY <1>10, <1>12 DEF DecoderSet
<1>14. DataPart(c, k, f, q + y)
  <2>1. PICK a \in Nat : a = Start[c][k]
    BY <1>3, FramePlace
  <2>2. q = a + HEADER_LENGTH + h
    BY <1>1, <1>4, <2>1 DEF DataPart
  <2>3. q + y = Start[c][k] + HEADER_LENGTH + Len(f.data)
    <3>1. Len(f.data) = h + y
      BY <1>10, <1>13
    <3>2. HEADER_LENGTH \in Nat
      BY WidthFacts
    <3>3. q + y = a + HEADER_LENGTH + (h + y)
      BY <2>2, <3>2
    <3> QED
      BY <2>1, <3>1, <3>3
  <2>4. Len(f.data) <= f.dataLength
    BY <1>7, <1>10, <1>13
  <2> QED
    BY <1>1, <1>10, <1>13, <2>3, <2>4 DEF DataPart
<1>15. Ahead(c, <<>>, q + y)
  <2>1. q \in Nat /\ q + y <= Len(Stream[c])
    BY <1>1, <1>6 DEF Ahead
  <2>2. Len(<<>>) = 0
    BY EmptySeq
  <2>3. q + y \in Nat /\ q + y + Len(<<>>) <= Len(Stream[c])
    BY <2>1, <2>2
  <2>4. \A j \in 1..Len(<<>>) : FALSE
    BY <2>2
  <2> QED
    BY <2>3, <2>4 DEF Ahead
<1>16. Decodes(c, k, f, <<>>, q + y)
  BY <1>1, <1>13, <1>14, <1>15 DEF Decodes
<1> QED
  BY <1>6, <1>11, <1>13, <1>16
-----------------------------------------------------------------------------
(* The threads *)

Reading == {"decode", "put", "write"}
Answering == {"rpc", "get", "remove", "reply"}
LoopSet(R) == [at : {"idle"} \cup Reading \cup Answering, chan : Channels \cup {NULL}, in : Octets, req : R]

Work(a, h, b, r) == [at |-> a, chan |-> h, in |-> b, req |-> r]

\* One thread goes on to other work, the others stay.
GoesOn(l, w) == loop' = [loop EXCEPT ![l] = w]

LoopType == \E R : loop \in [Loops -> LoopSet(R)]

LEMMA WorkFacts ==
    ASSUME NEW a, NEW h, NEW b, NEW r
    PROVE  /\ Work(a, h, b, r).at = a /\ Work(a, h, b, r).chan = h
           /\ Work(a, h, b, r).in = b /\ Work(a, h, b, r).req = r
  BY DEF Work

LEMMA LoopFacts ==
    ASSUME LoopType, NEW l \in Loops
    PROVE  /\ loop[l].at \in {"idle"} \cup Reading \cup Answering
           /\ loop[l].chan \in Channels \cup {NULL} /\ loop[l].in \in Octets
           /\ loop[l] = Work(loop[l].at, loop[l].chan, loop[l].in, loop[l].req)
<1>1. PICK R : loop \in [Loops -> LoopSet(R)]
  BY DEF LoopType
<1>2. loop[l] \in LoopSet(R)
  BY <1>1
<1> QED
  BY <1>2 DEF LoopSet, Work

LEMMA GoesOnFacts ==
    ASSUME LoopType, NEW l \in Loops, NEW w, GoesOn(l, w)
    PROVE  loop'[l] = w /\ \A m \in Loops \ {l} : loop'[m] = loop[m]
  BY DEF LoopType, GoesOn

LEMMA GoesOnTypes ==
    ASSUME LoopType, NEW l \in Loops, NEW a \in {"idle"} \cup Reading \cup Answering,
           NEW h \in Channels \cup {NULL}, NEW b \in Octets, NEW r, GoesOn(l, Work(a, h, b, r))
    PROVE  LoopType'
<1>1. PICK R : loop \in [Loops -> LoopSet(R)]
  BY DEF LoopType
<1>2. PICK Q : Q = R \cup {r}
  OBVIOUS
<1>3. Work(a, h, b, r) \in LoopSet(Q)
  BY <1>2 DEF LoopSet, Work
<1>4. \A m \in Loops : loop[m] \in LoopSet(Q)
  <2>1. LoopSet(R) \subseteq LoopSet(Q)
    BY <1>2 DEF LoopSet
  <2> QED
    BY <1>1, <2>1
<1>5. [loop EXCEPT ![l] = Work(a, h, b, r)] \in [Loops -> LoopSet(Q)]
  BY <1>1, <1>3, <1>4
<1> QED
  BY <1>5 DEF LoopType, GoesOn

LEMMA IdleWork ==
    /\ Idle = Work("idle", NULL, <<>>, NULL) /\ [Idle EXCEPT !.at = "rpc"] = Work("rpc", NULL, <<>>, NULL)
    /\ <<>> \in Octets /\ Len(<<>>) = 0
  BY EmptySeq DEF Idle, Work, Octets

LEMMA WorkAt ==
    ASSUME NEW a, NEW h, NEW b, NEW r, NEW x
    PROVE  [Work(a, h, b, r) EXCEPT !.at = x] = Work(x, h, b, r)
  BY DEF Work

LEMMA WorkChan ==
    ASSUME NEW a, NEW h, NEW b, NEW r, NEW x
    PROVE  [Work(a, h, b, r) EXCEPT !.chan = x] = Work(a, x, b, r)
  BY DEF Work

LEMMA WorkIn ==
    ASSUME NEW a, NEW h, NEW b, NEW r, NEW x
    PROVE  [Work(a, h, b, r) EXCEPT !.in = x] = Work(a, h, x, r)
  BY DEF Work

LEMMA WorkReq ==
    ASSUME NEW a, NEW h, NEW b, NEW r, NEW x
    PROVE  [Work(a, h, b, r) EXCEPT !.req = x] = Work(a, h, b, x)
  BY DEF Work

\* What a thread that goes on at another place keeps.
SetsAt(l, a) == loop' = [loop EXCEPT ![l].at = a]
SetsChan(l, a, h) == loop' = [loop EXCEPT ![l].at = a, ![l].chan = h]
SetsReq(l, a, r) == loop' = [loop EXCEPT ![l].at = a, ![l].req = r]
SetsIn(l, a, b, r) == loop' = [loop EXCEPT ![l].at = a, ![l].in = b, ![l].req = r]

LEMMA StepsAt ==
    ASSUME LoopType, NEW l \in Loops, NEW a, SetsAt(l, a)
    PROVE  GoesOn(l, Work(a, loop[l].chan, loop[l].in, loop[l].req))
<1>1. PICK R : loop \in [Loops -> LoopSet(R)]
  BY DEF LoopType
<1>2. PICK o, p, q, s : o = loop[l].at /\ p = loop[l].chan /\ q = loop[l].in /\ s = loop[l].req
  OBVIOUS
<1>3. PICK w : w = loop[l] /\ w = Work(o, p, q, s)
  BY <1>2, LoopFacts
<1>4. [Work(o, p, q, s) EXCEPT !.at = a] = Work(a, p, q, s)
  BY WorkAt
<1>5. [w EXCEPT !.at = a] = Work(a, p, q, s)
  BY <1>3, <1>4
<1>6. [loop EXCEPT ![l].at = a]
       = [loop EXCEPT ![l] = Work(a, loop[l].chan, loop[l].in, loop[l].req)]
  BY <1>1, <1>2, <1>3, <1>5
<1> QED
  BY <1>6 DEF SetsAt, GoesOn

LEMMA StepsChan ==
    ASSUME LoopType, NEW l \in Loops, NEW a, NEW h, SetsChan(l, a, h)
    PROVE  GoesOn(l, Work(a, h, loop[l].in, loop[l].req))
<1>1. PICK R : loop \in [Loops -> LoopSet(R)]
  BY DEF LoopType
<1>2. PICK o, p, q, s : o = loop[l].at /\ p = loop[l].chan /\ q = loop[l].in /\ s = loop[l].req
  OBVIOUS
<1>3. PICK w : w = loop[l] /\ w = Work(o, p, q, s)
  BY <1>2, LoopFacts
<1>4. [Work(o, p, q, s) EXCEPT !.at = a] = Work(a, p, q, s)
  BY WorkAt
<1>5. [Work(a, p, q, s) EXCEPT !.chan = h] = Work(a, h, q, s)
  BY WorkChan
<1>6. [w EXCEPT !.at = a, !.chan = h] = Work(a, h, q, s)
  BY <1>3, <1>4, <1>5
<1>7. [loop EXCEPT ![l].at = a, ![l].chan = h]
       = [loop EXCEPT ![l] = Work(a, h, loop[l].in, loop[l].req)]
  BY <1>1, <1>2, <1>3, <1>6
<1> QED
  BY <1>7 DEF SetsChan, GoesOn

LEMMA StepsReq ==
    ASSUME LoopType, NEW l \in Loops, NEW a, NEW r, SetsReq(l, a, r)
    PROVE  GoesOn(l, Work(a, loop[l].chan, loop[l].in, r))
<1>1. PICK R : loop \in [Loops -> LoopSet(R)]
  BY DEF LoopType
<1>2. PICK o, p, q, s : o = loop[l].at /\ p = loop[l].chan /\ q = loop[l].in /\ s = loop[l].req
  OBVIOUS
<1>3. PICK w : w = loop[l] /\ w = Work(o, p, q, s)
  BY <1>2, LoopFacts
<1>4. [Work(o, p, q, s) EXCEPT !.at = a] = Work(a, p, q, s)
  BY WorkAt
<1>5. [Work(a, p, q, s) EXCEPT !.req = r] = Work(a, p, q, r)
  BY WorkReq
<1>6. [w EXCEPT !.at = a, !.req = r] = Work(a, p, q, r)
  BY <1>3, <1>4, <1>5
<1>7. [loop EXCEPT ![l].at = a, ![l].req = r]
       = [loop EXCEPT ![l] = Work(a, loop[l].chan, loop[l].in, r)]
  BY <1>1, <1>2, <1>3, <1>6
<1> QED
  BY <1>7 DEF SetsReq, GoesOn

LEMMA StepsIn ==
    ASSUME LoopType, NEW l \in Loops, NEW a, NEW b, NEW r, SetsIn(l, a, b, r)
    PROVE  GoesOn(l, Work(a, loop[l].chan, b, r))
<1>1. PICK R : loop \in [Loops -> LoopSet(R)]
  BY DEF LoopType
<1>2. PICK o, p, q, s : o = loop[l].at /\ p = loop[l].chan /\ q = loop[l].in /\ s = loop[l].req
  OBVIOUS
<1>3. PICK w : w = loop[l] /\ w = Work(o, p, q, s)
  BY <1>2, LoopFacts
<1>4. [Work(o, p, q, s) EXCEPT !.at = a] = Work(a, p, q, s)
  BY WorkAt
<1>5. [Work(a, p, q, s) EXCEPT !.in = b] = Work(a, p, b, s)
  BY WorkIn
<1>6. [Work(a, p, b, s) EXCEPT !.req = r] = Work(a, p, b, r)
  BY WorkReq
<1>7. [w EXCEPT !.at = a, !.in = b, !.req = r] = Work(a, p, b, r)
  BY <1>3, <1>4, <1>5, <1>6
<1>8. [loop EXCEPT ![l].at = a, ![l].in = b, ![l].req = r]
       = [loop EXCEPT ![l] = Work(a, loop[l].chan, b, r)]
  BY <1>1, <1>2, <1>3, <1>7
<1> QED
  BY <1>8 DEF SetsIn, GoesOn
-----------------------------------------------------------------------------
(* Cutting the streams of the consumers *)

\* What a thread has still to read of connection c.
LeftOf(w, c) == IF w.at \in Reading /\ w.chan = c THEN w.in ELSE <<>>
Left(c) == LeftOf(loop[loopOf[c]], c)
Place(c) == read[c] - Len(Left(c))

\* The request before the one that the decoder is in, as it was sent.
LastOf(K, c) == [id |-> Sent[c][K[c] - 1].id, data |-> Sent[c][K[c] - 1].form, chan |-> c]

\* A thread serves its own connections; what it passes on is what was sent.
ThreadRight(K, l, w) ==
    /\ w.at \in Reading => w.chan \in Channels /\ loopOf[w.chan] = l
    /\ w.at \in Answering => l = loopOf[Dubbo]
    /\ w.at \in {"put", "write"} => K[w.chan] - 1 \in 1..Len(Sent[w.chan]) /\ w.req = LastOf(K, w.chan)

\* K[c] is the request of connection c that its decoder is in.
StreamsRight(K) ==
    /\ K \in [Channels -> Nat \ {0}]
    /\ decoder \in [Channels -> DecoderSet] /\ read \in [Channels -> Nat]
    /\ \A c \in Channels : Decodes(c, K[c], decoder[c], Left(c), Place(c))

ThreadsRight(K) ==
    /\ LoopType /\ loopOf \in [Channels \cup {Dubbo} -> Loops]
    /\ \A l \in Loops : ThreadRight(K, l, loop[l])

SidesRight ==
    /\ {connected, latch, serving} \subseteq BOOLEAN /\ rpcDecoder.isHeader \in BOOLEAN
    /\ \A id \in DOMAIN processingRequest : processingRequest[id].chan \in Channels
    /\ \A m \in toDubbo : DOMAIN m.params = Fields

CutInv(K) == StreamsRight(K) /\ ThreadsRight(K) /\ SidesRight

LEMMA LoopOfFacts ==
    ASSUME NEW K, ThreadsRight(K), NEW c \in Channels
    PROVE  loopOf[c] \in Loops /\ loopOf[Dubbo] \in Loops
  BY DEF ThreadsRight

\* A step that leaves the streams alone.
LEMMA StreamsKept ==
    ASSUME NEW K, StreamsRight(K), UNCHANGED <<decoder, read>>,
           \A c \in Channels : Left(c)' = Left(c)
    PROVE  StreamsRight(K)'
<1>1. ASSUME NEW c \in Channels
      PROVE  Decodes(c, K[c], decoder'[c], Left(c)', Place(c)')
  <2>1. Place(c)' = Place(c)
    BY DEF Place
  <2> QED
    BY <2>1 DEF StreamsRight
<1>2. ASSUME NEW c \in Channels
      PROVE  Decodes(c, K[c], decoder[c], Left(c), Place(c))'
  BY <1>1 DEF Decodes, Ahead, HeaderPart, DataPart
<1> QED
  BY <1>2 DEF StreamsRight

LEMMA ThreadsStep ==
    ASSUME NEW K, ThreadsRight(K), NEW l \in Loops, NEW w, GoesOn(l, w), LoopType', loopOf' = loopOf,
           NEW M, ThreadRight(M, l, w),
           \A m \in Loops \ {l} : ThreadRight(K, m, loop[m]) => ThreadRight(M, m, loop[m])
    PROVE  ThreadsRight(M)'
<1>1. ASSUME NEW m \in Loops PROVE ThreadRight(M, m, loop[m])'
  <2>1. CASE m = l
    <3>1. loop'[m] = w
      BY <2>1, GoesOnFacts DEF ThreadsRight
    <3> QED
      BY <2>1, <3>1 DEF ThreadRight, LastOf
  <2>2. CASE m # l
    <3>1. loop'[m] = loop[m]
      BY <2>2, GoesOnFacts DEF ThreadsRight
    <3>2. ThreadRight(M, m, loop[m])
      BY <2>2 DEF ThreadsRight
    <3> QED
      BY <3>1, <3>2 DEF ThreadRight, LastOf
  <2> QED
    BY <2>1, <2>2
<1> QED
  BY <1>1 DEF ThreadsRight

\* A thread goes on that has as much to read as before.
LEMMA ThreadStep ==
    ASSUME NEW K, StreamsRight(K), ThreadsRight(K), NEW l \in Loops, NEW w, GoesOn(l, w), LoopType',
           UNCHANGED <<decoder, read, loopOf>>, ThreadRight(K, l, w),
           \A c \in Channels : LeftOf(w, c) = LeftOf(loop[l], c)
    PROVE  StreamsRight(K)' /\ ThreadsRight(K)'
<1>1. ThreadsRight(K)'
  BY ThreadsStep
<1>2. ASSUME NEW c \in Channels PROVE Left(c)' = Left(c)
  <2>1. loopOf[c] \in Loops /\ loopOf'[c] = loopOf[c]
    BY LoopOfFacts
  <2>2. CASE loopOf[c] = l
    BY <2>1, <2>2, GoesOnFacts DEF Left, LeftOf, ThreadsRight
  <2>3. CASE loopOf[c] # l
    <3>1. loop'[loopOf[c]] = loop[loopOf[c]]
      BY <2>1, <2>3, GoesOnFacts DEF ThreadsRight
    <3> QED
      BY <2>1, <3>1 DEF Left, LeftOf
  <2> QED
    BY <2>2, <2>3
<1>3. StreamsRight(K)'
  BY <1>2, StreamsKept
<1> QED
  BY <1>1, <1>3

LEMMA NoThreadStep ==
    ASSUME NEW K, StreamsRight(K), ThreadsRight(K), UNCHANGED <<decoder, read, loop, loopOf>>
    PROVE  StreamsRight(K)' /\ ThreadsRight(K)'
<1>1. StreamsRight(K)'
  BY StreamsKept DEF Left, LeftOf
<1>2. ThreadsRight(K)'
  BY DEF ThreadsRight, ThreadRight, LastOf, LoopType
<1> QED
  BY <1>1, <1>2

\* A step on the way from Dubbo to the consumer.
LEMMA AnswerStep ==
    ASSUME NEW K, StreamsRight(K), ThreadsRight(K), NEW l \in Loops, l = loopOf[Dubbo],
           loop[l].at \notin Reading, NEW a \in {"idle"} \cup Answering,
           NEW h \in Channels \cup {NULL}, NEW b \in Octets, NEW r, GoesOn(l, Work(a, h, b, r)),
           UNCHANGED <<decoder, read, loopOf>>
    PROVE  StreamsRight(K)' /\ ThreadsRight(K)'
<1>1. LoopType'
  BY GoesOnTypes DEF ThreadsRight
<1>2. PICK w : w = Work(a, h, b, r) /\ w.at = a
  BY WorkFacts
<1>3. a \notin Reading
  BY DEF Reading, Answering
<1>4. ThreadRight(K, l, w)
  BY <1>2, <1>3 DEF ThreadRight, Reading
<1>5. \A c \in Channels : LeftOf(w, c) = LeftOf(loop[l], c)
  BY <1>2, <1>3 DEF LeftOf
<1> QED
  BY <1>1, <1>2, <1>4, <1>5, ThreadStep

LEMMA MainStep ==
    ASSUME NEW K, CutInv(K), main
    PROVE  CutInv(K)'
<1>1. UNCHANGED <<decoder, read, loop, loopOf, processingRequest, toDubbo, rpcDecoder>>
  BY DEF main, Connect, setRpcClientChannel, RunServer, switch, rpc
<1>2. {connected', latch', serving'} \subseteq BOOLEAN
  BY DEF main, Connect, setRpcClientChannel, RunServer, CutInv, SidesRight
<1>3. SidesRight'
  BY <1>1, <1>2 DEF CutInv, SidesRight
<1> QED
  BY <1>1, <1>3, NoThreadStep DEF CutInv

LEMMA AnswerCut ==
    ASSUME NEW K, CutInv(K), Answer
    PROVE  CutInv(K)'
<1>1. UNCHANGED <<decoder, read, loop, loopOf, processingRequest, rpcDecoder, connected, latch, serving>>
  BY DEF Answer, start
<1>2. toDubbo' \subseteq toDubbo
  BY DEF Answer
<1>3. SidesRight'
  BY <1>1, <1>2 DEF CutInv, SidesRight
<1> QED
  BY <1>1, <1>3, NoThreadStep DEF CutInv

LEMMA ReceiveRpcCut ==
    ASSUME NEW K, CutInv(K), NEW n, ReceiveRpc(n)
    PROVE  CutInv(K)'
<1>1. UNCHANGED <<decoder, read, loopOf, processingRequest, toDubbo, connected, latch, serving>>
  BY DEF ReceiveRpc, start, switch
<1>2. PICK l \in Loops : l = loopOf[Dubbo]
  BY DEF CutInv, ThreadsRight
<1>3. loop[l].at \notin Reading
  BY <1>2 DEF ReceiveRpc, Idle, Reading
<1>4. GoesOn(l, Work("rpc", NULL, <<>>, NULL))
  BY <1>2, IdleWork DEF ReceiveRpc, GoesOn
<1>5. StreamsRight(K)' /\ ThreadsRight(K)'
  <2>1. "rpc" \in {"idle"} \cup Answering
    BY DEF Answering
  <2> QED
    BY <1>1, <1>2, <1>3, <1>4, <2>1, AnswerStep, IdleWork DEF CutInv
<1>6. rpcDecoder'.isHeader \in BOOLEAN
  BY DEF ReceiveRpc, CutInv, SidesRight
<1> QED
  BY <1>1, <1>5, <1>6 DEF CutInv, SidesRight

LEMMA AnsweringThread ==
    ASSUME NEW K, CutInv(K), NEW l \in Loops, loop[l].at \in Answering
    PROVE  /\ l = loopOf[Dubbo] /\ loop[l].at \notin Reading /\ LoopType
           /\ loop[l].chan \in Channels \cup {NULL} /\ loop[l].in \in Octets
<1>1. LoopType /\ ThreadRight(K, l, loop[l])
  BY DEF CutInv, ThreadsRight
<1> QED
  BY <1>1, LoopFacts DEF ThreadRight, Reading, Answering

LEMMA DecodeCut ==
    ASSUME NEW K, CutInv(K), NEW l \in Loops, decode(l)
    PROVE  CutInv(K)'
<1>1. UNCHANGED <<decoder, read, loopOf, processingRequest, toDubbo, connected, latch, serving>>
  BY DEF decode, start, switch
<1>2. loop[l].at \in Answering
  BY DEF decode, Answering
<1>3. \/ \E r : loop' = [loop EXCEPT ![l].at = "get", ![l].req = r]
      \/ loop' = [loop EXCEPT ![l] = Idle]
  BY DEF decode
<1>4. StreamsRight(K)' /\ ThreadsRight(K)'
  <2>1. CASE loop' = [loop EXCEPT ![l] = Idle]
    <3>1. GoesOn(l, Work("idle", NULL, <<>>, NULL))
      BY <2>1, IdleWork DEF GoesOn
    <3> QED
      BY <1>1, <1>2, <3>1, AnsweringThread, AnswerStep, IdleWork DEF CutInv
  <2>2. ASSUME NEW r, loop' = [loop EXCEPT ![l].at = "get", ![l].req = r]
        PROVE  StreamsRight(K)' /\ ThreadsRight(K)'
    <3>1. GoesOn(l, Work("get", loop[l].chan, loop[l].in, r))
      <4>1. SetsReq(l, "get", r)
        BY <2>2 DEF SetsReq
      <4> QED
        BY <1>2, <4>1, StepsReq, AnsweringThread
    <3>2. "get" \in {"idle"} \cup Answering
      BY DEF Answering
    <3> QED
      BY <1>1, <1>2, <3>1, <3>2, AnsweringThread, AnswerStep DEF CutInv
  <2> QED
    BY <1>3, <2>1, <2>2
<1>5. rpcDecoder'.isHeader \in BOOLEAN
  <2>1. \/ rpcDecoder'.isHeader = TRUE
        \/ rpcDecoder'.isHeader = (rpcDecoder.isHeader /\ ~(rpcDecoder.isHeader /\ Len(rpcDecoder.in) >= HEADER_LENGTH))
    BY DEF decode
  <2> QED
    BY <2>1
<1> QED
  BY <1>1, <1>4, <1>5 DEF CutInv, SidesRight

LEMMA ResponseCut ==
    ASSUME NEW K, CutInv(K), NEW l \in Loops, responseFromDubbo(l)
    PROVE  CutInv(K)'
<1>1. UNCHANGED <<decoder, read, loopOf, toDubbo, rpcDecoder, connected, latch, serving>>
  BY DEF responseFromDubbo, responseFromDubbo_get, responseFromDubbo_remove, responseFromDubbo_reply,
         start, switch, rpc
<1>2. loop[l].at \in Answering
  BY DEF responseFromDubbo, responseFromDubbo_get, responseFromDubbo_remove, responseFromDubbo_reply, Answering
<1>3. /\ LoopType /\ l = loopOf[Dubbo] /\ loop[l].at \notin Reading
      /\ loop[l].chan \in Channels \cup {NULL} /\ loop[l].in \in Octets
  BY <1>2, AnsweringThread
<1>4. \E a \in Answering, h \in Channels \cup {NULL}, b \in Octets : \E r : GoesOn(l, Work(a, h, b, r))
  <2>1. "rpc" \in Answering /\ "remove" \in Answering /\ "reply" \in Answering
    BY DEF Answering
  <2>2. CASE loop' = [loop EXCEPT ![l] = [Idle EXCEPT !.at = "rpc"]]
    <3>1. GoesOn(l, Work("rpc", NULL, <<>>, NULL))
      BY <2>2, IdleWork DEF GoesOn
    <3> QED
      BY <2>1, <3>1, IdleWork
  <2>3. CASE responseFromDubbo_get(l)
    <3>1. CASE loop[l].req.id \in DOMAIN processingRequest
      <4>1. PICK h \in Channels : h = processingRequest[loop[l].req.id].chan
        BY <3>1 DEF CutInv, SidesRight
      <4>2. loop' = [loop EXCEPT ![l].at = "remove", ![l].chan = h]
        BY <2>3, <3>1, <4>1 DEF responseFromDubbo_get
      <4>3. GoesOn(l, Work("remove", h, loop[l].in, loop[l].req))
        <5>1. SetsChan(l, "remove", h)
          BY <4>2 DEF SetsChan
        <5> QED
          BY <1>3, <5>1, StepsChan
      <4> QED
        BY <1>3, <2>1, <4>3
    <3>2. CASE loop[l].req.id \notin DOMAIN processingRequest
      BY <2>2, <2>3, <3>2 DEF responseFromDubbo_get
    <3> QED
      BY <3>1, <3>2
  <2>4. CASE responseFromDubbo_remove(l)
    <3>1. GoesOn(l, Work("reply", loop[l].chan, loop[l].in, loop[l].req))
      <4>1. SetsAt(l, "reply")
        BY <2>4 DEF responseFromDubbo_remove, SetsAt
      <4> QED
        BY <1>3, <4>1, StepsAt
    <3> QED
      BY <1>3, <2>1, <3>1
  <2>5. CASE responseFromDubbo_reply(l)
    BY <2>2, <2>5 DEF responseFromDubbo_reply
  <2> QED
    BY <2>3, <2>4, <2>5 DEF responseFromDubbo
<1>5. StreamsRight(K)' /\ ThreadsRight(K)'
  BY <1>1, <1>3, <1>4, AnswerStep DEF CutInv
<1>6. \A id \in DOMAIN processingRequest' : processingRequest'[id].chan \in Channels
  <2>1. CASE processingRequest' = processingRequest
    BY <2>1 DEF CutInv, SidesRight
  <2>2. CASE responseFromDubbo_remove(l)
    BY <2>2 DEF CutInv, SidesRight, responseFromDubbo_remove, Restrict
  <2> QED
    BY <2>1, <2>2 DEF responseFromDubbo, responseFromDubbo_get, responseFromDubbo_reply, switch
<1> QED
  BY <1>1, <1>5, <1>6 DEF CutInv, SidesRight

LEMMA ReadingThread ==
    ASSUME NEW K, CutInv(K), NEW l \in Loops, loop[l].at \in Reading
    PROVE  /\ LoopType /\ loop[l].chan \in Channels /\ loop[l].in \in Octets
           /\ loopOf[loop[l].chan] = l /\ ThreadRight(K, l, loop[l])
<1>1. LoopType /\ ThreadRight(K, l, loop[l])
  BY DEF CutInv, ThreadsRight
<1> QED
  BY <1>1, LoopFacts DEF ThreadRight

LEMMA PutCut ==
    ASSUME NEW K, CutInv(K), NEW l \in Loops, switchToDubbo_put(l)
    PROVE  CutInv(K)'
<1>1. UNCHANGED <<decoder, read, loopOf, toDubbo, rpcDecoder, connected, latch, serving>>
  BY DEF switchToDubbo_put, start, rpc
<1>2. loop[l].at = "put" /\ "put" \in Reading /\ "write" \in Reading
  BY DEF switchToDubbo_put, Reading
<1>3. /\ LoopType /\ loop[l].chan \in Channels /\ loop[l].in \in Octets
      /\ loopOf[loop[l].chan] = l /\ ThreadRight(K, l, loop[l])
  BY <1>2, ReadingThread
<1>4. PICK w : w = Work("write", loop[l].chan, loop[l].in, loop[l].req)
  OBVIOUS
<1>5. GoesOn(l, w)
  <2>1. SetsAt(l, "write")
    BY DEF switchToDubbo_put, SetsAt
  <2> QED
    BY <1>3, <1>4, <2>1, StepsAt
<1>6. w.at = "write" /\ w.chan = loop[l].chan /\ w.in = loop[l].in /\ w.req = loop[l].req
  BY <1>4, WorkFacts
<1>7. LoopType'
  BY <1>2, <1>3, <1>4, <1>5, GoesOnTypes
<1>8. ThreadRight(K, l, w)
  BY <1>2, <1>3, <1>6 DEF ThreadRight, Reading, Answering
<1>9. \A c \in Channels : LeftOf(w, c) = LeftOf(loop[l], c)
  BY <1>2, <1>6 DEF LeftOf
<1>10. StreamsRight(K)' /\ ThreadsRight(K)'
  BY <1>1, <1>5, <1>7, <1>8, <1>9, ThreadStep DEF CutInv
<1>11. \A id \in DOMAIN processingRequest' : processingRequest'[id].chan \in Channels
  <2>1. processingRequest' = [i \in DOMAIN processingRequest \cup {loop[l].req.id} |->
                                 IF i = loop[l].req.id THEN loop[l].req ELSE processingRequest[i]]
    BY DEF switchToDubbo_put, Kept
  <2>2. loop[l].req.chan \in Channels
    BY <1>2, <1>3 DEF ThreadRight, LastOf
  <2> QED
    BY <2>1, <2>2 DEF CutInv, SidesRight
<1> QED
  BY <1>1, <1>10, <1>11 DEF CutInv, SidesRight

LEMMA WriteCut ==
    ASSUME NEW K, CutInv(K), NEW l \in Loops, switchToDubbo_write(l)
    PROVE  CutInv(K)'
<1>1. UNCHANGED <<decoder, read, loopOf, processingRequest, rpcDecoder, connected, latch, serving>>
  BY DEF switchToDubbo_write, start, rpc
<1>2. loop[l].at = "write" /\ "decode" \in Reading /\ "write" \in Reading
  BY DEF switchToDubbo_write, Reading
<1>3. /\ LoopType /\ loop[l].chan \in Channels /\ loop[l].in \in Octets
      /\ loopOf[loop[l].chan] = l /\ ThreadRight(K, l, loop[l])
  BY <1>2, ReadingThread
<1>4. PICK w : w = Work("decode", loop[l].chan, loop[l].in, NULL)
  OBVIOUS
<1>5. GoesOn(l, w)
  <2>1. SetsReq(l, "decode", NULL)
    BY DEF switchToDubbo_write, SetsReq
  <2> QED
    BY <1>3, <1>4, <2>1, StepsReq
<1>6. w.at = "decode" /\ w.chan = loop[l].chan /\ w.in = loop[l].in
  BY <1>4, WorkFacts
<1>7. LoopType'
  BY <1>2, <1>3, <1>4, <1>5, GoesOnTypes
<1>8. ThreadRight(K, l, w)
  BY <1>2, <1>3, <1>6 DEF ThreadRight, Reading, Answering
<1>9. \A c \in Channels : LeftOf(w, c) = LeftOf(loop[l], c)
  BY <1>2, <1>6 DEF LeftOf
<1>10. StreamsRight(K)' /\ ThreadsRight(K)'
  BY <1>1, <1>5, <1>7, <1>8, <1>9, ThreadStep DEF CutInv
<1>11. \A m \in toDubbo' : DOMAIN m.params = Fields
  <2>1. toDubbo' \in {toDubbo, toDubbo \cup {Message(loop[l].req)}}
    BY DEF switchToDubbo_write
  <2>2. DOMAIN Message(loop[l].req).params = Fields
    <3>1. PICK c \in Channels : c = loop[l].chan
      BY <1>3
    <3>2. K[c] - 1 \in 1..Len(Sent[c]) /\ loop[l].req = LastOf(K, c)
      BY <1>2, <1>3, <3>1 DEF ThreadRight
    <3>3. loop[l].req.data \in DOMAIN Meaning
      <4>1. PICK i \in 1..Len(Sent[c]) : i = K[c] - 1
        BY <3>2
      <4>2. Sent[c][i].form \in DOMAIN Meaning
        BY SentFacts
      <4> QED
        BY <3>2, <4>1, <4>2 DEF LastOf
    <3>4. DOMAIN Parsed[loop[l].req.data] = Fields
      BY <3>3 DEF Parsed, parse
    <3> QED
      BY <3>4 DEF Message
  <2> QED
    BY <2>1, <2>2 DEF CutInv, SidesRight
<1> QED
  BY <1>1, <1>10, <1>11 DEF CutInv, SidesRight

\* The bytes that come in follow those that came before.
LEMMA ReceiveCut ==
    ASSUME NEW K, CutInv(K), NEW c \in Channels, NEW n \in Pieces, Receive(c, n)
    PROVE  CutInv(K)'
<1>1. UNCHANGED <<decoder, loopOf, processingRequest, toDubbo, rpcDecoder, connected, latch, serving>>
  BY DEF Receive, start, rpc, switch
<1>2. PICK l \in Loops : l = loopOf[c]
  BY LoopOfFacts DEF CutInv
<1>3. LoopType /\ loop[l] = Idle
  BY <1>2 DEF Receive, CutInv, ThreadsRight
<1>4. PICK p \in Nat : p = read[c]
  BY DEF CutInv, StreamsRight
<1>5. PICK z \in Nat : z = Len(Stream[c])
  BY StreamFacts
<1>6. PICK to \in Nat : /\ to = IF p + n < z THEN p + n ELSE z
                        /\ p < to /\ to <= z
  <2>1. n \in Nat \ {0} /\ p < z
    BY <1>4, <1>5, PiecesAssumption DEF Receive
  <2> QED
    BY <2>1
<1>7. PICK in : in = SubSeq(Stream[c], p + 1, to)
  OBVIOUS
<1>8. PICK w : w = Work("decode", c, in, NULL)
  OBVIOUS
<1>9. GoesOn(l, w) /\ read' = [read EXCEPT ![c] = to]
  BY <1>2, <1>4, <1>5, <1>6, <1>7, <1>8 DEF Receive, GoesOn, Work
<1>10. in \in Octets /\ Len(in) = to - p /\ \A j \in 1..(to - p) : in[j] = Stream[c][p + j]
  <2>1. PICK m \in Nat \ {0} : m = p + 1
    OBVIOUS
  <2>2. m <= to + 1 /\ to + 1 - m = to - p /\ m - 1 = p
    BY <2>1, <1>6
  <2>3. Stream[c] \in Octets
    BY StreamFacts
  <2>4. /\ SubSeq(Stream[c], m, to) \in Octets /\ Len(SubSeq(Stream[c], m, to)) = to + 1 - m
        /\ \A j \in 1..(to + 1 - m) : SubSeq(Stream[c], m, to)[j] = Stream[c][m - 1 + j]
    BY <1>5, <1>6, <2>2, <2>3, SubSeqFacts
  <2>5. in = SubSeq(Stream[c], m, to)
    BY <1>7, <2>1
  <2> QED
    BY <2>2, <2>4, <2>5
<1>11. w.at = "decode" /\ w.chan = c /\ w.in = in /\ "decode" \in Reading
  BY <1>8, WorkFacts DEF Reading
<1>12. LoopType'
  BY <1>3, <1>8, <1>9, <1>10, <1>11, GoesOnTypes
<1>13. ThreadRight(K, l, w)
  BY <1>2, <1>11 DEF ThreadRight, Reading, Answering
<1>14. ThreadsRight(K)'
  BY <1>1, <1>9, <1>12, <1>13, ThreadsStep DEF CutInv
<1>15. read' \in [Channels -> Nat]
  BY <1>9 DEF CutInv, StreamsRight
<1>16. ASSUME NEW d \in Channels PROVE Decodes(d, K[d], decoder[d], Left(d)', Place(d)')
  <2>1. Decodes(d, K[d], decoder[d], Left(d), Place(d)) /\ loopOf[d] \in Loops /\ read[d] \in Nat
    BY LoopOfFacts DEF CutInv, StreamsRight
  <2>2. CASE d = c
    <3>1. Left(c) = <<>> /\ Place(c) = p
      <4>1. Left(c) = <<>>
        BY <1>2, <1>3 DEF Left, LeftOf, Idle, Reading
      <4> QED
        BY <4>1, <1>4, IdleWork DEF Place
    <3>2. Left(c)' = in
      <4>1. loop'[l] = w /\ loopOf'[c] = l
        BY <1>1, <1>2, <1>3, <1>9, GoesOnFacts
      <4> QED
        BY <4>1, <1>11 DEF Left, LeftOf
    <3>3. Place(c)' = p
      <4>1. read'[c] = to
        BY <1>9 DEF CutInv, StreamsRight
      <4> QED
        BY <1>6, <1>10, <3>2, <4>1 DEF Place
    <3>4. Ahead(c, in, p)
      BY <1>5, <1>6, <1>10 DEF Ahead
    <3> QED
      BY <2>1, <2>2, <3>1, <3>2, <3>3, <3>4 DEF Decodes
  <2>3. CASE d # c
    <3>1. read'[d] = read[d]
      BY <1>9, <2>3 DEF CutInv, StreamsRight
    <3>2. Left(d)' = Left(d)
      <4>1. CASE loopOf[d] = l
        <5>1. loop'[l] = w /\ loopOf'[d] = l
          BY <1>1, <4>1, <1>3, <1>9, GoesOnFacts
        <5>2. Left(d)' = <<>>
          BY <5>1, <1>11, <2>3 DEF Left, LeftOf
        <5>3. Left(d) = <<>>
          BY <4>1, <1>3 DEF Left, LeftOf, Idle, Reading
        <5> QED
          BY <5>2, <5>3
      <4>2. CASE loopOf[d] # l
        <5>1. loop'[loopOf[d]] = loop[loopOf[d]]
          BY <2>1, <4>2, <1>3, <1>9, GoesOnFacts
        <5> QED
          BY <1>1, <5>1 DEF Left, LeftOf
      <4> QED
        BY <4>1, <4>2
    <3>3. Place(d)' = Place(d)
      BY <3>1, <3>2 DEF Place
    <3> QED
      BY <2>1, <3>2, <3>3
  <2> QED
    BY <2>2, <2>3
<1>17. StreamsRight(K)'
  <2>1. ASSUME NEW d \in Channels PROVE Decodes(d, K[d], decoder[d], Left(d), Place(d))'
    BY <1>1, <1>16 DEF Decodes, Ahead, HeaderPart, DataPart
  <2> QED
    BY <1>1, <1>15, <2>1 DEF CutInv, StreamsRight
<1> QED
  BY <1>1, <1>14, <1>17 DEF CutInv, SidesRight

\* The connections that a step of thread l on connection c leaves alone.
LEMMA OthersKept ==
    ASSUME NEW K, StreamsRight(K), ThreadsRight(K), NEW l \in Loops, NEW w, GoesOn(l, w),
           loop[l].at \in Reading, NEW c \in Channels, c = loop[l].chan,
           w.at \in Reading => w.chan = c, UNCHANGED <<read, loopOf>>,
           NEW d \in Channels, d # c, decoder'[d] = decoder[d]
    PROVE  Decodes(d, K[d], decoder'[d], Left(d)', Place(d)')
<1>1. /\ Decodes(d, K[d], decoder[d], Left(d), Place(d)) /\ loopOf[d] \in Loops
      /\ LoopType /\ loopOf'[d] = loopOf[d]
  BY LoopOfFacts DEF StreamsRight, ThreadsRight
<1>2. Left(d)' = Left(d)
  <2>1. CASE loopOf[d] = l
    <3>1. loop'[l] = w
      BY <1>1, GoesOnFacts
    <3>2. Left(d)' = <<>>
      BY <1>1, <2>1, <3>1 DEF Left, LeftOf
    <3>3. Left(d) = <<>>
      BY <2>1 DEF Left, LeftOf
    <3> QED
      BY <3>2, <3>3
  <2>2. CASE loopOf[d] # l
    <3>1. loop'[loopOf[d]] = loop[loopOf[d]]
      BY <1>1, <2>2, GoesOnFacts
    <3> QED
      BY <1>1, <3>1 DEF Left, LeftOf
  <2> QED
    BY <2>1, <2>2
<1>3. Place(d)' = Place(d)
  BY <1>2 DEF Place
<1> QED
  BY <1>1, <1>2, <1>3

DecoderGets(c, e) == decoder' = [decoder EXCEPT ![c] = e]

LEMMA StreamsNext ==
    ASSUME NEW K, StreamsRight(K), ThreadsRight(K), NEW l \in Loops, NEW w, GoesOn(l, w),
           loop[l].at \in Reading, NEW c \in Channels, c = loop[l].chan,
           w.at \in Reading => w.chan = c, UNCHANGED <<read, loopOf>>,
           NEW e \in DecoderSet, DecoderGets(c, e),
           NEW M \in [Channels -> Nat \ {0}], \A d \in Channels \ {c} : M[d] = K[d],
           Decodes(c, M[c], e, Left(c)', Place(c)')
    PROVE  StreamsRight(M)'
<1>1. decoder \in [Channels -> DecoderSet] /\ read \in [Channels -> Nat]
  BY DEF StreamsRight
<1>2. decoder' \in [Channels -> DecoderSet] /\ decoder'[c] = e
  BY <1>1 DEF DecoderGets
<1>3. ASSUME NEW d \in Channels PROVE Decodes(d, M[d], decoder'[d], Left(d)', Place(d)')
  <2>1. CASE d = c
    BY <1>2, <2>1
  <2>2. CASE d # c
    <3>1. decoder'[d] = decoder[d] /\ M[d] = K[d]
      BY <1>1, <2>2 DEF DecoderGets
    <3>2. Decodes(d, K[d], decoder'[d], Left(d)', Place(d)')
      BY <2>2, <3>1, OthersKept
    <3> QED
      BY <3>1, <3>2
  <2> QED
    BY <2>1, <2>2
<1>4. ASSUME NEW d \in Channels PROVE Decodes(d, M[d], decoder[d], Left(d), Place(d))'
  BY <1>3 DEF Decodes, Ahead, HeaderPart, DataPart
<1> QED
  BY <1>1, <1>2, <1>4 DEF StreamsRight

\* The decoder goes on to the next request.
Onward(K, c) == [K EXCEPT ![c] = K[c] + 1]

\* A turn of channelRead uses up the bytes, or completes the request that the
\* decoder is in.
ReadsUp(K, l) == GoesOn(l, Idle) /\ CutInv(K)'
Completes(K, M, l, c) ==
    /\ c = loop[l].chan /\ c \in Channels /\ K[c] \in 1..Len(Sent[c]) /\ M = Onward(K, c)
    /\ \E b \in Octets : GoesOn(l, Work("put", c, b, LastOf(M, c)))
    /\ CutInv(M)'

LEMMA ChannelReadCut ==
    ASSUME NEW K, CutInv(K), NEW l \in Loops, channelRead(l)
    PROVE  ReadsUp(K, l) \/ \E M, c : Completes(K, M, l, c)
<1>1. UNCHANGED <<read, loopOf, processingRequest, toDubbo, rpcDecoder, connected, latch, serving>>
  BY DEF channelRead, start, rpc, switch
<1>2. loop[l].at = "decode" /\ loop[l].at \in Reading
  BY DEF channelRead, Reading
<1>3. PICK c \in Channels : c = loop[l].chan
  BY <1>2, ReadingThread
<1>4. PICK b \in Octets : b = loop[l].in
  BY <1>2, ReadingThread
<1>5. LoopType /\ loopOf[c] = l
  BY <1>2, <1>3, ReadingThread
<1>6. PICK d \in DecoderSet : d = decoder[c]
  BY DEF CutInv, StreamsRight
<1>7. PICK x \in Nat : x = Len(b)
  BY LenProperties DEF Octets
<1>8. PICK p \in Nat : p = read[c] - x /\ Decodes(c, K[c], d, b, p)
  <2>1. Left(c) = b
    BY <1>2, <1>3, <1>4, <1>5 DEF Left, LeftOf
  <2>2. Decodes(c, K[c], d, b, read[c] - x)
    BY <2>1, <1>6, <1>7 DEF CutInv, StreamsRight, Place
  <2>3. read[c] - x \in Nat
    BY <2>2 DEF Decodes, Ahead
  <2> QED
    BY <2>2, <2>3
<1>9. PICK e : e = ReadHeader(d, b)
  OBVIOUS
<1>10. PICK m \in Nat : HeaderTaken(c, K[c], d, b, p, e, m)
  <2>1. \E m : HeaderTaken(c, K[c], d, b, p, e, m)
    BY <1>8, <1>9, ReadHeaderRight
  <2> QED
    BY <2>1 DEF HeaderTaken
<1>11. e \in DecoderSet /\ m = Len(e.header) - Len(d.header)
  BY <1>7, <1>10 DEF HeaderTaken
<1>18. m <= x /\ (e.isHeader = TRUE => m = x)
  BY <1>7, <1>10 DEF HeaderTaken
<1>12. PICK in \in Octets : in = Drop(b, m) /\ Len(in) = x - m
  BY <1>7, <1>18, DropFacts
<1>19. StreamsRight(K) /\ ThreadsRight(K)
  BY DEF CutInv
<1>17. PICK q \in Nat : q = p + m /\ Decodes(c, K[c], e, in, q)
  <2>1. Decodes(c, K[c], e, Drop(b, m), p + m)
    BY <1>10 DEF HeaderTaken
  <2> QED
    BY <1>12, <2>1
<1>13. PICK need : need = e.dataLength - Len(e.data)
  OBVIOUS
<1>14. read[c] \in Nat /\ read[c] = p + x /\ K[c] \in Nat \ {0}
  <2>1. read[c] \in Nat /\ K[c] \in Nat \ {0}
    BY DEF CutInv, StreamsRight
  <2> QED
    BY <2>1, <1>8
<1>15. CASE ~e.isHeader /\ Len(in) >= need
  <2>1. PICK y : y = Drop(in, need)
    OBVIOUS
  <2>2. PICK r : r = [id |-> e.requestId, data |-> e.data \o Take(in, need), chan |-> c]
    OBVIOUS
  <2>3. /\ SetsIn(l, "put", y, r) /\ decoder' = [decoder EXCEPT ![c] = Fresh]
    BY <1>3, <1>4, <1>6, <1>9, <1>11, <1>12, <1>13, <1>15, <2>1, <2>2 DEF channelRead, SetsIn
  <2>4. PICK w : w = Work("put", c, y, r) /\ GoesOn(l, w)
    BY <1>3, <1>5, <2>3, StepsIn
  <2>5. e.isHeader = FALSE
    BY <1>11, <1>15 DEF DecoderSet
  <2>6. /\ need \in Nat /\ need <= x - m
        /\ K[c] \in 1..Len(Sent[c]) /\ e.requestId = Sent[c][K[c]].id
        /\ e.data \o Take(in, need) = Sent[c][K[c]].form
        /\ Decodes(c, K[c] + 1, Fresh, y, q + need)
    <3>1. BodyDone(c, K[c], e, in, q, need)
      BY <1>11, <1>13, <1>15, <1>17, <2>5, BodyComplete
    <3> QED
      BY <1>12, <2>1, <3>1 DEF BodyDone
  <2>7. PICK M : M = Onward(K, c)
    OBVIOUS
  <2>8. M \in [Channels -> Nat \ {0}] /\ M[c] = K[c] + 1 /\ \A d1 \in Channels \ {c} : M[d1] = K[d1]
    BY <2>7, <1>14 DEF Onward, CutInv, StreamsRight
  <2>9. M[c] - 1 = K[c]
    BY <1>14, <2>8
  <2>10. r = LastOf(M, c)
    BY <2>2, <2>6, <2>9 DEF LastOf
  <2>11. y \in Octets /\ Len(y) = x - m - need
    <3>1. need <= Len(in)
      BY <1>12, <2>6
    <3> QED
      BY <1>12, <2>1, <2>6, <3>1, DropFacts
  <2>12. w.at = "put" /\ w.chan = c /\ w.in = y /\ w.req = r /\ "put" \in Reading
    BY <2>4, WorkFacts DEF Reading
  <2>13. LoopType'
    BY <1>5, <2>4, <2>11, <2>12, GoesOnTypes
  <2>14. ThreadRight(M, l, w)
    BY <1>5, <2>6, <2>9, <2>10, <2>12 DEF ThreadRight, Reading, Answering
  <2>15. ASSUME NEW m1 \in Loops \ {l}, ThreadRight(K, m1, loop[m1]) PROVE ThreadRight(M, m1, loop[m1])
    <3>1. CASE loop[m1].at \in {"put", "write"}
      <4>1. loop[m1].chan \in Channels \ {c}
        BY <1>5, <2>15, <3>1 DEF ThreadRight, Reading
      <4>2. M[loop[m1].chan] = K[loop[m1].chan]
        BY <4>1, <2>8
      <4> QED
        BY <2>15, <3>1, <4>2 DEF ThreadRight, LastOf
    <3>2. CASE loop[m1].at \notin {"put", "write"}
      BY <2>15, <3>2 DEF ThreadRight
    <3> QED
      BY <3>1, <3>2
  <2>16. ThreadsRight(M)'
    BY <1>1, <2>4, <2>13, <2>14, <2>15, ThreadsStep DEF CutInv
  <2>17. Left(c)' = y /\ Place(c)' = q + need
    <3>1. loop'[l] = w /\ loopOf'[c] = l
      BY <1>1, <1>5, <2>4, GoesOnFacts
    <3>2. Left(c)' = y
      BY <3>1, <2>12 DEF Left, LeftOf
    <3>3. read'[c] - Len(y) = q + need
      <4>1. Len(y) = x - m - need /\ need \in Nat
        BY <2>6, <2>11
      <4>2. read'[c] = p + x
        BY <1>1, <1>14
      <4> QED
        BY <1>17, <4>1, <4>2
    <3> QED
      BY <3>2, <3>3 DEF Place
  <2>18. Fresh \in DecoderSet
    BY EmptySeq DEF Fresh, DecoderSet, Octets
  <2>19. StreamsRight(M)'
    <3>1. DecoderGets(c, Fresh) /\ Decodes(c, M[c], Fresh, Left(c)', Place(c)')
      BY <2>3, <2>6, <2>8, <2>17 DEF DecoderGets
    <3> QED
      BY <1>1, <1>2, <1>3, <1>19, <2>4, <2>8, <2>12, <2>18, <3>1, StreamsNext
  <2>20. CutInv(M)'
    BY <1>1, <2>16, <2>19 DEF CutInv, SidesRight
  <2> QED
    <3>1. GoesOn(l, Work("put", c, y, LastOf(M, c)))
      BY <2>4, <2>10
    <3>2. Completes(K, M, l, c)
      BY <1>3, <2>6, <2>7, <2>11, <2>20, <3>1 DEF Completes
    <3> QED
      BY <3>2
<1>16. CASE ~(~e.isHeader /\ Len(in) >= need)
  <2>1. PICK f : f = IF e.isHeader THEN e ELSE [e EXCEPT !.data = @ \o in]
    OBVIOUS
  <2>2. loop' = [loop EXCEPT ![l] = Idle] /\ decoder' = [decoder EXCEPT ![c] = f]
    BY <1>3, <1>4, <1>6, <1>9, <1>11, <1>12, <1>13, <1>16, <2>1 DEF channelRead
  <2>3. f \in DecoderSet /\ Decodes(c, K[c], f, <<>>, p + x)
    <3>1. CASE e.isHeader = TRUE
      <4>1. m = x /\ f = e /\ Len(in) = 0
        BY <1>12, <1>18, <2>1, <3>1
      <4>2. in = <<>>
        BY <4>1, EmptySeq DEF Octets
      <4> QED
        BY <1>11, <1>17, <4>1, <4>2
    <3>2. CASE e.isHeader = FALSE
      <4>1. f = [e EXCEPT !.data = @ \o in] /\ ~(Len(in) >= e.dataLength - Len(e.data))
        BY <1>13, <1>16, <2>1, <3>2
      <4>2. f \in DecoderSet /\ Decodes(c, K[c], f, <<>>, q + Len(in))
        BY <1>11, <1>17, <3>2, <4>1, BodyPart
      <4>3. q + Len(in) = p + x
        BY <1>12, <1>17
      <4> QED
        BY <4>2, <4>3
    <3> QED
      BY <1>11, <3>1, <3>2 DEF DecoderSet
  <2>4. PICK w : w = Idle /\ GoesOn(l, w) /\ w = Work("idle", NULL, <<>>, NULL) /\ w.at = "idle"
    <3>1. GoesOn(l, Idle)
      BY <2>2 DEF GoesOn
    <3>2. Idle = Work("idle", NULL, <<>>, NULL)
      BY IdleWork
    <3>3. Idle.at = "idle"
      BY DEF Idle
    <3> QED
      BY <3>1, <3>2, <3>3
  <2>5. LoopType'
    <3>1. GoesOn(l, Work("idle", NULL, <<>>, NULL))
      BY <2>4
    <3>2. <<>> \in Octets
      BY IdleWork
    <3> QED
      BY <1>5, <3>1, <3>2, GoesOnTypes
  <2>6. ThreadRight(K, l, w) /\ "idle" \notin Reading
    BY <2>4 DEF ThreadRight, Reading, Answering
  <2>7. ThreadsRight(K)'
    BY <1>1, <2>4, <2>5, <2>6, ThreadsStep DEF CutInv
  <2>8. Left(c)' = <<>> /\ Place(c)' = p + x
    <3>1. loop'[l] = w /\ loopOf'[c] = l
      BY <1>1, <1>5, <2>4, GoesOnFacts
    <3>2. Left(c)' = <<>>
      BY <3>1, <2>4, <2>6 DEF Left, LeftOf
    <3>3. read'[c] - Len(<<>>) = p + x
      BY <1>1, <1>14, IdleWork
    <3> QED
      BY <3>2, <3>3 DEF Place
  <2>9. StreamsRight(K)'
    <3>1. K \in [Channels -> Nat \ {0}]
      BY DEF CutInv, StreamsRight
    <3> QED
      <4>1. DecoderGets(c, f) /\ Decodes(c, K[c], f, Left(c)', Place(c)')
        BY <2>2, <2>3, <2>8 DEF DecoderGets
      <4> QED
        BY <1>1, <1>2, <1>3, <1>19, <2>3, <2>4, <2>6, <3>1, <4>1, StreamsNext
  <2>10. CutInv(K)'
    BY <1>1, <2>7, <2>9 DEF CutInv, SidesRight
  <2> QED
    BY <2>4, <2>10 DEF ReadsUp
<1> QED
  BY <1>15, <1>16
-----------------------------------------------------------------------------
LEMMA CutInit ==
    ASSUME Init
    PROVE  \E K : CutInv(K)
<1> DEFINE K == [c \in Channels |-> 1]
<1>1. K \in [Channels -> Nat \ {0}] /\ \A c \in Channels : K[c] = 1
  OBVIOUS
<1> HIDE DEF K
<1>2. Idle \in LoopSet({NULL})
  BY EmptySeq DEF Idle, LoopSet, Octets
<1>3. LoopType
  <2>1. loop \in [Loops -> LoopSet({NULL})]
    BY <1>2 DEF Init
  <2> QED
    BY <2>1 DEF LoopType
<1>4. ThreadsRight(K)
  <2>1. ASSUME NEW l \in Loops PROVE ThreadRight(K, l, loop[l])
    BY DEF Init, ThreadRight, Idle, Reading, Answering
  <2> QED
    BY <1>3, <2>1 DEF Init, ThreadsRight
<1>5. Fresh \in DecoderSet /\ Fresh.isHeader = TRUE /\ Fresh.header = <<>> /\ Fresh.data = <<>>
  BY EmptySeq DEF Fresh, DecoderSet, Octets
<1>6. decoder \in [Channels -> DecoderSet] /\ read \in [Channels -> Nat]
  BY <1>5 DEF Init
<1>7. ASSUME NEW c \in Channels PROVE Decodes(c, K[c], decoder[c], Left(c), Place(c))
  <2>1. loopOf[c] \in Loops
    BY <1>4, LoopOfFacts
  <2>2. Left(c) = <<>>
    BY <2>1 DEF Init, Left, LeftOf, Idle, Reading
  <2>3. Place(c) = 0
    BY <2>2, IdleWork DEF Init, Place
  <2>4. decoder[c] = Fresh /\ K[c] = 1 /\ Len(<<>>) = 0
    BY <1>1, IdleWork DEF Init
  <2>5. Len(Sent[c]) \in Nat /\ Len(Stream[c]) \in Nat /\ Start[c][1] = 0
    BY SentFacts, StreamFacts
  <2>6. Ahead(c, <<>>, 0)
    BY <2>4, <2>5 DEF Ahead
  <2>7. HeaderPart(c, 1, Fresh, 0)
    BY <1>5, <2>4, <2>5, WidthFacts DEF HeaderPart
  <2>8. 1 \in 1..(Len(Sent[c]) + 1)
    BY <2>5
  <2> QED
    BY <1>5, <2>2, <2>3, <2>4, <2>6, <2>7, <2>8 DEF Decodes
<1>8. StreamsRight(K)
  BY <1>1, <1>6, <1>7 DEF StreamsRight
<1>9. SidesRight
  <2>1. DOMAIN processingRequest = {}
    <3>1. DOMAIN <<>> = {}
      OBVIOUS
    <3> QED
      BY <3>1 DEF Init
  <2>2. {connected, latch, serving} \subseteq BOOLEAN /\ rpcDecoder.isHeader \in BOOLEAN /\ toDubbo = {}
    BY DEF Init
  <2> QED
    BY <2>1, <2>2 DEF SidesRight
<1>10. CutInv(K)
  BY <1>4, <1>8, <1>9 DEF CutInv
<1> QED
  BY <1>10

LEMMA CutNext ==
    ASSUME NEW K, CutInv(K), [Next]_vars
    PROVE  \E M : CutInv(M)'
<1>1. CASE main
  BY <1>1, MainStep
<1>2. CASE Answer
  BY <1>2, AnswerCut
<1>3. CASE Network
  BY <1>3, ReceiveRpcCut, ReceiveCut DEF Network
<1>4. ASSUME NEW l \in Loops, Handler(l) PROVE \E M : CutInv(M)'
  <2>1. CASE channelRead(l)
    BY <2>1, ChannelReadCut DEF ReadsUp, Completes
  <2>2. CASE switchToDubbo(l)
    BY <2>2, PutCut, WriteCut DEF switchToDubbo
  <2>3. CASE decode(l)
    BY <2>3, DecodeCut
  <2>4. CASE responseFromDubbo(l)
    BY <2>4, ResponseCut
  <2> QED
    BY <1>4, <2>1, <2>2, <2>3, <2>4 DEF Handler
<1>5. CASE UNCHANGED vars
  <2>1. UNCHANGED <<decoder, read, loop, loopOf, processingRequest, toDubbo, rpcDecoder, connected, latch, serving>>
    BY <1>5 DEF vars, start, switch, rpc
  <2>2. SidesRight'
    BY <2>1 DEF CutInv, SidesRight
  <2>3. CutInv(K)'
    BY <2>1, <2>2, NoThreadStep DEF CutInv
  <2> QED
    BY <2>3
<1> QED
  BY <1>1, <1>2, <1>3, <1>4, <1>5 DEF Next

LEMMA CutImplies ==
    ASSUME NEW K, CutInv(K)
    PROVE  CutRight
<1>1. \A l \in Loops : loop[l].at \in {"idle", "decode", "put", "write", "rpc", "get", "remove", "reply"}
                       /\ loop[l].chan \in Channels \cup {NULL}
  BY LoopFacts DEF CutInv, ThreadsRight, Reading, Answering
<1>2. ASSUME NEW c \in Channels
      PROVE  /\ Len(decoder[c].header) <= HEADER_LENGTH
             /\ decoder[c].isHeader => decoder[c].data = <<>>
             /\ read[c] \in 0..Len(Stream[c])
  <2>1. PICK d \in DecoderSet : d = decoder[c]
    BY DEF CutInv, StreamsRight
  <2>2. Decodes(c, K[c], d, Left(c), Place(c)) /\ d.isHeader \in BOOLEAN
    BY <2>1 DEF CutInv, StreamsRight, DecoderSet
  <2>3. Len(d.header) <= HEADER_LENGTH
    <3>1. Len(d.header) \in Nat /\ HEADER_LENGTH \in Nat
      BY <2>1, WidthFacts, LenProperties DEF DecoderSet, Octets
    <3>2. Len(d.header) < HEADER_LENGTH \/ Len(d.header) = HEADER_LENGTH
      BY <2>2 DEF Decodes, HeaderPart, DataPart
    <3> QED
      BY <3>1, <3>2
  <2>4. d.isHeader => d.data = <<>>
    BY <2>2 DEF Decodes, HeaderPart
  <2>5. read[c] \in 0..Len(Stream[c])
    <3>1. Ahead(c, Left(c), Place(c))
      BY <2>2 DEF Decodes
    <3>2. read[c] \in Nat /\ Len(Stream[c]) \in Nat
      BY StreamFacts DEF CutInv, StreamsRight
    <3>3. Len(Left(c)) \in Nat
      <4>1. loopOf[c] \in Loops /\ LoopType
        BY LoopOfFacts DEF CutInv, ThreadsRight
      <4>2. Left(c) \in Octets
        BY <4>1, LoopFacts, IdleWork DEF Left, LeftOf
      <4> QED
        BY <4>2, LenProperties DEF Octets
    <3>4. read[c] - Len(Left(c)) + Len(Left(c)) <= Len(Stream[c])
      BY <3>1 DEF Ahead, Place
    <3> QED
      BY <3>2, <3>3, <3>4
  <2> QED
    BY <2>1, <2>3, <2>4, <2>5
<1>3. TypeOK
  BY <1>1, <1>2 DEF TypeOK, CutInv, SidesRight
<1>4. ASSUME NEW l \in Loops, loop[l].at \in {"put", "write"}
      PROVE  \E i \in DOMAIN Sent[loop[l].chan] :
                 Sent[loop[l].chan][i] = [id |-> loop[l].req.id, form |-> loop[l].req.data]
  <2>1. loop[l].at \in Reading
    BY <1>4 DEF Reading
  <2>2. PICK c \in Channels : c = loop[l].chan
    BY <2>1, ReadingThread
  <2>3. K[c] - 1 \in 1..Len(Sent[c]) /\ loop[l].req = LastOf(K, c)
    BY <1>4, <2>1, <2>2, ReadingThread DEF ThreadRight
  <2>4. PICK i \in 1..Len(Sent[c]) : i = K[c] - 1
    BY <2>3
  <2>5. loop[l].req.id = Sent[c][i].id /\ loop[l].req.data = Sent[c][i].form
    BY <2>3, <2>4 DEF LastOf
  <2>6. i \in DOMAIN Sent[c] /\ Sent[c][i] = [id |-> Sent[c][i].id, form |-> Sent[c][i].form]
    BY SentFacts
  <2> QED
    BY <2>2, <2>5, <2>6
<1> QED
  BY <1>3, <1>4 DEF CutRight

\* However the network cuts the streams into pieces, and whichever threads serve
\* the connections, ProviderAgentAdvanceDecoder passes on requests that were
\* sent, each with its own id and data: for every number of connections,
\* threads and requests, every width of the numbers and every content.
THEOREM StreamsCutRight == Spec => []CutRight
<1> DEFINE I == \E K : CutInv(K)
<1>1. Init => I
  BY CutInit
<1>2. I /\ [Next]_vars => I'
  BY CutNext
<1>3. I => CutRight
  BY CutImplies
<1> QED
  BY <1>1, <1>2, <1>3, PTL DEF Spec
-----------------------------------------------------------------------------
(* The answers of the provider *)

\* What was sent under an id, and what Dubbo is asked; what is returned for it,
\* and its answer.
Known(id) == \E c \in Channels : id \in Asked(c)
Due(id) == Known(id) /\ Complete(Meaning[FormOf(id)])
ValueOf(id) == Meaning[FormOf(id)][Result]
AnswerOf(id) == Frame(id, ValueOf(id))

LEMMA FormOfSent ==
    ASSUME NEW c \in Channels, NEW i \in 1..Len(Sent[c])
    PROVE  FormOf(Sent[c][i].id) = Sent[c][i].form /\ Sent[c][i].id \in Asked(c)
<1>1. PICK id : id = Sent[c][i].id
  OBVIOUS
<1>2. \A d \in Channels : DOMAIN Sent[d] = 1..Len(Sent[d])
  BY SentFacts
<1>3. id \in Asked(c)
  BY <1>1, <1>2 DEF Asked
<1>4. PICK d \in Channels : d = CHOOSE e \in Channels : id \in Asked(e)
  BY <1>3
<1>5. id \in Asked(d)
  BY <1>3, <1>4
<1>6. PICK j \in DOMAIN Sent[d] : j = CHOOSE k \in DOMAIN Sent[d] : Sent[d][k].id = id
  BY <1>5 DEF Asked
<1>7. Sent[d][j].id = id
  BY <1>5, <1>6 DEF Asked
<1>8. d = c /\ j = i
  <2>1. i \in DOMAIN Sent[c] /\ j \in DOMAIN Sent[d] /\ Sent[d][j].id = Sent[c][i].id
    BY <1>1, <1>2, <1>7
  <2> QED
    BY <2>1, IdsAssumption, Zenon
<1>9. FormOf(id) = Sent[d][j].form
  BY <1>4, <1>6 DEF FormOf
<1> QED
  BY <1>1, <1>3, <1>8, <1>9

LEMMA KnownFacts ==
    ASSUME NEW id, Known(id)
    PROVE  id \in Nat /\ Fits(id, IdWidth) /\ FormOf(id) \in DOMAIN Meaning
<1>1. PICK c \in Channels : id \in Asked(c)
  BY DEF Known
<1>2. PICK i \in 1..Len(Sent[c]) : Sent[c][i].id = id
  BY <1>1, SentFacts DEF Asked
<1> QED
  BY <1>2, SentFacts, FormOfSent

LEMMA DueFacts ==
    ASSUME NEW id, Due(id)
    PROVE  /\ id \in Nat /\ Fits(id, IdWidth) /\ FormOf(id) \in DOMAIN Meaning
           /\ ValueOf(id) \in Octets /\ Fits(Len(ValueOf(id)), SizeWidth) /\ Len(ValueOf(id)) \in Nat
<1>1. id \in Nat /\ Fits(id, IdWidth) /\ FormOf(id) \in DOMAIN Meaning
  BY KnownFacts DEF Due
<1>2. ValueOf(id) \in Octets /\ Fits(Len(ValueOf(id)), SizeWidth)
  BY <1>1, MeaningAssumption DEF Due, ValueOf, Octets, Byte
<1>3. Len(ValueOf(id)) \in Nat
  BY <1>2, LenProperties DEF Octets
<1> QED
  BY <1>1, <1>2, <1>3

\* x stands in T behind position p.
Within(T, x, p) ==
    /\ x \in Octets /\ p \in Nat /\ p + Len(x) <= Len(T)
    /\ \A j \in 1..Len(x) : x[j] = T[p + j]

LEMMA WithinDrop ==
    ASSUME NEW T \in Octets, NEW x \in Octets, NEW p, Within(T, x, p), NEW m \in Nat, m <= Len(x)
    PROVE  Within(T, Drop(x, m), p + m) /\ Len(Drop(x, m)) = Len(x) - m
<1>1. PICK r \in Octets : r = Drop(x, m)
  BY DropFacts
<1>2. PICK z \in Nat : z = Len(x)
  BY DropFacts
<1>3. Len(r) = z - m /\ \A j \in 1..(z - m) : r[j] = x[m + j]
  BY <1>1, <1>2, DropFacts
<1>4. p \in Nat /\ p + z <= Len(T) /\ Len(T) \in Nat
  BY <1>2, LenProperties DEF Within, Octets
<1>5. p + m \in Nat /\ p + m + Len(r) <= Len(T)
  BY <1>2, <1>3, <1>4
<1>6. ASSUME NEW j \in 1..(z - m) PROVE r[j] = T[p + m + j]
  <2>1. m + j \in 1..z /\ p + (m + j) = p + m + j
    BY <1>2, <1>4
  <2>2. x[m + j] = T[p + (m + j)]
    BY <1>2, <2>1 DEF Within
  <2> QED
    BY <1>3, <2>1, <2>2
<1>7. Within(T, r, p + m)
  BY <1>3, <1>5, <1>6 DEF Within
<1> QED
  BY <1>1, <1>2, <1>3, <1>7

LEMMA WithinTake ==
    ASSUME NEW T \in Octets, NEW x \in Octets, NEW p, Within(T, x, p), NEW m \in Nat, m <= Len(x)
    PROVE  Within(T, Take(x, m), p) /\ Len(Take(x, m)) = m
<1>1. PICK r \in Octets : r = Take(x, m) /\ Len(r) = m /\ \A j \in 1..m : r[j] = x[j]
  BY TakeFacts
<1>2. PICK z \in Nat : z = Len(x)
  BY DropFacts
<1>3. p \in Nat /\ p + z <= Len(T) /\ Len(T) \in Nat
  BY <1>2, LenProperties DEF Within, Octets
<1>4. p + Len(r) <= Len(T)
  BY <1>1, <1>2, <1>3
<1>5. \A j \in 1..m : j \in 1..z
  BY <1>2
<1>6. Within(T, r, p)
  BY <1>1, <1>2, <1>3, <1>4, <1>5 DEF Within
<1> QED
  BY <1>1, <1>6

LEMMA WithinJoin ==
    ASSUME NEW T \in Octets, NEW x, NEW y, NEW p, Within(T, x, p), NEW q, q = p + Len(x), Within(T, y, q)
    PROVE  Within(T, x \o y, p) /\ Len(x \o y) = Len(x) + Len(y)
<1>1. x \in Octets /\ y \in Octets /\ p \in Nat /\ q \in Nat
  BY DEF Within
<1>2. PICK a \in Nat : a = Len(x)
  BY <1>1, ConcatFacts
<1>3. PICK b \in Nat : b = Len(y)
  BY <1>1, ConcatFacts
<1>4. PICK w : w = x \o y /\ Joined(w, x, y, a, b)
  BY <1>1, <1>2, <1>3, ConcatJoins
<1>5. w \in Octets /\ Len(w) = a + b
  BY <1>4 DEF Joined
<1>6. q = p + a /\ q + b <= Len(T) /\ Len(T) \in Nat
  BY <1>2, <1>3, LenProperties DEF Within, Octets
<1>7. p + Len(w) <= Len(T)
  BY <1>1, <1>5, <1>6
<1>8. ASSUME NEW j \in 1..(a + b) PROVE w[j] = T[p + j]
  <2>1. CASE j <= a
    <3>1. j \in 1..a
      BY <2>1
    <3> QED
      BY <1>2, <1>4, <3>1 DEF Joined, Within
  <2>2. CASE j > a
    <3>1. PICK i \in 1..b : j = a + i /\ p + j = q + i
      <4>1. j - a \in 1..b /\ j = a + (j - a) /\ p + j = q + (j - a)
        BY <1>1, <1>6, <2>2
      <4> QED
        BY <4>1
    <3>2. w[a + i] = y[i] /\ y[i] = T[q + i]
      BY <1>3, <1>4, <3>1 DEF Joined, Within
    <3> QED
      BY <3>1, <3>2
  <2>3. j \in Int /\ a \in Int
    OBVIOUS
  <2> QED
    BY <2>1, <2>2, <2>3
<1>9. Within(T, w, p)
  BY <1>1, <1>5, <1>7, <1>8 DEF Within
<1> QED
  BY <1>2, <1>3, <1>4, <1>5, <1>9

\* More bytes behind T change nothing in front of them.
LEMMA WithinMore ==
    ASSUME NEW T \in Octets, NEW y \in Octets
    PROVE  /\ T \o y \in Octets /\ Len(T \o y) = Len(T) + Len(y)
           /\ Within(T \o y, y, Len(T))
           /\ \A x, p : Within(T, x, p) => Within(T \o y, x, p)
<1>1. PICK a \in Nat : a = Len(T)
  BY ConcatFacts
<1>2. PICK b \in Nat : b = Len(y)
  BY ConcatFacts
<1>3. PICK w : w = T \o y /\ Joined(w, T, y, a, b)
  BY <1>1, <1>2, ConcatJoins
<1>4. w \in Octets /\ Len(w) = a + b
  BY <1>3 DEF Joined
<1>5. Within(w, y, a)
  BY <1>2, <1>3, <1>4 DEF Joined, Within
<1>6. ASSUME NEW x, NEW p, Within(T, x, p) PROVE Within(w, x, p)
  <2>1. PICK z \in Nat : z = Len(x)
    BY <1>6, LenProperties DEF Within, Octets
  <2>2. x \in Octets /\ p \in Nat /\ p + z <= a
    BY <1>1, <1>6, <2>1 DEF Within
  <2>3. p + z <= a + b
    BY <2>2
  <2>4. ASSUME NEW j \in 1..z PROVE x[j] = w[p + j]
    <3>1. p + j \in 1..a
      BY <2>2
    <3>2. x[j] = T[p + j]
      BY <1>6, <2>1 DEF Within
    <3> QED
      BY <1>3, <3>1, <3>2 DEF Joined
  <2> QED
    BY <1>4, <2>1, <2>2, <2>3, <2>4 DEF Within
<1> QED
  BY <1>1, <1>2, <1>3, <1>4, <1>5, <1>6

LEMMA AnswerFacts ==
    ASSUME NEW id, Due(id)
    PROVE  /\ id \in Nat /\ AnswerOf(id) \in Octets /\ Len(ValueOf(id)) \in Nat
           /\ Len(AnswerOf(id)) = HEADER_LENGTH + Len(ValueOf(id))
           /\ \A j \in 1..Len(ValueOf(id)) : AnswerOf(id)[HEADER_LENGTH + j] = ValueOf(id)[j]
<1>1. /\ id \in Nat /\ ValueOf(id) \in Octets /\ Len(ValueOf(id)) \in Nat
      /\ AnswerOf(id) = Frame(id, ValueOf(id))
  BY DueFacts DEF AnswerOf
<1>2. PICK v \in Octets : v = ValueOf(id)
  BY <1>1
<1>3. /\ Frame(id, v) \in Octets /\ Len(Frame(id, v)) = HEADER_LENGTH + Len(v)
      /\ \A j \in 1..Len(v) : Frame(id, v)[HEADER_LENGTH + j] = v[j]
  BY <1>1, FrameFacts
<1> QED
  BY <1>1, <1>2, <1>3

\* All that the provider has written: the answers to Q[1] .. Q[n], which start
\* at S[1] .. S[n].
FramesRight(T, Q, S, n) ==
    /\ T \in Octets /\ n \in Nat /\ Q \in [1..n -> Nat] /\ S \in [1..(n + 1) -> Nat]
    /\ S[n + 1] = Len(T)
    /\ \A k \in 1..n : /\ Due(Q[k]) /\ S[k + 1] = S[k] + Len(AnswerOf(Q[k]))
                       /\ Within(T, AnswerOf(Q[k]), S[k])

\* g is f with v behind its n values.
Grown(g, f, n, v) ==
    /\ g \in [1..(n + 1) -> Nat] /\ g[n + 1] = v
    /\ \A k \in 1..n : g[k] = f[k]

LEMMA GrownExists ==
    ASSUME NEW n \in Nat, NEW f \in [1..n -> Nat], NEW v \in Nat
    PROVE  \E g : Grown(g, f, n, v)
<1> DEFINE g == [k \in 1..(n + 1) |-> IF k = n + 1 THEN v ELSE f[k]]
<1>1. \A k \in 1..(n + 1) : k # n + 1 => k \in 1..n
  OBVIOUS
<1>2. g \in [1..(n + 1) -> Nat]
  BY <1>1
<1>3. g[n + 1] = v
  OBVIOUS
<1>4. \A k \in 1..n : k \in 1..(n + 1) /\ k # n + 1
  OBVIOUS
<1>5. \A k \in 1..n : g[k] = f[k]
  BY <1>4
<1>6. Grown(g, f, n, v)
  <2> HIDE DEF g
  <2> QED
    BY <1>2, <1>3, <1>5 DEF Grown
<1> QED
  BY <1>6

LEMMA FramesGrow ==
    ASSUME NEW T, NEW Q, NEW S, NEW n, FramesRight(T, Q, S, n), NEW id, Due(id),
           NEW R, Grown(R, Q, n, id), NEW U, Grown(U, S, n + 1, Len(T) + Len(AnswerOf(id)))
    PROVE  FramesRight(T \o AnswerOf(id), R, U, n + 1)
<1>1. /\ T \in Octets /\ n \in Nat /\ Q \in [1..n -> Nat] /\ S \in [1..(n + 1) -> Nat]
      /\ S[n + 1] = Len(T)
  BY DEF FramesRight
<1>2. PICK A \in Octets : A = AnswerOf(id)
  BY AnswerFacts
<1>3. PICK a \in Nat : a = Len(A)
  BY <1>2, LenProperties DEF Octets
<1>4. PICK t \in Nat : t = Len(T)
  BY <1>1, LenProperties DEF Octets
<1>5. PICK w : w = T \o A
  OBVIOUS
<1>6. /\ w \in Octets /\ Len(w) = t + a /\ Within(w, A, t)
      /\ \A x, p : Within(T, x, p) => Within(w, x, p)
  BY <1>1, <1>2, <1>3, <1>4, <1>5, WithinMore
<1>7. R \in [1..(n + 1) -> Nat] /\ R[n + 1] = id /\ \A k \in 1..n : R[k] = Q[k]
  BY DEF Grown
<1>8. U \in [1..(n + 1 + 1) -> Nat] /\ U[n + 1 + 1] = t + a /\ \A k \in 1..(n + 1) : U[k] = S[k]
  BY <1>2, <1>3, <1>4 DEF Grown
<1>9. ASSUME NEW k \in 1..(n + 1)
      PROVE  /\ Due(R[k]) /\ U[k + 1] = U[k] + Len(AnswerOf(R[k]))
             /\ Within(w, AnswerOf(R[k]), U[k])
  <2>1. CASE k = n + 1
    <3>1. R[k] = id /\ U[k + 1] = t + a /\ U[k] = t
      BY <1>1, <1>4, <1>7, <1>8, <2>1
    <3> QED
      BY <1>2, <1>3, <1>6, <3>1
  <2>2. CASE k # n + 1
    <3>1. k \in 1..n /\ k \in 1..(n + 1) /\ k + 1 \in 1..(n + 1)
      BY <1>1, <2>2
    <3>2. R[k] = Q[k] /\ U[k] = S[k] /\ U[k + 1] = S[k + 1]
      BY <1>7, <1>8, <3>1
    <3>3. Due(Q[k]) /\ S[k + 1] = S[k] + Len(AnswerOf(Q[k])) /\ Within(T, AnswerOf(Q[k]), S[k])
      BY <3>1 DEF FramesRight
    <3> QED
      BY <1>6, <3>2, <3>3
  <2> QED
    BY <2>1, <2>2
<1>10. n + 1 \in Nat
  BY <1>1
<1>11. FramesRight(w, R, U, n + 1)
  BY <1>6, <1>7, <1>8, <1>9, <1>10 DEF FramesRight
<1> QED
  BY <1>2, <1>5, <1>11

RpcSet == [isHeader : BOOLEAN, requestId : Nat, dataLength : Nat, in : Octets]

\* The decoder has come to position p of what the provider has written, in the
\* answer to Q[h]; the bytes it has, and those that were not read, follow.
RpcRight(T, Q, S, n, h, p, d, ans) ==
    /\ FramesRight(T, Q, S, n) /\ h \in 1..(n + 1) /\ d \in RpcSet
    /\ Within(T, d.in, p) /\ Within(T, ans, p + Len(d.in)) /\ p + Len(d.in) + Len(ans) = Len(T)
    /\ d.isHeader = TRUE => p = S[h]
    /\ d.isHeader = FALSE => /\ h <= n /\ p = S[h] + HEADER_LENGTH
                             /\ d.requestId = Q[h] /\ d.dataLength = Len(ValueOf(Q[h]))

LEMMA RpcAppend ==
    ASSUME NEW T, NEW Q, NEW S, NEW n, NEW h, NEW p, NEW d, NEW ans,
           RpcRight(T, Q, S, n, h, p, d, ans), NEW id, Due(id),
           NEW R, Grown(R, Q, n, id), NEW U, Grown(U, S, n + 1, Len(T) + Len(AnswerOf(id)))
    PROVE  RpcRight(T \o AnswerOf(id), R, U, n + 1, h, p, d, ans \o AnswerOf(id))
<1>1. /\ T \in Octets /\ n \in Nat /\ Q \in [1..n -> Nat] /\ S \in [1..(n + 1) -> Nat]
      /\ FramesRight(T, Q, S, n) /\ h \in 1..(n + 1) /\ d \in RpcSet
  BY DEF FramesRight, RpcRight
<1>2. PICK A \in Octets : A = AnswerOf(id)
  BY AnswerFacts
<1>3. PICK w : w = T \o A
  OBVIOUS
<1>4. /\ w \in Octets /\ Len(w) = Len(T) + Len(A) /\ Within(w, A, Len(T))
      /\ \A x, q : Within(T, x, q) => Within(w, x, q)
  BY <1>1, <1>2, <1>3, WithinMore
<1>5. FramesRight(w, R, U, n + 1)
  BY <1>1, <1>2, <1>3, FramesGrow
<1>6. PICK q : q = p + Len(d.in)
  OBVIOUS
<1>7. Within(w, d.in, p) /\ Within(w, ans, q)
  BY <1>4, <1>6 DEF RpcRight
<1>8. Len(T) = q + Len(ans)
  BY <1>6 DEF RpcRight
<1>9. Within(w, ans \o A, q) /\ Len(ans \o A) = Len(ans) + Len(A)
  BY <1>4, <1>7, <1>8, WithinJoin
<1>10. q + Len(ans \o A) = Len(w)
  <2>1. q \in Nat /\ Len(ans) \in Nat /\ Len(A) \in Nat
    BY <1>2, <1>7, LenProperties DEF Within, Octets
  <2> QED
    BY <1>4, <1>8, <1>9, <2>1
<1>11. U[h] = S[h] /\ h \in 1..(n + 1 + 1)
  <2>1. \A k \in 1..(n + 1) : U[k] = S[k]
    BY DEF Grown
  <2> QED
    BY <1>1, <2>1
<1>12. d.isHeader = TRUE => p = U[h]
  BY <1>11 DEF RpcRight
<1>13. ASSUME d.isHeader = FALSE
       PROVE  /\ h <= n + 1 /\ p = U[h] + HEADER_LENGTH
              /\ d.requestId = R[h] /\ d.dataLength = Len(ValueOf(R[h]))
  <2>1. /\ h <= n /\ p = S[h] + HEADER_LENGTH
        /\ d.requestId = Q[h] /\ d.dataLength = Len(ValueOf(Q[h]))
    BY <1>13 DEF RpcRight
  <2>2. h \in 1..n /\ h <= n + 1
    BY <1>1, <2>1
  <2>3. R[h] = Q[h]
    BY <2>2 DEF Grown
  <2> QED
    BY <1>11, <2>1, <2>2, <2>3
<1>14. RpcRight(w, R, U, n + 1, h, p, d, ans \o A)
  BY <1>1, <1>5, <1>6, <1>7, <1>9, <1>10, <1>11, <1>12, <1>13 DEF RpcRight
<1> QED
  BY <1>2, <1>3, <1>14

\* Bytes go from the connection to the decoder.
LEMMA RpcReceives ==
    ASSUME NEW T, NEW Q, NEW S, NEW n, NEW h, NEW p, NEW d, NEW ans,
           RpcRight(T, Q, S, n, h, p, d, ans), NEW k \in Nat, k <= Len(ans)
    PROVE  RpcRight(T, Q, S, n, h, p, [d EXCEPT !.in = @ \o Take(ans, k)], Drop(ans, k))
<1>1. /\ FramesRight(T, Q, S, n) /\ h \in 1..(n + 1) /\ d \in RpcSet /\ T \in Octets
      /\ Within(T, d.in, p) /\ ans \in Octets /\ d.in \in Octets /\ p \in Nat
  BY DEF FramesRight, RpcRight, Within
<1>2. PICK q : q = p + Len(d.in) /\ Within(T, ans, q) /\ q + Len(ans) = Len(T)
  BY DEF RpcRight
<1>3. PICK u : u = Take(ans, k) /\ Within(T, u, q) /\ Len(u) = k
  BY <1>1, <1>2, WithinTake
<1>4. PICK r : r = Drop(ans, k) /\ Within(T, r, q + k) /\ Len(r) = Len(ans) - k
  BY <1>1, <1>2, WithinDrop
<1>5. PICK v : v = d.in \o u /\ Within(T, v, p) /\ Len(v) = Len(d.in) + k
  <2>1. PICK y : y = d.in /\ Within(T, y, p) /\ q = p + Len(y)
    BY <1>1, <1>2
  <2>2. Within(T, y \o u, p) /\ Len(y \o u) = Len(y) + Len(u)
    BY <1>1, <1>3, <2>1, WithinJoin
  <2> QED
    BY <1>3, <2>1, <2>2
<1>6. PICK e : e = [d EXCEPT !.in = d.in \o u]
  OBVIOUS
<1>7. v \in Octets
  BY <1>5 DEF Within
<1>8. /\ e \in RpcSet /\ e.in = v /\ e.isHeader = d.isHeader
      /\ e.requestId = d.requestId /\ e.dataLength = d.dataLength
  BY <1>1, <1>5, <1>6, <1>7 DEF RpcSet
<1>9. PICK x \in Nat : x = Len(d.in)
  BY <1>1, LenProperties DEF Octets
<1>10. PICK y \in Nat : y = Len(ans)
  BY <1>1, LenProperties DEF Octets
<1>14. Len(e.in) = x + k /\ q = p + x
  BY <1>2, <1>5, <1>8, <1>9
<1>11. p + Len(e.in) = q + k
  BY <1>1, <1>14
<1>12. p + Len(e.in) + Len(r) = Len(T)
  <2>1. q \in Nat
    BY <1>1, <1>14
  <2>2. Len(r) = y - k /\ q + y = Len(T)
    BY <1>2, <1>4, <1>10
  <2> QED
    BY <1>11, <2>1, <2>2
<1>13. RpcRight(T, Q, S, n, h, p, e, r)
  BY <1>1, <1>4, <1>5, <1>8, <1>11, <1>12 DEF RpcRight
<1> QED
  BY <1>3, <1>4, <1>6, <1>13

\* The decoder reads the header of an answer.
RpcHeadRead(T, Q, S, n, h, p, d, ans) ==
    /\ h \in 1..n /\ bytes2long(d.in) = Q[h] /\ bytes2int(d.in) = Len(ValueOf(Q[h]))
    /\ RpcRight(T, Q, S, n, h, p + HEADER_LENGTH,
                [isHeader |-> FALSE, requestId |-> bytes2long(d.in), dataLength |-> bytes2int(d.in),
                 in |-> Drop(d.in, HEADER_LENGTH)], ans)

LEMMA RpcHead ==
    ASSUME NEW T, NEW Q, NEW S, NEW n, NEW h, NEW p, NEW d, NEW ans,
           RpcRight(T, Q, S, n, h, p, d, ans), d.isHeader = TRUE, Len(d.in) >= HEADER_LENGTH
    PROVE  RpcHeadRead(T, Q, S, n, h, p, d, ans)
<1>1. /\ FramesRight(T, Q, S, n) /\ h \in 1..(n + 1) /\ d \in RpcSet /\ T \in Octets
      /\ Within(T, d.in, p) /\ d.in \in Octets /\ p \in Nat /\ p = S[h] /\ n \in Nat
  BY DEF FramesRight, RpcRight, Within
<1>2. PICK in \in Octets : in = d.in
  BY <1>1
<1>3. PICK x \in Nat : x = Len(in)
  BY LenProperties DEF Octets
<1>4. HEADER_LENGTH \in Nat /\ HEADER_LENGTH > 0 /\ HEADER_LENGTH <= x
  BY <1>2, <1>3, WidthFacts
<1>5. h \in 1..n
  <2>1. p + x <= Len(T) /\ Len(T) \in Nat
    BY <1>1, <1>2, <1>3, LenProperties DEF Within, Octets
  <2>2. S[n + 1] = Len(T)
    BY <1>1 DEF FramesRight
  <2>3. h # n + 1
    BY <1>1, <1>4, <2>1, <2>2
  <2> QED
    BY <1>1, <2>3
<1>6. PICK id : id = Q[h] /\ Due(id)
  BY <1>1, <1>5 DEF FramesRight
<1>7. PICK A \in Octets : A = AnswerOf(id) /\ Len(A) = HEADER_LENGTH + Len(ValueOf(id))
  BY <1>6, AnswerFacts
<1>8. Within(T, A, p)
  BY <1>1, <1>5, <1>6, <1>7 DEF FramesRight
<1>9. \A j \in 1..HEADER_LENGTH : in[j] = A[j]
  <2>1. Len(ValueOf(id)) \in Nat
    BY <1>6, DueFacts
  <2>2. \A j \in 1..HEADER_LENGTH : j \in 1..x /\ j \in 1..Len(A)
    BY <1>4, <1>7, <2>1
  <2>3. \A j \in 1..x : in[j] = T[p + j]
    BY <1>1, <1>2, <1>3 DEF Within
  <2>4. \A j \in 1..Len(A) : A[j] = T[p + j]
    BY <1>8 DEF Within
  <2> QED
    BY <2>2, <2>3, <2>4
<1>10. bytes2long(in) = id /\ bytes2int(in) = Len(ValueOf(id))
  <2>1. /\ id \in Nat /\ Fits(id, IdWidth) /\ ValueOf(id) \in Octets
        /\ Fits(Len(ValueOf(id)), SizeWidth)
    BY <1>6, DueFacts
  <2>2. Len(in) >= HEADER_LENGTH
    BY <1>3, <1>4
  <2> QED
    BY <1>7, <1>9, <2>1, <2>2, HeaderRead DEF AnswerOf
<1>11. PICK r : r = Drop(in, HEADER_LENGTH) /\ Within(T, r, p + HEADER_LENGTH) /\ Len(r) = x - HEADER_LENGTH
  BY <1>1, <1>2, <1>3, <1>4, WithinDrop
<1>12. PICK e : e = [isHeader |-> FALSE, requestId |-> id, dataLength |-> Len(ValueOf(id)), in |-> r]
  OBVIOUS
<1>13. e \in RpcSet /\ e.isHeader = FALSE /\ e.requestId = id /\ e.dataLength = Len(ValueOf(id)) /\ e.in = r
  BY <1>6, <1>11, <1>12, DueFacts DEF RpcSet, Within
<1>14. PICK q \in Nat : q = p + HEADER_LENGTH /\ q + Len(e.in) = p + x
  BY <1>1, <1>4, <1>11, <1>13
<1>15. Within(T, ans, q + Len(e.in)) /\ q + Len(e.in) + Len(ans) = Len(T)
  BY <1>2, <1>3, <1>14 DEF RpcRight
<1>16. h <= n
  BY <1>1, <1>5
<1>17. RpcRight(T, Q, S, n, h, q, e, ans)
  BY <1>1, <1>6, <1>11, <1>13, <1>14, <1>15, <1>16 DEF RpcRight
<1> QED
  BY <1>2, <1>5, <1>6, <1>10, <1>11, <1>12, <1>14, <1>17 DEF RpcHeadRead

\* The data of an answer is complete.
RpcBodyRead(T, Q, S, n, h, p, d, ans) ==
    /\ h \in 1..n /\ d.requestId = Q[h] /\ Take(d.in, d.dataLength) = ValueOf(Q[h])
    /\ RpcRight(T, Q, S, n, h + 1, p + d.dataLength,
                [isHeader |-> TRUE, requestId |-> d.requestId, dataLength |-> d.dataLength,
                 in |-> Drop(d.in, d.dataLength)], ans)

LEMMA RpcBody ==
    ASSUME NEW T, NEW Q, NEW S, NEW n, NEW h, NEW p, NEW d, NEW ans,
           RpcRight(T, Q, S, n, h, p, d, ans), d.isHeader = FALSE, Len(d.in) >= d.dataLength
    PROVE  RpcBodyRead(T, Q, S, n, h, p, d, ans)
<1>1. /\ FramesRight(T, Q, S, n) /\ h \in 1..(n + 1) /\ d \in RpcSet /\ T \in Octets /\ n \in Nat
      /\ Within(T, d.in, p) /\ d.in \in Octets /\ p \in Nat /\ d.dataLength \in Nat
  BY DEF FramesRight, RpcRight, Within, RpcSet
<1>2. h <= n /\ p = S[h] + HEADER_LENGTH /\ d.requestId = Q[h] /\ d.dataLength = Len(ValueOf(Q[h]))
  BY DEF RpcRight
<1>3. h \in 1..n /\ h + 1 \in 1..(n + 1)
  BY <1>1, <1>2
<1>4. PICK in \in Octets : in = d.in
  BY <1>1
<1>5. PICK x \in Nat : x = Len(in)
  BY LenProperties DEF Octets
<1>6. PICK id : id = Q[h] /\ Due(id)
  BY <1>1, <1>3 DEF FramesRight
<1>7. PICK V \in Octets : V = ValueOf(id)
  BY <1>6, DueFacts
<1>8. PICK z \in Nat : z = Len(V) /\ z = d.dataLength /\ z <= x
  BY <1>1, <1>2, <1>4, <1>5, <1>6, <1>7
<1>9. PICK s \in Nat : s = S[h]
  <2>1. S \in [1..(n + 1) -> Nat]
    BY <1>1 DEF FramesRight
  <2> QED
    BY <1>1, <2>1
<1>10. PICK A \in Octets : /\ A = AnswerOf(id) /\ Len(A) = HEADER_LENGTH + z
                           /\ \A j \in 1..z : A[HEADER_LENGTH + j] = V[j]
  BY <1>6, <1>7, <1>8, AnswerFacts
<1>11. Within(T, A, s) /\ S[h + 1] = s + (HEADER_LENGTH + z)
  BY <1>1, <1>3, <1>6, <1>9, <1>10 DEF FramesRight
<1>12. Take(in, z) = V
  <2>1. PICK u \in Octets : u = Take(in, z) /\ Len(u) = z /\ \A j \in 1..z : u[j] = in[j]
    BY <1>5, <1>8, TakeFacts
  <2>2. ASSUME NEW j \in 1..z PROVE u[j] = V[j]
    <3>1. j \in 1..x /\ HEADER_LENGTH + j \in 1..Len(A) /\ p + j = s + (HEADER_LENGTH + j)
      BY <1>2, <1>8, <1>9, <1>10, WidthFacts
    <3>2. in[j] = T[p + j]
      BY <1>1, <1>4, <1>5, <3>1 DEF Within
    <3>3. A[HEADER_LENGTH + j] = T[s + (HEADER_LENGTH + j)]
      BY <1>11, <3>1 DEF Within
    <3> QED
      BY <1>10, <2>1, <3>1, <3>2, <3>3
  <2>3. u = V
    BY <1>8, <2>1, <2>2, SeqEqual DEF Octets
  <2> QED
    BY <2>1, <2>3
<1>13. PICK r : r = Drop(in, z) /\ Within(T, r, p + z) /\ Len(r) = x - z
  BY <1>1, <1>4, <1>5, <1>8, WithinDrop
<1>14. PICK e : e = [isHeader |-> TRUE, requestId |-> d.requestId, dataLength |-> d.dataLength, in |-> r]
  OBVIOUS
<1>15. e \in RpcSet /\ e.isHeader = TRUE /\ e.in = r
  BY <1>1, <1>13, <1>14 DEF RpcSet, Within
<1>16. PICK q \in Nat : q = p + z /\ q + Len(e.in) = p + x /\ q = S[h + 1]
  <2>1. p + z = s + (HEADER_LENGTH + z)
    BY <1>2, <1>9, WidthFacts
  <2>2. Len(e.in) = x - z
    BY <1>13, <1>15
  <2> QED
    BY <1>1, <1>11, <2>1, <2>2
<1>17. Within(T, ans, q + Len(e.in)) /\ q + Len(e.in) + Len(ans) = Len(T)
  BY <1>4, <1>5, <1>16 DEF RpcRight
<1>18. RpcRight(T, Q, S, n, h + 1, q, e, ans)
  BY <1>1, <1>3, <1>13, <1>15, <1>16, <1>17 DEF RpcRight
<1> QED
  BY <1>2, <1>3, <1>4, <1>6, <1>7, <1>8, <1>12, <1>13, <1>14, <1>16, <1>18 DEF RpcBodyRead
-----------------------------------------------------------------------------
(* Where a request is: P[id] is 0 until it is cut from its stream, 1 in the   *)
(* thread that has it, or lost if the encoder failed on it, 2 with the        *)
(* provider, 3 in the bytes of its answer, 4 in the thread that has the       *)
(* answer, and 5 when the reply is written.                                   *)

Asking == {"put", "write"}
Replying == {"get", "remove", "reply"}

InThread(P, w) ==
    /\ w.at \in Asking => P[w.req.id] = 1 /\ Known(w.req.id)
    /\ w.at \in Replying => /\ P[w.req.id] = 4 /\ Due(w.req.id)
                            /\ w.req = [id |-> w.req.id, value |-> ValueOf(w.req.id)]
    /\ w.at \in {"remove", "reply"} => w.chan \in Channels /\ w.req.id \in Asked(w.chan)

InThreads(P) == \A l \in Loops : InThread(P, loop[l])

InDubbo(P) ==
    \A m \in toDubbo : /\ P[m.id] = 2 /\ Due(m.id)
                       /\ m = [id |-> m.id, params |-> Meaning[FormOf(m.id)]]

InQueue(P, Q, n, h) ==
    /\ \A k \in h..n : P[Q[k]] = 3
    /\ \A j, k \in h..n : Q[j] = Q[k] => j = k

RepliesOf(P, c, s) ==
    /\ \A i \in 1..Len(s) : /\ s[i].id \in Asked(c) /\ P[s[i].id] = 5
                            /\ s[i].value = ValueOf(s[i].id) /\ Due(s[i].id)
    /\ \A i, j \in 1..Len(s) : s[i].id = s[j].id => i = j

InReplies(P) ==
    /\ replies \in [Channels -> Seq([id : Nat, value : Octets])]
    /\ \A c \in Channels : RepliesOf(P, c, replies[c])

NotCut(P, K) == \A c \in Channels : \A i \in 1..Len(Sent[c]) : i >= K[c] => P[Sent[c][i].id] = 0

\* A request is kept under its id, with its connection.
KeptRight == \A id \in DOMAIN processingRequest : id \in Asked(processingRequest[id].chan)

Placed(K, P, Q, n, h) ==
    /\ P \in [Nat -> 0..5] /\ InThreads(P) /\ InDubbo(P) /\ InQueue(P, Q, n, h)
    /\ InReplies(P) /\ NotCut(P, K) /\ KeptRight

RpcAt(Q, n, h) == \E T, S, p : RpcRight(T, Q, S, n, h, p, rpcDecoder, answers)

AnswersInv(K, P, Q, n, h) == CutInv(K) /\ Placed(K, P, Q, n, h) /\ RpcAt(Q, n, h)

\* The request id is moved to place s.
Moved(P, M, id, s) ==
    M \in [Nat -> 0..5] /\ M[id] = s /\ \A x \in Nat : x # id => M[x] = P[x]

LEMMA MovedExists ==
    ASSUME NEW P \in [Nat -> 0..5], NEW id \in Nat, NEW s \in 0..5
    PROVE  \E M : Moved(P, M, id, s)
<1> DEFINE M == [P EXCEPT ![id] = s]
<1>1. M \in [Nat -> 0..5] /\ M[id] = s /\ \A x \in Nat : x # id => M[x] = P[x]
  OBVIOUS
<1>2. Moved(P, M, id, s)
  BY <1>1 DEF Moved
<1> QED
  BY <1>2

LEMMA AskedKnown ==
    ASSUME NEW c \in Channels, NEW id \in Asked(c)
    PROVE  id \in Nat /\ Known(id)
  BY KnownFacts DEF Known

LEMMA MovedThread ==
    ASSUME NEW P, NEW M, NEW id, NEW s, Moved(P, M, id, s), NEW w, InThread(P, w),
           w.at \in Asking \cup Replying => w.req.id # id
    PROVE  InThread(M, w)
<1>1. w.at \in Asking \cup Replying => w.req.id \in Nat
  BY KnownFacts, DueFacts DEF InThread
<1> QED
  BY <1>1 DEF InThread, Moved

LEMMA MovedDubbo ==
    ASSUME NEW P, NEW M, NEW id, NEW s, Moved(P, M, id, s), InDubbo(P), P[id] # 2
    PROVE  InDubbo(M)
<1>1. ASSUME NEW m \in toDubbo PROVE M[m.id] = 2
  <2>1. P[m.id] = 2 /\ m.id \in Nat
    BY DueFacts DEF InDubbo
  <2> QED
    BY <2>1 DEF Moved
<1> QED
  BY <1>1 DEF InDubbo

LEMMA MovedQueue ==
    ASSUME NEW P, NEW M, NEW id, NEW s, Moved(P, M, id, s), NEW n \in Nat, NEW h \in 1..(n + 1),
           NEW Q \in [1..n -> Nat], InQueue(P, Q, n, h), P[id] # 3
    PROVE  InQueue(M, Q, n, h)
<1>1. ASSUME NEW k \in h..n PROVE M[Q[k]] = 3
  <2>1. k \in 1..n
    OBVIOUS
  <2>2. P[Q[k]] = 3 /\ Q[k] \in Nat
    BY <2>1 DEF InQueue
  <2> QED
    BY <2>2 DEF Moved
<1> QED
  BY <1>1 DEF InQueue

LEMMA MovedReplies ==
    ASSUME NEW P, NEW M, NEW id, NEW s, Moved(P, M, id, s), InReplies(P), P[id] # 5
    PROVE  InReplies(M)
<1>1. ASSUME NEW c \in Channels PROVE RepliesOf(M, c, replies[c])
  <2>1. RepliesOf(P, c, replies[c])
    BY DEF InReplies
  <2>2. ASSUME NEW i \in 1..Len(replies[c]) PROVE M[replies[c][i].id] = 5
    <3>1. P[replies[c][i].id] = 5 /\ replies[c][i].id \in Asked(c)
      BY <2>1 DEF RepliesOf
    <3> QED
      BY <3>1, AskedKnown DEF Moved
  <2> QED
    BY <2>1, <2>2 DEF RepliesOf
<1> QED
  BY <1>1 DEF InReplies

LEMMA MovedNotCut ==
    ASSUME NEW P, NEW M, NEW id, NEW s, Moved(P, M, id, s), NEW K, NotCut(P, K), P[id] # 0
    PROVE  NotCut(M, K)
<1>1. ASSUME NEW c \in Channels, NEW i \in 1..Len(Sent[c]), i >= K[c] PROVE M[Sent[c][i].id] = 0
  <2>1. P[Sent[c][i].id] = 0 /\ Sent[c][i].id \in Nat
    BY <1>1, SentFacts DEF NotCut
  <2> QED
    BY <2>1 DEF Moved
<1> QED
  BY <1>1 DEF NotCut

LEMMA QueueFacts ==
    ASSUME NEW Q, NEW n, NEW h, RpcAt(Q, n, h)
    PROVE  n \in Nat /\ h \in 1..(n + 1) /\ Q \in [1..n -> Nat] /\ \A k \in 1..n : Due(Q[k])
  BY DEF RpcAt, RpcRight, FramesRight

LEMMA ThreadsPlaced ==
    ASSUME NEW P, InThreads(P), LoopType, NEW l \in Loops, NEW w, GoesOn(l, w), InThread(P, w)
    PROVE  InThreads(P)'
<1>1. ASSUME NEW m \in Loops PROVE InThread(P, loop'[m])
  <2>1. CASE m = l
    BY <2>1, GoesOnFacts
  <2>2. CASE m # l
    BY <2>2, GoesOnFacts DEF InThreads
  <2> QED
    BY <2>1, <2>2
<1>2. ASSUME NEW m \in Loops PROVE InThread(P, loop[m])'
  BY <1>1 DEF InThread
<1> QED
  BY <1>2 DEF InThreads

LEMMA RestPlaced ==
    ASSUME NEW P, InDubbo(P), InReplies(P), KeptRight, UNCHANGED <<toDubbo, replies, processingRequest>>
    PROVE  InDubbo(P)' /\ InReplies(P)' /\ KeptRight'
<1>1. InDubbo(P)'
  BY DEF InDubbo
<1>2. InReplies(P)'
  BY DEF InReplies, RepliesOf
<1>3. KeptRight'
  BY DEF KeptRight
<1> QED
  BY <1>1, <1>2, <1>3

LEMMA RpcKept ==
    ASSUME NEW Q, NEW n, NEW h, RpcAt(Q, n, h), UNCHANGED <<rpcDecoder, answers>>
    PROVE  RpcAt(Q, n, h)'
  BY DEF RpcAt

Reached == \E K, P, Q, n, h : AnswersInv(K, P, Q, n, h)

\* A thread goes on that takes no request with it.
LEMMA FreeStep ==
    ASSUME NEW K, NEW P, NEW Q, NEW n, NEW h, AnswersInv(K, P, Q, n, h), CutInv(K)',
           NEW l \in Loops, NEW w, GoesOn(l, w), w.at \notin Asking \cup Replying,
           RpcAt(Q, n, h)', UNCHANGED <<toDubbo, replies, processingRequest>>
    PROVE  AnswersInv(K, P, Q, n, h)'
<1>1. LoopType /\ Placed(K, P, Q, n, h)
  BY DEF AnswersInv, CutInv, ThreadsRight
<1>2. InThread(P, w)
  BY DEF InThread, Replying
<1>3. InThreads(P)'
  BY <1>1, <1>2, ThreadsPlaced DEF Placed
<1>4. InDubbo(P)' /\ InReplies(P)' /\ KeptRight'
  BY <1>1, RestPlaced DEF Placed
<1>5. Placed(K, P, Q, n, h)'
  BY <1>1, <1>3, <1>4 DEF Placed, InQueue, NotCut
<1> QED
  BY <1>5 DEF AnswersInv

LEMMA StillPlaced ==
    ASSUME NEW K, NEW P, NEW Q, NEW n, NEW h, AnswersInv(K, P, Q, n, h), CutInv(K)',
           UNCHANGED <<loop, rpcDecoder, answers, toDubbo, replies, processingRequest>>
    PROVE  AnswersInv(K, P, Q, n, h)'
<1>1. Placed(K, P, Q, n, h) /\ RpcAt(Q, n, h)
  BY DEF AnswersInv
<1>2. InThreads(P)'
  BY <1>1 DEF Placed, InThreads, InThread
<1>3. InDubbo(P)' /\ InReplies(P)' /\ KeptRight'
  BY <1>1, RestPlaced DEF Placed
<1>4. Placed(K, P, Q, n, h)'
  BY <1>1, <1>2, <1>3 DEF Placed, InQueue, NotCut
<1> QED
  BY <1>1, <1>4, RpcKept DEF AnswersInv

LEMMA ReceivePlaced ==
    ASSUME NEW K, NEW P, NEW Q, NEW n, NEW h, AnswersInv(K, P, Q, n, h),
           NEW c \in Channels, NEW k \in Pieces, Receive(c, k)
    PROVE  AnswersInv(K, P, Q, n, h)'
<1>1. CutInv(K) /\ CutInv(K)' /\ RpcAt(Q, n, h)
  BY ReceiveCut DEF AnswersInv
<1>2. PICK l \in Loops : l = loopOf[c]
  BY <1>1, LoopOfFacts DEF CutInv
<1>3. PICK b : GoesOn(l, Work("decode", c, b, NULL))
  BY <1>2 DEF Receive, GoesOn, Work
<1>4. PICK w : GoesOn(l, w) /\ w.at = "decode"
  BY <1>3, WorkFacts
<1>5. UNCHANGED <<rpcDecoder, answers, toDubbo, replies, processingRequest>>
  BY DEF Receive, rpc, switch
<1>6. w.at \notin Asking \cup Replying
  BY <1>4 DEF Asking, Replying
<1> QED
  BY <1>1, <1>4, <1>5, <1>6, RpcKept, FreeStep

LEMMA ReceiveRpcPlaced ==
    ASSUME NEW K, NEW P, NEW Q, NEW n, NEW h, AnswersInv(K, P, Q, n, h), NEW k \in Pieces, ReceiveRpc(k)
    PROVE  AnswersInv(K, P, Q, n, h)'
<1>1. CutInv(K) /\ CutInv(K)' /\ RpcAt(Q, n, h)
  BY ReceiveRpcCut DEF AnswersInv
<1>2. PICK l \in Loops : l = loopOf[Dubbo]
  BY <1>1 DEF CutInv, ThreadsRight
<1>3. PICK w : GoesOn(l, w) /\ w.at = "rpc"
  <2>1. GoesOn(l, Work("rpc", NULL, <<>>, NULL))
    BY <1>2, IdleWork DEF ReceiveRpc, GoesOn
  <2> QED
    BY <2>1, WorkFacts
<1>4. w.at \notin Asking \cup Replying
  BY <1>3 DEF Asking, Replying
<1>5. UNCHANGED <<toDubbo, replies, processingRequest>>
  BY DEF ReceiveRpc, switch
<1>6. RpcAt(Q, n, h)'
  <2>1. PICK T, S, p : RpcRight(T, Q, S, n, h, p, rpcDecoder, answers)
    BY <1>1 DEF RpcAt
  <2>2. answers \in Octets
    BY <2>1 DEF RpcRight, Within
  <2>3. PICK y \in Nat : y = Len(answers)
    BY <2>2, LenProperties DEF Octets
  <2>4. PICK x \in Nat : x = Least(k, Len(answers)) /\ x <= Len(answers)
    <3>1. k \in Nat
      BY PiecesAssumption
    <3> QED
      BY <2>3, <3>1, LeastFacts
  <2>5. /\ rpcDecoder' = [rpcDecoder EXCEPT !.in = @ \o Take(answers, x)]
        /\ answers' = Drop(answers, x)
    BY <2>4 DEF ReceiveRpc
  <2>6. RpcRight(T, Q, S, n, h, p, [rpcDecoder EXCEPT !.in = @ \o Take(answers, x)], Drop(answers, x))
    BY <2>1, <2>4, RpcReceives
  <2>7. RpcRight(T, Q, S, n, h, p, rpcDecoder', answers')
    BY <2>5, <2>6
  <2> QED
    BY <2>7 DEF RpcAt
<1> QED
  BY <1>1, <1>3, <1>4, <1>5, <1>6, FreeStep

LEMMA LastKnown ==
    ASSUME NEW K, NEW c \in Channels, K[c] - 1 \in 1..Len(Sent[c])
    PROVE  /\ LastOf(K, c).id = Sent[c][K[c] - 1].id /\ LastOf(K, c).chan = c
           /\ LastOf(K, c).data = Sent[c][K[c] - 1].form
           /\ LastOf(K, c).id \in Asked(c) /\ Known(LastOf(K, c).id) /\ LastOf(K, c).id \in Nat
           /\ FormOf(LastOf(K, c).id) = LastOf(K, c).data
<1>1. PICK i \in 1..Len(Sent[c]) : i = K[c] - 1
  OBVIOUS
<1>2. /\ LastOf(K, c).id = Sent[c][i].id /\ LastOf(K, c).chan = c
      /\ LastOf(K, c).data = Sent[c][i].form
  BY <1>1 DEF LastOf
<1>3. Sent[c][i].id \in Asked(c) /\ FormOf(Sent[c][i].id) = Sent[c][i].form
  BY FormOfSent
<1> QED
  BY <1>1, <1>2, <1>3, AskedKnown

LEMMA AskingThread ==
    ASSUME NEW K, CutInv(K), NEW l \in Loops, loop[l].at \in Asking
    PROVE  /\ loop[l].chan \in Channels /\ K[loop[l].chan] - 1 \in 1..Len(Sent[loop[l].chan])
           /\ loop[l].req = LastOf(K, loop[l].chan) /\ loopOf[loop[l].chan] = l
           /\ loop[l].at \in Reading
<1>1. loop[l].at \in Reading
  BY DEF Asking, Reading
<1> QED
  BY <1>1, ReadingThread DEF ThreadRight, Asking

\* Two threads do not have the same request.
LEMMA AskingOnce ==
    ASSUME NEW K, CutInv(K), NEW l \in Loops, loop[l].at \in Asking,
           NEW m \in Loops, loop[m].at \in Asking, loop[m].req.id = loop[l].req.id
    PROVE  m = l
<1>1. PICK c \in Channels : c = loop[l].chan /\ loopOf[c] = l
  BY AskingThread
<1>2. PICK d \in Channels : d = loop[m].chan /\ loopOf[d] = m
  BY AskingThread
<1>3. PICK i \in 1..Len(Sent[c]) : i = K[c] - 1 /\ loop[l].req.id = Sent[c][i].id
  <2>1. K[c] - 1 \in 1..Len(Sent[c]) /\ loop[l].req = LastOf(K, c)
    BY <1>1, AskingThread
  <2> QED
    BY <2>1, LastKnown
<1>4. PICK j \in 1..Len(Sent[d]) : j = K[d] - 1 /\ loop[m].req.id = Sent[d][j].id
  <2>1. K[d] - 1 \in 1..Len(Sent[d]) /\ loop[m].req = LastOf(K, d)
    BY <1>2, AskingThread
  <2> QED
    BY <2>1, LastKnown
<1>5. i \in DOMAIN Sent[c] /\ j \in DOMAIN Sent[d]
  BY SentFacts
<1>6. c = d
  BY <1>3, <1>4, <1>5, IdsAssumption
<1> QED
  BY <1>1, <1>2, <1>6

\* A request is cut from its stream: 0 to 1.
LEMMA ChannelReadPlaced ==
    ASSUME NEW K, NEW P, NEW Q, NEW n, NEW h, AnswersInv(K, P, Q, n, h), NEW l \in Loops, channelRead(l)
    PROVE  Reached'
<1>1. /\ CutInv(K) /\ RpcAt(Q, n, h) /\ Placed(K, P, Q, n, h) /\ LoopType
      /\ K \in [Channels -> Nat \ {0}] /\ P \in [Nat -> 0..5]
  BY DEF AnswersInv, CutInv, ThreadsRight, StreamsRight, Placed
<1>2. UNCHANGED <<rpcDecoder, answers, toDubbo, replies, processingRequest>>
  BY DEF channelRead, rpc, switch
<1>3. RpcAt(Q, n, h)'
  BY <1>1, <1>2, RpcKept
<1>4. CASE ReadsUp(K, l)
  <2>1. GoesOn(l, Idle) /\ Idle.at \notin Asking \cup Replying /\ CutInv(K)'
    BY <1>4 DEF ReadsUp, Idle, Asking, Replying
  <2>2. AnswersInv(K, P, Q, n, h)'
    BY <1>2, <1>3, <2>1, FreeStep
  <2> QED
    BY <2>2 DEF Reached
<1>5. ASSUME NEW N, NEW c, Completes(K, N, l, c) PROVE Reached'
  <2>1. c \in Channels /\ K[c] \in 1..Len(Sent[c]) /\ N = Onward(K, c) /\ CutInv(N)'
    BY <1>5 DEF Completes
  <2>2. PICK r : r = LastOf(N, c)
    OBVIOUS
  <2>3. PICK w : GoesOn(l, w) /\ w.at = "put" /\ w.req = r
    BY <1>5, <2>2, WorkFacts DEF Completes
  <2>4. N[c] = K[c] + 1 /\ N[c] - 1 = K[c] /\ \A d \in Channels \ {c} : N[d] = K[d]
    <3>1. N[c] = K[c] + 1 /\ \A d \in Channels \ {c} : N[d] = K[d]
      BY <1>1, <2>1 DEF Onward
    <3> QED
      BY <1>1, <2>1, <3>1
  <2>5. PICK id \in Nat : id = r.id /\ Known(id) /\ id = Sent[c][K[c]].id
    <3>1. N[c] - 1 \in 1..Len(Sent[c])
      BY <2>1, <2>4
    <3>2. LastOf(N, c).id = Sent[c][N[c] - 1].id /\ Known(LastOf(N, c).id) /\ LastOf(N, c).id \in Nat
      BY <2>1, <3>1, LastKnown
    <3> QED
      BY <2>2, <2>4, <3>2
  <2>6. P[id] = 0
    <3>1. K[c] >= K[c]
      BY <1>1, <2>1
    <3> QED
      BY <1>1, <2>1, <2>5, <3>1 DEF Placed, NotCut
  <2>7. PICK M : Moved(P, M, id, 1)
    BY <1>1, MovedExists
  <2>8. InThreads(M)
    <3>1. ASSUME NEW m \in Loops PROVE InThread(M, loop[m])
      <4>1. InThread(P, loop[m])
        BY <1>1 DEF Placed, InThreads
      <4>2. loop[m].at \in Asking \cup Replying => loop[m].req.id # id
        BY <2>6, <4>1 DEF InThread
      <4> QED
        BY <2>7, <4>1, <4>2, MovedThread
    <3> QED
      BY <3>1 DEF InThreads
  <2>9. InThread(M, w)
    BY <2>3, <2>5, <2>7 DEF InThread, Moved, Asking, Replying
  <2>10. InThreads(M)'
    BY <1>1, <2>3, <2>8, <2>9, ThreadsPlaced
  <2>11. InDubbo(M) /\ InReplies(M) /\ KeptRight
    BY <1>1, <2>6, <2>7, MovedDubbo, MovedReplies DEF Placed
  <2>12. InDubbo(M)' /\ InReplies(M)' /\ KeptRight'
    BY <1>2, <2>11, RestPlaced
  <2>13. InQueue(M, Q, n, h)
    <3>1. n \in Nat /\ h \in 1..(n + 1) /\ Q \in [1..n -> Nat]
      BY <1>1, QueueFacts
    <3>2. InQueue(P, Q, n, h) /\ P[id] # 3
      BY <1>1, <2>6 DEF Placed
    <3> QED
      BY <2>7, <3>1, <3>2, MovedQueue
  <2>14. NotCut(M, N)
    <3>1. ASSUME NEW d \in Channels, NEW i \in 1..Len(Sent[d]), i >= N[d]
          PROVE  M[Sent[d][i].id] = 0
      <4>1. i >= K[d] /\ ~(d = c /\ i = K[c])
        <5>1. CASE d = c
          BY <1>1, <2>4, <3>1, <5>1
        <5>2. CASE d # c
          BY <2>4, <3>1, <5>2
        <5> QED
          BY <5>1, <5>2
      <4>2. P[Sent[d][i].id] = 0 /\ Sent[d][i].id \in Nat
        BY <1>1, <4>1, SentFacts DEF Placed, NotCut
      <4>3. Sent[d][i].id # id
        <5>1. i \in DOMAIN Sent[d] /\ K[c] \in DOMAIN Sent[c]
          BY <2>1, SentFacts
        <5> QED
          BY <2>1, <2>5, <4>1, <5>1, IdsAssumption
      <4> QED
        BY <2>7, <4>2, <4>3 DEF Moved
    <3> QED
      BY <3>1 DEF NotCut
  <2>15. Placed(N, M, Q, n, h)'
    BY <2>7, <2>10, <2>12, <2>13, <2>14 DEF Placed, InQueue, NotCut, Moved
  <2>16. AnswersInv(N, M, Q, n, h)'
    BY <1>3, <2>1, <2>15 DEF AnswersInv
  <2> QED
    BY <2>16 DEF Reached
<1> QED
  BY <1>1, <1>4, <1>5, ChannelReadCut

LEMMA PutPlaced ==
    ASSUME NEW K, NEW P, NEW Q, NEW n, NEW h, AnswersInv(K, P, Q, n, h), NEW l \in Loops, switchToDubbo_put(l)
    PROVE  AnswersInv(K, P, Q, n, h)'
<1>1. CutInv(K) /\ CutInv(K)' /\ RpcAt(Q, n, h) /\ Placed(K, P, Q, n, h) /\ LoopType
  BY PutCut DEF AnswersInv, CutInv, ThreadsRight
<1>2. UNCHANGED <<rpcDecoder, answers, toDubbo, replies>>
  BY DEF switchToDubbo_put, rpc
<1>3. loop[l].at = "put" /\ loop[l].at \in Asking
  BY DEF switchToDubbo_put, Asking
<1>4. PICK w : GoesOn(l, w) /\ w.at = "write" /\ w.req = loop[l].req
  <2>1. SetsAt(l, "write")
    BY DEF switchToDubbo_put, SetsAt
  <2>2. GoesOn(l, Work("write", loop[l].chan, loop[l].in, loop[l].req))
    BY <1>1, <2>1, StepsAt
  <2> QED
    BY <2>2, WorkFacts
<1>5. InThread(P, w)
  <2>1. InThread(P, loop[l])
    BY <1>1 DEF Placed, InThreads
  <2> QED
    BY <1>3, <1>4, <2>1 DEF InThread, Asking, Replying
<1>6. InThreads(P)'
  BY <1>1, <1>4, <1>5, ThreadsPlaced DEF Placed
<1>7. InDubbo(P)' /\ InReplies(P)'
  <2>1. InDubbo(P)'
    BY <1>1, <1>2 DEF Placed, InDubbo
  <2>2. InReplies(P)'
    BY <1>1, <1>2 DEF Placed, InReplies, RepliesOf
  <2> QED
    BY <2>1, <2>2
<1>8. KeptRight'
  <2>1. PICK r : r = loop[l].req
    OBVIOUS
  <2>2. r.id \in Asked(r.chan)
    BY <1>1, <1>3, <2>1, AskingThread, LastKnown
  <2>3. processingRequest' = [i \in DOMAIN processingRequest \cup {r.id} |->
                                 IF i = r.id THEN r ELSE processingRequest[i]]
    BY <2>1 DEF switchToDubbo_put, Kept
  <2>4. ASSUME NEW id \in DOMAIN processingRequest' PROVE id \in Asked(processingRequest'[id].chan)
    BY <1>1, <2>2, <2>3 DEF Placed, KeptRight
  <2>5. ASSUME NEW id \in DOMAIN processingRequest' PROVE id \in Asked(processingRequest[id].chan)'
    BY <2>4 DEF Asked
  <2> QED
    BY <2>5 DEF KeptRight
<1>9. Placed(K, P, Q, n, h)'
  BY <1>1, <1>6, <1>7, <1>8 DEF Placed, InQueue, NotCut
<1> QED
  BY <1>1, <1>2, <1>9, RpcKept DEF AnswersInv

\* Dubbo is asked: 1 to 2.
LEMMA WritePlaced ==
    ASSUME Parsed = Meaning, NEW K, NEW P, NEW Q, NEW n, NEW h, AnswersInv(K, P, Q, n, h),
           NEW l \in Loops, switchToDubbo_write(l)
    PROVE  Reached'
<1>1. /\ CutInv(K) /\ CutInv(K)' /\ RpcAt(Q, n, h) /\ Placed(K, P, Q, n, h) /\ LoopType
      /\ P \in [Nat -> 0..5]
  BY WriteCut DEF AnswersInv, CutInv, ThreadsRight, Placed
<1>2. UNCHANGED <<rpcDecoder, answers, processingRequest, replies>>
  BY DEF switchToDubbo_write, rpc
<1>3. loop[l].at = "write" /\ loop[l].at \in Asking
  BY DEF switchToDubbo_write, Asking
<1>4. PICK w : GoesOn(l, w) /\ w.at = "decode"
  <2>1. SetsReq(l, "decode", NULL)
    BY DEF switchToDubbo_write, SetsReq
  <2>2. GoesOn(l, Work("decode", loop[l].chan, loop[l].in, NULL))
    BY <1>1, <2>1, StepsReq
  <2> QED
    BY <2>2, WorkFacts
<1>5. PICK r : r = loop[l].req
  OBVIOUS
<1>6. PICK id \in Nat : id = r.id /\ Known(id) /\ FormOf(id) = r.data
  BY <1>1, <1>3, <1>5, AskingThread, LastKnown
<1>7. P[id] = 1
  BY <1>1, <1>3, <1>5, <1>6 DEF Placed, InThreads, InThread
<1>lost. CASE ~Complete(Parsed[r.data])
  <2>1. UNCHANGED toDubbo
    BY <1>5, <1>lost DEF switchToDubbo_write
  <2>2. w.at \notin Asking \cup Replying
    BY <1>4 DEF Asking, Replying
  <2>3. RpcAt(Q, n, h)'
    BY <1>1, <1>2, RpcKept
  <2>4. AnswersInv(K, P, Q, n, h)'
    BY <1>1, <1>2, <1>4, <2>1, <2>2, <2>3, FreeStep
  <2> QED
    BY <2>4 DEF Reached
<1>full. SUFFICES ASSUME Complete(Parsed[r.data]) PROVE Reached'
  BY <1>lost
<1>due. Due(id)
  BY <1>6, <1>full DEF Due
<1>8. PICK M : Moved(P, M, id, 2)
  BY <1>1, MovedExists
<1>9. InThreads(M)'
  <2>1. InThread(M, w)
    BY <1>4 DEF InThread, Asking, Replying
  <2>2. ASSUME NEW m \in Loops, m # l PROVE InThread(M, loop[m])
    <3>1. InThread(P, loop[m])
      BY <1>1 DEF Placed, InThreads
    <3>2. loop[m].at \in Asking => loop[m].req.id # id
      BY <1>1, <1>3, <1>5, <1>6, <2>2, AskingOnce
    <3>3. loop[m].at \in Replying => loop[m].req.id # id
      BY <1>7, <3>1 DEF InThread
    <3> QED
      BY <1>8, <3>1, <3>2, <3>3, MovedThread
  <2>3. ASSUME NEW m \in Loops PROVE InThread(M, loop'[m])
    BY <1>1, <1>4, <2>1, <2>2, GoesOnFacts
  <2>4. ASSUME NEW m \in Loops PROVE InThread(M, loop[m])'
    BY <2>3 DEF InThread
  <2> QED
    BY <2>4 DEF InThreads
<1>10. InDubbo(M)'
  <2>1. PICK v : v = [id |-> id, params |-> Meaning[FormOf(id)]]
    OBVIOUS
  <2>6. v.id = id
    BY <2>1
  <2>2. Message(r) = v
    BY <1>6, <2>1 DEF Message
  <2>3. toDubbo' = toDubbo \cup {v}
    BY <1>5, <1>full, <2>2 DEF switchToDubbo_write
  <2>4. InDubbo(M)
    BY <1>1, <1>7, <1>8, MovedDubbo DEF Placed
  <2>5. M[v.id] = 2 /\ Due(v.id) /\ v = [id |-> v.id, params |-> Meaning[FormOf(v.id)]]
    BY <1>6, <1>8, <1>due, <2>1, <2>6 DEF Moved
  <2> QED
    BY <2>3, <2>4, <2>5 DEF InDubbo
<1>11. InReplies(M)' /\ KeptRight'
  <2>1. InReplies(M) /\ KeptRight
    BY <1>1, <1>7, <1>8, MovedReplies DEF Placed
  <2> QED
    BY <1>2, <2>1 DEF InReplies, RepliesOf, KeptRight
<1>12. InQueue(M, Q, n, h)
  <2>1. n \in Nat /\ h \in 1..(n + 1) /\ Q \in [1..n -> Nat]
    BY <1>1, QueueFacts
  <2>2. InQueue(P, Q, n, h) /\ P[id] # 3
    BY <1>1, <1>7 DEF Placed
  <2> QED
    BY <1>8, <2>1, <2>2, MovedQueue
<1>13. NotCut(M, K)
  BY <1>1, <1>7, <1>8, MovedNotCut DEF Placed
<1>14. Placed(K, M, Q, n, h)'
  BY <1>8, <1>9, <1>10, <1>11, <1>12, <1>13 DEF Placed, InQueue, NotCut, Moved
<1>15. AnswersInv(K, M, Q, n, h)'
  BY <1>1, <1>2, <1>14, RpcKept DEF AnswersInv
<1> QED
  BY <1>15 DEF Reached

\* The provider answers: 2 to 3.
LEMMA AnswerPlaced ==
    ASSUME NEW K, NEW P, NEW Q, NEW n, NEW h, AnswersInv(K, P, Q, n, h), Answer
    PROVE  Reached'
<1>1. /\ CutInv(K) /\ CutInv(K)' /\ RpcAt(Q, n, h) /\ Placed(K, P, Q, n, h)
      /\ P \in [Nat -> 0..5]
  BY AnswerCut DEF AnswersInv, CutInv, Placed
<1>2. PICK m \in toDubbo : toDubbo' = toDubbo \ {m} /\ answers' = answers \o Frame(m.id, m.params[Result])
  BY DEF Answer
<1>3. UNCHANGED <<loop, rpcDecoder, processingRequest, replies>>
  BY DEF Answer
<1>4. PICK id \in Nat : /\ id = m.id /\ Due(id) /\ P[id] = 2
                        /\ m = [id |-> id, params |-> Meaning[FormOf(id)]]
  BY <1>1, DueFacts DEF Placed, InDubbo
<1>5. PICK M : Moved(P, M, id, 3)
  BY <1>1, MovedExists
<1>6. answers' = answers \o AnswerOf(id)
  BY <1>2, <1>4 DEF AnswerOf, ValueOf
<1>7. n \in Nat /\ h \in 1..(n + 1) /\ Q \in [1..n -> Nat]
  BY <1>1, QueueFacts
<1>8. PICK R : Grown(R, Q, n, id)
  BY <1>7, GrownExists
<1>9. RpcAt(R, n + 1, h)'
  <2>1. PICK T, S, p : RpcRight(T, Q, S, n, h, p, rpcDecoder, answers)
    BY <1>1 DEF RpcAt
  <2>2. T \in Octets /\ S \in [1..(n + 1) -> Nat]
    BY <2>1 DEF RpcRight, FramesRight
  <2>3. PICK u \in Nat : u = Len(T) + Len(AnswerOf(id))
    <3>1. Len(T) \in Nat /\ Len(AnswerOf(id)) \in Nat
      BY <1>4, <2>2, AnswerFacts, LenProperties DEF Octets
    <3> QED
      BY <3>1
  <2>4. n + 1 \in Nat
    BY <1>7
  <2>5. PICK U : Grown(U, S, n + 1, u)
    BY <2>2, <2>3, <2>4, GrownExists
  <2>6. RpcRight(T \o AnswerOf(id), R, U, n + 1, h, p, rpcDecoder, answers \o AnswerOf(id))
    BY <1>4, <1>8, <2>1, <2>3, <2>5, RpcAppend
  <2>7. \E V : RpcRight(V, R, U, n + 1, h, p, rpcDecoder', answers')
    BY <1>3, <1>6, <2>6
  <2> QED
    BY <2>7 DEF RpcAt
<1>10. InThreads(M)'
  <2>1. ASSUME NEW l \in Loops PROVE InThread(M, loop[l])
    <3>1. InThread(P, loop[l])
      BY <1>1 DEF Placed, InThreads
    <3>2. loop[l].at \in Asking \cup Replying => loop[l].req.id # id
      BY <1>4, <3>1 DEF InThread
    <3> QED
      BY <1>5, <3>1, <3>2, MovedThread
  <2> QED
    BY <1>3, <2>1 DEF InThreads, InThread
<1>11. InDubbo(M)'
  <2>1. ASSUME NEW v \in toDubbo'
        PROVE  M[v.id] = 2 /\ Due(v.id) /\ v = [id |-> v.id, params |-> Meaning[FormOf(v.id)]]
    <3>1. v \in toDubbo /\ v # m
      BY <1>2
    <3>2. /\ P[v.id] = 2 /\ Due(v.id) /\ v = [id |-> v.id, params |-> Meaning[FormOf(v.id)]]
      BY <1>1, <3>1 DEF Placed, InDubbo
    <3>3. v.id # id
      BY <1>4, <3>1, <3>2
    <3>4. v.id \in Nat
      BY <3>2, DueFacts
    <3> QED
      BY <1>5, <3>2, <3>3, <3>4 DEF Moved
  <2> QED
    BY <2>1 DEF InDubbo
<1>12. InReplies(M)' /\ KeptRight'
  <2>1. InReplies(M) /\ KeptRight
    BY <1>1, <1>4, <1>5, MovedReplies DEF Placed
  <2>2. InReplies(M)'
    BY <1>3, <2>1 DEF InReplies, RepliesOf
  <2>3. KeptRight'
    BY <1>3, <2>1 DEF KeptRight
  <2> QED
    BY <2>2, <2>3
<1>13. InQueue(M, R, n + 1, h)
  <2>1. /\ R[n + 1] = id /\ \A k \in 1..n : R[k] = Q[k]
    BY <1>8 DEF Grown
  <2>2. /\ M[id] = 3 /\ \A x \in Nat : x # id => M[x] = P[x]
    BY <1>5 DEF Moved
  <2>3. ASSUME NEW k \in h..(n + 1), k # n + 1 PROVE R[k] = Q[k] /\ R[k] # id /\ M[R[k]] = 3 /\ k \in h..n
    <3>1. k \in 1..n /\ k \in h..n
      BY <1>7, <2>3
    <3>2. P[Q[k]] = 3 /\ Q[k] \in Nat
      BY <1>1, <1>7, <3>1 DEF Placed, InQueue
    <3> QED
      BY <1>4, <2>1, <2>2, <3>1, <3>2
  <2>4. ASSUME NEW k \in h..(n + 1) PROVE M[R[k]] = 3
    BY <2>1, <2>2, <2>3
  <2>5. ASSUME NEW j \in h..(n + 1), NEW k \in h..(n + 1), R[j] = R[k] PROVE j = k
    <3>1. CASE j = n + 1 \/ k = n + 1
      BY <2>1, <2>3, <2>5, <3>1
    <3>2. CASE j # n + 1 /\ k # n + 1
      BY <1>1, <2>3, <2>5, <3>2 DEF Placed, InQueue
    <3> QED
      BY <3>1, <3>2
  <2> QED
    BY <2>4, <2>5 DEF InQueue
<1>14. NotCut(M, K)
  BY <1>1, <1>4, <1>5, MovedNotCut DEF Placed
<1>15. Placed(K, M, R, n + 1, h)'
  BY <1>5, <1>10, <1>11, <1>12, <1>13, <1>14 DEF Placed, InQueue, NotCut, Moved
<1>16. AnswersInv(K, M, R, n + 1, h)'
  BY <1>1, <1>9, <1>15 DEF AnswersInv
<1> QED
  BY <1>16 DEF Reached

\* What the provider's decoder makes of the bytes it has: nothing that is
\* complete, or the answer to Q[h].
Waits(Q, n, h, l) == GoesOn(l, Idle) /\ RpcAt(Q, n, h)'
Gets(Q, n, h, l) ==
    /\ h \in 1..n /\ RpcAt(Q, n, h + 1)'
    /\ SetsReq(l, "get", [id |-> Q[h], value |-> ValueOf(Q[h])])

LEMMA DecodeWithHeader ==
    ASSUME NEW T, NEW Q, NEW S, NEW n, NEW h, NEW p, NEW d, RpcRight(T, Q, S, n, h, p, d, answers),
           NEW l \in Loops, d.isHeader = FALSE, answers' = answers,
           NEW id, id = d.requestId, NEW size, size = d.dataLength, NEW rest, rest = d.in,
           IF Len(rest) >= size
           THEN /\ rpcDecoder' = [isHeader |-> TRUE, requestId |-> id, dataLength |-> size, in |-> Drop(rest, size)]
                /\ SetsReq(l, "get", [id |-> id, value |-> Take(rest, size)])
           ELSE rpcDecoder' = [isHeader |-> FALSE, requestId |-> id, dataLength |-> size, in |-> rest]
                /\ GoesOn(l, Idle)
    PROVE  Waits(Q, n, h, l) \/ Gets(Q, n, h, l)
<1>1. CASE Len(rest) >= size
  <2>1. RpcBodyRead(T, Q, S, n, h, p, d, answers)
    BY <1>1, RpcBody
  <2>2. RpcRight(T, Q, S, n, h + 1, p + size, rpcDecoder', answers')
    BY <1>1, <2>1 DEF RpcBodyRead
  <2>3. h \in 1..n /\ id = Q[h] /\ Take(rest, size) = ValueOf(Q[h])
    BY <2>1 DEF RpcBodyRead
  <2>4. RpcAt(Q, n, h + 1)'
    BY <2>2 DEF RpcAt
  <2>5. SetsReq(l, "get", [id |-> Q[h], value |-> ValueOf(Q[h])])
    BY <1>1, <2>3
  <2> QED
    BY <2>3, <2>4, <2>5 DEF Gets
<1>2. CASE ~(Len(rest) >= size)
  <2>1. rpcDecoder' = [isHeader |-> FALSE, requestId |-> id, dataLength |-> size, in |-> rest]
    BY <1>2
  <2>2. d = [isHeader |-> FALSE, requestId |-> id, dataLength |-> size, in |-> rest]
    BY DEF RpcRight, RpcSet
  <2>3. RpcRight(T, Q, S, n, h, p, rpcDecoder', answers')
    BY <2>1, <2>2
  <2> QED
    BY <1>2, <2>3 DEF RpcAt, Waits
<1> QED
  BY <1>1, <1>2

LEMMA DecodeRight ==
    ASSUME NEW Q, NEW n, NEW h, RpcAt(Q, n, h), NEW l \in Loops, decode(l)
    PROVE  Waits(Q, n, h, l) \/ Gets(Q, n, h, l)
<1>1. PICK T, S, p : RpcRight(T, Q, S, n, h, p, rpcDecoder, answers)
  BY DEF RpcAt
<1>2. PICK d : d = rpcDecoder
  OBVIOUS
<1>3. answers' = answers /\ d \in RpcSet /\ d.isHeader \in BOOLEAN
  BY <1>1, <1>2 DEF decode, RpcRight, RpcSet
<1>4. CASE d.isHeader = FALSE
  <2>1. IF Len(d.in) >= d.dataLength
        THEN /\ rpcDecoder' = [isHeader |-> TRUE, requestId |-> d.requestId, dataLength |-> d.dataLength,
                               in |-> Drop(d.in, d.dataLength)]
             /\ SetsReq(l, "get", [id |-> d.requestId, value |-> Take(d.in, d.dataLength)])
        ELSE rpcDecoder' = [isHeader |-> FALSE, requestId |-> d.requestId, dataLength |-> d.dataLength, in |-> d.in]
             /\ GoesOn(l, Idle)
    BY <1>2, <1>4 DEF decode, SetsReq, GoesOn
  <2> QED
    BY <1>1, <1>2, <1>3, <1>4, <2>1, DecodeWithHeader
<1>5. CASE d.isHeader = TRUE /\ Len(d.in) >= HEADER_LENGTH
  <2>1. RpcHeadRead(T, Q, S, n, h, p, d, answers)
    BY <1>1, <1>2, <1>5, RpcHead
  <2>2. PICK e : e = [isHeader |-> FALSE, requestId |-> bytes2long(d.in), dataLength |-> bytes2int(d.in),
                      in |-> Drop(d.in, HEADER_LENGTH)]
    OBVIOUS
  <2>3. RpcRight(T, Q, S, n, h, p + HEADER_LENGTH, e, answers)
    BY <2>1, <2>2 DEF RpcHeadRead
  <2>4. /\ e.isHeader = FALSE /\ e.requestId = bytes2long(d.in) /\ e.dataLength = bytes2int(d.in)
        /\ e.in = Drop(d.in, HEADER_LENGTH)
    BY <2>2
  <2>5. IF Len(e.in) >= e.dataLength
        THEN /\ rpcDecoder' = [isHeader |-> TRUE, requestId |-> e.requestId, dataLength |-> e.dataLength,
                               in |-> Drop(e.in, e.dataLength)]
             /\ SetsReq(l, "get", [id |-> e.requestId, value |-> Take(e.in, e.dataLength)])
        ELSE rpcDecoder' = [isHeader |-> FALSE, requestId |-> e.requestId, dataLength |-> e.dataLength, in |-> e.in]
             /\ GoesOn(l, Idle)
    BY <1>2, <1>5, <2>4 DEF decode, SetsReq, GoesOn
  <2> QED
    BY <1>3, <2>3, <2>4, <2>5, DecodeWithHeader
<1>6. CASE d.isHeader = TRUE /\ ~(Len(d.in) >= HEADER_LENGTH)
  <2>1. /\ rpcDecoder' = [isHeader |-> TRUE, requestId |-> d.requestId, dataLength |-> d.dataLength, in |-> d.in]
        /\ GoesOn(l, Idle)
    BY <1>2, <1>6 DEF decode, GoesOn
  <2>2. d = [isHeader |-> TRUE, requestId |-> d.requestId, dataLength |-> d.dataLength, in |-> d.in]
    BY <1>3, <1>6 DEF RpcSet
  <2>3. RpcRight(T, Q, S, n, h, p, rpcDecoder', answers')
    BY <1>1, <1>2, <1>3, <2>1, <2>2
  <2> QED
    BY <2>1, <2>3 DEF RpcAt, Waits
<1> QED
  BY <1>3, <1>4, <1>5, <1>6

\* The answer is there: 3 to 4.
LEMMA DecodePlaced ==
    ASSUME NEW K, NEW P, NEW Q, NEW n, NEW h, AnswersInv(K, P, Q, n, h), NEW l \in Loops, decode(l)
    PROVE  Reached'
<1>1. /\ CutInv(K) /\ CutInv(K)' /\ RpcAt(Q, n, h) /\ Placed(K, P, Q, n, h) /\ LoopType
      /\ P \in [Nat -> 0..5]
  BY DecodeCut DEF AnswersInv, CutInv, ThreadsRight, Placed
<1>2. UNCHANGED <<toDubbo, processingRequest, replies>>
  BY DEF decode, switch
<1>3. loop[l].at = "rpc" /\ loop[l].at \in Answering
  BY DEF decode, Answering
<1>4. CASE Waits(Q, n, h, l)
  <2>1. GoesOn(l, Idle) /\ Idle.at \notin Asking \cup Replying /\ RpcAt(Q, n, h)'
    BY <1>4 DEF Waits, Idle, Asking, Replying
  <2>2. AnswersInv(K, P, Q, n, h)'
    BY <1>1, <1>2, <2>1, FreeStep
  <2> QED
    BY <2>2 DEF Reached
<1>5. CASE Gets(Q, n, h, l)
  <2>1. h \in 1..n /\ RpcAt(Q, n, h + 1)' /\ n \in Nat /\ Q \in [1..n -> Nat]
    BY <1>1, <1>5, QueueFacts DEF Gets
  <2>2. PICK id \in Nat : id = Q[h] /\ Due(id)
    BY <1>1, <2>1, QueueFacts
  <2>3. PICK r : r = [id |-> id, value |-> ValueOf(id)]
    OBVIOUS
  <2>4. PICK w : GoesOn(l, w) /\ w.at = "get" /\ w.req = r
    <3>1. SetsReq(l, "get", r)
      BY <1>5, <2>2, <2>3 DEF Gets
    <3>2. GoesOn(l, Work("get", loop[l].chan, loop[l].in, r))
      BY <1>1, <3>1, StepsReq
    <3> QED
      BY <3>2, WorkFacts
  <2>5. P[id] = 3
    <3>1. h \in h..n
      BY <2>1
    <3> QED
      BY <1>1, <2>2, <3>1 DEF Placed, InQueue
  <2>6. PICK M : Moved(P, M, id, 4)
    BY <1>1, MovedExists
  <2>7. InThreads(M)
    <3>1. ASSUME NEW m \in Loops PROVE InThread(M, loop[m])
      <4>1. InThread(P, loop[m])
        BY <1>1 DEF Placed, InThreads
      <4>2. loop[m].at \in Asking \cup Replying => loop[m].req.id # id
        BY <2>5, <4>1 DEF InThread
      <4> QED
        BY <2>6, <4>1, <4>2, MovedThread
    <3> QED
      BY <3>1 DEF InThreads
  <2>8. InThread(M, w)
    <3>1. r.id = id
      BY <2>3
    <3> QED
      BY <2>2, <2>3, <2>4, <2>6, <3>1 DEF InThread, Moved, Asking, Replying
  <2>9. InThreads(M)'
    BY <1>1, <2>4, <2>7, <2>8, ThreadsPlaced
  <2>10. InDubbo(M)' /\ InReplies(M)' /\ KeptRight'
    <3>1. InDubbo(M) /\ InReplies(M) /\ KeptRight
      BY <1>1, <2>5, <2>6, MovedDubbo, MovedReplies DEF Placed
    <3> QED
      BY <1>2, <3>1, RestPlaced
  <2>11. InQueue(M, Q, n, h + 1)
    <3>1. /\ \A k \in h..n : P[Q[k]] = 3 /\ \A j \in h..n : Q[j] = Q[k] => j = k
      BY <1>1 DEF Placed, InQueue
    <3>2. ASSUME NEW k \in (h + 1)..n PROVE k \in h..n /\ k \in 1..n /\ k # h /\ h \in h..n
      BY <2>1
    <3>3. ASSUME NEW k \in (h + 1)..n PROVE M[Q[k]] = 3
      <4>1. Q[k] # id /\ P[Q[k]] = 3 /\ Q[k] \in Nat
        BY <2>1, <2>2, <3>1, <3>2
      <4> QED
        BY <2>6, <4>1 DEF Moved
    <3>4. ASSUME NEW j \in (h + 1)..n, NEW k \in (h + 1)..n, Q[j] = Q[k] PROVE j = k
      BY <3>1, <3>2, <3>4
    <3> QED
      BY <3>3, <3>4 DEF InQueue
  <2>12. NotCut(M, K)
    BY <1>1, <2>5, <2>6, MovedNotCut DEF Placed
  <2>13. Placed(K, M, Q, n, h + 1)'
    BY <2>6, <2>9, <2>10, <2>11, <2>12 DEF Placed, InQueue, NotCut, Moved
  <2>14. AnswersInv(K, M, Q, n, h + 1)'
    BY <1>1, <2>1, <2>13 DEF AnswersInv
  <2> QED
    BY <2>14 DEF Reached
<1> QED
  BY <1>1, <1>4, <1>5, DecodeRight

\* A step of the answering thread that keeps what it has.
LEMMA CarryStep ==
    ASSUME NEW K, NEW P, NEW Q, NEW n, NEW h, AnswersInv(K, P, Q, n, h), CutInv(K)',
           NEW l \in Loops, NEW w, GoesOn(l, w), InThread(P, w), KeptRight',
           UNCHANGED <<toDubbo, replies, rpcDecoder, answers>>
    PROVE  AnswersInv(K, P, Q, n, h)'
<1>1. LoopType /\ Placed(K, P, Q, n, h) /\ RpcAt(Q, n, h)
  BY DEF AnswersInv, CutInv, ThreadsRight
<1>2. InThreads(P)'
  BY <1>1, ThreadsPlaced DEF Placed
<1>3. InDubbo(P)' /\ InReplies(P)'
  BY <1>1 DEF Placed, InDubbo, InReplies, RepliesOf
<1>4. Placed(K, P, Q, n, h)'
  BY <1>1, <1>2, <1>3 DEF Placed, InQueue, NotCut
<1> QED
  BY <1>1, <1>4, RpcKept DEF AnswersInv

LEMMA GetPlaced ==
    ASSUME NEW K, NEW P, NEW Q, NEW n, NEW h, AnswersInv(K, P, Q, n, h),
           NEW l \in Loops, responseFromDubbo_get(l)
    PROVE  AnswersInv(K, P, Q, n, h)'
<1>1. CutInv(K) /\ CutInv(K)' /\ LoopType /\ InThread(P, loop[l]) /\ KeptRight
  BY ResponseCut DEF responseFromDubbo, AnswersInv, CutInv, ThreadsRight, Placed, InThreads
<1>2. UNCHANGED <<toDubbo, replies, rpcDecoder, answers, processingRequest>>
  BY DEF responseFromDubbo_get, switch, rpc
<1>3. KeptRight'
  BY <1>1, <1>2 DEF KeptRight
<1>4. PICK r : r = loop[l].req
  OBVIOUS
<1>5. CASE r.id \in DOMAIN processingRequest
  <2>1. PICK c \in Channels : c = processingRequest[r.id].chan
    BY <1>1, <1>5 DEF CutInv, SidesRight
  <2>2. r.id \in Asked(c)
    BY <1>1, <1>5, <2>1 DEF KeptRight
  <2>3. SetsChan(l, "remove", c)
    BY <1>4, <1>5, <2>1 DEF responseFromDubbo_get, SetsChan
  <2>4. PICK w : GoesOn(l, w) /\ w.at = "remove" /\ w.chan = c /\ w.req = r
    <3>1. GoesOn(l, Work("remove", c, loop[l].in, r))
      BY <1>1, <1>4, <2>3, StepsChan
    <3> QED
      BY <3>1, WorkFacts
  <2>5. InThread(P, w)
    <3>1. loop[l].at \in Replying
      BY DEF responseFromDubbo_get, Replying
    <3> QED
      BY <1>1, <1>4, <2>2, <2>4, <3>1 DEF InThread, Asking, Replying
  <2> QED
    BY <1>1, <1>2, <1>3, <2>4, <2>5, CarryStep
<1>6. CASE r.id \notin DOMAIN processingRequest
  <2>1. loop' = [loop EXCEPT ![l] = [Idle EXCEPT !.at = "rpc"]]
    BY <1>4, <1>6 DEF responseFromDubbo_get
  <2>2. PICK w : GoesOn(l, w) /\ w.at = "rpc"
    <3>1. GoesOn(l, Work("rpc", NULL, <<>>, NULL))
      BY <2>1, IdleWork DEF GoesOn
    <3> QED
      BY <3>1, WorkFacts
  <2>3. InThread(P, w)
    BY <2>2 DEF InThread, Asking, Replying
  <2> QED
    BY <1>1, <1>2, <1>3, <2>2, <2>3, CarryStep
<1> QED
  BY <1>5, <1>6

LEMMA RemovePlaced ==
    ASSUME NEW K, NEW P, NEW Q, NEW n, NEW h, AnswersInv(K, P, Q, n, h),
           NEW l \in Loops, responseFromDubbo_remove(l)
    PROVE  AnswersInv(K, P, Q, n, h)'
<1>1. CutInv(K) /\ CutInv(K)' /\ LoopType /\ InThread(P, loop[l]) /\ KeptRight
  BY ResponseCut DEF responseFromDubbo, AnswersInv, CutInv, ThreadsRight, Placed, InThreads
<1>2. UNCHANGED <<toDubbo, replies, rpcDecoder, answers>>
  BY DEF responseFromDubbo_remove, rpc
<1>3. KeptRight'
  <2>1. processingRequest' = [i \in DOMAIN processingRequest \ {loop[l].req.id} |-> processingRequest[i]]
    BY DEF responseFromDubbo_remove, Restrict
  <2>2. ASSUME NEW id \in DOMAIN processingRequest' PROVE id \in Asked(processingRequest'[id].chan)
    BY <1>1, <2>1 DEF KeptRight
  <2>3. ASSUME NEW id \in DOMAIN processingRequest' PROVE id \in Asked(processingRequest[id].chan)'
    BY <2>2 DEF Asked
  <2> QED
    BY <2>3 DEF KeptRight
<1>4. PICK w : GoesOn(l, w) /\ w.at = "reply" /\ w.chan = loop[l].chan /\ w.req = loop[l].req
  <2>1. SetsAt(l, "reply")
    BY DEF responseFromDubbo_remove, SetsAt
  <2>2. GoesOn(l, Work("reply", loop[l].chan, loop[l].in, loop[l].req))
    BY <1>1, <2>1, StepsAt
  <2> QED
    BY <2>2, WorkFacts
<1>5. InThread(P, w)
  <2>1. loop[l].at = "remove"
    BY DEF responseFromDubbo_remove
  <2> QED
    BY <1>1, <1>4, <2>1 DEF InThread, Asking, Replying
<1> QED
  BY <1>1, <1>2, <1>3, <1>4, <1>5, CarryStep

LEMMA RepliesAppend ==
    ASSUME NEW M, NEW c \in Channels, NEW s \in Seq([id : Nat, value : Octets]), RepliesOf(M, c, s),
           NEW r \in [id : Nat, value : Octets], r.id \in Asked(c), M[r.id] = 5, Due(r.id),
           r.value = ValueOf(r.id),
           \A i \in 1..Len(s) : s[i].id # r.id
    PROVE  RepliesOf(M, c, Append(s, r)) /\ Append(s, r) \in Seq([id : Nat, value : Octets])
<1>1. PICK z \in Nat : z = Len(s)
  BY LenProperties
<1>2. PICK t \in Seq([id : Nat, value : Octets]) :
         t = Append(s, r) /\ Len(t) = z + 1 /\ t[z + 1] = r /\ \A i \in 1..z : t[i] = s[i]
  <2>1. /\ Append(s, r) \in Seq([id : Nat, value : Octets]) /\ Len(Append(s, r)) = Len(s) + 1
        /\ \A i \in 1..Len(s) : Append(s, r)[i] = s[i]
        /\ Append(s, r)[Len(s) + 1] = r
    BY AppendProperties
  <2> QED
    BY <1>1, <2>1
<1>3. \A i \in 1..(z + 1) : i # z + 1 => i \in 1..z
  BY <1>1
<1>4. ASSUME NEW i \in 1..(z + 1)
      PROVE  t[i].id \in Asked(c) /\ M[t[i].id] = 5 /\ t[i].value = ValueOf(t[i].id) /\ Due(t[i].id)
  <2>1. CASE i = z + 1
    BY <1>2, <2>1
  <2>2. CASE i # z + 1
    BY <1>1, <1>2, <1>3, <2>2 DEF RepliesOf
  <2> QED
    BY <2>1, <2>2
<1>5. ASSUME NEW i \in 1..(z + 1), NEW j \in 1..(z + 1), t[i].id = t[j].id PROVE i = j
  <2>1. CASE i = z + 1 /\ j # z + 1
    BY <1>1, <1>2, <1>3, <1>5, <2>1
  <2>2. CASE i # z + 1 /\ j = z + 1
    BY <1>1, <1>2, <1>3, <1>5, <2>2
  <2>3. CASE i # z + 1 /\ j # z + 1
    BY <1>1, <1>2, <1>3, <1>5, <2>3 DEF RepliesOf
  <2> QED
    BY <2>1, <2>2, <2>3
<1>6. RepliesOf(M, c, t)
  BY <1>2, <1>4, <1>5 DEF RepliesOf
<1> QED
  BY <1>2, <1>6

\* The reply is written: 4 to 5.
LEMMA ReplyPlaced ==
    ASSUME NEW K, NEW P, NEW Q, NEW n, NEW h, AnswersInv(K, P, Q, n, h),
           NEW l \in Loops, responseFromDubbo_reply(l)
    PROVE  Reached'
<1>1. /\ CutInv(K) /\ CutInv(K)' /\ LoopType /\ InThread(P, loop[l]) /\ RpcAt(Q, n, h)
      /\ Placed(K, P, Q, n, h) /\ P \in [Nat -> 0..5]
  BY ResponseCut DEF responseFromDubbo, AnswersInv, CutInv, ThreadsRight, Placed, InThreads
<1>2. UNCHANGED <<toDubbo, processingRequest, rpcDecoder, answers>>
  BY DEF responseFromDubbo_reply, switch, rpc
<1>3. loop[l].at = "reply" /\ loop[l].at \in Replying /\ loop[l].at \in Answering
  BY DEF responseFromDubbo_reply, Replying, Answering
<1>4. PICK r : r = loop[l].req
  OBVIOUS
<1>5. PICK id : id = r.id /\ Due(id) /\ P[id] = 4 /\ r = [id |-> id, value |-> ValueOf(id)]
  BY <1>1, <1>3, <1>4 DEF InThread
<1>6. PICK c \in Channels : c = loop[l].chan /\ id \in Asked(c)
  BY <1>1, <1>3, <1>4, <1>5 DEF InThread
<1>7. id \in Nat /\ ValueOf(id) \in Octets
  BY <1>5, DueFacts
<1>8. PICK M : Moved(P, M, id, 5)
  BY <1>1, <1>7, MovedExists
<1>9. InThreads(M)'
  <2>1. PICK w : GoesOn(l, w) /\ w.at = "rpc"
    <3>1. GoesOn(l, Work("rpc", NULL, <<>>, NULL))
      BY IdleWork DEF responseFromDubbo_reply, GoesOn
    <3> QED
      BY <3>1, WorkFacts
  <2>2. InThread(M, w)
    BY <2>1 DEF InThread, Asking, Replying
  <2>3. ASSUME NEW m \in Loops, m # l PROVE InThread(M, loop[m])
    <3>1. InThread(P, loop[m])
      BY <1>1 DEF Placed, InThreads
    <3>2. loop[m].at \in Asking => loop[m].req.id # id
      BY <1>5, <3>1 DEF InThread
    <3>3. loop[m].at \notin Replying
      <4>1. loop[m].at \in Answering => m = loopOf[Dubbo]
        BY <1>1, AnsweringThread
      <4>2. l = loopOf[Dubbo]
        BY <1>1, <1>3, AnsweringThread
      <4> QED
        BY <2>3, <4>1, <4>2 DEF Replying, Answering
    <3> QED
      BY <1>8, <3>1, <3>2, <3>3, MovedThread
  <2>4. ASSUME NEW m \in Loops PROVE InThread(M, loop'[m])
    BY <1>1, <2>1, <2>2, <2>3, GoesOnFacts
  <2>5. ASSUME NEW m \in Loops PROVE InThread(M, loop[m])'
    BY <2>4 DEF InThread
  <2> QED
    BY <2>5 DEF InThreads
<1>10. InDubbo(M)' /\ KeptRight'
  <2>1. InDubbo(M) /\ KeptRight
    BY <1>1, <1>5, <1>8, MovedDubbo DEF Placed
  <2> QED
    BY <1>2, <2>1 DEF InDubbo, KeptRight
<1>11. InReplies(M)'
  <2>1. InReplies(P) /\ InReplies(M)
    BY <1>1, <1>5, <1>8, MovedReplies DEF Placed
  <2>2. PICK s \in Seq([id : Nat, value : Octets]) : s = replies[c]
    BY <2>1 DEF InReplies
  <2>3. RepliesOf(M, c, s) /\ RepliesOf(P, c, s)
    BY <2>1, <2>2 DEF InReplies
  <2>4. replies' = [replies EXCEPT ![c] = Append(s, r)]
    BY <1>4, <1>6, <2>2 DEF responseFromDubbo_reply
  <2>5. RepliesOf(M, c, Append(s, r)) /\ Append(s, r) \in Seq([id : Nat, value : Octets])
    <3>1. r \in [id : Nat, value : Octets] /\ r.id = id /\ r.value = ValueOf(id)
      BY <1>5, <1>7
    <3>2. \A i \in 1..Len(s) : s[i].id # r.id
      BY <1>5, <2>3, <3>1 DEF RepliesOf
    <3>3. M[r.id] = 5
      BY <1>8, <3>1 DEF Moved
    <3> QED
      BY <1>5, <1>6, <2>3, <3>1, <3>2, <3>3, RepliesAppend
  <2>6. PICK t \in Seq([id : Nat, value : Octets]) : t = Append(s, r) /\ RepliesOf(M, c, t)
    BY <2>5
  <2>7. replies' = [replies EXCEPT ![c] = t]
    BY <2>4, <2>6
  <2>8. replies' \in [Channels -> Seq([id : Nat, value : Octets])]
    BY <2>1, <2>7 DEF InReplies
  <2>9. ASSUME NEW d \in Channels PROVE RepliesOf(M, d, replies'[d])
    <3>1. CASE d = c
      BY <2>1, <2>6, <2>7, <3>1 DEF InReplies
    <3>2. CASE d # c
      BY <2>1, <2>7, <3>2 DEF InReplies
    <3> QED
      BY <3>1, <3>2
  <2>10. ASSUME NEW d \in Channels PROVE RepliesOf(M, d, replies[d])'
    BY <2>9 DEF RepliesOf
  <2> QED
    BY <2>8, <2>10 DEF InReplies
<1>12. InQueue(M, Q, n, h)
  <2>1. n \in Nat /\ h \in 1..(n + 1) /\ Q \in [1..n -> Nat]
    BY <1>1, QueueFacts
  <2>2. InQueue(P, Q, n, h) /\ P[id] # 3
    BY <1>1, <1>5 DEF Placed
  <2> QED
    BY <1>8, <2>1, <2>2, MovedQueue
<1>13. NotCut(M, K)
  BY <1>1, <1>5, <1>8, MovedNotCut DEF Placed
<1>14. Placed(K, M, Q, n, h)'
  BY <1>8, <1>9, <1>10, <1>11, <1>12, <1>13 DEF Placed, InQueue, NotCut, Moved
<1>15. AnswersInv(K, M, Q, n, h)'
  BY <1>1, <1>2, <1>14, RpcKept DEF AnswersInv
<1> QED
  BY <1>15 DEF Reached
-----------------------------------------------------------------------------
LEMMA AnswersInit ==
    ASSUME Init
    PROVE  Reached
<1>1. PICK K : CutInv(K)
  BY CutInit
<1> DEFINE P == [x \in Nat |-> 0]
           Q == [k \in 1..0 |-> 0]
           S == [k \in 1..1 |-> 0]
<1>2. P \in [Nat -> 0..5] /\ \A x \in Nat : P[x] = 0
  OBVIOUS
<1>3. Q \in [1..0 -> Nat] /\ S \in [1..(0 + 1) -> Nat] /\ S[1] = 0 /\ S[0 + 1] = 0
  OBVIOUS
<1> HIDE DEF P, Q, S
<1>4. InThreads(P)
  BY DEF Init, InThreads, InThread, Idle, Asking, Replying
<1>5. InDubbo(P) /\ InQueue(P, Q, 0, 1)
  BY DEF Init, InDubbo, InQueue
<1>6. InReplies(P)
  <2>1. <<>> \in Seq([id : Nat, value : Octets]) /\ Len(<<>>) = 0
    BY EmptySeq
  <2>2. \A c \in Channels : replies[c] = <<>>
    BY DEF Init
  <2>3. \A c \in Channels : RepliesOf(P, c, replies[c])
    BY <2>1, <2>2 DEF RepliesOf
  <2>4. replies \in [Channels -> Seq([id : Nat, value : Octets])]
    BY <2>1 DEF Init
  <2> QED
    BY <2>3, <2>4 DEF InReplies
<1>7. NotCut(P, K)
  BY <1>2, SentFacts DEF NotCut
<1>8. KeptRight
  <2>1. DOMAIN processingRequest = {}
    <3>1. DOMAIN <<>> = {}
      OBVIOUS
    <3> QED
      BY <3>1 DEF Init
  <2> QED
    BY <2>1 DEF KeptRight
<1>9. Placed(K, P, Q, 0, 1)
  BY <1>2, <1>4, <1>5, <1>6, <1>7, <1>8 DEF Placed
<1>10. RpcRight(<<>>, Q, S, 0, 1, 0, rpcDecoder, answers)
  <2>1. <<>> \in Octets /\ Len(<<>>) = 0
    BY IdleWork
  <2>2. Within(<<>>, <<>>, 0)
    BY <2>1 DEF Within
  <2>3. FramesRight(<<>>, Q, S, 0)
    BY <1>3, <2>1 DEF FramesRight
  <2>4. /\ rpcDecoder \in RpcSet /\ rpcDecoder.in = <<>> /\ rpcDecoder.isHeader = TRUE /\ answers = <<>>
    BY <2>1 DEF Init, RpcSet
  <2>5. 1 \in 1..(0 + 1) /\ 0 + Len(<<>>) = 0 /\ 0 + Len(<<>>) + Len(<<>>) = Len(<<>>)
    BY <2>1
  <2> QED
    BY <1>3, <2>2, <2>3, <2>4, <2>5 DEF RpcRight
<1>11. RpcAt(Q, 0, 1)
  BY <1>10 DEF RpcAt
<1>12. AnswersInv(K, P, Q, 0, 1)
  BY <1>1, <1>9, <1>11 DEF AnswersInv
<1> QED
  BY <1>12 DEF Reached

LEMMA AnswersNext ==
    ASSUME Parsed = Meaning, Reached, [Next]_vars
    PROVE  Reached'
<1>1. PICK K, P, Q, n, h : AnswersInv(K, P, Q, n, h)
  BY DEF Reached
<1>2. CutInv(K)
  BY <1>1 DEF AnswersInv
<1>3. CASE main
  <2>1. UNCHANGED <<loop, rpcDecoder, answers, toDubbo, replies, processingRequest>>
    BY <1>3 DEF main, Connect, setRpcClientChannel, RunServer, switch, rpc
  <2>2. AnswersInv(K, P, Q, n, h)'
    BY <1>1, <1>2, <1>3, <2>1, MainStep, StillPlaced
  <2> QED
    BY <2>2 DEF Reached
<1>4. CASE Answer
  BY <1>1, <1>4, AnswerPlaced
<1>5. CASE Network
  <2>1. AnswersInv(K, P, Q, n, h)'
    BY <1>1, <1>5, ReceivePlaced, ReceiveRpcPlaced DEF Network
  <2> QED
    BY <2>1 DEF Reached
<1>6. ASSUME NEW l \in Loops, Handler(l) PROVE Reached'
  <2>1. CASE channelRead(l)
    BY <1>1, <2>1, ChannelReadPlaced
  <2>2. CASE switchToDubbo_put(l)
    <3>1. AnswersInv(K, P, Q, n, h)'
      BY <1>1, <2>2, PutPlaced
    <3> QED
      BY <3>1 DEF Reached
  <2>3. CASE switchToDubbo_write(l)
    BY <1>1, <2>3, WritePlaced
  <2>4. CASE decode(l)
    BY <1>1, <2>4, DecodePlaced
  <2>5. CASE responseFromDubbo_get(l)
    <3>1. AnswersInv(K, P, Q, n, h)'
      BY <1>1, <2>5, GetPlaced
    <3> QED
      BY <3>1 DEF Reached
  <2>6. CASE responseFromDubbo_remove(l)
    <3>1. AnswersInv(K, P, Q, n, h)'
      BY <1>1, <2>6, RemovePlaced
    <3> QED
      BY <3>1 DEF Reached
  <2>7. CASE responseFromDubbo_reply(l)
    BY <1>1, <2>7, ReplyPlaced
  <2> QED
    BY <1>6, <2>1, <2>2, <2>3, <2>4, <2>5, <2>6, <2>7 DEF Handler, switchToDubbo, responseFromDubbo
<1>7. CASE UNCHANGED vars
  <2>1. UNCHANGED <<decoder, read, loop, loopOf, processingRequest, toDubbo, rpcDecoder, answers, replies,
                    connected, latch, serving>>
    BY <1>7 DEF vars, start, switch, rpc
  <2>2. SidesRight'
    BY <1>2, <2>1 DEF CutInv, SidesRight
  <2>3. CutInv(K)'
    BY <1>2, <2>1, <2>2, NoThreadStep DEF CutInv
  <2>4. AnswersInv(K, P, Q, n, h)'
    BY <1>1, <2>1, <2>3, StillPlaced
  <2> QED
    BY <2>4 DEF Reached
<1> QED
  BY <1>3, <1>4, <1>5, <1>6, <1>7 DEF Next

LEMMA AnswersImply ==
    ASSUME Parsed = Meaning, Reached
    PROVE  RightReply /\ MeaningKept
<1>1. PICK K, P, Q, n, h : Placed(K, P, Q, n, h)
  BY DEF Reached, AnswersInv
<1>2. InReplies(P) /\ InDubbo(P)
  BY <1>1 DEF Placed
<1>3. \A c \in Channels : DOMAIN replies[c] = 1..Len(replies[c]) /\ RepliesOf(P, c, replies[c])
  BY <1>2, LenProperties DEF InReplies
<1>4. RightReply
  BY <1>3 DEF RightReply, RepliesOf, ValueOf, Due
<1>5. \A m \in toDubbo : m.params = Meaning[FormOf(m.id)] /\ Complete(m.params)
  BY <1>2 DEF InDubbo, Due
<1> QED
  BY <1>4, <1>5 DEF MeaningKept
-----------------------------------------------------------------------------
(* FormDataParser *)

\* One step of unescape, with what the later steps return.
Unescaped(part, from, i) ==
    CASE i > Len(part) -> <<>>
      [] i <= Len(part) /\ part[i] # PERCENT -> <<part[i]>> \o from[i + 1]
      [] i <= Len(part) /\ part[i] = PERCENT /\ i + 2 > Len(part) -> <<>>
      [] OTHER ->
           IF part[i + 1] = PERCENT THEN from[i + 1]
           ELSE IF part[i + 2] = PERCENT THEN from[i + 2]
           ELSE <<(16 * hex2dec(part[i + 1]) + hex2dec(part[i + 2])) % 256>> \o from[i + 3]

LEMMA HexInt == \A c \in Byte : hex2dec(c) \in Int
  BY DEF hex2dec, Byte

LEMMA OneMore ==
    ASSUME NEW x \in Byte, NEW s \in Octets
    PROVE  <<x>> \o s \in Octets
<1>1. <<x>> \in Octets
  BY DEF Octets
<1> QED
  BY <1>1, ConcatFacts

LEMMA UnescapedIn ==
    ASSUME NEW part \in Octets, NEW n \in Nat, n = Len(part), NEW f \in [1..(n + 3) -> Octets], NEW i \in 1..(n + 3)
    PROVE  Unescaped(part, f, i) \in Octets
<1>0. <<>> \in Octets
  BY DEF Octets
<1>1. CASE i > n
  BY <1>0, <1>1 DEF Unescaped
<1>2. CASE i <= n /\ part[i] # PERCENT
  <2>1. part[i] \in Byte
    BY <1>2, ElementOfSeq DEF Octets
  <2>3. f[i + 1] \in Octets
    BY <1>2
  <2>2. Unescaped(part, f, i) = <<part[i]>> \o f[i + 1]
    BY <1>2 DEF Unescaped
  <2> QED
    BY <2>1, <2>2, <2>3, OneMore
<1>3. CASE i <= n /\ part[i] = PERCENT /\ i + 2 > n
  BY <1>0, <1>3 DEF Unescaped
<1>4. CASE i <= n /\ part[i] = PERCENT /\ i + 2 <= n
  <2>1. f[i + 1] \in Octets /\ f[i + 2] \in Octets /\ f[i + 3] \in Octets
    BY <1>4
  <2>2. part[i + 1] \in Byte /\ part[i + 2] \in Byte
    BY <1>4, ElementOfSeq DEF Octets
  <2> DEFINE x == (16 * hex2dec(part[i + 1]) + hex2dec(part[i + 2])) % 256
  <2>3. Unescaped(part, f, i) \in {f[i + 1], f[i + 2], <<x>> \o f[i + 3]}
    BY <1>4 DEF Unescaped
  <2>4. x \in Byte
    <3>1. hex2dec(part[i + 1]) \in Int /\ hex2dec(part[i + 2]) \in Int
      BY <2>2, HexInt
    <3>2. \A a, b \in Int : (16 * a + b) % 256 \in 0..255
      OBVIOUS
    <3> QED
      BY <3>1, <3>2 DEF Byte
  <2> HIDE DEF x
  <2>5. <<x>> \o f[i + 3] \in Octets
    BY <2>4, <2>1, OneMore
  <2> QED
    BY <2>1, <2>3, <2>5
<1> QED
  BY <1>1, <1>2, <1>3, <1>4

LEMMA UnescapeDef ==
    ASSUME NEW part \in Octets, NEW m \in Nat, m = Len(part) + 3
    PROVE  \E f : unescape(part) = f[1] /\ \A i \in 1..m : f[i] = Unescaped(part, f, i)
<1> DEFINE Good(f) == f = [i \in 1..m |-> Unescaped(part, f, i)]
<1> DEFINE from == CHOOSE f : Good(f)
<1>1. unescape(part) = from[1]
  BY DEF unescape, Unescaped
<1>2. \E f : Good(f)
  <2> DEFINE G == [i \in 1..m |-> [f \in [1..m -> Octets] |-> Unescaped(part, f, i)]]
  <2>0. PICK n \in Nat : n = Len(part) /\ m = n + 3
    BY LenProperties DEF Octets
  <2>1. G \in [1..m -> [[1..m -> Octets] -> Octets]]
    BY <2>0, UnescapedIn
  <2>2. ASSUME NEW i \in 1..m, NEW g \in [1..m -> Octets], NEW h \in [1..m -> Octets],
               \A j \in 1..m : j > i => g[j] = h[j]
        PROVE  G[i][g] = G[i][h]
    <3>1. i <= n => g[i + 1] = h[i + 1] /\ g[i + 2] = h[i + 2] /\ g[i + 3] = h[i + 3]
      BY <2>2, <2>0
    <3>2. Unescaped(part, g, i) = Unescaped(part, h, i)
      <4>1. CASE i > n
        BY <4>1, <2>0 DEF Unescaped
      <4>2. CASE i <= n
        BY <4>2, <3>1, <2>0 DEF Unescaped
      <4> QED
        BY <4>1, <4>2, <2>0
    <3> QED
      BY <3>2
  <2>3. PICK c \in Octets : TRUE
    BY DEF Octets
  <2>4. PICK f \in [1..m -> Octets] : \A i \in 1..m : f[i] = G[i][f]
    <3> HIDE DEF G
    <3>1. Backward(G, Octets, m)
      BY <2>1, <2>2 DEF Backward
    <3>2. \E f \in [1..m -> Octets] : \A i \in 1..m : f[i] = G[i][f]
      BY <2>3, <3>1, BackwardExists
    <3> QED
      BY <3>2
  <2>5. \A i \in 1..m : f[i] = Unescaped(part, f, i)
    BY <2>4
  <2>6. Good(f)
    BY <2>5
  <2> QED
    BY <2>6
<1>3. Good(from)
  BY <1>2
<1> HIDE DEF from
<1>4. \A i \in 1..m : from[i] = Unescaped(part, from, i)
  BY <1>3
<1> QED
  BY <1>1, <1>4

HexDigits == 48..57 \cup 65..70 \cup 97..102

\* part is an escaped form of the bytes v: place p[k] is where byte k begins, as
\* itself or as an escape of two digits.  A part may break off inside an escape.
Escapes(part, v, p) ==
    /\ p \in [1..(Len(v) + 1) -> 1..(Len(part) + 1)] /\ p[1] = 1
    /\ \A k \in 1..Len(v) :
          LET i == p[k] IN
          \/ i <= Len(part) /\ part[i] # PERCENT /\ v[k] = part[i] /\ p[k + 1] = i + 1
          \/ /\ i + 2 <= Len(part) /\ part[i] = PERCENT /\ {part[i + 1], part[i + 2]} \subseteq HexDigits
             /\ v[k] = 16 * hex2dec(part[i + 1]) + hex2dec(part[i + 2]) /\ p[k + 1] = i + 3
    /\ LET i == p[Len(v) + 1] IN i <= Len(part) => part[i] = PERCENT /\ i + 2 > Len(part)

LEMMA HexValue ==
    ASSUME NEW c \in HexDigits
    PROVE  hex2dec(c) \in 0..15 /\ c # PERCENT
  BY DEF HexDigits, hex2dec, PERCENT

\* From byte k on.
Since(v, k) == SubSeq(v, k, Len(v))

LEMMA SinceFacts ==
    ASSUME NEW S, NEW v \in Seq(S), NEW k \in 1..Len(v)
    PROVE  /\ Since(v, k) = <<v[k]>> \o Since(v, k + 1)
           /\ Since(v, Len(v) + 1) = <<>> /\ Since(v, 1) = v
<1>1. PICK n \in Nat : n = Len(v) /\ k \in 1..n
  BY LenProperties
<1>2. Since(v, k) \in Seq(S) /\ Since(v, k + 1) \in Seq(S) /\ <<v[k]>> \in Seq(S)
  BY <1>1, SubSeqProperties, ElementOfSeq DEF Since
<1> QED
  BY <1>1, <1>2 DEF Since

\* unescape finds the bytes that were escaped.
LEMMA UnescapeRight ==
    ASSUME NEW part \in Octets, NEW v \in Octets, NEW p, Escapes(part, v, p)
    PROVE  unescape(part) = v
<1>1. PICK n \in Nat, m \in Nat : n = Len(part) /\ m = Len(v) /\ n + 3 \in Nat
  BY LenProperties DEF Octets
<1>2. PICK f : unescape(part) = f[1] /\ \A i \in 1..(n + 3) : f[i] = Unescaped(part, f, i)
  BY <1>1, UnescapeDef
<1>p. p \in [1..(m + 1) -> 1..(n + 1)] /\ p[1] = 1
  BY <1>1 DEF Escapes
<1> DEFINE T == {k \in Nat : k <= m => f[p[m + 1 - k]] = Since(v, m + 1 - k)}
<1>3. 0 \in T
  <2>1. PICK i \in 1..(n + 1) : i = p[m + 1]
    BY <1>p
  <2>2. i > n \/ (i <= n /\ part[i] = PERCENT /\ i + 2 > n)
    BY <1>1, <2>1 DEF Escapes
  <2>3. Unescaped(part, f, i) = <<>>
    BY <2>2, <1>1 DEF Unescaped
  <2>4. Since(v, m + 1) = <<>>
    BY <1>1 DEF Since, Octets
  <2>5. f[p[m + 1]] = Since(v, m + 1)
    BY <1>2, <2>1, <2>3, <2>4
  <2> QED
    BY <2>5
<1>4. ASSUME NEW j \in Nat, j \in T PROVE j + 1 \in T
  <2> SUFFICES ASSUME j + 1 <= m PROVE f[p[m + 1 - (j + 1)]] = Since(v, m + 1 - (j + 1))
    OBVIOUS
  <2>1. PICK k \in 1..m : k = m + 1 - (j + 1) /\ k + 1 = m + 1 - j
    OBVIOUS
  <2>2. f[p[k + 1]] = Since(v, k + 1)
    BY <1>4, <2>1
  <2>3. Since(v, k) = <<v[k]>> \o Since(v, k + 1)
    BY <1>1, SinceFacts DEF Octets
  <2>4. PICK i \in 1..(n + 1) : i = p[k]
    BY <1>p
  <2>5. f[i] = Unescaped(part, f, i)
    BY <1>2
  <2>6. CASE i <= n /\ part[i] # PERCENT /\ v[k] = part[i] /\ p[k + 1] = i + 1
    <3>0. i <= Len(part) /\ ~ (i > Len(part))
      BY <2>6, <1>1
    <3>1. Unescaped(part, f, i) = <<part[i]>> \o f[i + 1]
      BY <2>6, <3>0, Zenon DEF Unescaped
    <3> QED
      BY <3>1, <2>1, <2>2, <2>3, <2>4, <2>5, <2>6
  <2>7. CASE /\ i + 2 <= n /\ part[i] = PERCENT /\ {part[i + 1], part[i + 2]} \subseteq HexDigits
             /\ v[k] = 16 * hex2dec(part[i + 1]) + hex2dec(part[i + 2]) /\ p[k + 1] = i + 3
    <3>1. /\ part[i + 1] # PERCENT /\ part[i + 2] # PERCENT
          /\ hex2dec(part[i + 1]) \in 0..15 /\ hex2dec(part[i + 2]) \in 0..15
      BY <2>7, HexValue
    <3>2. v[k] = (16 * hex2dec(part[i + 1]) + hex2dec(part[i + 2])) % 256
      <4>1. \A a, b \in 0..15 : (16 * a + b) % 256 = 16 * a + b
        OBVIOUS
      <4> QED
        BY <4>1, <3>1, <2>7
    <3>3. Unescaped(part, f, i) = <<(16 * hex2dec(part[i + 1]) + hex2dec(part[i + 2])) % 256>> \o f[i + 3]
      <4>1. i <= Len(part) /\ ~ (i > Len(part)) /\ ~ (i + 2 > Len(part))
        BY <2>7, <1>1
      <4> QED
        BY <2>7, <3>1, <4>1, Zenon DEF Unescaped
    <3> QED
      BY <3>2, <3>3, <2>1, <2>2, <2>3, <2>4, <2>5, <2>7
  <2> QED
    BY <2>4, <2>6, <2>7, <1>1 DEF Escapes
<1>5. \A k \in Nat : k \in T
  <2> HIDE DEF T
  <2> QED
    BY <1>3, <1>4, SetInduction
<1>6. f[1] = Since(v, 1)
  BY <1>5, <1>p
<1>7. Since(v, 1) = v
  BY <1>1 DEF Since, Octets
<1> QED
  BY <1>2, <1>6, <1>7

Separators == {EQ, AMP, 13, 10}

\* The next separator at i or behind it, or 0.
Stop(form, i) == SelectInSubSeq(form, i, Len(form), LAMBDA c : c \in {EQ, AMP, 13, 10})

LEMMA StopFacts ==
    ASSUME NEW form \in Octets, NEW n \in Nat, n = Len(form), NEW i \in 1..(n + 1)
    PROVE  \/ Stop(form, i) = 0 /\ \A j \in i..n : form[j] \notin Separators
           \/ /\ Stop(form, i) \in i..n /\ form[Stop(form, i)] \in Separators
              /\ \A j \in i..n : form[j] \in Separators => Stop(form, i) <= j
<1> DEFINE I == {j \in i..n : form[j] \in Separators}
<1>1. Stop(form, i) = IF I # {} THEN Min(I) ELSE 0
  BY DEF Stop, SelectInSubSeq, Separators
<1>2. CASE I = {}
  BY <1>1, <1>2
<1>3. CASE I # {}
  <2>1. I \in SUBSET Nat
    OBVIOUS
  <2>2. \E x \in I : \A y \in I : x <= y
    <3> HIDE DEF I
    <3> QED
      BY <2>1, <1>3, LeastOf
  <2>3. Min(I) \in I /\ \A y \in I : Min(I) <= y
    BY <2>2 DEF Min
  <2> QED
    BY <1>1, <1>3, <2>3
<1> QED
  BY <1>2, <1>3

Parted(form, from, i) ==
    IF Stop(form, i) = 0 THEN <<SubSeq(form, i, Len(form))>>
    ELSE <<SubSeq(form, i, Stop(form, i) - 1)>> \o from[Stop(form, i) + 1]

LEMMA PartsDef ==
    ASSUME NEW form \in Octets, NEW m \in Nat, m = Len(form) + 1
    PROVE  \E f : parts(form) = f[1] /\ \A i \in 1..m : f[i] = Parted(form, f, i)
<1> DEFINE S == Seq(Octets)
<1> DEFINE Good(f) == f = [i \in 1..m |-> Parted(form, f, i)]
<1> DEFINE from == CHOOSE f : Good(f)
<1>1. parts(form) = from[1]
  BY DEF parts, Parted, Stop
<1>2. \E f : Good(f)
  <2> DEFINE G == [i \in 1..m |-> [f \in [1..m -> S] |-> Parted(form, f, i)]]
  <2>0. PICK n \in Nat : n = Len(form) /\ m = n + 1
    BY LenProperties DEF Octets
  <2>1. ASSUME NEW i \in 1..m, NEW f \in [1..m -> S] PROVE Parted(form, f, i) \in S
    <3>1. CASE Stop(form, i) = 0
      <4>1. SubSeq(form, i, n) \in Octets
        BY <2>0, SubSeqProperties DEF Octets
      <4> QED
        BY <4>1, <3>1, <2>0 DEF Parted
    <3>2. CASE Stop(form, i) # 0
      <4>1. PICK t \in i..n : t = Stop(form, i)
        BY <2>0, <3>2, StopFacts
      <4>2. SubSeq(form, i, t - 1) \in Octets
        BY <2>0, SubSeqProperties DEF Octets
      <4>3. f[t + 1] \in S
        BY <2>0
      <4>4. Parted(form, f, i) = <<SubSeq(form, i, t - 1)>> \o f[t + 1]
        BY <3>2, <4>1 DEF Parted
      <4> QED
        BY <4>2, <4>3, <4>4
    <3> QED
      BY <3>1, <3>2
  <2>2. ASSUME NEW i \in 1..m, NEW g \in [1..m -> S], NEW h \in [1..m -> S],
               \A j \in 1..m : j > i => g[j] = h[j]
        PROVE  G[i][g] = G[i][h]
    <3>1. CASE Stop(form, i) = 0
      BY <3>1 DEF Parted
    <3>2. CASE Stop(form, i) # 0
      <4>1. PICK t \in i..n : t = Stop(form, i)
        BY <2>0, <3>2, StopFacts
      <4>2. g[t + 1] = h[t + 1]
        BY <2>0, <2>2
      <4>3. Parted(form, g, i) = Parted(form, h, i)
        BY <4>1, <4>2 DEF Parted
      <4> QED
        BY <4>3
    <3> QED
      BY <3>1, <3>2
  <2>3. PICK c \in S : TRUE
    <3>1. <<>> \in S
      OBVIOUS
    <3> HIDE DEF S
    <3> QED
      BY <3>1
  <2>4. PICK f \in [1..m -> S] : \A i \in 1..m : f[i] = G[i][f]
    <3>1. G \in [1..m -> [[1..m -> S] -> S]]
      BY <2>1
    <3> HIDE DEF G, S
    <3>2. Backward(G, S, m)
      BY <3>1, <2>2 DEF Backward
    <3>3. \E f \in [1..m -> S] : \A i \in 1..m : f[i] = G[i][f]
      BY ONLY m \in Nat, c \in S, <3>2, BackwardExists
    <3> QED
      BY <3>3
  <2>5. \A i \in 1..m : f[i] = Parted(form, f, i)
    BY <2>4
  <2>6. Good(f)
    BY <2>5
  <2> QED
    BY <2>6
<1>3. Good(from)
  BY <1>2
<1> HIDE DEF from
<1>4. \A i \in 1..m : from[i] = Parted(form, from, i)
  BY <1>3
<1> QED
  BY <1>1, <1>4

\* The form is the parts ps with a separator behind each but the last; e[k] is
\* the place behind part k.
Joins(form, ps, e) ==
    /\ Len(ps) > 0 /\ e \in [0..Len(ps) -> 0..(Len(form) + 1)]
    /\ e[0] = 0 /\ e[Len(ps)] = Len(form) + 1
    /\ \A k \in 1..Len(ps) :
          /\ e[k - 1] < e[k] /\ ps[k] = SubSeq(form, e[k - 1] + 1, e[k] - 1)
          /\ \A i \in (e[k - 1] + 1)..(e[k] - 1) : form[i] \notin Separators
          /\ k < Len(ps) => form[e[k]] \in Separators

\* parts finds the parts that were joined.
LEMMA PartsRight ==
    ASSUME NEW form \in Octets, NEW ps \in Seq(Octets), NEW e, Joins(form, ps, e)
    PROVE  parts(form) = ps
<1>1. PICK n \in Nat, m \in Nat : n = Len(form) /\ m = Len(ps) /\ n + 1 \in Nat /\ m > 0
  BY LenProperties DEF Octets, Joins
<1>2. PICK f : parts(form) = f[1] /\ \A i \in 1..(n + 1) : f[i] = Parted(form, f, i)
  BY <1>1, PartsDef
<1>e. e \in [0..m -> 0..(n + 1)] /\ e[0] = 0 /\ e[m] = n + 1
  BY <1>1 DEF Joins
<1>k. ASSUME NEW k \in 1..m
      PROVE  /\ e[k - 1] < e[k] /\ ps[k] = SubSeq(form, e[k - 1] + 1, e[k] - 1)
             /\ \A i \in (e[k - 1] + 1)..(e[k] - 1) : form[i] \notin Separators
             /\ k < m => form[e[k]] \in Separators
  BY <1>1 DEF Joins
<1> DEFINE T == {k \in Nat : k < m => f[e[m - 1 - k] + 1] = Since(ps, m - k)}
<1>3. 0 \in T
  <2>1. PICK a \in 0..(n + 1) : a = e[m - 1]
    BY <1>e, <1>1
  <2>2. /\ a < n + 1 /\ ps[m] = SubSeq(form, a + 1, n)
        /\ \A i \in (a + 1)..n : form[i] \notin Separators
    BY <1>k, <1>e, <1>1, <2>1
  <2>3. a + 1 \in 1..(n + 1)
    BY <2>2
  <2>4. Stop(form, a + 1) = 0
    BY <2>2, <2>3, <1>1, StopFacts
  <2>5. f[a + 1] = <<ps[m]>>
    BY <2>2, <2>3, <2>4, <1>1, <1>2 DEF Parted
  <2>6. Since(ps, m) = <<ps[m]>>
    <3>1. m \in 1..Len(ps) /\ ps[m] \in Octets
      BY <1>1, ElementOfSeq
    <3>2. Since(ps, m) = <<ps[m]>> \o Since(ps, m + 1) /\ Since(ps, Len(ps) + 1) = <<>>
      BY <3>1, SinceFacts
    <3>3. Since(ps, m) = <<ps[m]>> \o <<>>
      BY <3>2, <1>1
    <3> QED
      BY <3>1, <3>3
  <2>7. f[e[m - 1 - 0] + 1] = Since(ps, m - 0)
    BY <2>1, <2>5, <2>6, <1>1
  <2> QED
    BY <2>7
<1>4. ASSUME NEW j \in Nat, j \in T PROVE j + 1 \in T
  <2> SUFFICES ASSUME j + 1 < m PROVE f[e[m - 1 - (j + 1)] + 1] = Since(ps, m - (j + 1))
    OBVIOUS
  <2>1. PICK k \in 1..m : k = m - (j + 1) /\ k - 1 = m - 1 - (j + 1) /\ k = m - 1 - j /\ k + 1 = m - j /\ k < m
    OBVIOUS
  <2>2. f[e[k] + 1] = Since(ps, k + 1)
    BY <1>4, <2>1
  <2>3. Since(ps, k) = <<ps[k]>> \o Since(ps, k + 1)
    BY <1>1, SinceFacts
  <2>4. PICK a \in 0..(n + 1), b \in 0..(n + 1) : a = e[k - 1] /\ b = e[k]
    BY <1>e
  <2>5. /\ a < b /\ ps[k] = SubSeq(form, a + 1, b - 1)
        /\ \A i \in (a + 1)..(b - 1) : form[i] \notin Separators
        /\ form[b] \in Separators
    BY <1>k, <2>1, <2>4
  <2>6. b < n + 1
    <3>1. k + 1 \in 1..m /\ (k + 1) - 1 = k
      BY <2>1
    <3>2. e[k] < e[k + 1] /\ e[k + 1] \in 0..(n + 1)
      BY <1>k, <1>e, <3>1
    <3> QED
      BY <3>2, <2>4
  <2>7. a + 1 \in 1..(n + 1) /\ b \in (a + 1)..n
    BY <2>5, <2>6
  <2>8. Stop(form, a + 1) = b
    <3>1. PICK t : t = Stop(form, a + 1)
      OBVIOUS
    <3>2. \/ t = 0 /\ \A i \in (a + 1)..n : form[i] \notin Separators
          \/ /\ t \in (a + 1)..n /\ form[t] \in Separators
             /\ \A i \in (a + 1)..n : form[i] \in Separators => t <= i
      BY <3>1, <2>7, <1>1, StopFacts
    <3>3. t \in (a + 1)..n /\ form[t] \in Separators /\ t <= b
      BY <3>2, <2>5, <2>7
    <3>4. ~ (t < b)
      BY <3>3, <2>5, <2>7
    <3> QED
      BY <3>1, <3>3, <3>4, <2>7
  <2>9. f[a + 1] = <<ps[k]>> \o f[b + 1]
    <3>1. f[a + 1] = Parted(form, f, a + 1)
      BY <1>2, <2>7
    <3>2. Parted(form, f, a + 1) = <<SubSeq(form, a + 1, b - 1)>> \o f[b + 1]
      <4>1. b # 0
        BY <2>7
      <4> QED
        BY <4>1, <2>8, Zenon DEF Parted
    <3> QED
      BY <3>1, <3>2, <2>5
  <2> QED
    BY <2>1, <2>2, <2>3, <2>4, <2>9
<1>5. \A k \in Nat : k \in T
  <2> HIDE DEF T
  <2> QED
    BY <1>3, <1>4, SetInduction
<1>6. f[1] = Since(ps, 1)
  <2>1. PICK j \in Nat : j = m - 1 /\ m - 1 - j = 0 /\ m - j = 1 /\ j < m
    BY <1>1
  <2>2. j \in T
    BY <1>5
  <2>3. f[e[0] + 1] = Since(ps, 1)
    BY <2>1, <2>2
  <2> QED
    BY <2>3, <1>e
<1>7. Since(ps, 1) = ps
  BY <1>1 DEF Since
<1> QED
  BY <1>2, <1>6, <1>7

\* Of names and values in turn, the last value of a name counts.
Says(vs, M) ==
    /\ M = [f \in Fields |-> M[f]]
    /\ \A f \in Fields :
          \/ M[f] = NULL /\ \A k \in 1..Len(vs) : k % 2 = 0 => vs[k - 1] # f
          \/ \E k \in 1..Len(vs) :
                /\ k % 2 = 0 /\ vs[k - 1] = f /\ M[f] = vs[k]
                /\ \A j \in 1..Len(vs) : j % 2 = 0 /\ vs[j - 1] = f => j <= k

\* The form consists of names and values, escaped in any way, that say M.
Spells(form, M) ==
    \E ps, vs \in Seq(Octets) : \E e, p :
        /\ Joins(form, ps, e)
        /\ Len(vs) = Len(ps) /\ \A k \in 1..Len(ps) : Escapes(ps[k], vs[k], p[k])
        /\ Says(vs, M)

LEMMA ParseRight ==
    ASSUME NEW form \in Octets, NEW M, Spells(form, M)
    PROVE  parse(form) = M
<1>0. PICK ps \in Seq(Octets), vs \in Seq(Octets) : \E e, p :
        /\ Joins(form, ps, e)
        /\ Len(vs) = Len(ps) /\ \A k \in 1..Len(ps) : Escapes(ps[k], vs[k], p[k])
        /\ Says(vs, M)
  BY DEF Spells
<1>1. PICK e, p :
        /\ Joins(form, ps, e)
        /\ Len(vs) = Len(ps) /\ \A k \in 1..Len(ps) : Escapes(ps[k], vs[k], p[k])
        /\ Says(vs, M)
  BY <1>0
<1>2. PICK m \in Nat : m = Len(ps) /\ m = Len(vs) /\ DOMAIN ps = 1..m
  BY <1>1, LenProperties
<1>3. parts(form) = ps
  BY <1>1, PartsRight
<1>4. ASSUME NEW k \in 1..m PROVE unescape(ps[k]) = vs[k]
  <2>1. ps[k] \in Octets /\ vs[k] \in Octets
    BY <1>2, ElementOfSeq
  <2>2. Escapes(ps[k], vs[k], p[k])
    BY <1>1, <1>2
  <2> QED
    BY <2>1, <2>2, UnescapeRight
<1> DEFINE At(f) == {k \in DOMAIN ps : k % 2 = 0 /\ unescape(ps[k - 1]) = f}
<1> DEFINE Value(f) == IF At(f) = {} THEN NULL ELSE unescape(ps[CHOOSE k \in At(f) : \A j \in At(f) : j <= k])
<1>5. parse(form) = [f \in Fields |-> Value(f)]
  BY <1>3 DEF parse
<1>6. ASSUME NEW f \in Fields PROVE Value(f) = M[f]
  <2> DEFINE A == {k \in 1..m : k % 2 = 0 /\ vs[k - 1] = f}
  <2>1. At(f) = A
    <3>1. ASSUME NEW k \in 1..m, k % 2 = 0 PROVE k - 1 \in 1..m
      BY <3>1
    <3>2. ASSUME NEW k \in 1..m, k % 2 = 0 PROVE unescape(ps[k - 1]) = vs[k - 1]
      BY <3>1, <3>2, <1>4
    <3> QED
      BY <3>2, <1>2
  <2>2. \A k \in A : unescape(ps[k]) = vs[k]
    BY <1>4
  <2>3. CASE M[f] = NULL /\ \A k \in 1..m : k % 2 = 0 => vs[k - 1] # f
    <3>1. A = {}
      BY <2>3
    <3> HIDE DEF A, At
    <3> QED
      BY <2>1, <3>1, <2>3
  <2>4. CASE \E k \in 1..m :
                /\ k % 2 = 0 /\ vs[k - 1] = f /\ M[f] = vs[k]
                /\ \A j \in 1..m : j % 2 = 0 /\ vs[j - 1] = f => j <= k
    <3>1. PICK k \in A : M[f] = vs[k] /\ \A j \in A : j <= k
      BY <2>4
    <3>2. \A j \in A : j \in Nat
      OBVIOUS
    <3> HIDE DEF A, At
    <3>3. (CHOOSE i \in A : \A j \in A : j <= i) = k
      <4>1. \A i \in A : (\A j \in A : j <= i) => i = k
        BY <3>1, <3>2
      <4> QED
        BY <3>1, <4>1
    <3>4. A # {}
      BY <3>1
    <3> QED
      BY <2>1, <2>2, <3>1, <3>3, <3>4
  <2> QED
    BY <1>1, <1>2, <2>3, <2>4 DEF Says
<1>7. M = [f \in Fields |-> M[f]]
  BY <1>1 DEF Says
<1> HIDE DEF Value
<1> QED
  BY <1>5, <1>6, <1>7

\* Every form spells what its sender means.
FormsSpelled ==
    /\ Meaning = [form \in DOMAIN Meaning |-> Meaning[form]]
    /\ \A form \in DOMAIN Meaning : Spells(form, Meaning[form])

\* FormDataParser undoes the senders' encoding of every form, of any number of
\* fields and of any lengths: whatever bytes are escaped and whatever are not,
\* with names that come more than once, and with parts that break off inside an
\* escape, parse finds what the form spells.
THEOREM FormsParsed ==
    ASSUME FormsSpelled
    PROVE  Parsed = Meaning
<1>1. ASSUME NEW form \in DOMAIN Meaning PROVE parse(form) = Meaning[form]
  <2>1. form \in Octets
    BY MeaningAssumption DEF Octets, Byte
  <2> QED
    BY <2>1, ParseRight DEF FormsSpelled
<1> QED
  BY <1>1 DEF Parsed, FormsSpelled
-----------------------------------------------------------------------------

\* Nobody is sent an answer that is not theirs, or one twice, or one for a
\* request that Dubbo could not be asked, however the
\* provider orders its answers and the network cuts them, whichever threads run
\* the handlers: for every number of connections, threads and requests, and for
\* all forms that spell what their senders mean.
THEOREM RepliesRight ==
    ASSUME FormsSpelled
    PROVE  Spec => []RightReply
<1>0. Parsed = Meaning
  BY FormsParsed
<1>1. Init => Reached
  BY <1>0, AnswersInit
<1>2. Reached /\ [Next]_vars => Reached'
  BY <1>0, AnswersNext
<1>3. Reached => RightReply
  BY <1>0, AnswersImply
<1> QED
  BY <1>1, <1>2, <1>3, PTL DEF Spec

\* What ServiceSwitcher writes to Dubbo under an id is what the form that was
\* sent under it means, again for all forms that spell what is meant.
THEOREM RequestsKeepMeaning ==
    ASSUME FormsSpelled
    PROVE  Spec => []MeaningKept
<1>0. Parsed = Meaning
  BY FormsParsed
<1>1. Init => Reached
  BY <1>0, AnswersInit
<1>2. Reached /\ [Next]_vars => Reached'
  BY <1>0, AnswersNext
<1>3. Reached => MeaningKept
  BY <1>0, AnswersImply
<1> QED
  BY <1>1, <1>2, <1>3, PTL DEF Spec
=============================================================================
