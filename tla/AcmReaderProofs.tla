-------------------------- MODULE AcmReaderProofs --------------------------
(***************************************************************************)
(* Proofs about the read side of a channel, for any number of io threads   *)
(* and responses of any sizes that arrive in any pieces, with the peer     *)
(* closing at any moment.                                                  *)
(*                                                                         *)
(* The reading lock is a token that the event loop takes, a call that      *)
(* waits in the pool carries and the read thread gives back; so one thread *)
(* at a time has the decoder, and what the decoder has of the response     *)
(* that it is reading is what was consumed since that response began.      *)
(***************************************************************************)
EXTENDS AcmReader, FiniteSetTheorems, TLAPS

USE DEF socket, decoder, epoll, io
-----------------------------------------------------------------------------
(* The inductive invariant *)

\* There is one token at most, and whoever has it holds the reading lock.
TokenInv ==
    /\ queued <= 1
    /\ \A t, u \in Readers : t = u
    /\ Readers # {} => queued = 0
    /\ Readers # {} \/ queued > 0 => reading_spinlock = TRUE

\* A thread that goes on with the data has read the head.
DataInv == \A t \in IoThreads : tpc[t] = "data" => is_head = FALSE

\* Where the decoder is: Len(dispatched) responses are behind it, and what it
\* has of the next one is exactly what was consumed since.
DecodeInv ==
    LET n == Len(dispatched) IN
    /\ n + 1 \in 1..Len(Start)
    /\ \A k \in 1..n : dispatched[k] = Start[k]
    /\ is_head = TRUE => /\ head_read_index < HeadSize
                         /\ consumed = Start[n + 1] + head_read_index
    /\ is_head = FALSE => /\ n + 1 \in Responses
                          /\ recv_msg.from = Start[n + 1]
                          /\ recv_msg.size = DataSize(n + 1)
                          /\ data_read_index <= recv_msg.size
                          /\ consumed = Start[n + 1] + HeadSize + data_read_index

ReadInv == TypeOK /\ TokenInv /\ DataInv /\ DecodeInv
-----------------------------------------------------------------------------
(* The stream *)

LEMMA StartFacts ==
    /\ Total \in Nat
    /\ \A k \in 1..Len(Start) : Start[k] \in Nat /\ Start[k] <= Total
  BY SizesAssumption DEF Total

\* The size in the head of a response is that of its data.
LEMMA SizeAtHead ==
    ASSUME NEW k \in Responses
    PROVE  SizeAt(Start[k]) = DataSize(k) /\ DataSize(k) \in Nat
<1>1. \A j \in Responses : Start[j] = Start[k] => j = k
  <2> SUFFICES ASSUME NEW j \in Responses, Start[j] = Start[k], j # k PROVE FALSE
    OBVIOUS
  <2>1. j \in 1..Len(Start) /\ k \in 1..Len(Start) /\ j \in Int /\ k \in Int
    BY SizesAssumption DEF Responses
  <2>2. Start[j] \in Nat /\ Start[k] \in Nat
    BY <2>1, StartFacts
  <2> QED
    BY <2>1, <2>2, SizesAssumption
<1>2. (CHOOSE j \in Responses : Start[j] = Start[k]) = k
  BY <1>1
<1>3. SizeAt(Start[k]) = DataSize(k)
  BY <1>2 DEF SizeAt
<1>4. DataSize(k) \in Nat
  <2>1. k \in 1..Len(Start) /\ k + 1 \in 1..Len(Start) /\ k < k + 1
    BY SizesAssumption DEF Responses
  <2>2. Start[k] \in Nat /\ Start[k + 1] \in Nat /\ Start[k] + HeadSize <= Start[k + 1]
    BY <2>1, StartFacts, SizesAssumption
  <2>3. HeadSize \in Nat
    BY SizesAssumption
  <2> QED
    BY <2>2, <2>3 DEF DataSize
<1> QED
  BY <1>3, <1>4

LEMMA LeastFacts ==
    ASSUME NEW a \in Nat, NEW b \in Nat
    PROVE  Least(a, b) \in Nat /\ Least(a, b) <= a /\ Least(a, b) <= b
  BY DEF Least

\* A response that is read to its last byte ends where the next one starts.
LEMMA DataEnd ==
    ASSUME NEW s1 \in Nat, NEW s2 \in Nat, NEW d \in Nat, NEW m \in Nat,
           NEW c \in Nat, NEW size \in Nat, HeadSize \in Nat,
           size = s2 - s1 - HeadSize, c = s1 + HeadSize + d, d + m = size
    PROVE  c + m = s2
  OBVIOUS

\* A head that is read to its last byte leaves the decoder behind it.
LEMMA HeadEnd ==
    ASSUME NEW s \in Nat, NEW h \in Nat, NEW m \in Nat, NEW c \in Nat,
           c = s + h, h + m = HeadSize
    PROVE  c + m = s + HeadSize
  BY SizesAssumption
-----------------------------------------------------------------------------
LEMMA ReadInit == Init => ReadInv
<1> SUFFICES ASSUME Init PROVE ReadInv
  OBVIOUS
<1>1. TypeOK
  <2>1. arrived \in 0..Total /\ consumed \in 0..arrived /\ head_read_index \in 0..HeadSize
    BY StartFacts, SizesAssumption DEF Init
  <2>2. /\ recv_msg \in [from : Nat, size : Nat] /\ dispatched \in Seq(Nat)
        /\ tpc \in [IoThreads -> {"idle", "recv", "data", "release", "mod"}]
    BY DEF Init
  <2> QED
    BY <2>1, <2>2 DEF Init, TypeOK
<1>2. TokenInv /\ DataInv
  BY DEF Init, TokenInv, DataInv, Readers
<1>3. DecodeInv
  BY SizesAssumption DEF Init, DecodeInv
<1> QED
  BY <1>1, <1>2, <1>3 DEF ReadInv

\* A step that leaves the token, the decoder and what it consumed alone.
LEMMA ReadKept ==
    ASSUME ReadInv, TypeOK', Readers' = Readers,
           UNCHANGED <<queued, reading_spinlock, decoder, consumed, dispatched>>,
           \A t \in IoThreads : tpc'[t] = "data" => tpc[t] = "data"
    PROVE  ReadInv'
<1>1. TokenInv'
  BY DEF ReadInv, TokenInv
<1>2. DataInv'
  BY DEF ReadInv, DataInv
<1>3. DecodeInv'
  BY DEF ReadInv, DecodeInv
<1> QED
  BY <1>1, <1>2, <1>3 DEF ReadInv

LEMMA ReadInvStep == ReadInv /\ [Next]_vars => ReadInv'
<1> SUFFICES ASSUME ReadInv, [Next]_vars PROVE ReadInv'
  OBVIOUS
<1>0. HeadSize \in Nat \ {0} /\ Total \in Nat
  BY SizesAssumption, StartFacts
<1> USE <1>0 DEF ReadInv, TypeOK, ThreadStep
<1>11. arrived \in Nat /\ consumed \in Nat /\ head_read_index \in Nat /\ data_read_index \in Nat /\ recv_msg.size \in Nat
  OBVIOUS
<1>1. CASE UNCHANGED vars
  <2>1. TypeOK'
    BY <1>1 DEF vars
  <2> QED
    BY <1>1, <2>1, ReadKept DEF vars, Readers
<1>2. CASE EpollWait
  <2>1. TypeOK'
    BY <1>2 DEF EpollWait
  <2> QED
    BY <1>2, <2>1, ReadKept DEF EpollWait, Readers
<1>3. CASE TryRead
  <2>1. /\ reading_spinlock' = TRUE
        /\ queued' = IF reading_spinlock THEN queued ELSE queued + 1
        /\ UNCHANGED <<socket, decoder, tpc, dispatched>>
    BY <1>3 DEF TryRead
  <2>2. TypeOK'
    BY <1>3 DEF TryRead
  <2>3. Readers' = Readers
    BY <2>1 DEF Readers
  <2>4. TokenInv'
    BY <2>1, <2>3 DEF TokenInv
  <2>5. DataInv' /\ DecodeInv'
    BY <2>1 DEF DataInv, DecodeInv
  <2> QED
    BY <2>2, <2>4, <2>5
<1>4. ASSUME NEW t \in IoThreads, StartRead(t) PROVE ReadInv'
  <2>1. /\ queued > 0 /\ queued' = queued - 1
        /\ tpc[t] = "idle" /\ tpc' = [tpc EXCEPT ![t] = "recv"]
        /\ UNCHANGED <<socket, decoder, reading_spinlock, dispatched>>
    BY <1>4 DEF StartRead
  <2>2. TypeOK'
    BY <1>4 DEF StartRead
  <2>3. Readers' = Readers \cup {t}
    BY <2>1 DEF Readers
  <2>4. TokenInv'
    BY <2>1, <2>3 DEF TokenInv
  <2>5. DataInv' /\ DecodeInv'
    BY <2>1 DEF DataInv, DecodeInv
  <2> QED
    BY <2>2, <2>4, <2>5
<1>5. ASSUME NEW t \in IoThreads, RecvHead(t) PROVE ReadInv'
  <2> DEFINE N == Len(dispatched)
  <2>0. PICK m \in Nat : /\ m = Least(Available, HeadSize - head_read_index)
                         /\ m <= arrived - consumed /\ head_read_index + m <= HeadSize
    <3>1. Available \in Nat /\ HeadSize - head_read_index \in Nat
      BY DEF Available
    <3>2. Least(Available, HeadSize - head_read_index) \in Nat
      BY <3>1, LeastFacts
    <3> QED
      BY <3>1, <3>2, LeastFacts DEF Available
  <2>1. /\ is_head = TRUE /\ tpc[t] = "recv"
        /\ consumed' = consumed + m /\ head_read_index' = head_read_index + m
        /\ UNCHANGED <<arrived, closed, reading_spinlock, epoll, queued, dispatched>>
    BY <1>5, <2>0 DEF RecvHead
  <2>2. consumed' \in 0..arrived /\ head_read_index' \in 0..HeadSize
    BY <2>0, <2>1
  <2>3. CASE head_read_index + m = HeadSize
    <3>1. /\ tpc' = [tpc EXCEPT ![t] = "data"] /\ is_head' = FALSE /\ data_read_index' = 0
          /\ recv_msg' = [from |-> consumed' - HeadSize, size |-> SizeAt(consumed' - HeadSize)]
      BY <1>5, <2>0, <2>3 DEF RecvHead
    <3>2. consumed' = Start[N + 1] + HeadSize /\ consumed' <= Total /\ Start[N + 1] \in Nat
      <4>1. N + 1 \in 1..Len(Start) /\ consumed = Start[N + 1] + head_read_index
        BY <2>1 DEF DecodeInv
      <4>2. Start[N + 1] \in Nat
        BY <4>1, StartFacts
      <4>3. consumed' <= Total
        BY <2>2
      <4>4. PICK s \in Nat : s = Start[N + 1] /\ consumed = s + head_read_index
        BY <4>1, <4>2
      <4>5. consumed + m = s + HeadSize
        <5> HIDE DEF ReadInv, TypeOK, N
        <5> QED
          BY <1>11, <2>3, <4>4, HeadEnd
      <4> HIDE DEF ReadInv, TypeOK, N
      <4> QED
        BY <2>1, <4>2, <4>3, <4>4, <4>5
    <3>3. N + 1 \in Responses
      <4>1. N + 1 \in 1..Len(Start) /\ Len(Start) \in Nat
        BY SizesAssumption DEF DecodeInv
      <4>2. N + 1 # Len(Start)
        BY <3>2 DEF Total
      <4> QED
        BY <4>1, <4>2 DEF Responses
    <3>4. recv_msg' = [from |-> Start[N + 1], size |-> DataSize(N + 1)] /\ DataSize(N + 1) \in Nat
      BY <3>1, <3>2, <3>3, SizeAtHead
    <3>5. TypeOK'
      <4>1. recv_msg' \in [from : Nat, size : Nat]
        BY <3>2, <3>4
      <4> QED
        BY <2>1, <2>2, <3>1, <4>1
    <3>6. t \in Readers /\ Readers' = Readers
      BY <2>1, <3>1 DEF Readers
    <3>7. TokenInv' /\ DataInv'
      BY <2>1, <3>1, <3>6 DEF TokenInv, DataInv
    <3>8. DecodeInv'
      <4>1. N + 1 \in 1..Len(Start) /\ \A k \in 1..N : dispatched[k] = Start[k]
        BY DEF DecodeInv
      <4>2. /\ dispatched' = dispatched /\ is_head' = FALSE
            /\ recv_msg'.from = Start[N + 1] /\ recv_msg'.size = DataSize(N + 1)
        BY <2>1, <3>1, <3>4
      <4>3. data_read_index' <= recv_msg'.size
        BY <3>1, <3>4, <4>2
      <4>4. consumed' = Start[N + 1] + HeadSize + data_read_index'
        BY <3>1, <3>2
      <4> HIDE DEF ReadInv, TypeOK
      <4> QED
        BY <3>3, <4>1, <4>2, <4>3, <4>4 DEF DecodeInv
    <3> QED
      BY <3>5, <3>7, <3>8
  <2>4. CASE head_read_index + m # HeadSize
    <3>1. tpc' = [tpc EXCEPT ![t] = "release"] /\ UNCHANGED <<is_head, recv_msg, data_read_index>>
      BY <1>5, <2>0, <2>4 DEF RecvHead
    <3>2. TypeOK'
      BY <2>1, <2>2, <3>1
    <3>3. t \in Readers /\ Readers' = Readers
      BY <2>1, <3>1 DEF Readers
    <3>4. TokenInv' /\ DataInv'
      BY <2>1, <3>1, <3>3 DEF TokenInv, DataInv
    <3>5. DecodeInv'
      <4>1. N + 1 \in 1..Len(Start) /\ consumed = Start[N + 1] + head_read_index
        BY <2>1 DEF DecodeInv
      <4>2. Start[N + 1] \in Nat
        BY <4>1, StartFacts
      <4>3. head_read_index' < HeadSize /\ consumed' = Start[N + 1] + head_read_index'
        <5>1. head_read_index + m <= HeadSize /\ head_read_index' = head_read_index + m /\ consumed' = consumed + m
          BY <2>0, <2>1
        <5> HIDE DEF ReadInv, TypeOK, N
        <5>2. head_read_index' < HeadSize
          BY <1>11, <2>4, <5>1
        <5> QED
          BY <1>11, <4>1, <4>2, <5>1, <5>2
      <4> QED
        BY <2>1, <3>1, <4>1, <4>3 DEF DecodeInv
    <3> QED
      BY <3>2, <3>4, <3>5
  <2> QED
    BY <2>3, <2>4
<1>6. ASSUME NEW t \in IoThreads, RecvData(t) PROVE ReadInv'
  <2> DEFINE N == Len(dispatched)
  <2>11. is_head = FALSE /\ tpc[t] \in {"recv", "data"}
    BY <1>6 DEF RecvData, DataInv
  <2>12. /\ N + 1 \in Responses /\ recv_msg.from = Start[N + 1] /\ recv_msg.size = DataSize(N + 1)
        /\ data_read_index <= recv_msg.size /\ consumed = Start[N + 1] + HeadSize + data_read_index
    BY <2>11 DEF DecodeInv
  <2>0. PICK m \in Nat : /\ m = Least(Available, recv_msg.size - data_read_index)
                         /\ m <= arrived - consumed /\ data_read_index + m <= recv_msg.size
    <3>1. Available \in Nat /\ recv_msg.size - data_read_index \in Nat
      <4>1. consumed <= arrived
        OBVIOUS
      <4>2. data_read_index <= recv_msg.size
        BY <2>12
      <4> HIDE DEF ReadInv, TypeOK, N
      <4> QED
        BY <1>11, <4>1, <4>2 DEF Available
    <3>2. /\ Least(Available, recv_msg.size - data_read_index) \in Nat
          /\ Least(Available, recv_msg.size - data_read_index) <= Available
          /\ Least(Available, recv_msg.size - data_read_index) <= recv_msg.size - data_read_index
      BY <3>1, LeastFacts
    <3> HIDE DEF ReadInv, TypeOK
    <3> QED
      BY <1>11, <3>2 DEF Available
  <2>1. /\ is_head = FALSE /\ tpc[t] \in {"recv", "data"}
        /\ consumed' = consumed + m /\ data_read_index' = data_read_index + m
        /\ UNCHANGED <<arrived, closed, recv_msg, reading_spinlock, epoll, queued>>
    BY <1>6, <2>0, <2>11 DEF RecvData
  <2>2. consumed' \in 0..arrived /\ data_read_index' \in Nat
    BY <2>0, <2>1
  <2>4. t \in Readers /\ \A u \in IoThreads \ {t} : tpc[u] # "data"
    BY <2>1 DEF Readers, TokenInv
  <2> DEFINE complete == /\ data_read_index + m = recv_msg.size
                         /\ data_read_index = recv_msg.size => Available > 0 \/ closed
  <2>5. CASE complete
    <3>1. /\ tpc' = [tpc EXCEPT ![t] = "recv"] /\ is_head' = TRUE /\ head_read_index' = 0
          /\ dispatched' = Append(dispatched, recv_msg.from)
      BY <1>6, <2>0, <2>5 DEF RecvData
    <3>2. N + 2 \in 1..Len(Start) /\ N \in Nat /\ consumed' = Start[N + 2]
      <4>1. N \in Nat /\ N + 1 \in 1..Len(Start) /\ N + 2 \in 1..Len(Start) /\ N + 1 + 1 = N + 2
        <5>1. N \in Nat
          OBVIOUS
        <5>2. N + 1 \in Responses
          BY <2>12
        <5> HIDE DEF ReadInv, TypeOK, N
        <5>3. Len(Start) \in Nat
          BY SizesAssumption
        <5> QED
          BY <5>1, <5>2, <5>3 DEF Responses
      <4>2. Start[N + 1] \in Nat /\ Start[N + 2] \in Nat
        BY <4>1, StartFacts
      <4>3. recv_msg.size = Start[N + 2] - Start[N + 1] - HeadSize
        BY <2>12, <4>1 DEF DataSize
      <4>4. consumed = Start[N + 1] + HeadSize + data_read_index
        BY <2>12
      <4>5. consumed' = consumed + m /\ m \in Nat
        BY <2>0, <2>1
      <4>6. consumed + m = Start[N + 2]
        <5>1. PICK s1 \in Nat, s2 \in Nat : s1 = Start[N + 1] /\ s2 = Start[N + 2]
          BY <4>2
        <5>2. /\ recv_msg.size = s2 - s1 - HeadSize /\ consumed = s1 + HeadSize + data_read_index
              /\ data_read_index + m = recv_msg.size
          BY <2>5, <4>3, <4>4, <5>1
        <5>3. consumed + m = s2
          <6> HIDE DEF ReadInv, TypeOK, N
          <6> QED
            BY <1>11, <4>5, <5>2, DataEnd
        <5> QED
          BY <5>1, <5>3
      <4> QED
        BY <4>1, <4>5, <4>6
    <3>3. Len(dispatched') = N + 1 /\ dispatched' \in Seq(Nat)
      BY <3>1
    <3>4. \A k \in 1..(N + 1) : dispatched'[k] = Start[k]
      <4>1. dispatched \in Seq(Nat) /\ recv_msg.from \in Nat /\ \A k \in 1..N : dispatched[k] = Start[k]
        BY DEF DecodeInv
      <4> HIDE DEF ReadInv, TypeOK
      <4>2. dispatched'[N + 1] = Start[N + 1]
        BY <2>12, <3>1, <4>1
      <4>3. \A k \in 1..N : dispatched'[k] = dispatched[k]
        BY <3>1, <4>1
      <4> QED
        BY <3>2, <4>1, <4>2, <4>3
    <3>5. TypeOK'
      BY <2>1, <2>2, <3>1, <3>3
    <3>6. Readers' = Readers
      BY <2>1, <3>1 DEF Readers
    <3>7. TokenInv' /\ DataInv'
      BY <2>1, <2>4, <3>1, <3>6 DEF TokenInv, DataInv
    <3>8. DecodeInv'
      <4>1. Start[N + 2] + 0 = Start[N + 2] /\ N + 1 + 1 = N + 2
        BY <3>2, StartFacts
      <4>2. head_read_index' < HeadSize /\ consumed' = Start[Len(dispatched') + 1] + head_read_index'
        BY <3>1, <3>2, <3>3, <4>1
      <4> HIDE DEF ReadInv, TypeOK, N
      <4> QED
        BY <3>1, <3>2, <3>3, <3>4, <4>1, <4>2 DEF DecodeInv
    <3> QED
      BY <3>5, <3>7, <3>8
  <2>6. CASE ~complete
    <3>1. tpc' = [tpc EXCEPT ![t] = "release"] /\ UNCHANGED <<dispatched, is_head, head_read_index>>
      BY <1>6, <2>0, <2>6 DEF RecvData
    <3>2. TypeOK'
      BY <2>1, <2>2, <3>1
    <3>3. Readers' = Readers
      BY <2>1, <3>1 DEF Readers
    <3>4. TokenInv' /\ DataInv'
      BY <2>1, <3>1, <3>3 DEF TokenInv, DataInv
    <3>5. DecodeInv'
      <4>1. N + 1 \in 1..Len(Start)
        BY DEF DecodeInv
      <4>2. Start[N + 1] \in Nat /\ consumed = Start[N + 1] + HeadSize + data_read_index
        BY <2>12, <4>1, StartFacts
      <4>3. data_read_index' <= recv_msg.size /\ consumed' = Start[N + 1] + HeadSize + data_read_index'
        <5>1. /\ data_read_index + m <= recv_msg.size
              /\ data_read_index' = data_read_index + m /\ consumed' = consumed + m
          BY <2>0, <2>1
        <5> HIDE DEF ReadInv, TypeOK, N
        <5>2. data_read_index' <= recv_msg.size
          BY <1>11, <5>1
        <5> QED
          BY <1>11, <4>1, <4>2, <5>1, <5>2
      <4> QED
        BY <2>12, <2>1, <3>1, <4>3 DEF DecodeInv
    <3> QED
      BY <3>2, <3>4, <3>5
  <2> QED
    BY <2>5, <2>6
<1>7. ASSUME NEW t \in IoThreads, Release(t) PROVE ReadInv'
  <2>1. /\ tpc[t] = "release" /\ tpc' = [tpc EXCEPT ![t] = "mod"]
        /\ reading_spinlock' = FALSE
        /\ UNCHANGED <<socket, decoder, queued, dispatched>>
    BY <1>7 DEF Release
  <2>2. TypeOK'
    BY <1>7 DEF Release
  <2>3. t \in Readers /\ Readers' = Readers \ {t}
    BY <2>1 DEF Readers
  <2>4. TokenInv'
    BY <2>1, <2>3 DEF TokenInv
  <2>5. DataInv' /\ DecodeInv'
    BY <2>1 DEF DataInv, DecodeInv
  <2> QED
    BY <2>2, <2>4, <2>5
<1>8. ASSUME NEW t \in IoThreads, Rearm(t) PROVE ReadInv'
  <2>1. TypeOK'
    BY <1>8 DEF Rearm
  <2>2. Readers' = Readers
    BY <1>8 DEF Rearm, Readers
  <2> QED
    BY <1>8, <2>1, <2>2, ReadKept DEF Rearm
<1>9. ASSUME NEW n \in 1..Total, Arrive(n) PROVE ReadInv'
  <2>1. TypeOK'
    BY <1>9 DEF Arrive, Edge
  <2> QED
    BY <1>9, <2>1, ReadKept DEF Arrive, Readers
<1>10. CASE Close
  <2>1. TypeOK'
    BY <1>10 DEF Close, Edge
  <2> QED
    BY <1>10, <2>1, ReadKept DEF Close, Readers
<1> QED
  BY <1>1, <1>2, <1>3, <1>4, <1>5, <1>6, <1>7, <1>8, <1>9, <1>10
     DEF Next, EventLoop, ThreadStepOf

\* The token and the place of the decoder, in every state.
THEOREM ReadInvariant == Spec => []ReadInv
<1>1. Init => ReadInv
  BY ReadInit
<1>2. ReadInv /\ [Next]_vars => ReadInv'
  BY ReadInvStep
<1> QED
  BY <1>1, <1>2, PTL DEF Spec

\* acm_io_read_thread passes the responses on whole and in stream order, however
\* the bytes arrive and wherever a thread had to stop and another goes on.
THEOREM CutRightHolds == Spec => []CutRight
<1>1. ReadInv => CutRight
  BY SizesAssumption DEF ReadInv, TypeOK, DecodeInv, CutRight, Responses
<1> QED
  BY <1>1, ReadInvariant, PTL

\* At most one read thread of a channel runs or waits in the pool, although
\* reading_spinlock is taken by the event loop and released by that thread.
THEOREM SingleReaderHolds == Spec => []SingleReader
<1>1. ReadInv => SingleReader
  <2> SUFFICES ASSUME ReadInv PROVE SingleReader
    OBVIOUS
  <2>1. CASE Readers = {}
    BY <2>1, FS_EmptySet DEF ReadInv, TypeOK, TokenInv, SingleReader
  <2>2. CASE Readers # {}
    <3>1. PICK t \in Readers : Readers = {t}
      BY <2>2 DEF ReadInv, TokenInv
    <3>2. Cardinality(Readers) = 1
      BY <3>1, FS_Singleton
    <3> QED
      BY <2>2, <3>2 DEF ReadInv, TokenInv, SingleReader
  <2> QED
    BY <2>1, <2>2
<1> QED
  BY <1>1, ReadInvariant, PTL
=============================================================================
