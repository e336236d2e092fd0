------------------------ MODULE AcmWriteQueueProofs ------------------------
(***************************************************************************)
(* Proofs about the consume lock of a channel, and the stream of frames    *)
(* that its write threads put together, for any number of requests         *)
(* and io threads, any queue length and any sizes of heads and data, with  *)
(* full sockets and resets at any moment.                                  *)
(*                                                                         *)
(* The lock is a token.  Whoever holds it is a request that found the      *)
(* queue empty and has not released it yet (a waker), a call of the write  *)
(* thread that waits in the pool, or a write thread; when none of them is  *)
(* there it is held because the queue is empty or the connection failed.   *)
(* So one write thread at a time works on the first task of the queue, and *)
(* what has been sent of it is what its indexes say.                       *)
(***************************************************************************)
EXTENDS AcmWriteQueue, FiniteSetTheorems, TLAPS

USE DEF queue, epoll, requesters, io, socket
-----------------------------------------------------------------------------
(* The types of the variables that decide who runs *)

ControlInv ==
    /\ write_queue_head \in Nat
    /\ write_queue_tail \in Nat
    /\ write_queue_spinlock \in Requests \cup {NULL}
    /\ write_queue_consume_spinlock \in BOOLEAN
    /\ rpc \in [Requests -> {"new", "fill", "unlock", "mod", "done"}]
    /\ is_queue_empty \in [Requests -> BOOLEAN]
    /\ queued \in Nat
    /\ tpc \in [IoThreads -> {"idle", "check", "loop", "data", "pop", "release", "mod"}]

LEMMA ControlInit == Init => ControlInv
  BY DEF Init, ControlInv

LEMMA ControlStep == ControlInv /\ [Next]_vars => ControlInv'
<1> SUFFICES ASSUME ControlInv, [Next]_vars PROVE ControlInv'
  OBVIOUS
<1> USE DEF ControlInv, RequestStep, ThreadStep, Empty
<1>1. CASE UNCHANGED vars
  BY <1>1 DEF vars
<1>2. ASSUME NEW r \in Requests, Reserve(r) PROVE ControlInv'
  BY <1>2 DEF Reserve
<1>3. ASSUME NEW r \in Requests, Fill(r) PROVE ControlInv'
  BY <1>3 DEF Fill
<1>4. ASSUME NEW r \in Requests, AllowConsume(r) PROVE ControlInv'
  BY <1>4 DEF AllowConsume
<1>5. ASSUME NEW r \in Requests, Register(r) PROVE ControlInv'
  BY <1>5 DEF Register, epoll_mod
<1>6. CASE EpollWait
  BY <1>6 DEF EpollWait
<1>7. CASE TryConsume
  BY <1>7 DEF TryConsume
<1>8. ASSUME NEW t \in IoThreads, StartWrite(t) PROVE ControlInv'
  BY <1>8 DEF StartWrite
<1>9. ASSUME NEW t \in IoThreads, CheckEmpty(t) PROVE ControlInv'
  BY <1>9 DEF CheckEmpty
<1>10. ASSUME NEW t \in IoThreads, SendError(t) PROVE ControlInv'
  BY <1>10 DEF SendError
<1>11. ASSUME NEW t \in IoThreads, SendHead(t) PROVE ControlInv'
  BY <1>11 DEF SendHead, Advance
<1>12. ASSUME NEW t \in IoThreads, HeadAgain(t) PROVE ControlInv'
  BY <1>12 DEF HeadAgain
<1>13. ASSUME NEW t \in IoThreads, SendData(t) PROVE ControlInv'
  BY <1>13 DEF SendData, Advance, AtData
<1>14. ASSUME NEW t \in IoThreads, DataAgain(t) PROVE ControlInv'
  BY <1>14 DEF DataAgain, Advance, AtData
<1>15. ASSUME NEW t \in IoThreads, Pop(t) PROVE ControlInv'
  BY <1>15 DEF Pop
<1>16. ASSUME NEW t \in IoThreads, Release(t) PROVE ControlInv'
  BY <1>16 DEF Release
<1>17. ASSUME NEW t \in IoThreads, Rearm(t) PROVE ControlInv'
  BY <1>17 DEF Rearm, epoll_mod
<1>18. CASE Drain
  BY <1>18 DEF Drain
<1>19. CASE Break
  BY <1>19 DEF Break
<1> QED
  BY <1>1, <1>2, <1>3, <1>4, <1>5, <1>6, <1>7, <1>8, <1>9, <1>10, <1>11,
     <1>12, <1>13, <1>14, <1>15, <1>16, <1>17, <1>18, <1>19
     DEF Next, RequestStepOf, EventLoop, ThreadStepOf
-----------------------------------------------------------------------------
(* The token *)

\* The requests that found the queue empty and are to release the consume lock.
Wakers == {r \in Requests : rpc[r] \in {"fill", "unlock"} /\ is_queue_empty[r]}

\* There is one token at most, whoever has it holds the consume lock, and it is
\* only in somebody's hands, or free, while there is something to consume.
TokenInv ==
    /\ write_queue_head < write_queue_tail
    /\ queued <= 1
    /\ \A r, s \in Wakers : r = s
    /\ \A t, u \in Consumers : t = u
    /\ Wakers # {} => Consumers = {} /\ queued = 0
    /\ Consumers # {} => queued = 0
    /\ Wakers # {} \/ Consumers # {} \/ queued > 0 => write_queue_consume_spinlock /\ ~Empty
    /\ ~write_queue_consume_spinlock => ~Empty

\* A request that fills its task holds the queue lock; unless it found the queue
\* empty, its task is not the first one.
FillInv ==
    \A r \in Requests :
        /\ rpc[r] = "unlock" => is_queue_empty[r]
        /\ rpc[r] = "fill" =>
              /\ write_queue_spinlock = r
              /\ is_queue_empty[r] \/ write_queue_head + 1 < write_queue_tail - 1

\* A step that moves neither the token nor the queue.
LEMMA TokenKept ==
    ASSUME TokenInv, FillInv,
           Wakers' = Wakers, Consumers' = Consumers,
           UNCHANGED <<write_queue_head, write_queue_tail, write_queue_spinlock,
                       write_queue_consume_spinlock, queued>>,
           \A r \in Requests : rpc'[r] \in {"fill", "unlock"} =>
               rpc'[r] = rpc[r] /\ is_queue_empty'[r] = is_queue_empty[r]
    PROVE  (TokenInv /\ FillInv)'
<1>1. TokenInv'
  BY DEF TokenInv, Empty
<1>2. FillInv'
  BY DEF FillInv
<1> QED
  BY <1>1, <1>2

LEMMA TokenInit == Init => TokenInv /\ FillInv
<1> SUFFICES ASSUME Init PROVE TokenInv /\ FillInv
  OBVIOUS
<1>1. Wakers = {} /\ Consumers = {}
  BY DEF Init, Wakers, Consumers
<1> QED
  BY <1>1 DEF Init, TokenInv, FillInv

LEMMA TokenStep == ControlInv /\ TokenInv /\ FillInv /\ [Next]_vars => (TokenInv /\ FillInv)'
<1> SUFFICES ASSUME ControlInv, TokenInv, FillInv, [Next]_vars
             PROVE  (TokenInv /\ FillInv)'
  OBVIOUS
<1> USE DEF ControlInv, RequestStep, ThreadStep
<1>1. CASE UNCHANGED vars
  <2>1. /\ Wakers' = Wakers /\ Consumers' = Consumers
        /\ UNCHANGED <<write_queue_head, write_queue_tail, write_queue_spinlock,
                       write_queue_consume_spinlock, queued>>
        /\ \A s \in Requests : rpc'[s] \in {"fill", "unlock"} =>
              rpc'[s] = rpc[s] /\ is_queue_empty'[s] = is_queue_empty[s]
    BY <1>1 DEF vars, Wakers, Consumers
  <2> QED
    BY <2>1, TokenKept
<1>2. ASSUME NEW r \in Requests, Reserve(r) PROVE (TokenInv /\ FillInv)'
  <2>1. /\ rpc[r] = "new" /\ rpc' = [rpc EXCEPT ![r] = "fill"]
        /\ is_queue_empty' = [is_queue_empty EXCEPT ![r] = Empty]
        /\ write_queue_spinlock = NULL /\ write_queue_spinlock' = r
        /\ write_queue_tail' = write_queue_tail + 1
        /\ UNCHANGED <<write_queue_head, write_queue_consume_spinlock, queued, tpc>>
    BY <1>2 DEF Reserve
  <2>2. Consumers' = Consumers
    BY <2>1 DEF Consumers
  <2>3. Wakers' = IF Empty THEN Wakers \cup {r} ELSE Wakers
    BY <2>1 DEF Wakers
  <2>4. ~Empty'
    BY <2>1 DEF Empty, TokenInv, FillInv
  <2>5. TokenInv'
    <3>1. CASE Empty
      BY <2>1, <2>2, <2>3, <2>4, <3>1 DEF TokenInv
    <3>2. CASE ~Empty
      BY <2>1, <2>2, <2>3, <2>4, <3>2 DEF TokenInv
    <3> QED
      BY <3>1, <3>2
  <2>6. FillInv'
    <3>1. \A s \in Requests : rpc[s] # "fill"
      BY <2>1, NullAssumption DEF FillInv
    <3>2. rpc'[r] = "fill" /\ is_queue_empty'[r] = Empty /\ write_queue_spinlock' = r
      BY <2>1
    <3>3. ~Empty => write_queue_head' + 1 < write_queue_tail' - 1
      BY <2>1 DEF Empty, TokenInv
    <3>4. \A s \in Requests \ {r} : rpc'[s] = rpc[s] /\ is_queue_empty'[s] = is_queue_empty[s]
      BY <2>1
    <3> HIDE DEF ControlInv
    <3> QED
      BY <3>1, <3>2, <3>3, <3>4 DEF FillInv
  <2> QED
    BY <2>5, <2>6
<1>3. ASSUME NEW r \in Requests, Fill(r) PROVE (TokenInv /\ FillInv)'
  <2>1. /\ rpc[r] = "fill"
        /\ rpc' = [rpc EXCEPT ![r] = IF is_queue_empty[r] THEN "unlock" ELSE "done"]
        /\ write_queue_spinlock' = NULL
        /\ UNCHANGED <<write_queue_head, write_queue_tail, write_queue_consume_spinlock,
                       is_queue_empty, queued, tpc>>
    BY <1>3 DEF Fill
  <2>2. Wakers' = Wakers /\ Consumers' = Consumers /\ Empty' = Empty
    BY <2>1 DEF Wakers, Consumers, Empty
  <2>3. TokenInv'
    BY <2>1, <2>2 DEF TokenInv
  <2>4. FillInv'
    BY <2>1, NullAssumption DEF FillInv
  <2> QED
    BY <2>3, <2>4
<1>4. ASSUME NEW r \in Requests, AllowConsume(r) PROVE (TokenInv /\ FillInv)'
  <2>1. /\ rpc[r] = "unlock" /\ rpc' = [rpc EXCEPT ![r] = "mod"]
        /\ write_queue_consume_spinlock' = FALSE
        /\ UNCHANGED <<write_queue_head, write_queue_tail, write_queue_spinlock,
                       is_queue_empty, queued, tpc>>
    BY <1>4 DEF AllowConsume
  <2>2. r \in Wakers
    BY <2>1 DEF Wakers, FillInv
  <2>3. Wakers' = Wakers \ {r} /\ Consumers' = Consumers /\ Empty' = Empty
    BY <2>1 DEF Wakers, Consumers, Empty
  <2>4. TokenInv'
    BY <2>1, <2>2, <2>3 DEF TokenInv
  <2>5. FillInv'
    BY <2>1 DEF FillInv
  <2> QED
    BY <2>4, <2>5
<1>5. ASSUME NEW r \in Requests, Register(r) PROVE (TokenInv /\ FillInv)'
  <2>1. /\ Wakers' = Wakers /\ Consumers' = Consumers
        /\ UNCHANGED <<write_queue_head, write_queue_tail, write_queue_spinlock,
                       write_queue_consume_spinlock, queued>>
        /\ \A s \in Requests : rpc'[s] \in {"fill", "unlock"} =>
              rpc'[s] = rpc[s] /\ is_queue_empty'[s] = is_queue_empty[s]
    BY <1>5 DEF Register, epoll_mod, Wakers, Consumers
  <2> QED
    BY <2>1, TokenKept
<1>6. CASE EpollWait
  <2>1. /\ Wakers' = Wakers /\ Consumers' = Consumers
        /\ UNCHANGED <<write_queue_head, write_queue_tail, write_queue_spinlock,
                       write_queue_consume_spinlock, queued>>
        /\ \A s \in Requests : rpc'[s] \in {"fill", "unlock"} =>
              rpc'[s] = rpc[s] /\ is_queue_empty'[s] = is_queue_empty[s]
    BY <1>6 DEF EpollWait, Wakers, Consumers
  <2> QED
    BY <2>1, TokenKept
<1>7. CASE TryConsume
  <2>1. /\ write_queue_consume_spinlock' = TRUE
        /\ queued' = IF write_queue_consume_spinlock THEN queued ELSE queued + 1
        /\ UNCHANGED <<write_queue_head, write_queue_tail, write_queue_spinlock,
                       rpc, is_queue_empty, tpc>>
    BY <1>7 DEF TryConsume
  <2>2. Wakers' = Wakers /\ Consumers' = Consumers /\ Empty' = Empty
    BY <2>1 DEF Wakers, Consumers, Empty
  <2>3. TokenInv'
    BY <2>1, <2>2 DEF TokenInv
  <2>4. FillInv'
    BY <2>1 DEF FillInv
  <2> QED
    BY <2>3, <2>4
<1>8. ASSUME NEW t \in IoThreads, StartWrite(t) PROVE (TokenInv /\ FillInv)'
  <2>1. /\ queued > 0 /\ queued' = queued - 1
        /\ tpc[t] = "idle" /\ tpc' = [tpc EXCEPT ![t] = "check"]
        /\ UNCHANGED <<write_queue_head, write_queue_tail, write_queue_spinlock,
                       write_queue_consume_spinlock, rpc, is_queue_empty>>
    BY <1>8 DEF StartWrite
  <2>2. Wakers' = Wakers /\ Consumers' = Consumers \cup {t} /\ Empty' = Empty
    BY <2>1 DEF Wakers, Consumers, Empty
  <2>3. TokenInv'
    BY <2>1, <2>2 DEF TokenInv
  <2>4. FillInv'
    BY <2>1 DEF FillInv
  <2> QED
    BY <2>3, <2>4
<1>9. ASSUME NEW t \in IoThreads, CheckEmpty(t) PROVE (TokenInv /\ FillInv)'
  <2>1. tpc[t] = "check" /\ t \in Consumers
    BY <1>9 DEF CheckEmpty, Consumers
  <2>2. ~Empty
    BY <2>1 DEF TokenInv
  <2>3. /\ tpc' = [tpc EXCEPT ![t] = "loop"]
        /\ UNCHANGED <<write_queue_head, write_queue_tail, write_queue_spinlock,
                       write_queue_consume_spinlock, rpc, is_queue_empty, queued>>
    BY <1>9, <2>2 DEF CheckEmpty
  <2>4. Wakers' = Wakers /\ Consumers' = Consumers
    BY <2>1, <2>3 DEF Wakers, Consumers
  <2> QED
    BY <2>3, <2>4, TokenKept
<1>10. ASSUME NEW t \in IoThreads, SendError(t) PROVE (TokenInv /\ FillInv)'
  <2>1. /\ tpc' = [tpc EXCEPT ![t] = "idle"]
        /\ UNCHANGED <<write_queue_head, write_queue_tail, write_queue_spinlock,
                       write_queue_consume_spinlock, rpc, is_queue_empty, queued>>
    BY <1>10 DEF SendError
  <2>2. Wakers' = Wakers /\ Consumers' = Consumers \ {t} /\ Empty' = Empty
    BY <2>1 DEF Wakers, Consumers, Empty
  <2>3. TokenInv'
    BY <2>1, <2>2 DEF TokenInv
  <2>4. FillInv'
    BY <2>1 DEF FillInv
  <2> QED
    BY <2>3, <2>4
<1>11. ASSUME NEW t \in IoThreads, SendHead(t) PROVE (TokenInv /\ FillInv)'
  <2>1. /\ Wakers' = Wakers /\ Consumers' = Consumers
        /\ UNCHANGED <<write_queue_head, write_queue_tail, write_queue_spinlock,
                       write_queue_consume_spinlock, queued>>
        /\ \A s \in Requests : rpc'[s] \in {"fill", "unlock"} =>
              rpc'[s] = rpc[s] /\ is_queue_empty'[s] = is_queue_empty[s]
    BY <1>11 DEF SendHead, Advance, Wakers, Consumers
  <2> QED
    BY <2>1, TokenKept
<1>12. ASSUME NEW t \in IoThreads, HeadAgain(t) PROVE (TokenInv /\ FillInv)'
  <2>1. /\ Wakers' = Wakers /\ Consumers' = Consumers
        /\ UNCHANGED <<write_queue_head, write_queue_tail, write_queue_spinlock,
                       write_queue_consume_spinlock, queued>>
        /\ \A s \in Requests : rpc'[s] \in {"fill", "unlock"} =>
              rpc'[s] = rpc[s] /\ is_queue_empty'[s] = is_queue_empty[s]
    BY <1>12 DEF HeadAgain, Wakers, Consumers
  <2> QED
    BY <2>1, TokenKept
<1>13. ASSUME NEW t \in IoThreads, SendData(t) PROVE (TokenInv /\ FillInv)'
  <2>1. /\ Wakers' = Wakers /\ Consumers' = Consumers
        /\ UNCHANGED <<write_queue_head, write_queue_tail, write_queue_spinlock,
                       write_queue_consume_spinlock, queued>>
        /\ \A s \in Requests : rpc'[s] \in {"fill", "unlock"} =>
              rpc'[s] = rpc[s] /\ is_queue_empty'[s] = is_queue_empty[s]
    BY <1>13 DEF SendData, Advance, AtData, Wakers, Consumers
  <2> QED
    BY <2>1, TokenKept
<1>14. ASSUME NEW t \in IoThreads, DataAgain(t) PROVE (TokenInv /\ FillInv)'
  <2>1. /\ Wakers' = Wakers /\ Consumers' = Consumers
        /\ UNCHANGED <<write_queue_head, write_queue_tail, write_queue_spinlock,
                       write_queue_consume_spinlock, queued>>
        /\ \A s \in Requests : rpc'[s] \in {"fill", "unlock"} =>
              rpc'[s] = rpc[s] /\ is_queue_empty'[s] = is_queue_empty[s]
    BY <1>14 DEF DataAgain, Advance, AtData, Wakers, Consumers
  <2> QED
    BY <2>1, TokenKept
<1>15. ASSUME NEW t \in IoThreads, Pop(t) PROVE (TokenInv /\ FillInv)'
  <2>1. /\ tpc[t] = "pop" /\ write_queue_spinlock = NULL
        /\ write_queue_head' = write_queue_head + 1
        /\ tpc' = [tpc EXCEPT ![t] = IF write_queue_head' + 1 = write_queue_tail THEN "idle" ELSE "loop"]
        /\ UNCHANGED <<write_queue_tail, write_queue_spinlock,
                       write_queue_consume_spinlock, rpc, is_queue_empty, queued>>
    BY <1>15 DEF Pop
  <2>2. t \in Consumers
    BY <2>1 DEF Consumers
  <2>3. Wakers = {} /\ Consumers = {t} /\ queued = 0 /\ ~Empty /\ write_queue_consume_spinlock
    BY <2>2 DEF TokenInv
  <2>4. Wakers' = {} /\ Consumers' = IF Empty' THEN {} ELSE {t}
    BY <2>1, <2>3 DEF Wakers, Consumers, Empty
  <2>5. write_queue_head' < write_queue_tail'
    BY <2>1, <2>3 DEF Empty, TokenInv
  <2>6. TokenInv'
    BY <2>1, <2>3, <2>4, <2>5 DEF TokenInv
  <2>7. FillInv'
    BY <2>1, NullAssumption DEF FillInv
  <2> QED
    BY <2>6, <2>7
<1>16. ASSUME NEW t \in IoThreads, Release(t) PROVE (TokenInv /\ FillInv)'
  <2>1. /\ tpc[t] = "release" /\ tpc' = [tpc EXCEPT ![t] = "mod"]
        /\ write_queue_consume_spinlock' = FALSE
        /\ UNCHANGED <<write_queue_head, write_queue_tail, write_queue_spinlock,
                       rpc, is_queue_empty, queued>>
    BY <1>16 DEF Release
  <2>2. t \in Consumers
    BY <2>1 DEF Consumers
  <2>3. Wakers' = Wakers /\ Consumers' = Consumers \ {t} /\ Empty' = Empty
    BY <2>1 DEF Wakers, Consumers, Empty
  <2>4. TokenInv'
    BY <2>1, <2>2, <2>3 DEF TokenInv
  <2>5. FillInv'
    BY <2>1 DEF FillInv
  <2> QED
    BY <2>4, <2>5
<1>17. ASSUME NEW t \in IoThreads, Rearm(t) PROVE (TokenInv /\ FillInv)'
  <2>1. /\ Wakers' = Wakers /\ Consumers' = Consumers
        /\ UNCHANGED <<write_queue_head, write_queue_tail, write_queue_spinlock,
                       write_queue_consume_spinlock, queued>>
        /\ \A s \in Requests : rpc'[s] \in {"fill", "unlock"} =>
              rpc'[s] = rpc[s] /\ is_queue_empty'[s] = is_queue_empty[s]
    BY <1>17 DEF Rearm, epoll_mod, Wakers, Consumers
  <2> QED
    BY <2>1, TokenKept
<1>18. CASE Drain
  <2>1. /\ Wakers' = Wakers /\ Consumers' = Consumers
        /\ UNCHANGED <<write_queue_head, write_queue_tail, write_queue_spinlock,
                       write_queue_consume_spinlock, queued>>
        /\ \A s \in Requests : rpc'[s] \in {"fill", "unlock"} =>
              rpc'[s] = rpc[s] /\ is_queue_empty'[s] = is_queue_empty[s]
    BY <1>18 DEF Drain, Wakers, Consumers
  <2> QED
    BY <2>1, TokenKept
<1>19. CASE Break
  <2>1. /\ Wakers' = Wakers /\ Consumers' = Consumers
        /\ UNCHANGED <<write_queue_head, write_queue_tail, write_queue_spinlock,
                       write_queue_consume_spinlock, queued>>
        /\ \A s \in Requests : rpc'[s] \in {"fill", "unlock"} =>
              rpc'[s] = rpc[s] /\ is_queue_empty'[s] = is_queue_empty[s]
    BY <1>19 DEF Break, Wakers, Consumers
  <2> QED
    BY <2>1, TokenKept
<1> QED
  BY <1>1, <1>2, <1>3, <1>4, <1>5, <1>6, <1>7, <1>8, <1>9, <1>10, <1>11,
     <1>12, <1>13, <1>14, <1>15, <1>16, <1>17, <1>18, <1>19
     DEF Next, RequestStepOf, EventLoop, ThreadStepOf

WriteInv == ControlInv /\ TokenInv /\ FillInv

LEMMA WriteInvariant == Spec => []WriteInv
<1>1. Init => WriteInv
  BY ControlInit, TokenInit DEF WriteInv
<1>2. WriteInv /\ [Next]_vars => WriteInv'
  BY ControlStep, TokenStep DEF WriteInv
<1> QED
  BY <1>1, <1>2, PTL DEF Spec
-----------------------------------------------------------------------------
(* What the token guarantees *)

\* The consume lock is only free while the queue holds a task.
THEOREM FreeMeansNonEmptyHolds == Spec => []FreeMeansNonEmpty
<1>1. WriteInv => FreeMeansNonEmpty
  BY DEF WriteInv, TokenInv, FreeMeansNonEmpty
<1> QED
  BY <1>1, WriteInvariant, PTL

\* At most one write thread runs or waits in the pool, although the lock that
\* ensures it is released by threads that did not take it.
THEOREM SingleConsumerHolds == Spec => []SingleConsumer
<1>1. WriteInv => SingleConsumer
  <2> SUFFICES ASSUME WriteInv PROVE SingleConsumer
    OBVIOUS
  <2>1. CASE Consumers = {}
    BY <2>1, FS_EmptySet DEF WriteInv, ControlInv, TokenInv, SingleConsumer
  <2>2. CASE Consumers # {}
    <3>1. PICK t \in Consumers : Consumers = {t}
      BY <2>2 DEF WriteInv, TokenInv
    <3>2. Cardinality(Consumers) = 1
      BY <3>1, FS_Singleton
    <3> QED
      BY <2>2, <3>2 DEF WriteInv, TokenInv, SingleConsumer
  <2> QED
    BY <2>1, <2>2
<1> QED
  BY <1>1, WriteInvariant, PTL

\* A write thread always has a task to send, and one that is filled in.
THEOREM CalledWithTaskHolds == Spec => []CalledWithTask
<1>1. WriteInv => CalledWithTask
  <2> SUFFICES ASSUME WriteInv, NEW t \in Consumers
               PROVE  /\ ~Empty
                      /\ \A r \in Requests :
                            rpc[r] = "fill" => write_queue_head + 1 < write_queue_tail - 1
    BY DEF CalledWithTask
  <2>1. ~Empty /\ Wakers = {}
    BY DEF WriteInv, TokenInv
  <2> QED
    BY <2>1 DEF WriteInv, FillInv, Wakers
<1> QED
  BY <1>1, WriteInvariant, PTL
-----------------------------------------------------------------------------
(* The stream *)

\* Slots of the ring: indices less than its length apart have different slots.
LEMMA SlotInRing == ASSUME NEW i \in Nat PROVE Slot(i) \in 0..(max_write_queue_len - 1)
  BY SizesAssumption DEF Slot

LEMMA SlotsApart ==
    ASSUME NEW i \in Nat, NEW j \in Nat, i < j, j - i < max_write_queue_len
    PROVE  Slot(i) # Slot(j)
<1> DEFINE m == max_write_queue_len
<1>0. m \in Nat \ {0}
  BY SizesAssumption
<1> HIDE DEF m
<1>1. \A n \in Nat : n \div m \in Int /\ n % m \in Int /\ n = m * (n \div m) + (n % m)
  <2> SUFFICES ASSUME NEW n \in Nat
               PROVE  n \div m \in Int /\ n % m \in Int /\ n = m * (n \div m) + (n % m)
    OBVIOUS
  <2>1. n \div m \in Int /\ n % m \in Int
    BY <1>0
  <2>2. n = m * (n \div m) + (n % m)
    BY <1>0
  <2> QED
    BY <2>1, <2>2
<1>2. \A a, b \in Int : a < b => m * a + m <= m * b
  BY <1>0
<1> SUFFICES ASSUME i % m = j % m PROVE FALSE
  BY DEF Slot, m
<1>3. PICK a \in Int, r \in Int : i = m * a + r /\ r = i % m
  BY <1>1
<1>4. PICK b \in Int : j = m * b + r
  BY <1>1, <1>3
<1>5. m * a \in Int /\ m * b \in Int /\ j - i < m
  BY <1>0 DEF m
<1>6. a # b
  BY <1>3, <1>4
<1>7. CASE a < b
  <2>1. m * a + m <= m * b
    BY <1>2, <1>7
  <2> QED
    BY <1>0, <1>3, <1>4, <1>5, <2>1
<1>8. CASE b < a
  <2>1. m * b + m <= m * a
    BY <1>2, <1>8
  <2> QED
    BY <1>0, <1>3, <1>4, <1>5, <2>1
<1> QED
  BY <1>6, <1>7, <1>8

LEMMA TaskType ==
    ASSUME TypeOK
    PROVE  /\ Slot(write_queue_head + 1) \in 0..(max_write_queue_len - 1)
           /\ Task \in [req : Requests \cup {NULL}, write_index : Nat]
<1>0. write_queue_head + 1 \in Nat
  BY DEF TypeOK
<1>1. Slot(write_queue_head + 1) \in 0..(max_write_queue_len - 1)
  BY <1>0, SlotInRing
<1>2. Task \in [req : Requests \cup {NULL}, write_index : Nat]
  BY <1>1 DEF TypeOK, Task
<1> QED
  BY <1>1, <1>2

\* The task with index i has been filled in by its request.
Written(i) == \A r \in Requests : rpc[r] = "fill" => i # write_queue_tail - 1
HasTask == ~Empty /\ Written(write_queue_head + 1)
Popping == \E t \in IoThreads : tpc[t] = "pop"

\* The ring holds the tasks that are queued, in order, each in its own slot, and
\* of those behind the first no byte has been sent.
QueueInv ==
    /\ Len(order) = write_queue_tail - 1
    /\ write_queue_tail - 1 - write_queue_head <= max_write_queue_len
    /\ \A r \in Requests : rpc[r] = "fill" => order[write_queue_tail - 1] = r
    /\ \A i \in (write_queue_head + 1)..(write_queue_tail - 1) :
          Written(i) => /\ write_queue[Slot(i)].req = order[i]
                        /\ i > write_queue_head + 1 => write_queue[Slot(i)].write_index = 0

\* The peer has the tasks before the head, and of the first one as much as its
\* write_index says, or all of it when the head is about to move on.
PeerInv ==
    /\ \A t \in IoThreads : tpc[t] = "data" => Task.write_index >= HeadSize
    /\ peer.again = FALSE =>
          /\ peer.intact = TRUE
          /\ Popping => peer.frames = write_queue_head + 1 /\ peer.bytes = 0
          /\ ~Popping => /\ peer.frames = write_queue_head
                         /\ HasTask => peer.bytes = Task.write_index
                         /\ ~HasTask => peer.bytes = 0

StreamInv == WriteInv /\ TypeOK /\ QueueInv /\ PeerInv

LEMMA StreamInit == Init => StreamInv
<1> SUFFICES ASSUME Init PROVE StreamInv
  OBVIOUS
<1>1. WriteInv
  BY ControlInit, TokenInit DEF WriteInv
<1>2. TypeOK
  <2>1. write_queue \in [0..(max_write_queue_len - 1) -> [req : Requests \cup {NULL}, write_index : Nat]]
    BY DEF Init
  <2>2. peer \in [frames : Nat, bytes : Nat, intact : BOOLEAN, again : BOOLEAN] /\ order \in Seq(Requests)
    BY DEF Init
  <2> QED
    BY <1>1, <2>1, <2>2 DEF Init, TypeOK, WriteInv, ControlInv
<1>3. QueueInv /\ PeerInv
  BY SizesAssumption DEF Init, QueueInv, PeerInv, Popping, HasTask, Empty
<1> QED
  BY <1>1, <1>2, <1>3 DEF StreamInv

\* The task of a thread that consumes: filled in, and the next one for the peer.
LEMMA TaskFacts ==
    ASSUME StreamInv, NEW t \in Consumers
    PROVE  /\ t \in IoThreads /\ Consumers = {t}
           /\ HasTask /\ write_queue_head + 1 \in (write_queue_head + 1)..(write_queue_tail - 1)
           /\ Task.req \in Requests /\ Task.req = order[write_queue_head + 1]
           /\ Task.write_index \in Nat
<1> USE DEF StreamInv, WriteInv
<1>1. t \in IoThreads /\ Consumers = {t} /\ ~Empty /\ Wakers = {}
  BY DEF TokenInv, Consumers
<1>2. write_queue_head + 1 \in (write_queue_head + 1)..(write_queue_tail - 1)
  BY <1>1 DEF TokenInv, Empty, ControlInv
<1>3. HasTask
  BY <1>1 DEF HasTask, Written, FillInv, Wakers, ControlInv
<1>4. Task.req = order[write_queue_head + 1]
  BY <1>2, <1>3 DEF QueueInv, HasTask, Task
<1>5. order[write_queue_head + 1] \in Requests
  <2>1. write_queue_head + 1 \in 1..Len(order)
    BY <1>2 DEF QueueInv, ControlInv
  <2> QED
    BY <2>1 DEF TypeOK
<1>6. Task.write_index \in Nat
  BY TaskType
<1> QED
  BY <1>1, <1>2, <1>3, <1>4, <1>5, <1>6

\* A step that touches neither the queue nor what the peer has.
LEMMA StreamKept ==
    ASSUME StreamInv, TypeOK', WriteInv',
           UNCHANGED <<write_queue, write_queue_head, write_queue_tail, peer, order>>,
           \A r \in Requests : rpc'[r] = "fill" <=> rpc[r] = "fill",
           \A t \in IoThreads : /\ tpc'[t] = "pop" <=> tpc[t] = "pop"
                                /\ tpc'[t] = "data" => tpc[t] = "data"
    PROVE  StreamInv'
<1>1. \A i : Written(i)' <=> Written(i)
  BY DEF Written
<1>2. HasTask' <=> HasTask
  BY <1>1 DEF HasTask, Empty
<1>3. (Popping' <=> Popping) /\ Task' = Task
  BY DEF Popping, Task
<1>4. QueueInv'
  BY <1>1 DEF StreamInv, QueueInv
<1>5. PeerInv'
  BY <1>2, <1>3 DEF StreamInv, PeerInv
<1> QED
  BY <1>4, <1>5 DEF StreamInv

\* What sending n bytes does to the task and to the peer's account of it.
LEMMA AdvanceType ==
    ASSUME TypeOK, NEW n \in Int, Task.write_index + n \in Nat, Advance(n)
    PROVE  write_queue' \in [0..(max_write_queue_len - 1) ->
                                [req : Requests \cup {NULL}, write_index : Nat]]
<1>1. PICK k \in 0..(max_write_queue_len - 1) :
          /\ write_queue' = [write_queue EXCEPT ![k].write_index = @ + n]
          /\ write_queue[k].write_index + n \in Nat
  BY TaskType DEF Advance, Task
<1> DEFINE S == [req : Requests \cup {NULL}, write_index : Nat]
<1>2. write_queue \in [0..(max_write_queue_len - 1) -> S]
  BY DEF TypeOK
<1>3. [write_queue[k] EXCEPT !.write_index = @ + n] \in S
  BY <1>1, <1>2
<1> HIDE DEF S
<1>4. write_queue' \in [0..(max_write_queue_len - 1) -> S]
  BY <1>1, <1>2, <1>3
<1> QED
  BY <1>4 DEF S

LEMMA DeliverType ==
    ASSUME TypeOK, NEW n \in Nat, Deliver(n)
    PROVE  peer' \in [frames : Nat, bytes : Nat, intact : BOOLEAN, again : BOOLEAN]
<1> DEFINE whole == peer.bytes + n = FrameSize(Task.req)
           f == IF whole THEN peer.frames + 1 ELSE peer.frames
           b == IF whole THEN 0 ELSE peer.bytes + n
<1>0. peer \in [frames : Nat, bytes : Nat, intact : BOOLEAN, again : BOOLEAN]
  BY DEF TypeOK
<1>1. f \in Nat /\ b \in Nat /\ peer.again \in BOOLEAN
  BY <1>0
<1>2. CASE peer.intact /\ order[peer.frames + 1] = Task.req /\ peer.bytes = Task.write_index
  <2>1. peer' = [again |-> peer.again, frames |-> f, bytes |-> b, intact |-> TRUE]
    BY <1>2 DEF Deliver
  <2> HIDE DEF f, b
  <2> QED
    BY <1>1, <2>1
<1>3. CASE ~(peer.intact /\ order[peer.frames + 1] = Task.req /\ peer.bytes = Task.write_index)
  <2>1. peer' = [peer EXCEPT !.intact = FALSE]
    BY <1>3 DEF Deliver
  <2> QED
    BY <1>0, <2>1
<1> QED
  BY <1>2, <1>3

LEMMA StreamTypeStep == StreamInv /\ [Next]_vars => TypeOK'
<1> SUFFICES ASSUME StreamInv, [Next]_vars PROVE TypeOK'
  OBVIOUS
<1> DEFINE RestOK == /\ armed \in {"edge", "oneshot", "off"} /\ ready \in BOOLEAN
                     /\ loop \in {"wait", "event"}
                     /\ writable \in BOOLEAN /\ broken \in BOOLEAN
           QueueOK == write_queue \in [0..(max_write_queue_len - 1) ->
                                          [req : Requests \cup {NULL}, write_index : Nat]]
           PeerOK == peer \in [frames : Nat, bytes : Nat, intact : BOOLEAN, again : BOOLEAN]
           OrderOK == order \in Seq(Requests)
<1>0. RestOK /\ QueueOK /\ PeerOK /\ OrderOK
  BY DEF StreamInv, TypeOK
<1> SUFFICES RestOK' /\ QueueOK' /\ PeerOK' /\ OrderOK'
  BY ControlStep DEF StreamInv, WriteInv, ControlInv, TypeOK
<1>1. CASE UNCHANGED vars
  BY <1>0, <1>1 DEF vars
<1>2. ASSUME NEW r \in Requests, Reserve(r) PROVE RestOK' /\ QueueOK' /\ PeerOK' /\ OrderOK'
  BY <1>0, <1>2 DEF Reserve
<1>3. ASSUME NEW r \in Requests, Fill(r) PROVE RestOK' /\ QueueOK' /\ PeerOK' /\ OrderOK'
  <2>1. QueueOK'
    <3>1. write_queue' = [write_queue EXCEPT ![Slot(write_queue_tail - 1)] = [req |-> r, write_index |-> 0]]
      BY <1>3 DEF Fill
    <3> QED
      BY <1>0, <3>1
  <2> QED
    BY <1>0, <1>3, <2>1 DEF Fill
<1>4. ASSUME NEW r \in Requests, AllowConsume(r) PROVE RestOK' /\ QueueOK' /\ PeerOK' /\ OrderOK'
  BY <1>0, <1>4 DEF AllowConsume
<1>5. ASSUME NEW r \in Requests, Register(r) PROVE RestOK' /\ QueueOK' /\ PeerOK' /\ OrderOK'
  BY <1>0, <1>5 DEF Register, epoll_mod
<1>6. CASE EpollWait
  BY <1>0, <1>6 DEF EpollWait
<1>7. CASE TryConsume
  BY <1>0, <1>7 DEF TryConsume
<1>8. ASSUME NEW t \in IoThreads, StartWrite(t) \/ CheckEmpty(t) \/ SendError(t) \/ HeadAgain(t) \/ Pop(t) \/ Release(t)
      PROVE  RestOK' /\ QueueOK' /\ PeerOK' /\ OrderOK'
  BY <1>0, <1>8 DEF StartWrite, CheckEmpty, SendError, HeadAgain, Pop, Release
<1>9. ASSUME NEW t \in IoThreads, Rearm(t) PROVE RestOK' /\ QueueOK' /\ PeerOK' /\ OrderOK'
  BY <1>0, <1>9 DEF Rearm, epoll_mod
<1>10. ASSUME NEW t \in IoThreads, SendHead(t) PROVE RestOK' /\ QueueOK' /\ PeerOK' /\ OrderOK'
  <2>1. PICK n \in 1..HeadLeft : Advance(n) /\ Deliver(n)
    BY <1>10 DEF SendHead
  <2>2. RestOK' /\ OrderOK'
    BY <1>0, <1>10 DEF SendHead
  <2>3. Task.write_index \in Nat /\ n \in Nat
    BY <2>1, TaskType, SizesAssumption DEF HeadLeft, StreamInv
  <2>4. QueueOK'
    BY <2>1, <2>3, AdvanceType DEF StreamInv
  <2>5. PeerOK'
    BY <2>1, <2>3, DeliverType DEF StreamInv
  <2> QED
    BY <2>2, <2>4, <2>5
<1>11. ASSUME NEW t \in IoThreads, SendData(t) PROVE RestOK' /\ QueueOK' /\ PeerOK' /\ OrderOK'
  <2>1. PICK n \in 1..DataLeft : Advance(n) /\ Deliver(n)
    BY <1>11 DEF SendData
  <2>2. RestOK' /\ OrderOK'
    BY <1>0, <1>11 DEF SendData
  <2>3. Task.write_index \in Nat /\ n \in Nat
    <3>0. t \in Consumers
      BY <1>11 DEF SendData, AtData, Consumers
    <3>1. DataLeft \in Int
      BY <3>0, TaskFacts, SizesAssumption DEF DataLeft, FrameSize
    <3> QED
      BY <2>1, <3>1, TaskType DEF StreamInv
  <2>4. QueueOK'
    BY <2>1, <2>3, AdvanceType DEF StreamInv
  <2>5. PeerOK'
    BY <2>1, <2>3, DeliverType DEF StreamInv
  <2> QED
    BY <2>2, <2>4, <2>5
<1>12. ASSUME NEW t \in IoThreads, DataAgain(t) PROVE RestOK' /\ QueueOK' /\ PeerOK' /\ OrderOK'
  <2>1. Advance(-1) /\ peer' = [frames |-> 0, bytes |-> 0, intact |-> FALSE, again |-> TRUE]
    BY <1>12 DEF DataAgain
  <2>2. RestOK' /\ OrderOK'
    BY <1>0, <1>12 DEF DataAgain
  <2>3. Task.write_index \in Nat /\ Task.write_index >= HeadSize
    BY <1>12, TaskType DEF DataAgain, AtData, StreamInv, PeerInv
  <2>4. Task.write_index + (-1) \in Nat
    BY <2>3, SizesAssumption
  <2> QED
    BY <1>0, <2>1, <2>2, <2>4, AdvanceType DEF StreamInv
<1>13. CASE Drain \/ Break
  BY <1>0, <1>13 DEF Drain, Break
<1> QED
  BY <1>1, <1>2, <1>3, <1>4, <1>5, <1>6, <1>7, <1>8, <1>9, <1>10, <1>11, <1>12, <1>13
     DEF Next, RequestStepOf, EventLoop, ThreadStepOf

LEMMA DeliverEffect ==
    ASSUME StreamInv, NEW t \in Consumers, tpc[t] # "pop", NEW n \in Nat, Deliver(n)
    PROVE  /\ peer'.again = peer.again
           /\ peer.again = FALSE =>
                 /\ peer'.intact = TRUE
                 /\ Task.write_index + n = FrameSize(Task.req) =>
                       peer'.frames = write_queue_head + 1 /\ peer'.bytes = 0
                 /\ Task.write_index + n # FrameSize(Task.req) =>
                       peer'.frames = write_queue_head /\ peer'.bytes = Task.write_index + n
<1>0. peer \in [frames : Nat, bytes : Nat, intact : BOOLEAN, again : BOOLEAN]
  BY DEF StreamInv, TypeOK
<1>1. peer'.again = peer.again
  BY <1>0 DEF Deliver
<1>2. ASSUME peer.again = FALSE
      PROVE  /\ peer.intact = TRUE /\ peer.frames = write_queue_head /\ peer.bytes = Task.write_index
             /\ order[peer.frames + 1] = Task.req
  <2>1. ~Popping
    BY TaskFacts DEF Popping, Consumers
  <2>2. HasTask
    BY TaskFacts
  <2>3. peer.intact = TRUE /\ peer.frames = write_queue_head /\ peer.bytes = Task.write_index
    BY <1>2, <2>1, <2>2 DEF StreamInv, PeerInv
  <2> QED
    BY <2>3, TaskFacts
<1>3. ASSUME peer.again = FALSE
      PROVE  peer' = [again |-> peer.again,
                      frames |-> IF Task.write_index + n = FrameSize(Task.req)
                                 THEN write_queue_head + 1 ELSE write_queue_head,
                      bytes |-> IF Task.write_index + n = FrameSize(Task.req)
                                THEN 0 ELSE Task.write_index + n,
                      intact |-> TRUE]
  <2>1. /\ peer.intact = TRUE /\ peer.frames = write_queue_head /\ peer.bytes = Task.write_index
        /\ order[peer.frames + 1] = Task.req
    BY <1>2, <1>3
  <2> QED
    BY <2>1 DEF Deliver
<1>4. ASSUME peer.again = FALSE
      PROVE  /\ peer'.intact = TRUE
             /\ Task.write_index + n = FrameSize(Task.req) =>
                   peer'.frames = write_queue_head + 1 /\ peer'.bytes = 0
             /\ Task.write_index + n # FrameSize(Task.req) =>
                   peer'.frames = write_queue_head /\ peer'.bytes = Task.write_index + n
  <2> DEFINE whole == Task.write_index + n = FrameSize(Task.req)
             f == IF whole THEN write_queue_head + 1 ELSE write_queue_head
             b == IF whole THEN 0 ELSE Task.write_index + n
  <2>1. peer' = [again |-> peer.again, frames |-> f, bytes |-> b, intact |-> TRUE]
    BY <1>3, <1>4
  <2> HIDE DEF f, b
  <2>2. peer'.frames = f /\ peer'.bytes = b /\ peer'.intact = TRUE
    BY <2>1
  <2> QED
    BY <2>2 DEF f, b
<1> QED
  BY <1>1, <1>4

LEMMA AdvanceEffect ==
    ASSUME StreamInv, NEW t \in Consumers, NEW n \in Int, Advance(n),
           UNCHANGED <<write_queue_head, write_queue_tail, order, rpc>>
    PROVE  /\ QueueInv' /\ HasTask'
           /\ Task'.write_index = Task.write_index + n
<1> DEFINE k == Slot(write_queue_head + 1)
<1>0. /\ k \in 0..(max_write_queue_len - 1)
      /\ write_queue \in [0..(max_write_queue_len - 1) -> [req : Requests \cup {NULL}, write_index : Nat]]
      /\ write_queue_head \in Nat /\ write_queue_tail \in Nat /\ max_write_queue_len \in Nat
  BY TaskType, SizesAssumption DEF StreamInv, TypeOK
<1>1. write_queue' = [write_queue EXCEPT ![k].write_index = @ + n]
  BY DEF Advance
<1> HIDE DEF k
<1>2. /\ write_queue'[k].write_index = write_queue[k].write_index + n
      /\ write_queue'[k].req = write_queue[k].req
      /\ \A j \in 0..(max_write_queue_len - 1) \ {k} : write_queue'[j] = write_queue[j]
  BY <1>0, <1>1
<1>3. Task'.write_index = Task.write_index + n
  BY <1>2 DEF Task, k
<1>4. \A i : Written(i)' <=> Written(i)
  BY DEF Written
<1>5. HasTask'
  BY <1>4, TaskFacts DEF HasTask, Empty
<1>6. ASSUME NEW i \in (write_queue_head + 1)..(write_queue_tail - 1), Written(i)
      PROVE  /\ write_queue'[Slot(i)].req = order[i]
             /\ i > write_queue_head + 1 => write_queue'[Slot(i)].write_index = 0
  <2>1. CASE i = write_queue_head + 1
    BY <1>0, <1>2, <1>6, <2>1 DEF StreamInv, QueueInv, k
  <2>2. CASE i > write_queue_head + 1
    <3>1. i \in Nat /\ i - (write_queue_head + 1) < max_write_queue_len /\ write_queue_head + 1 \in Nat
      BY <1>0, <2>2 DEF StreamInv, QueueInv
    <3>2. Slot(i) # k /\ Slot(i) \in 0..(max_write_queue_len - 1)
      BY <2>2, <3>1, SlotsApart, SlotInRing DEF k
    <3>3. write_queue'[Slot(i)] = write_queue[Slot(i)]
      BY <1>2, <3>2
    <3> QED
      BY <1>6, <3>3 DEF StreamInv, QueueInv
  <2> QED
    BY <1>0, <2>1, <2>2
<1>7. QueueInv'
  BY <1>4, <1>6 DEF StreamInv, QueueInv
<1> QED
  BY <1>3, <1>5, <1>7

LEMMA StreamStep == StreamInv /\ [Next]_vars => StreamInv'
<1> SUFFICES ASSUME StreamInv, [Next]_vars PROVE StreamInv'
  OBVIOUS
<1>0. TypeOK' /\ WriteInv' /\ TypeOK
  BY StreamTypeStep, ControlStep, TokenStep DEF StreamInv, WriteInv
<1>20. /\ rpc \in [Requests -> {"new", "fill", "unlock", "mod", "done"}]
      /\ tpc \in [IoThreads -> {"idle", "check", "loop", "data", "pop", "release", "mod"}]
      /\ write_queue_head \in Nat /\ write_queue_tail \in Nat /\ write_queue_head < write_queue_tail
      /\ order \in Seq(Requests)
  BY DEF StreamInv, TypeOK, WriteInv, TokenInv
<1> USE DEF RequestStep, ThreadStep
<1>1. CASE UNCHANGED vars
  BY <1>0, <1>1, StreamKept DEF vars
<1>2. ASSUME NEW r \in Requests, Reserve(r) PROVE StreamInv'
  <2>1. /\ write_queue_spinlock = NULL /\ rpc' = [rpc EXCEPT ![r] = "fill"]
        /\ write_queue_tail' = write_queue_tail + 1 /\ order' = Append(order, r)
        /\ UNCHANGED <<write_queue, write_queue_head, tpc, peer>>
        /\ write_queue_tail - 1 - write_queue_head < max_write_queue_len
    BY <1>2 DEF Reserve, Room
  <2>2. \A s \in Requests : rpc[s] # "fill"
    BY <2>1, NullAssumption DEF StreamInv, WriteInv, FillInv
  <2>3. \A i \in Int : Written(i) /\ (Written(i)' <=> i # write_queue_tail)
    BY <1>20, <2>1, <2>2 DEF Written
  <2>4. Len(order) = write_queue_tail - 1
    BY DEF StreamInv, QueueInv
  <2>5. /\ Len(order') = write_queue_tail /\ order'[write_queue_tail] = r
        /\ \A i \in 1..(write_queue_tail - 1) : order'[i] = order[i]
    BY <1>20, <2>1, <2>4
  <2>6. QueueInv'
    <3>1. \A s \in Requests : rpc'[s] = "fill" => s = r
      BY <1>20, <2>1, <2>2
    <3>2. ASSUME NEW i \in (write_queue_head + 1)..(write_queue_tail' - 1), Written(i)'
          PROVE  /\ write_queue[Slot(i)].req = order'[i]
                 /\ i > write_queue_head + 1 => write_queue[Slot(i)].write_index = 0
      <4>1. i \in (write_queue_head + 1)..(write_queue_tail - 1) /\ i \in 1..(write_queue_tail - 1)
        BY <1>20, <2>1, <2>3, <3>2
      <4> QED
        BY <2>3, <2>5, <4>1 DEF StreamInv, QueueInv
    <3>3. write_queue_tail' - 1 - write_queue_head <= max_write_queue_len /\ write_queue_tail' - 1 = write_queue_tail
      BY <1>20, <2>1, SizesAssumption
    <3> QED
      BY <2>1, <2>5, <3>1, <3>2, <3>3 DEF QueueInv
  <2>7. HasTask' <=> HasTask
    BY <1>20, <2>1, <2>3 DEF HasTask, Empty
  <2>8. Task' = Task /\ (Popping' <=> Popping)
    BY <2>1 DEF Task, Popping
  <2>9. PeerInv'
    BY <2>1, <2>7, <2>8 DEF StreamInv, PeerInv
  <2> QED
    BY <1>0, <2>6, <2>9 DEF StreamInv
<1>3. ASSUME NEW r \in Requests, Fill(r) PROVE StreamInv'
  <2> DEFINE k == Slot(write_queue_tail - 1)
  <2>1. /\ rpc[r] = "fill" /\ rpc' = [rpc EXCEPT ![r] = IF is_queue_empty[r] THEN "unlock" ELSE "done"]
        /\ write_queue' = [write_queue EXCEPT ![k] = [req |-> r, write_index |-> 0]]
        /\ UNCHANGED <<write_queue_head, write_queue_tail, tpc, peer, order>>
    BY <1>3 DEF Fill
  <2>2. \A s \in Requests : rpc[s] = "fill" => s = r
    BY <2>1 DEF StreamInv, WriteInv, FillInv
  <2>3. \A i \in Int : Written(i)' /\ (Written(i) <=> i # write_queue_tail - 1)
    BY <1>20, <2>1, <2>2 DEF Written
  <2>4. write_queue_tail - 1 \in Nat /\ write_queue_head + 1 \in Nat
    BY <1>20
  <2>5. k \in 0..(max_write_queue_len - 1)
    BY <2>4, SlotInRing
  <2>6. write_queue'[k] = [req |-> r, write_index |-> 0]
    BY <2>1, <2>5 DEF StreamInv, TypeOK
  <2>7. ASSUME NEW i \in (write_queue_head + 1)..(write_queue_tail - 1), i # write_queue_tail - 1
        PROVE  write_queue'[Slot(i)] = write_queue[Slot(i)]
    <3>1. i \in Nat /\ i < write_queue_tail - 1 /\ (write_queue_tail - 1) - i < max_write_queue_len
      BY <1>20, <2>7, SizesAssumption DEF StreamInv, QueueInv
    <3>2. Slot(i) # k /\ Slot(i) \in 0..(max_write_queue_len - 1)
      BY <2>4, <3>1, SlotsApart, SlotInRing
    <3> HIDE DEF k
    <3> QED
      BY <2>1, <2>5, <3>2 DEF StreamInv, TypeOK
  <2>8. QueueInv'
    <3>1. ASSUME NEW i \in (write_queue_head + 1)..(write_queue_tail - 1)
          PROVE  /\ write_queue'[Slot(i)].req = order[i]
                 /\ i > write_queue_head + 1 => write_queue'[Slot(i)].write_index = 0
      <4>1. CASE i = write_queue_tail - 1
        BY <2>1, <2>6, <4>1 DEF StreamInv, QueueInv
      <4>2. CASE i # write_queue_tail - 1
        BY <2>3, <2>7, <4>2 DEF StreamInv, QueueInv
      <4> QED
        BY <4>1, <4>2
    <3>2. \A s \in Requests : rpc'[s] # "fill"
      BY <1>20, <2>1, <2>2
    <3> QED
      BY <2>1, <3>1, <3>2 DEF StreamInv, QueueInv
  <2>9. Popping' <=> Popping
    BY <2>1 DEF Popping
  <2>10. CASE write_queue_head + 1 = write_queue_tail - 1
    <3>1. Task'.write_index = 0 /\ ~HasTask
      BY <2>1, <2>3, <2>4, <2>6, <2>10 DEF Task, HasTask
    <3>2. \A u \in IoThreads : tpc[u] # "data"
      BY <2>3, <2>10, <3>1, TaskFacts DEF Consumers
    <3>3. PeerInv'
      BY <2>1, <2>9, <3>1, <3>2 DEF StreamInv, PeerInv
    <3> QED
      BY <1>0, <2>8, <3>3 DEF StreamInv
  <2>11. CASE write_queue_head + 1 # write_queue_tail - 1
    <3>1. HasTask' <=> HasTask
      BY <2>1, <2>3, <2>4, <2>11 DEF HasTask, Empty
    <3>2. ~Empty => Task' = Task
      BY <1>20, <2>1, <2>7, <2>11 DEF Task, Empty
    <3>3. \A u \in IoThreads : tpc[u] = "data" => ~Empty
      BY TaskFacts DEF Consumers, HasTask
    <3>4. PeerInv'
      BY <2>1, <2>9, <3>1, <3>2, <3>3 DEF StreamInv, PeerInv, HasTask
    <3> QED
      BY <1>0, <2>8, <3>4 DEF StreamInv
  <2> QED
    BY <2>10, <2>11
<1>4. ASSUME NEW r \in Requests, AllowConsume(r) PROVE StreamInv'
  BY <1>0, <1>20, <1>4, StreamKept DEF AllowConsume
<1>5. ASSUME NEW r \in Requests, Register(r) PROVE StreamInv'
  BY <1>0, <1>20, <1>5, StreamKept DEF Register
<1>6. CASE EpollWait
  BY <1>0, <1>6, StreamKept DEF EpollWait
<1>7. CASE TryConsume
  BY <1>0, <1>7, StreamKept DEF TryConsume
<1>8. ASSUME NEW t \in IoThreads, StartWrite(t) PROVE StreamInv'
  BY <1>0, <1>20, <1>8, StreamKept DEF StartWrite
<1>9. ASSUME NEW t \in IoThreads, CheckEmpty(t) PROVE StreamInv'
  BY <1>0, <1>20, <1>9, StreamKept DEF CheckEmpty
<1>10. ASSUME NEW t \in IoThreads, SendError(t) PROVE StreamInv'
  BY <1>0, <1>20, <1>10, StreamKept DEF SendError
<1>11. ASSUME NEW t \in IoThreads, SendHead(t) PROVE StreamInv'
  <2>1. PICK n \in 1..HeadLeft :
            /\ Advance(n) /\ Deliver(n)
            /\ tpc' = [tpc EXCEPT ![t] = IF n = HeadLeft THEN "data" ELSE "release"]
    BY <1>11 DEF SendHead
  <2>2. /\ tpc[t] = "loop" /\ Task.write_index < HeadSize
        /\ UNCHANGED <<write_queue_head, write_queue_tail, order, rpc>>
    BY <1>11 DEF SendHead
  <2>3. t \in Consumers /\ \A u \in IoThreads \ {t} : tpc[u] \notin {"pop", "data"}
    BY <2>2, TaskFacts DEF Consumers
  <2>4. n \in Nat /\ n <= HeadSize - Task.write_index /\ Task.write_index \in Nat
    BY <2>1, <2>3, TaskFacts, SizesAssumption DEF HeadLeft
  <2>5. Task.write_index + n # FrameSize(Task.req)
    BY <2>3, <2>4, TaskFacts, SizesAssumption DEF FrameSize
  <2>6. QueueInv' /\ HasTask' /\ Task'.write_index = Task.write_index + n
    BY <2>1, <2>2, <2>3, <2>4, AdvanceEffect
  <2>7. /\ peer'.again = peer.again
        /\ peer.again = FALSE => /\ peer'.intact = TRUE
                                 /\ peer'.frames = write_queue_head /\ peer'.bytes = Task.write_index + n
    BY <2>1, <2>2, <2>3, <2>4, <2>5, DeliverEffect
  <2>8. ~Popping'
    BY <1>20, <2>1, <2>3 DEF Popping
  <2>9. \A u \in IoThreads : tpc'[u] = "data" => Task'.write_index >= HeadSize
    BY <1>20, <2>1, <2>3, <2>4, <2>6, SizesAssumption DEF HeadLeft
  <2>10. PeerInv'
    BY <2>2, <2>6, <2>7, <2>8, <2>9 DEF PeerInv
  <2> QED
    BY <1>0, <2>6, <2>10 DEF StreamInv
<1>12. ASSUME NEW t \in IoThreads, HeadAgain(t) PROVE StreamInv'
  BY <1>0, <1>20, <1>12, StreamKept DEF HeadAgain
<1>13. ASSUME NEW t \in IoThreads, SendData(t) PROVE StreamInv'
  <2>1. PICK n \in 1..DataLeft :
            /\ Advance(n) /\ Deliver(n)
            /\ tpc' = [tpc EXCEPT ![t] = IF n = DataLeft THEN "pop" ELSE "release"]
    BY <1>13 DEF SendData
  <2>2. /\ tpc[t] \in {"loop", "data"}
        /\ UNCHANGED <<write_queue_head, write_queue_tail, order, rpc>>
    BY <1>13 DEF SendData, AtData
  <2>3. t \in Consumers /\ \A u \in IoThreads \ {t} : tpc[u] \notin {"pop", "data"}
    BY <2>2, TaskFacts DEF Consumers
  <2>4. FrameSize(Task.req) \in Nat /\ Task.write_index \in Nat
    BY <2>3, TaskFacts, SizesAssumption DEF FrameSize
  <2>5. n \in Nat /\ (n = DataLeft <=> Task.write_index + n = FrameSize(Task.req))
    BY <2>1, <2>4 DEF DataLeft
  <2>6. QueueInv' /\ HasTask' /\ Task'.write_index = Task.write_index + n
    BY <2>1, <2>2, <2>3, <2>5, AdvanceEffect
  <2>7. /\ peer'.again = peer.again
        /\ peer.again = FALSE =>
              /\ peer'.intact = TRUE
              /\ n = DataLeft => peer'.frames = write_queue_head + 1 /\ peer'.bytes = 0
              /\ n # DataLeft => peer'.frames = write_queue_head /\ peer'.bytes = Task.write_index + n
    BY <2>1, <2>2, <2>3, <2>5, DeliverEffect
  <2>8. Popping' <=> n = DataLeft
    BY <1>20, <2>1, <2>3 DEF Popping
  <2>9. \A u \in IoThreads : tpc'[u] # "data"
    BY <1>20, <2>1, <2>3
  <2>10. PeerInv'
    BY <2>2, <2>6, <2>7, <2>8, <2>9 DEF PeerInv
  <2> QED
    BY <1>0, <2>6, <2>10 DEF StreamInv
<1>14. ASSUME NEW t \in IoThreads, DataAgain(t) PROVE StreamInv'
  <2>1. /\ Advance(-1) /\ peer' = [frames |-> 0, bytes |-> 0, intact |-> FALSE, again |-> TRUE]
        /\ tpc' = [tpc EXCEPT ![t] = "release"] /\ tpc[t] \in {"loop", "data"}
        /\ UNCHANGED <<write_queue_head, write_queue_tail, order, rpc>>
    BY <1>14 DEF DataAgain, AtData
  <2>2. t \in Consumers /\ \A u \in IoThreads \ {t} : tpc[u] \notin {"pop", "data"}
    BY <2>1, TaskFacts DEF Consumers
  <2>3. QueueInv'
    BY <2>1, <2>2, AdvanceEffect
  <2>4. \A u \in IoThreads : tpc'[u] # "data"
    BY <1>20, <2>1, <2>2
  <2>5. PeerInv'
    BY <2>1, <2>4 DEF PeerInv
  <2> QED
    BY <1>0, <2>3, <2>5 DEF StreamInv
<1>15. ASSUME NEW t \in IoThreads, Pop(t) PROVE StreamInv'
  <2>1. /\ tpc[t] = "pop" /\ write_queue_spinlock = NULL /\ write_queue_head' = write_queue_head + 1
        /\ tpc' = [tpc EXCEPT ![t] = IF write_queue_head' + 1 = write_queue_tail THEN "idle" ELSE "loop"]
        /\ UNCHANGED <<write_queue, write_queue_tail, rpc, peer, order>>
    BY <1>15 DEF Pop
  <2>2. t \in Consumers /\ \A u \in IoThreads \ {t} : tpc[u] \notin {"pop", "data"}
    BY <2>1, TaskFacts DEF Consumers
  <2>3. \A s \in Requests : rpc[s] # "fill"
    BY <2>1, NullAssumption DEF StreamInv, WriteInv, FillInv
  <2>4. \A i \in Int : Written(i) /\ Written(i)'
    BY <2>1, <2>3 DEF Written
  <2>5. QueueInv'
    <3>1. ASSUME NEW i \in (write_queue_head' + 1)..(write_queue_tail - 1)
          PROVE  write_queue[Slot(i)].req = order[i] /\ write_queue[Slot(i)].write_index = 0
      <4>1. i \in (write_queue_head + 1)..(write_queue_tail - 1) /\ i > write_queue_head + 1
        BY <1>20, <2>1
      <4> QED
        BY <2>4, <4>1 DEF StreamInv, QueueInv
    <3>2. write_queue_tail - 1 - write_queue_head' <= max_write_queue_len
      BY <1>20, <2>1, SizesAssumption DEF StreamInv, QueueInv
    <3> QED
      BY <2>1, <2>3, <3>1, <3>2 DEF StreamInv, QueueInv
  <2>6. ~Popping' /\ Popping /\ \A u \in IoThreads : tpc'[u] # "data"
    BY <1>20, <2>1, <2>2 DEF Popping
  <2>7. HasTask' => Task'.write_index = 0
    <3> SUFFICES ASSUME HasTask' PROVE Task'.write_index = 0
      OBVIOUS
    <3>1. write_queue_head + 2 \in (write_queue_head + 1)..(write_queue_tail - 1)
      BY <1>0, <1>20, <2>1 DEF HasTask, Empty, WriteInv, TokenInv
    <3>2. write_queue[Slot(write_queue_head + 2)].write_index = 0
      BY <1>20, <2>4, <3>1 DEF StreamInv, QueueInv
    <3>3. write_queue_head' + 1 = write_queue_head + 2
      BY <1>20, <2>1
    <3> QED
      BY <2>1, <3>2, <3>3 DEF Task
  <2>8. PeerInv'
    BY <2>1, <2>6, <2>7 DEF StreamInv, PeerInv
  <2> QED
    BY <1>0, <2>5, <2>8 DEF StreamInv
<1>16. ASSUME NEW t \in IoThreads, Release(t) PROVE StreamInv'
  BY <1>0, <1>20, <1>16, StreamKept DEF Release
<1>17. ASSUME NEW t \in IoThreads, Rearm(t) PROVE StreamInv'
  BY <1>0, <1>20, <1>17, StreamKept DEF Rearm
<1>18. CASE Drain
  BY <1>0, <1>18, StreamKept DEF Drain
<1>19. CASE Break
  BY <1>0, <1>19, StreamKept DEF Break
<1> QED
  BY <1>1, <1>2, <1>3, <1>4, <1>5, <1>6, <1>7, <1>8, <1>9, <1>10, <1>11,
     <1>12, <1>13, <1>14, <1>15, <1>16, <1>17, <1>18, <1>19
     DEF Next, RequestStepOf, EventLoop, ThreadStepOf

LEMMA StreamInvariant == Spec => []StreamInv
<1>1. Init => StreamInv
  BY StreamInit
<1>2. StreamInv /\ [Next]_vars => StreamInv'
  BY StreamStep
<1> QED
  BY <1>1, <1>2, PTL DEF Spec

\* What acm_io_write_thread sends is the frames of the requests, whole and in
\* queue order, however often send comes back short, whichever threads take turns
\* and however often the ring goes round, until a send of data meets a full socket.
THEOREM StreamIntactHolds == Spec => []StreamIntact
<1>1. StreamInv => StreamIntact
  <2> SUFFICES ASSUME StreamInv, ~peer.again
               PROVE  /\ peer.intact
                      /\ peer.frames = write_queue_head + Cardinality({t \in IoThreads : tpc[t] = "pop"})
    BY DEF StreamIntact, StreamInv
  <2>0. peer.again = FALSE /\ write_queue_head \in Nat
    BY DEF StreamInv, TypeOK
  <2>1. CASE Popping
    <3>1. PICK t \in IoThreads : tpc[t] = "pop"
      BY <2>1 DEF Popping
    <3>2. Consumers = {t}
      BY <3>1, TaskFacts DEF Consumers
    <3>3. {u \in IoThreads : tpc[u] = "pop"} = {t}
      BY <3>1, <3>2 DEF Consumers
    <3>4. Cardinality({u \in IoThreads : tpc[u] = "pop"}) = 1
      BY <3>3, FS_Singleton
    <3> QED
      BY <2>0, <2>1, <3>4 DEF StreamInv, PeerInv
  <2>2. CASE ~Popping
    <3>1. {u \in IoThreads : tpc[u] = "pop"} = {}
      BY <2>2 DEF Popping
    <3>2. Cardinality({u \in IoThreads : tpc[u] = "pop"}) = 0
      BY <3>1, FS_EmptySet
    <3> QED
      BY <2>0, <2>2, <3>2 DEF StreamInv, PeerInv
  <2> QED
    BY <2>1, <2>2
<1> QED
  BY <1>1, StreamInvariant, PTL
=============================================================================
