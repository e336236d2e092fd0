-------------------------- MODULE ThreadPoolProofs --------------------------
(***************************************************************************)
(* Proofs about the thread pool, for any number of workers, callers and    *)
(* jobs and any size of the ring.                                          *)
(***************************************************************************)
EXTENDS ThreadPool, FiniteSetTheorems, TLAPS

USE DEF creation, ring, locks, callers, workers
-----------------------------------------------------------------------------
(* Types *)

\* A caller that is inside tdpl_call_func has a job.
JobInv == \A c \in Callers : cpc[c] # "idle" => job[c] \in Jobs

TypeInv == TypeOK /\ JobInv

\* A slot number is an index of the ring.
LEMMA SlotType == \A n \in Int : Slot(n) \in 0..MaxWaitN
  BY NumbersAssumption DEF Slot, call_queue_period

SlotSet == [func : Jobs \cup {NULL}, arg : Jobs \cup {NULL}]

\* One half of a slot is written.
LEMMA SlotChanged ==
    ASSUME TypeOK, NEW s \in 0..MaxWaitN, NEW j \in Jobs \cup {NULL}
    PROVE  /\ [call_queue EXCEPT ![s].func = j] \in [0..MaxWaitN -> SlotSet]
           /\ [call_queue EXCEPT ![s].arg = j] \in [0..MaxWaitN -> SlotSet]
<1>1. call_queue \in [0..MaxWaitN -> SlotSet]
  BY DEF TypeOK, SlotSet
<1>2. [call_queue[s] EXCEPT !.func = j] \in SlotSet /\ [call_queue[s] EXCEPT !.arg = j] \in SlotSet
  BY <1>1 DEF SlotSet
<1> QED
  BY <1>1, <1>2

LEMMA TypeInvInit == Init => TypeInv
  BY SetsAssumption, NumbersAssumption
     DEF Init, TypeInv, TypeOK, JobInv, CallerSteps, WorkerSteps

LEMMA TypeInvStep == TypeInv /\ [Next]_vars => TypeInv'
<1> SUFFICES ASSUME TypeInv, [Next]_vars PROVE TypeInv'
  OBVIOUS
<1> USE DEF TypeInv, TypeOK, JobInv, CallerSteps, WorkerSteps, CallerStep, WorkerStep
<1>1. CASE UNCHANGED vars
  BY <1>1 DEF vars
<1>2. CASE AllocFails
  BY <1>2 DEF AllocFails
<1>3. CASE WaitReady
  BY <1>3 DEF WaitReady
<1>4. ASSUME NEW w \in Workers, Spawn(w) PROVE TypeInv'
  BY <1>4 DEF Spawn
<1>5. ASSUME NEW w \in Workers, SpawnError(w) PROVE TypeInv'
  BY <1>5 DEF SpawnError
<1>6. ASSUME NEW c \in Callers, CallNull(c) PROVE TypeInv'
  BY <1>6 DEF CallNull
<1>7. ASSUME NEW c \in Callers, NEW j \in Jobs, CallFunc(c, j) PROVE TypeInv'
  BY <1>7 DEF CallFunc
<1>8. ASSUME NEW c \in Callers, Lock(c) PROVE TypeInv'
  BY <1>8 DEF Lock
<1>9. ASSUME NEW c \in Callers, Reserve(c) PROVE TypeInv'
  <2>1. cpc[c] = "check" /\ job[c] \in Jobs
    BY <1>9 DEF Reserve
  <2>2. CASE call_queue_head = call_queue_tail
    BY <1>9, <2>2 DEF Reserve
  <2>3. CASE call_queue_head # call_queue_tail
    <3>1. /\ accepted' = Append(accepted, job[c])
          /\ call_queue_tail' = call_queue_tail + 1
          /\ cpc' = [cpc EXCEPT ![c] = "func"]
          /\ UNCHANGED <<creation, call_queue, call_queue_head, locks, job, ret, workers>>
      BY <1>9, <2>3 DEF Reserve
    <3>2. accepted' \in Seq(Jobs)
      BY <2>1, <3>1
    <3> QED
      BY <2>1, <3>1, <3>2
  <2> QED
    BY <2>2, <2>3
<1>10. ASSUME NEW c \in Callers, WriteFunc(c) PROVE TypeInv'
  <2>1. call_queue_tail - 1 \in Int /\ call_queue' = [call_queue EXCEPT ![Slot(call_queue_tail - 1)].func = job[c]]
    BY <1>10 DEF WriteFunc
  <2>2. job[c] \in Jobs \cup {NULL}
    OBVIOUS
  <2>3. call_queue' \in [0..MaxWaitN -> SlotSet]
    <3> HIDE DEF TypeOK
    <3> QED
      BY <2>1, <2>2, SlotType, SlotChanged
  <2> QED
    BY <1>10, <2>3 DEF WriteFunc, SlotSet
<1>11. ASSUME NEW c \in Callers, WriteArg(c) PROVE TypeInv'
  <2>1. call_queue_tail - 1 \in Int /\ call_queue' = [call_queue EXCEPT ![Slot(call_queue_tail - 1)].arg = job[c]]
    BY <1>11 DEF WriteArg
  <2>2. job[c] \in Jobs \cup {NULL}
    OBVIOUS
  <2>3. call_queue' \in [0..MaxWaitN -> SlotSet]
    <3> HIDE DEF TypeOK
    <3> QED
      BY <2>1, <2>2, SlotType, SlotChanged
  <2> QED
    BY <1>11, <2>3 DEF WriteArg, SlotSet
<1>12. ASSUME NEW c \in Callers, Unlock(c) PROVE TypeInv'
  BY <1>12 DEF Unlock
<1>13. ASSUME NEW c \in Callers, Post(c) PROVE TypeInv'
  BY <1>13 DEF Post
<1>14. ASSUME NEW w \in Workers, Started(w) PROVE TypeInv'
  BY <1>14 DEF Started
<1>15. ASSUME NEW w \in Workers, Wait(w) PROVE TypeInv'
  BY <1>15 DEF Wait
<1>16. ASSUME NEW w \in Workers, Fetch(w) PROVE TypeInv'
  BY <1>16 DEF Fetch
<1>17. ASSUME NEW w \in Workers, ReadFunc(w) PROVE TypeInv'
  <2>1. Slot(ticket[w]) \in 0..MaxWaitN
    BY SlotType
  <2> QED
    BY <1>17, <2>1 DEF ReadFunc
<1>18. ASSUME NEW w \in Workers, ReadArg(w) PROVE TypeInv'
  <2>1. Slot(ticket[w]) \in 0..MaxWaitN
    BY SlotType
  <2> QED
    BY <1>18, <2>1 DEF ReadArg
<1>19. ASSUME NEW w \in Workers, Return(w) PROVE TypeInv'
  BY <1>19 DEF Return
<1> QED
  BY <1>1, <1>2, <1>3, <1>4, <1>5, <1>6, <1>7, <1>8, <1>9, <1>10, <1>11,
     <1>12, <1>13, <1>14, <1>15, <1>16, <1>17, <1>18, <1>19
     DEF Next, Creator, CallerStepOf, WorkerStepOf

\* The variables of the pool keep their types: the semaphores never go below
\* zero, and the job a caller queues is never null.
THEOREM TypeCorrect == Spec => []TypeOK
<1>1. TypeInv => TypeOK
  BY DEF TypeInv
<1> QED
  BY <1>1, TypeInvInit, TypeInvStep, PTL DEF Spec
-----------------------------------------------------------------------------
(* The writer lock *)

\* The spin lock is held by the caller that is between Lock and Unlock.
LockInv == \A c \in Callers :
              cpc[c] \in {"check", "func", "arg", "unlock"} <=> call_queue_write_spinlock = c

LEMMA LockInvInit == Init => LockInv
  BY SetsAssumption DEF Init, LockInv

LEMMA LockInvStep == TypeInv /\ LockInv /\ [Next]_vars => LockInv'
<1> SUFFICES ASSUME TypeInv, LockInv, [Next]_vars PROVE LockInv'
  OBVIOUS
<1> USE SetsAssumption DEF TypeInv, TypeOK, LockInv, CallerSteps, CallerStep
<1>1. CASE UNCHANGED vars
  BY <1>1 DEF vars
<1>2. CASE AllocFails
  BY <1>2 DEF AllocFails
<1>3. CASE WaitReady
  BY <1>3 DEF WaitReady
<1>4. ASSUME NEW w \in Workers, Spawn(w) PROVE LockInv'
  BY <1>4 DEF Spawn
<1>5. ASSUME NEW w \in Workers, SpawnError(w) PROVE LockInv'
  BY <1>5 DEF SpawnError
<1>6. ASSUME NEW c \in Callers, CallNull(c) PROVE LockInv'
  BY <1>6 DEF CallNull
<1>7. ASSUME NEW c \in Callers, NEW j \in Jobs, CallFunc(c, j) PROVE LockInv'
  BY <1>7 DEF CallFunc
<1>8. ASSUME NEW c \in Callers, Lock(c) PROVE LockInv'
  BY <1>8 DEF Lock
<1>9. ASSUME NEW c \in Callers, Reserve(c) PROVE LockInv'
  <2>1. CASE call_queue_head = call_queue_tail
    BY <1>9, <2>1 DEF Reserve
  <2>2. CASE call_queue_head # call_queue_tail
    BY <1>9, <2>2 DEF Reserve
  <2> QED
    BY <2>1, <2>2
<1>10. ASSUME NEW c \in Callers, WriteFunc(c) PROVE LockInv'
  BY <1>10 DEF WriteFunc
<1>11. ASSUME NEW c \in Callers, WriteArg(c) PROVE LockInv'
  BY <1>11 DEF WriteArg
<1>12. ASSUME NEW c \in Callers, Unlock(c) PROVE LockInv'
  BY <1>12 DEF Unlock
<1>13. ASSUME NEW c \in Callers, Post(c) PROVE LockInv'
  BY <1>13 DEF Post
<1>14. ASSUME NEW w \in Workers, Started(w) PROVE LockInv'
  BY <1>14 DEF Started
<1>15. ASSUME NEW w \in Workers, Wait(w) PROVE LockInv'
  BY <1>15 DEF Wait
<1>16. ASSUME NEW w \in Workers, Fetch(w) PROVE LockInv'
  BY <1>16 DEF Fetch
<1>17. ASSUME NEW w \in Workers, ReadFunc(w) PROVE LockInv'
  BY <1>17 DEF ReadFunc
<1>18. ASSUME NEW w \in Workers, ReadArg(w) PROVE LockInv'
  BY <1>18 DEF ReadArg
<1>19. ASSUME NEW w \in Workers, Return(w) PROVE LockInv'
  BY <1>19 DEF Return
<1> QED
  BY <1>1, <1>2, <1>3, <1>4, <1>5, <1>6, <1>7, <1>8, <1>9, <1>10, <1>11,
     <1>12, <1>13, <1>14, <1>15, <1>16, <1>17, <1>18, <1>19
     DEF Next, Creator, CallerStepOf, WorkerStepOf
-----------------------------------------------------------------------------
(* The tickets *)

\* A ticket is given out with the job that its caller is about to write, and a
\* worker only has tickets that the head has passed.
TicketInv ==
    /\ Len(accepted) = call_queue_tail - 1
    /\ \A c \in Callers :
          cpc[c] \in {"func", "arg", "unlock"} => accepted[call_queue_tail - 1] = job[c]
    /\ \A w \in Workers : wpc[w] \in {"rfunc", "rarg", "run"} => ticket[w] \in 1..call_queue_head

LEMMA TicketInvInit == Init => TicketInv
  BY DEF Init, TicketInv

LEMMA TicketInvStep == TypeInv /\ LockInv /\ TicketInv /\ [Next]_vars => TicketInv'
<1> SUFFICES ASSUME TypeInv, LockInv, TicketInv, [Next]_vars PROVE TicketInv'
  OBVIOUS
<1> USE DEF TypeInv, TypeOK, JobInv, TicketInv, CallerSteps, WorkerSteps, CallerStep, WorkerStep
<1>1. CASE UNCHANGED vars
  BY <1>1 DEF vars
<1>2. CASE AllocFails
  BY <1>2 DEF AllocFails
<1>3. CASE WaitReady
  BY <1>3 DEF WaitReady
<1>4. ASSUME NEW w \in Workers, Spawn(w) PROVE TicketInv'
  BY <1>4 DEF Spawn
<1>5. ASSUME NEW w \in Workers, SpawnError(w) PROVE TicketInv'
  BY <1>5 DEF SpawnError
<1>6. ASSUME NEW c \in Callers, CallNull(c) PROVE TicketInv'
  BY <1>6 DEF CallNull
<1>7. ASSUME NEW c \in Callers, NEW j \in Jobs, CallFunc(c, j) PROVE TicketInv'
  BY <1>7 DEF CallFunc
<1>8. ASSUME NEW c \in Callers, Lock(c) PROVE TicketInv'
  BY <1>8 DEF Lock
<1>9. ASSUME NEW c \in Callers, Reserve(c) PROVE TicketInv'
  <2>1. CASE call_queue_head = call_queue_tail
    BY <1>9, <2>1 DEF Reserve
  <2>2. CASE call_queue_head # call_queue_tail
    <3>1. /\ cpc[c] = "check" /\ job[c] \in Jobs
          /\ accepted' = Append(accepted, job[c])
          /\ call_queue_tail' = call_queue_tail + 1
          /\ UNCHANGED <<call_queue_head, job, wpc, ticket>>
      BY <1>9, <2>2 DEF Reserve
    <3>2. Len(accepted') = call_queue_tail' - 1 /\ accepted'[call_queue_tail' - 1] = job'[c]
      BY <3>1
    <3>3. \A d \in Callers : cpc'[d] \in {"func", "arg", "unlock"} => d = c
      BY <1>9, <2>2 DEF Reserve, LockInv
    <3> QED
      BY <3>1, <3>2, <3>3
  <2> QED
    BY <2>1, <2>2
<1>10. ASSUME NEW c \in Callers, WriteFunc(c) PROVE TicketInv'
  BY <1>10 DEF WriteFunc
<1>11. ASSUME NEW c \in Callers, WriteArg(c) PROVE TicketInv'
  BY <1>11 DEF WriteArg
<1>12. ASSUME NEW c \in Callers, Unlock(c) PROVE TicketInv'
  BY <1>12 DEF Unlock
<1>13. ASSUME NEW c \in Callers, Post(c) PROVE TicketInv'
  BY <1>13 DEF Post
<1>14. ASSUME NEW w \in Workers, Started(w) PROVE TicketInv'
  BY <1>14 DEF Started
<1>15. ASSUME NEW w \in Workers, Wait(w) PROVE TicketInv'
  BY <1>15 DEF Wait
<1>16. ASSUME NEW w \in Workers, Fetch(w) PROVE TicketInv'
  BY <1>16 DEF Fetch
<1>17. ASSUME NEW w \in Workers, ReadFunc(w) PROVE TicketInv'
  BY <1>17 DEF ReadFunc
<1>18. ASSUME NEW w \in Workers, ReadArg(w) PROVE TicketInv'
  BY <1>18 DEF ReadArg
<1>19. ASSUME NEW w \in Workers, Return(w) PROVE TicketInv'
  BY <1>19 DEF Return
<1> QED
  BY <1>1, <1>2, <1>3, <1>4, <1>5, <1>6, <1>7, <1>8, <1>9, <1>10, <1>11,
     <1>12, <1>13, <1>14, <1>15, <1>16, <1>17, <1>18, <1>19
     DEF Next, Creator, CallerStepOf, WorkerStepOf
-----------------------------------------------------------------------------
(* The semaphore *)

LEMMA AccountingInit == Init => SemaphoreAccounting
<1> SUFFICES ASSUME Init PROVE SemaphoreAccounting
  OBVIOUS
<1>1. Unposted = {} /\ Entitled = {}
  BY DEF Init, Unposted, Entitled
<1> QED
  BY <1>1, FS_EmptySet DEF Init, SemaphoreAccounting

LEMMA AccountingStep == TypeInv /\ SemaphoreAccounting /\ [Next]_vars => SemaphoreAccounting'
<1> SUFFICES ASSUME TypeInv, SemaphoreAccounting, [Next]_vars PROVE SemaphoreAccounting'
  OBVIOUS
<1>u. IsFiniteSet(Unposted) /\ Cardinality(Unposted) \in Nat
  BY SetsAssumption, FS_Subset, FS_CardinalityType DEF Unposted
<1>e. IsFiniteSet(Entitled) /\ Cardinality(Entitled) \in Nat
  BY SetsAssumption, FS_Subset, FS_CardinalityType DEF Entitled
<1> USE DEF TypeInv, TypeOK, CallerSteps, WorkerSteps, CallerStep, WorkerStep
<1>1. CASE UNCHANGED vars
  <2>1. Unposted' = Unposted /\ Entitled' = Entitled
    BY <1>1 DEF vars, Unposted, Entitled
  <2> QED
    BY <1>1, <2>1 DEF vars, SemaphoreAccounting
<1>2. CASE AllocFails
  <2>1. Unposted' = Unposted /\ Entitled' = Entitled
    BY <1>2 DEF AllocFails, Unposted, Entitled
  <2> QED
    BY <1>2, <2>1 DEF AllocFails, SemaphoreAccounting
<1>3. CASE WaitReady
  <2>1. Unposted' = Unposted /\ Entitled' = Entitled
    BY <1>3 DEF WaitReady, Unposted, Entitled
  <2> QED
    BY <1>3, <2>1 DEF WaitReady, SemaphoreAccounting
<1>4. ASSUME NEW w \in Workers, Spawn(w) PROVE SemaphoreAccounting'
  <2>1. Unposted' = Unposted /\ Entitled' = Entitled
    BY <1>4 DEF Spawn, Unposted, Entitled
  <2> QED
    BY <1>4, <2>1 DEF Spawn, SemaphoreAccounting
<1>5. ASSUME NEW w \in Workers, SpawnError(w) PROVE SemaphoreAccounting'
  <2>1. Unposted' = Unposted /\ Entitled' = Entitled
    BY <1>5 DEF SpawnError, Unposted, Entitled
  <2> QED
    BY <1>5, <2>1 DEF SpawnError, SemaphoreAccounting
<1>6. ASSUME NEW c \in Callers, CallNull(c) PROVE SemaphoreAccounting'
  <2>1. Unposted' = Unposted /\ Entitled' = Entitled
    BY <1>6 DEF CallNull, Unposted, Entitled
  <2> QED
    BY <1>6, <2>1 DEF CallNull, SemaphoreAccounting
<1>7. ASSUME NEW c \in Callers, NEW j \in Jobs, CallFunc(c, j) PROVE SemaphoreAccounting'
  <2>1. Unposted' = Unposted /\ Entitled' = Entitled
    BY <1>7 DEF CallFunc, Unposted, Entitled
  <2> QED
    BY <1>7, <2>1 DEF CallFunc, SemaphoreAccounting
<1>8. ASSUME NEW c \in Callers, Lock(c) PROVE SemaphoreAccounting'
  <2>1. Unposted' = Unposted /\ Entitled' = Entitled
    BY <1>8 DEF Lock, Unposted, Entitled
  <2> QED
    BY <1>8, <2>1 DEF Lock, SemaphoreAccounting
<1>9. ASSUME NEW c \in Callers, Reserve(c) PROVE SemaphoreAccounting'
  <2>1. CASE call_queue_head = call_queue_tail
    <3>1. Unposted' = Unposted /\ Entitled' = Entitled
      BY <1>9, <2>1 DEF Reserve, Unposted, Entitled
    <3> QED
      BY <1>9, <2>1, <3>1 DEF Reserve, SemaphoreAccounting
  <2>2. CASE call_queue_head # call_queue_tail
    <3>1. c \notin Unposted /\ Unposted' = Unposted \cup {c} /\ Entitled' = Entitled
      BY <1>9, <2>2 DEF Reserve, Unposted, Entitled
    <3>2. Cardinality(Unposted') = Cardinality(Unposted) + 1
      BY <1>u, <3>1, FS_AddElement
    <3>3. /\ call_queue_tail' = call_queue_tail + 1
          /\ UNCHANGED <<call_queue_head, call_wait_n>>
      BY <1>9, <2>2 DEF Reserve
    <3>4. Cardinality(Entitled') = Cardinality(Entitled)
      BY <3>1
    <3>5. call_queue_head \in Nat /\ call_queue_tail \in Nat /\ call_wait_n \in Nat
      OBVIOUS
    <3> HIDE DEF TypeInv, TypeOK
    <3> QED
      BY <1>u, <1>e, <3>2, <3>3, <3>4, <3>5 DEF SemaphoreAccounting
  <2> QED
    BY <2>1, <2>2
<1>10. ASSUME NEW c \in Callers, WriteFunc(c) PROVE SemaphoreAccounting'
  <2>1. Unposted' = Unposted /\ Entitled' = Entitled
    BY <1>10 DEF WriteFunc, Unposted, Entitled
  <2> QED
    BY <1>10, <2>1 DEF WriteFunc, SemaphoreAccounting
<1>11. ASSUME NEW c \in Callers, WriteArg(c) PROVE SemaphoreAccounting'
  <2>1. Unposted' = Unposted /\ Entitled' = Entitled
    BY <1>11 DEF WriteArg, Unposted, Entitled
  <2> QED
    BY <1>11, <2>1 DEF WriteArg, SemaphoreAccounting
<1>12. ASSUME NEW c \in Callers, Unlock(c) PROVE SemaphoreAccounting'
  <2>1. Unposted' = Unposted /\ Entitled' = Entitled
    BY <1>12 DEF Unlock, Unposted, Entitled
  <2> QED
    BY <1>12, <2>1 DEF Unlock, SemaphoreAccounting
<1>13. ASSUME NEW c \in Callers, Post(c) PROVE SemaphoreAccounting'
  <2>1. c \in Unposted /\ Unposted' = Unposted \ {c} /\ Entitled' = Entitled
    BY <1>13 DEF Post, Unposted, Entitled
  <2>2. Cardinality(Unposted') = Cardinality(Unposted) - 1
    BY <1>u, <1>e, <2>1, FS_RemoveElement
  <2>3. call_wait_n' = call_wait_n + 1 /\ UNCHANGED <<call_queue_head, call_queue_tail>>
    BY <1>13 DEF Post
  <2> QED
    BY <1>u, <1>e, <2>1, <2>2, <2>3 DEF SemaphoreAccounting
<1>14. ASSUME NEW w \in Workers, Started(w) PROVE SemaphoreAccounting'
  <2>1. Unposted' = Unposted /\ Entitled' = Entitled
    BY <1>14 DEF Started, Unposted, Entitled
  <2> QED
    BY <1>14, <2>1 DEF Started, SemaphoreAccounting
<1>15. ASSUME NEW w \in Workers, Wait(w) PROVE SemaphoreAccounting'
  <2>1. w \notin Entitled /\ Entitled' = Entitled \cup {w} /\ Unposted' = Unposted
    BY <1>15 DEF Wait, Unposted, Entitled
  <2>2. Cardinality(Entitled') = Cardinality(Entitled) + 1
    BY <1>u, <1>e, <2>1, FS_AddElement
  <2>3. call_wait_n' = call_wait_n - 1 /\ UNCHANGED <<call_queue_head, call_queue_tail>>
    BY <1>15 DEF Wait
  <2> QED
    BY <1>u, <1>e, <2>1, <2>2, <2>3 DEF SemaphoreAccounting
<1>16. ASSUME NEW w \in Workers, Fetch(w) PROVE SemaphoreAccounting'
  <2>1. w \in Entitled /\ Entitled' = Entitled \ {w} /\ Unposted' = Unposted
    BY <1>16 DEF Fetch, Unposted, Entitled
  <2>2. Cardinality(Entitled') = Cardinality(Entitled) - 1
    BY <1>u, <1>e, <2>1, FS_RemoveElement
  <2>3. call_queue_head' = call_queue_head + 1 /\ UNCHANGED <<call_wait_n, call_queue_tail>>
    BY <1>16 DEF Fetch
  <2> QED
    BY <1>u, <1>e, <2>1, <2>2, <2>3 DEF SemaphoreAccounting
<1>17. ASSUME NEW w \in Workers, ReadFunc(w) PROVE SemaphoreAccounting'
  <2>1. Unposted' = Unposted /\ Entitled' = Entitled
    BY <1>17 DEF ReadFunc, Unposted, Entitled
  <2> QED
    BY <1>17, <2>1 DEF ReadFunc, SemaphoreAccounting
<1>18. ASSUME NEW w \in Workers, ReadArg(w) PROVE SemaphoreAccounting'
  <2>1. Unposted' = Unposted /\ Entitled' = Entitled
    BY <1>18 DEF ReadArg, Unposted, Entitled
  <2> QED
    BY <1>18, <2>1 DEF ReadArg, SemaphoreAccounting
<1>19. ASSUME NEW w \in Workers, Return(w) PROVE SemaphoreAccounting'
  <2>1. Unposted' = Unposted /\ Entitled' = Entitled
    BY <1>19 DEF Return, Unposted, Entitled
  <2> QED
    BY <1>19, <2>1 DEF Return, SemaphoreAccounting
<1> QED
  BY <1>1, <1>2, <1>3, <1>4, <1>5, <1>6, <1>7, <1>8, <1>9, <1>10, <1>11,
     <1>12, <1>13, <1>14, <1>15, <1>16, <1>17, <1>18, <1>19
     DEF Next, Creator, CallerStepOf, WorkerStepOf

SafeInv == TypeInv /\ LockInv /\ TicketInv /\ SemaphoreAccounting

LEMMA SafeInvariant == Spec => []SafeInv
<1>1. Init => SafeInv
  BY TypeInvInit, LockInvInit, TicketInvInit, AccountingInit DEF SafeInv
<1>2. SafeInv /\ [Next]_vars => SafeInv'
  BY TypeInvStep, LockInvStep, TicketInvStep, AccountingStep DEF SafeInv
<1> QED
  BY <1>1, <1>2, PTL DEF Spec

\* No call is lost or invented between the queue and the semaphore, for any
\* number of callers and workers and any load.
THEOREM SemaphoreAccountingHolds == Spec => []SemaphoreAccounting
<1>1. SafeInv => SemaphoreAccounting
  BY DEF SafeInv
<1> QED
  BY <1>1, SafeInvariant, PTL

\* The head stays behind the reserved tickets that are not posted yet, and
\* behind those that workers are entitled to.
LEMMA HeadBehind ==
    ASSUME SafeInv
    PROVE  /\ call_queue_head < call_queue_tail
           /\ Unposted # {} => call_queue_head < call_queue_tail - 1
           /\ Entitled # {} => call_queue_head < call_queue_tail - 1
<1>1. IsFiniteSet(Unposted) /\ Cardinality(Unposted) \in Nat
  BY SetsAssumption, FS_Subset, FS_CardinalityType DEF Unposted
<1>2. IsFiniteSet(Entitled) /\ Cardinality(Entitled) \in Nat
  BY SetsAssumption, FS_Subset, FS_CardinalityType DEF Entitled
<1>3. Unposted # {} => Cardinality(Unposted) # 0
  BY <1>1, FS_EmptySet
<1>4. Entitled # {} => Cardinality(Entitled) # 0
  BY <1>2, FS_EmptySet
<1> QED
  BY <1>1, <1>2, <1>3, <1>4 DEF SafeInv, TypeInv, TypeOK, SemaphoreAccounting

\* The test for a full queue in tdpl_call_func is never true: the head never
\* reaches the tail, so that no call is ever refused with -2.
THEOREM FullTestNeverTrue == Spec => [](call_queue_head # call_queue_tail)
<1>1. SafeInv => call_queue_head # call_queue_tail
  <2> SUFFICES ASSUME SafeInv PROVE call_queue_head # call_queue_tail
    OBVIOUS
  <2> QED
    BY HeadBehind DEF SafeInv, TypeInv, TypeOK
<1> QED
  BY <1>1, SafeInvariant, PTL

LEMMA FetchedIsWrittenFromInv == SafeInv => FetchedIsWritten
<1> SUFFICES ASSUME SafeInv,
                    NEW w \in Workers, NEW c \in Callers,
                    wpc[w] \in {"rfunc", "rarg"}, cpc[c] \in {"func", "arg"}
             PROVE  ticket[w] # call_queue_tail - 1
  BY DEF FetchedIsWritten
<1>1. c \in Unposted
  BY DEF Unposted
<1>2. call_queue_head < call_queue_tail - 1
  BY <1>1, HeadBehind
<1>3. ticket[w] \in 1..call_queue_head
  BY DEF SafeInv, TicketInv
<1> QED
  BY <1>2, <1>3 DEF SafeInv, TypeInv, TypeOK

\* A worker never takes the ticket whose slot a caller is filling, without any
\* lock between them.
THEOREM FetchedIsWrittenHolds == Spec => []FetchedIsWritten
  BY SafeInvariant, FetchedIsWrittenFromInv, PTL
-----------------------------------------------------------------------------
(* The creation of the pool *)

\* The workers that have posted ready_n.
Begun == {w \in Workers : wpc[w] \notin {"absent", "start"}}

\* ready_n and the sem_waits of the creator count the workers that have begun.
BegunInv == /\ waited + ready_n = Cardinality(Begun)
            /\ pool = "ready" => waited = Cardinality(Workers)

LEMMA BegunInvInit == Init => BegunInv
<1> SUFFICES ASSUME Init PROVE BegunInv
  OBVIOUS
<1>1. Begun = {}
  BY DEF Init, Begun
<1> QED
  BY <1>1, FS_EmptySet DEF Init, BegunInv

LEMMA BegunInvStep == TypeInv /\ BegunInv /\ [Next]_vars => BegunInv'
<1> SUFFICES ASSUME TypeInv, BegunInv, [Next]_vars PROVE BegunInv'
  OBVIOUS
<1>b. IsFiniteSet(Begun) /\ Cardinality(Begun) \in Nat
  BY SetsAssumption, FS_Subset, FS_CardinalityType DEF Begun
<1> USE DEF TypeInv, TypeOK, CallerSteps, WorkerSteps, CallerStep, WorkerStep
<1>1. CASE UNCHANGED vars
  <2>1. Begun' = Begun
    BY <1>1 DEF vars, Begun
  <2> QED
    BY <1>1, <2>1 DEF vars, BegunInv
<1>2. CASE AllocFails
  <2>1. Begun' = Begun
    BY <1>2 DEF AllocFails, Begun
  <2> QED
    BY <1>2, <2>1 DEF AllocFails, BegunInv
<1>3. CASE WaitReady
  <2>1. Begun' = Begun
    BY <1>3 DEF WaitReady, Begun
  <2> QED
    BY <1>3, <2>1 DEF WaitReady, BegunInv
<1>4. ASSUME NEW w \in Workers, Spawn(w) PROVE BegunInv'
  <2>1. Begun' = Begun
    BY <1>4 DEF Spawn, Begun
  <2> QED
    BY <1>4, <2>1 DEF Spawn, BegunInv
<1>5. ASSUME NEW w \in Workers, SpawnError(w) PROVE BegunInv'
  <2>1. Begun' = Begun
    BY <1>5 DEF SpawnError, Begun
  <2> QED
    BY <1>5, <2>1 DEF SpawnError, BegunInv
<1>6. ASSUME NEW c \in Callers, CallNull(c) PROVE BegunInv'
  <2>1. Begun' = Begun
    BY <1>6 DEF CallNull, Begun
  <2> QED
    BY <1>6, <2>1 DEF CallNull, BegunInv
<1>7. ASSUME NEW c \in Callers, NEW j \in Jobs, CallFunc(c, j) PROVE BegunInv'
  <2>1. Begun' = Begun
    BY <1>7 DEF CallFunc, Begun
  <2> QED
    BY <1>7, <2>1 DEF CallFunc, BegunInv
<1>8. ASSUME NEW c \in Callers, Lock(c) PROVE BegunInv'
  <2>1. Begun' = Begun
    BY <1>8 DEF Lock, Begun
  <2> QED
    BY <1>8, <2>1 DEF Lock, BegunInv
<1>9. ASSUME NEW c \in Callers, Reserve(c) PROVE BegunInv'
  <2>1. Begun' = Begun /\ UNCHANGED creation
    BY <1>9 DEF Reserve, Begun
  <2> QED
    BY <2>1 DEF BegunInv
<1>10. ASSUME NEW c \in Callers, WriteFunc(c) PROVE BegunInv'
  <2>1. Begun' = Begun
    BY <1>10 DEF WriteFunc, Begun
  <2> QED
    BY <1>10, <2>1 DEF WriteFunc, BegunInv
<1>11. ASSUME NEW c \in Callers, WriteArg(c) PROVE BegunInv'
  <2>1. Begun' = Begun
    BY <1>11 DEF WriteArg, Begun
  <2> QED
    BY <1>11, <2>1 DEF WriteArg, BegunInv
<1>12. ASSUME NEW c \in Callers, Unlock(c) PROVE BegunInv'
  <2>1. Begun' = Begun
    BY <1>12 DEF Unlock, Begun
  <2> QED
    BY <1>12, <2>1 DEF Unlock, BegunInv
<1>13. ASSUME NEW c \in Callers, Post(c) PROVE BegunInv'
  <2>1. Begun' = Begun
    BY <1>13 DEF Post, Begun
  <2> QED
    BY <1>13, <2>1 DEF Post, BegunInv
<1>14. ASSUME NEW w \in Workers, Started(w) PROVE BegunInv'
  <2>1. w \notin Begun /\ Begun' = Begun \cup {w}
    BY <1>14 DEF Started, Begun
  <2>2. Cardinality(Begun') = Cardinality(Begun) + 1
    BY <1>b, <2>1, FS_AddElement
  <2>3. ready_n' = ready_n + 1 /\ UNCHANGED <<pool, waited>>
    BY <1>14 DEF Started
  <2> QED
    BY <1>b, <2>2, <2>3 DEF BegunInv
<1>15. ASSUME NEW w \in Workers, Wait(w) PROVE BegunInv'
  <2>1. Begun' = Begun
    BY <1>15 DEF Wait, Begun
  <2> QED
    BY <1>15, <2>1 DEF Wait, BegunInv
<1>16. ASSUME NEW w \in Workers, Fetch(w) PROVE BegunInv'
  <2>1. Begun' = Begun
    BY <1>16 DEF Fetch, Begun
  <2> QED
    BY <1>16, <2>1 DEF Fetch, BegunInv
<1>17. ASSUME NEW w \in Workers, ReadFunc(w) PROVE BegunInv'
  <2>1. Begun' = Begun
    BY <1>17 DEF ReadFunc, Begun
  <2> QED
    BY <1>17, <2>1 DEF ReadFunc, BegunInv
<1>18. ASSUME NEW w \in Workers, ReadArg(w) PROVE BegunInv'
  <2>1. Begun' = Begun
    BY <1>18 DEF ReadArg, Begun
  <2> QED
    BY <1>18, <2>1 DEF ReadArg, BegunInv
<1>19. ASSUME NEW w \in Workers, Return(w) PROVE BegunInv'
  <2>1. Begun' = Begun
    BY <1>19 DEF Return, Begun
  <2> QED
    BY <1>19, <2>1 DEF Return, BegunInv
<1> QED
  BY <1>1, <1>2, <1>3, <1>4, <1>5, <1>6, <1>7, <1>8, <1>9, <1>10, <1>11,
     <1>12, <1>13, <1>14, <1>15, <1>16, <1>17, <1>18, <1>19
     DEF Next, Creator, CallerStepOf, WorkerStepOf

LEMMA ReadyFromInv == TypeInv /\ BegunInv => ReadyMeansStarted
<1> SUFFICES ASSUME TypeInv, BegunInv, pool = "ready",
                    NEW w \in Workers
             PROVE  wpc[w] \notin {"absent", "start"}
  BY DEF ReadyMeansStarted
<1>1. Begun \subseteq Workers
  BY DEF Begun
<1>2. /\ Cardinality(Begun) <= Cardinality(Workers)
      /\ Cardinality(Begun) = Cardinality(Workers) => Begun = Workers
      /\ Cardinality(Begun) \in Nat /\ Cardinality(Workers) \in Nat
  BY <1>1, SetsAssumption, FS_Subset, FS_CardinalityType
<1>3. Begun = Workers
  BY <1>2 DEF BegunInv, TypeInv, TypeOK
<1> QED
  BY <1>3 DEF Begun

\* tdpl_create only returns a pool whose workers all wait for calls, whether
\* pthread_create may fail or not.
THEOREM ReadyMeansStartedHolds == Spec => []ReadyMeansStarted
<1>1. Init => TypeInv /\ BegunInv
  BY TypeInvInit, BegunInvInit
<1>2. (TypeInv /\ BegunInv) /\ [Next]_vars => (TypeInv /\ BegunInv)'
  BY TypeInvStep, BegunInvStep
<1> QED
  BY <1>1, <1>2, ReadyFromInv, PTL DEF Spec
-----------------------------------------------------------------------------
(***************************************************************************)
(* With a ring that the callers do not lap (Load = "timely"), every worker *)
(* runs the call it took, and the pool implements the abstract executor.   *)
(***************************************************************************)
(* The slots of the ring *)

\* The tickets that are needed have slots of their own, and a slot holds the
\* call of its ticket except for the half that a caller is still to write.
SlotsInv ==
    /\ \A m, n \in Needed : Slot(m) = Slot(n) => m = n
    /\ \A n \in Needed :
          \/ call_queue[Slot(n)].func = accepted[n]
          \/ n = call_queue_tail - 1 /\ \E c \in Callers : cpc[c] = "func"
    /\ \A n \in Needed :
          \/ call_queue[Slot(n)].arg = accepted[n]
          \/ n = call_queue_tail - 1 /\ \E c \in Callers : cpc[c] \in {"func", "arg"}

\* A worker that has read the function has read that of its call.
CallInv ==
    /\ \A w \in Workers : wpc[w] = "rarg" => call_func[w] = accepted[ticket[w]]
    /\ RightCall

\* No step other than those of a caller that holds the lock changes a slot.
LEMMA SlotsKept ==
    ASSUME SlotsInv,
           Needed' \subseteq Needed,
           UNCHANGED <<call_queue, call_queue_tail, accepted>>,
           \A c \in Callers : cpc[c] = "func" => cpc'[c] = "func",
           \A c \in Callers : cpc[c] = "arg" => cpc'[c] = "arg"
    PROVE  SlotsInv'
  BY DEF SlotsInv

LEMMA SlotsInvInit == Init => SlotsInv
<1> SUFFICES ASSUME Init PROVE SlotsInv
  OBVIOUS
<1>1. Needed = {}
  BY DEF Init, Needed
<1> QED
  BY <1>1 DEF SlotsInv

LEMMA SlotsInvStep ==
    ASSUME Load = "timely"
    PROVE  SafeInv /\ SlotsInv /\ [Next]_vars => SlotsInv'
<1> SUFFICES ASSUME SafeInv, SlotsInv, [Next]_vars PROVE SlotsInv'
  OBVIOUS
<1> USE DEF SafeInv, TypeInv, TypeOK, CallerSteps, WorkerSteps, CallerStep, WorkerStep
<1>1. CASE UNCHANGED vars
  <2>1. Needed' \subseteq Needed
    BY <1>1 DEF vars, Needed
  <2> QED
    BY <1>1, <2>1, SlotsKept DEF vars
<1>2. CASE AllocFails
  <2>1. Needed' \subseteq Needed
    BY <1>2 DEF AllocFails, Needed
  <2> QED
    BY <1>2, <2>1, SlotsKept DEF AllocFails
<1>3. CASE WaitReady
  <2>1. Needed' \subseteq Needed
    BY <1>3 DEF WaitReady, Needed
  <2> QED
    BY <1>3, <2>1, SlotsKept DEF WaitReady
<1>4. ASSUME NEW w \in Workers, Spawn(w) PROVE SlotsInv'
  <2>1. Needed' \subseteq Needed
    BY <1>4 DEF Spawn, Needed
  <2> QED
    BY <1>4, <2>1, SlotsKept DEF Spawn
<1>5. ASSUME NEW w \in Workers, SpawnError(w) PROVE SlotsInv'
  <2>1. Needed' \subseteq Needed
    BY <1>5 DEF SpawnError, Needed
  <2> QED
    BY <1>5, <2>1, SlotsKept DEF SpawnError
<1>6. ASSUME NEW c \in Callers, CallNull(c) PROVE SlotsInv'
  <2>1. Needed' \subseteq Needed
    BY <1>6 DEF CallNull, Needed
  <2> QED
    BY <1>6, <2>1, SlotsKept DEF CallNull
<1>7. ASSUME NEW c \in Callers, NEW j \in Jobs, CallFunc(c, j) PROVE SlotsInv'
  <2>1. Needed' \subseteq Needed
    BY <1>7 DEF CallFunc, Needed
  <2> QED
    BY <1>7, <2>1, SlotsKept DEF CallFunc
<1>8. ASSUME NEW c \in Callers, Lock(c) PROVE SlotsInv'
  <2>1. Needed' \subseteq Needed
    BY <1>8 DEF Lock, Needed
  <2> QED
    BY <1>8, <2>1, SlotsKept DEF Lock
<1>9. ASSUME NEW c \in Callers, Reserve(c) PROVE SlotsInv'
  <2>1. CASE call_queue_head = call_queue_tail
    BY <1>9, <2>1, HeadBehind
  <2>2. CASE call_queue_head # call_queue_tail
    <3>1. /\ cpc[c] = "check" /\ Admissible
          /\ cpc' = [cpc EXCEPT ![c] = "func"]
          /\ call_queue_tail' = call_queue_tail + 1
          /\ accepted' = Append(accepted, job[c])
          /\ UNCHANGED <<call_queue, call_queue_head, wpc, ticket>>
      BY <1>9, <2>2 DEF Reserve
    <3>2. \A d \in Callers : cpc[d] \notin {"func", "arg"}
      BY <3>1 DEF LockInv
    <3>3. Needed' \subseteq Needed \cup {call_queue_tail}
      BY <3>1 DEF Needed
    <3>4. \A n \in Needed : Slot(n) # Slot(call_queue_tail)
      BY <3>1 DEF Admissible
    <3>5. \A n \in Needed : n \in 1..(call_queue_tail - 1) /\ accepted'[n] = accepted[n]
      BY <3>1 DEF Needed, TicketInv, JobInv
    <3>6. \A n \in Needed : /\ call_queue[Slot(n)].func = accepted[n]
                            /\ call_queue[Slot(n)].arg = accepted[n]
      BY <3>2 DEF SlotsInv
    <3>7. cpc'[c] = "func" /\ call_queue_tail \in Nat
      BY <3>1
    <3> HIDE DEF TypeInv, TypeOK
    <3>8. \A m, n \in Needed' : Slot(m) = Slot(n) => m = n
      BY <3>3, <3>4 DEF SlotsInv
    <3>9. \A n \in Needed' : n # call_queue_tail => /\ call_queue'[Slot(n)].func = accepted'[n]
                                                   /\ call_queue'[Slot(n)].arg = accepted'[n]
      BY <3>1, <3>3, <3>5, <3>6
    <3>10. call_queue_tail = call_queue_tail' - 1
      BY <3>1, <3>7
    <3> QED
      BY <3>7, <3>8, <3>9, <3>10 DEF SlotsInv
  <2> QED
    BY <2>1, <2>2
<1>10. ASSUME NEW c \in Callers, WriteFunc(c) PROVE SlotsInv'
  <2>1. /\ cpc[c] = "func" /\ cpc' = [cpc EXCEPT ![c] = "arg"]
        /\ call_queue' = [call_queue EXCEPT ![Slot(call_queue_tail - 1)].func = job[c]]
        /\ UNCHANGED <<call_queue_head, call_queue_tail, accepted, job, wpc, ticket>>
    BY <1>10 DEF WriteFunc
  <2>2. Needed' = Needed
    BY <2>1 DEF Needed
  <2>3. call_queue_tail - 1 \in Needed
    BY <2>1, HeadBehind DEF Unposted, Needed
  <2>4. accepted[call_queue_tail - 1] = job[c]
    BY <2>1 DEF TicketInv
  <2>5. \A d \in Callers : cpc[d] \in {"func", "arg"} => d = c
    BY <2>1 DEF LockInv
  <2>6. \A n \in Needed : n \in Int /\ Slot(n) \in 0..MaxWaitN
    BY SlotType DEF Needed
  <2>7. \A n \in Needed \ {call_queue_tail - 1} : call_queue'[Slot(n)] = call_queue[Slot(n)]
    BY <2>1, <2>3, <2>6 DEF SlotsInv
  <2>8. /\ call_queue'[Slot(call_queue_tail - 1)].func = job[c]
        /\ call_queue'[Slot(call_queue_tail - 1)].arg = call_queue[Slot(call_queue_tail - 1)].arg
    BY <2>1, <2>3, <2>6
  <2>9. cpc'[c] = "arg" /\ \A d \in Callers \ {c} : cpc'[d] = cpc[d]
    BY <2>1
  <2> HIDE DEF TypeInv, TypeOK
  <2> QED
    BY <2>1, <2>2, <2>3, <2>4, <2>5, <2>7, <2>8, <2>9 DEF SlotsInv
<1>11. ASSUME NEW c \in Callers, WriteArg(c) PROVE SlotsInv'
  <2>1. /\ cpc[c] = "arg" /\ cpc' = [cpc EXCEPT ![c] = "unlock"]
        /\ call_queue' = [call_queue EXCEPT ![Slot(call_queue_tail - 1)].arg = job[c]]
        /\ UNCHANGED <<call_queue_head, call_queue_tail, accepted, job, wpc, ticket>>
    BY <1>11 DEF WriteArg
  <2>2. Needed' = Needed
    BY <2>1 DEF Needed
  <2>3. call_queue_tail - 1 \in Needed
    BY <2>1, HeadBehind DEF Unposted, Needed
  <2>4. accepted[call_queue_tail - 1] = job[c]
    BY <2>1 DEF TicketInv
  <2>5. \A d \in Callers : cpc[d] \in {"func", "arg"} => d = c
    BY <2>1 DEF LockInv
  <2>6. \A n \in Needed : n \in Int /\ Slot(n) \in 0..MaxWaitN
    BY SlotType DEF Needed
  <2>7. \A n \in Needed \ {call_queue_tail - 1} : call_queue'[Slot(n)] = call_queue[Slot(n)]
    BY <2>1, <2>3, <2>6 DEF SlotsInv
  <2>8. /\ call_queue'[Slot(call_queue_tail - 1)].arg = job[c]
        /\ call_queue'[Slot(call_queue_tail - 1)].func = call_queue[Slot(call_queue_tail - 1)].func
    BY <2>1, <2>3, <2>6
  <2>9. cpc'[c] = "unlock" /\ \A d \in Callers \ {c} : cpc'[d] = cpc[d]
    BY <2>1
  <2> HIDE DEF TypeInv, TypeOK
  <2> QED
    BY <2>1, <2>2, <2>3, <2>4, <2>5, <2>7, <2>8, <2>9 DEF SlotsInv
<1>12. ASSUME NEW c \in Callers, Unlock(c) PROVE SlotsInv'
  <2>1. Needed' \subseteq Needed
    BY <1>12 DEF Unlock, Needed
  <2> QED
    BY <1>12, <2>1, SlotsKept DEF Unlock
<1>13. ASSUME NEW c \in Callers, Post(c) PROVE SlotsInv'
  <2>1. Needed' \subseteq Needed
    BY <1>13 DEF Post, Needed
  <2> QED
    BY <1>13, <2>1, SlotsKept DEF Post
<1>14. ASSUME NEW w \in Workers, Started(w) PROVE SlotsInv'
  <2>1. Needed' \subseteq Needed
    BY <1>14 DEF Started, Needed
  <2> QED
    BY <1>14, <2>1, SlotsKept DEF Started
<1>15. ASSUME NEW w \in Workers, Wait(w) PROVE SlotsInv'
  <2>1. Needed' \subseteq Needed
    BY <1>15 DEF Wait, Needed
  <2> QED
    BY <1>15, <2>1, SlotsKept DEF Wait
<1>16. ASSUME NEW w \in Workers, Fetch(w) PROVE SlotsInv'
  <2>1. Needed' \subseteq Needed
    BY <1>16 DEF Fetch, Needed
  <2> QED
    BY <1>16, <2>1, SlotsKept DEF Fetch
<1>17. ASSUME NEW w \in Workers, ReadFunc(w) PROVE SlotsInv'
  <2>1. Needed' \subseteq Needed
    BY <1>17 DEF ReadFunc, Needed
  <2> QED
    BY <1>17, <2>1, SlotsKept DEF ReadFunc
<1>18. ASSUME NEW w \in Workers, ReadArg(w) PROVE SlotsInv'
  <2>1. Needed' \subseteq Needed
    BY <1>18 DEF ReadArg, Needed
  <2> QED
    BY <1>18, <2>1, SlotsKept DEF ReadArg
<1>19. ASSUME NEW w \in Workers, Return(w) PROVE SlotsInv'
  <2>1. Needed' \subseteq Needed
    BY <1>19 DEF Return, Needed
  <2> QED
    BY <1>19, <2>1, SlotsKept DEF Return
<1> QED
  BY <1>1, <1>2, <1>3, <1>4, <1>5, <1>6, <1>7, <1>8, <1>9, <1>10, <1>11,
     <1>12, <1>13, <1>14, <1>15, <1>16, <1>17, <1>18, <1>19
     DEF Next, Creator, CallerStepOf, WorkerStepOf
-----------------------------------------------------------------------------
(* The calls *)

LEMMA CallInvInit == Init => CallInv
  BY DEF Init, CallInv, RightCall

LEMMA CallInvStep == SafeInv /\ SlotsInv /\ CallInv /\ [Next]_vars => CallInv'
<1> SUFFICES ASSUME SafeInv, SlotsInv, CallInv, [Next]_vars PROVE CallInv'
  OBVIOUS
<1> USE DEF SafeInv, TypeInv, TypeOK, CallInv, RightCall, CallerSteps, WorkerSteps,
            CallerStep, WorkerStep
<1>1. CASE UNCHANGED vars
  BY <1>1 DEF vars
<1>2. CASE AllocFails
  BY <1>2 DEF AllocFails
<1>3. CASE WaitReady
  BY <1>3 DEF WaitReady
<1>4. ASSUME NEW w \in Workers, Spawn(w) PROVE CallInv'
  BY <1>4 DEF Spawn
<1>5. ASSUME NEW w \in Workers, SpawnError(w) PROVE CallInv'
  BY <1>5 DEF SpawnError
<1>6. ASSUME NEW c \in Callers, CallNull(c) PROVE CallInv'
  BY <1>6 DEF CallNull
<1>7. ASSUME NEW c \in Callers, NEW j \in Jobs, CallFunc(c, j) PROVE CallInv'
  BY <1>7 DEF CallFunc
<1>8. ASSUME NEW c \in Callers, Lock(c) PROVE CallInv'
  BY <1>8 DEF Lock
<1>9. ASSUME NEW c \in Callers, Reserve(c) PROVE CallInv'
  <2>1. CASE call_queue_head = call_queue_tail
    BY <2>1, HeadBehind
  <2>2. CASE call_queue_head # call_queue_tail
    <3>1. accepted' = Append(accepted, job[c]) /\ cpc[c] = "check" /\ UNCHANGED workers
      BY <1>9, <2>2 DEF Reserve
    <3>2. job[c] \in Jobs
      BY <3>1 DEF JobInv
    <3>3. \A w \in Workers : wpc[w] \in {"rarg", "run"} => accepted'[ticket[w]] = accepted[ticket[w]]
      BY <3>1, <3>2, HeadBehind DEF TicketInv
    <3> QED
      BY <3>1, <3>3
  <2> QED
    BY <2>1, <2>2
<1>10. ASSUME NEW c \in Callers, WriteFunc(c) PROVE CallInv'
  BY <1>10 DEF WriteFunc
<1>11. ASSUME NEW c \in Callers, WriteArg(c) PROVE CallInv'
  BY <1>11 DEF WriteArg
<1>12. ASSUME NEW c \in Callers, Unlock(c) PROVE CallInv'
  BY <1>12 DEF Unlock
<1>13. ASSUME NEW c \in Callers, Post(c) PROVE CallInv'
  BY <1>13 DEF Post
<1>14. ASSUME NEW w \in Workers, Started(w) PROVE CallInv'
  BY <1>14 DEF Started
<1>15. ASSUME NEW w \in Workers, Wait(w) PROVE CallInv'
  BY <1>15 DEF Wait
<1>16. ASSUME NEW w \in Workers, Fetch(w) PROVE CallInv'
  BY <1>16 DEF Fetch
<1>17. ASSUME NEW w \in Workers, ReadFunc(w) PROVE CallInv'
  <2>1. /\ wpc[w] = "rfunc" /\ wpc' = [wpc EXCEPT ![w] = "rarg"]
        /\ call_func' = [call_func EXCEPT ![w] = call_queue[Slot(ticket[w])].func]
        /\ UNCHANGED <<ticket, accepted, arg>>
    BY <1>17 DEF ReadFunc
  <2>2. ticket[w] \in Needed
    BY <2>1, HeadBehind DEF TicketInv, Needed
  <2>3. call_queue[Slot(ticket[w])].func = accepted[ticket[w]]
    BY <2>1, <2>2, FetchedIsWrittenFromInv DEF SlotsInv, FetchedIsWritten
  <2> QED
    BY <2>1, <2>3
<1>18. ASSUME NEW w \in Workers, ReadArg(w) PROVE CallInv'
  <2>1. /\ wpc[w] = "rarg" /\ wpc' = [wpc EXCEPT ![w] = "run"]
        /\ arg' = [arg EXCEPT ![w] = call_queue[Slot(ticket[w])].arg]
        /\ UNCHANGED <<ticket, accepted, call_func>>
    BY <1>18 DEF ReadArg
  <2>2. ticket[w] \in Needed
    BY <2>1, HeadBehind DEF TicketInv, Needed
  <2>3. call_queue[Slot(ticket[w])].arg = accepted[ticket[w]]
    BY <2>1, <2>2, FetchedIsWrittenFromInv DEF SlotsInv, FetchedIsWritten
  <2> QED
    BY <2>1, <2>3
<1>19. ASSUME NEW w \in Workers, Return(w) PROVE CallInv'
  BY <1>19 DEF Return
<1> QED
  BY <1>1, <1>2, <1>3, <1>4, <1>5, <1>6, <1>7, <1>8, <1>9, <1>10, <1>11,
     <1>12, <1>13, <1>14, <1>15, <1>16, <1>17, <1>18, <1>19
     DEF Next, Creator, CallerStepOf, WorkerStepOf

RingInv == SafeInv /\ SlotsInv /\ CallInv

LEMMA RingInvariant == ASSUME Load = "timely" PROVE Spec => []RingInv
<1>1. Init => RingInv
  BY TypeInvInit, LockInvInit, TicketInvInit, AccountingInit, SlotsInvInit, CallInvInit
     DEF RingInv, SafeInv
<1>2. RingInv /\ [Next]_vars => RingInv'
  BY TypeInvStep, LockInvStep, TicketInvStep, AccountingStep, SlotsInvStep, CallInvStep
     DEF RingInv, SafeInv
<1> QED
  BY <1>1, <1>2, PTL DEF Spec

\* With a ring that is not lapped, a worker calls the function of the call it
\* took with the argument of that call, although it reads the two without a lock.
THEOREM RightCallHolds == ASSUME Load = "timely" PROVE Spec => []RightCall
<1>1. RingInv => RightCall
  BY DEF RingInv, CallInv
<1> QED
  BY <1>1, RingInvariant, PTL
-----------------------------------------------------------------------------
(* The refinement *)

LEMMA ExecutorInit == Init => Executor!Init
  BY DEF Init, Executor!Init, Running

LEMMA ExecutorStep == RingInv /\ RingInv' /\ [Next]_vars => [Executor!Next]_(Executor!vars)
<1> SUFFICES ASSUME RingInv, RingInv', [Next]_vars PROVE [Executor!Next]_(Executor!vars)
  OBVIOUS
<1> USE DEF RingInv, SafeInv, TypeInv, TypeOK, CallerSteps, WorkerSteps, CallerStep, WorkerStep
<1>1. CASE UNCHANGED vars
  <2>1. UNCHANGED Executor!vars
    BY <1>1 DEF vars, Executor!vars, Running
  <2> QED
    BY <2>1
<1>2. CASE AllocFails
  <2>1. UNCHANGED Executor!vars
    BY <1>2 DEF AllocFails, Executor!vars, Running
  <2> QED
    BY <2>1
<1>3. CASE WaitReady
  <2>1. UNCHANGED Executor!vars
    BY <1>3 DEF WaitReady, Executor!vars, Running
  <2> QED
    BY <2>1
<1>4. ASSUME NEW w \in Workers, Spawn(w) PROVE [Executor!Next]_(Executor!vars)
  <2>1. UNCHANGED Executor!vars
    BY <1>4 DEF Spawn, Executor!vars, Running
  <2> QED
    BY <2>1
<1>5. ASSUME NEW w \in Workers, SpawnError(w) PROVE [Executor!Next]_(Executor!vars)
  <2>1. UNCHANGED Executor!vars
    BY <1>5 DEF SpawnError, Executor!vars, Running
  <2> QED
    BY <2>1
<1>6. ASSUME NEW c \in Callers, CallNull(c) PROVE [Executor!Next]_(Executor!vars)
  <2>1. UNCHANGED Executor!vars
    BY <1>6 DEF CallNull, Executor!vars, Running
  <2> QED
    BY <2>1
<1>7. ASSUME NEW c \in Callers, NEW j \in Jobs, CallFunc(c, j) PROVE [Executor!Next]_(Executor!vars)
  <2>1. UNCHANGED Executor!vars
    BY <1>7 DEF CallFunc, Executor!vars, Running
  <2> QED
    BY <2>1
<1>8. ASSUME NEW c \in Callers, Lock(c) PROVE [Executor!Next]_(Executor!vars)
  <2>1. UNCHANGED Executor!vars
    BY <1>8 DEF Lock, Executor!vars, Running
  <2> QED
    BY <2>1
<1>9. ASSUME NEW c \in Callers, Reserve(c) PROVE [Executor!Next]_(Executor!vars)
  <2>1. CASE call_queue_head = call_queue_tail
    BY <2>1, HeadBehind
  <2>2. CASE call_queue_head # call_queue_tail
    <3>1. /\ accepted' = Append(accepted, job[c]) /\ cpc[c] = "check"
          /\ UNCHANGED <<call_queue_head, workers>>
      BY <1>9, <2>2 DEF Reserve
    <3>2. job[c] \in Jobs
      BY <3>1 DEF JobInv
    <3>3. \A w \in Workers : wpc[w] \in {"rfunc", "rarg"} => accepted'[ticket[w]] = accepted[ticket[w]]
      BY <3>1, <3>2, HeadBehind DEF TicketInv
    <3>4. \A w \in Workers : Running(w)' = Running(w)
      BY <3>1, <3>3 DEF Running
    <3>5. Executor!Submit(job[c])
      BY <3>1, <3>4 DEF Executor!Submit
    <3> QED
      BY <3>2, <3>5 DEF Executor!Next
  <2> QED
    BY <2>1, <2>2
<1>10. ASSUME NEW c \in Callers, WriteFunc(c) PROVE [Executor!Next]_(Executor!vars)
  <2>1. UNCHANGED Executor!vars
    BY <1>10 DEF WriteFunc, Executor!vars, Running
  <2> QED
    BY <2>1
<1>11. ASSUME NEW c \in Callers, WriteArg(c) PROVE [Executor!Next]_(Executor!vars)
  <2>1. UNCHANGED Executor!vars
    BY <1>11 DEF WriteArg, Executor!vars, Running
  <2> QED
    BY <2>1
<1>12. ASSUME NEW c \in Callers, Unlock(c) PROVE [Executor!Next]_(Executor!vars)
  <2>1. UNCHANGED Executor!vars
    BY <1>12 DEF Unlock, Executor!vars, Running
  <2> QED
    BY <2>1
<1>13. ASSUME NEW c \in Callers, Post(c) PROVE [Executor!Next]_(Executor!vars)
  <2>1. UNCHANGED Executor!vars
    BY <1>13 DEF Post, Executor!vars, Running
  <2> QED
    BY <2>1
<1>14. ASSUME NEW w \in Workers, Started(w) PROVE [Executor!Next]_(Executor!vars)
  <2>1. UNCHANGED Executor!vars
    BY <1>14 DEF Started, Executor!vars, Running
  <2> QED
    BY <2>1
<1>15. ASSUME NEW w \in Workers, Wait(w) PROVE [Executor!Next]_(Executor!vars)
  <2>1. UNCHANGED Executor!vars
    BY <1>15 DEF Wait, Executor!vars, Running
  <2> QED
    BY <2>1
<1>16. ASSUME NEW w \in Workers, Fetch(w) PROVE [Executor!Next]_(Executor!vars)
  <2>1. /\ wpc[w] = "fetch" /\ wpc' = [wpc EXCEPT ![w] = "rfunc"]
        /\ call_queue_head' = call_queue_head + 1
        /\ ticket' = [ticket EXCEPT ![w] = call_queue_head + 1]
        /\ UNCHANGED <<call_func, arg, accepted>>
    BY <1>16 DEF Fetch
  <2>2. call_queue_head < Len(accepted)
    BY <2>1, HeadBehind DEF Entitled, TicketInv
  <2>3. Running(w) = NULL /\ Running(w)' = Executor!Call(accepted[call_queue_head + 1])
    BY <2>1 DEF Running, Executor!Call
  <2>4. \A v \in Workers \ {w} : Running(v)' = Running(v)
    BY <2>1 DEF Running
  <2> HIDE DEF RingInv, SafeInv, TypeInv, TypeOK
  <2>5. [v \in Workers |-> Running(v)]'
           = [[v \in Workers |-> Running(v)] EXCEPT ![w] = Executor!Call(accepted[call_queue_head + 1])]
    BY <2>3, <2>4
  <2>6. Executor!Start(w)
    BY <2>1, <2>2, <2>3, <2>5 DEF Executor!Start
  <2> QED
    BY <2>6 DEF Executor!Next
<1>17. ASSUME NEW w \in Workers, ReadFunc(w) PROVE [Executor!Next]_(Executor!vars)
  <2>1. UNCHANGED Executor!vars
    BY <1>17 DEF ReadFunc, Executor!vars, Running
  <2> QED
    BY <2>1
<1>18. ASSUME NEW w \in Workers, ReadArg(w) PROVE [Executor!Next]_(Executor!vars)
  <2>1. /\ wpc[w] = "rarg" /\ wpc' = [wpc EXCEPT ![w] = "run"]
        /\ \E v : arg' = [arg EXCEPT ![w] = v]
        /\ UNCHANGED <<call_queue_head, ticket, call_func, accepted>>
    BY <1>18 DEF ReadArg
  <2>2. call_func'[w] = accepted[ticket[w]] /\ arg'[w] = accepted[ticket[w]]
    BY <2>1 DEF CallInv, RightCall
  <2>3. \A v \in Workers : Running(v)' = Running(v)
    BY <2>1, <2>2 DEF Running
  <2>4. UNCHANGED Executor!vars
    BY <2>1, <2>3 DEF Executor!vars
  <2> QED
    BY <2>4
<1>19. ASSUME NEW w \in Workers, Return(w) PROVE [Executor!Next]_(Executor!vars)
  <2>1. /\ wpc[w] = "run" /\ wpc' = [wpc EXCEPT ![w] = "wait"]
        /\ arg' = [arg EXCEPT ![w] = NULL]
        /\ UNCHANGED <<call_queue_head, ticket, call_func, accepted>>
    BY <1>19 DEF Return
  <2>2. Running(w) # NULL /\ Running(w)' = NULL
    BY <2>1, NullAssumption DEF Running
  <2>3. \A v \in Workers \ {w} : Running(v)' = Running(v)
    BY <2>1 DEF Running
  <2> HIDE DEF RingInv, SafeInv, TypeInv, TypeOK
  <2>4. [v \in Workers |-> Running(v)]' = [[v \in Workers |-> Running(v)] EXCEPT ![w] = NULL]
    <3>1. \A v \in Workers : Running(v)' = IF v = w THEN NULL ELSE Running(v)
      BY <2>2, <2>3
    <3> QED
      BY <3>1
  <2>5. Executor!Finish(w)
    BY <2>1, <2>2, <2>4 DEF Executor!Finish
  <2> QED
    BY <2>5 DEF Executor!Next
<1> QED
  BY <1>1, <1>2, <1>3, <1>4, <1>5, <1>6, <1>7, <1>8, <1>9, <1>10, <1>11,
     <1>12, <1>13, <1>14, <1>15, <1>16, <1>17, <1>18, <1>19
     DEF Next, Creator, CallerStepOf, WorkerStepOf

\* The pool is an executor: calls start in the order in which they were
\* accepted, once each, and a worker runs a call with its own argument.
THEOREM PoolImplementsExecutor == ASSUME Load = "timely" PROVE Spec => Executor!SafeSpec
  BY RingInvariant, ExecutorInit, ExecutorStep, PTL DEF Spec, Executor!SafeSpec
=============================================================================
