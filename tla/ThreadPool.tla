----------------------------- MODULE ThreadPool -----------------------------
(***************************************************************************)
(* The thread pool of tdpool.c: tdpl_create starts the workers and waits   *)
(* for them on the semaphore ready_n; tdpl_call_func appends a call to a    *)
(* ring of max_wait_n + 1 slots under a spin lock and posts call_wait_n;    *)
(* a worker waits on call_wait_n, takes the next ticket with an atomic      *)
(* increment of call_queue_head and only then reads the slot, first the     *)
(* function and then its argument.                                          *)
(*                                                                          *)
(* Every shared access is a step of its own.  A job stands for one          *)
(* (call_func, arg) pair; a slot keeps the two halves apart, so that a call *)
(* made of two different jobs is a state of the model.                      *)
(***************************************************************************)
EXTENDS Integers, Sequences, FiniteSets

CONSTANTS
    Workers,      \* the threads that tdpl_create starts (thread_num of them)
    Callers,      \* the threads that call tdpl_call_func
    Jobs,         \* the (call_func, arg) pairs they pass
    Eternal,      \* the jobs whose function never returns (event loops)
    NULL,         \* a null function or argument, an uninitialised slot
    MaxWaitN,     \* the max_wait_n of tdpl_create
    Load,         \* how hard the users press the pool, see Admissible
    SpawnFails,   \* whether pthread_create may fail
    MaxCalls      \* bound: how many calls are accepted in a behaviour

ASSUME SetsAssumption == /\ IsFiniteSet(Workers) /\ Workers # {}
                         /\ IsFiniteSet(Callers)
                         /\ Eternal \subseteq Jobs
                         /\ NULL \notin Jobs \cup Callers
ASSUME NullAssumption == NULL \notin [func : Jobs \cup {NULL}, arg : Jobs \cup {NULL}]
ASSUME NumbersAssumption == MaxWaitN \in Nat /\ MaxCalls \in Nat
ASSUME EnvironmentAssumption == /\ SpawnFails \in BOOLEAN
                                /\ Load \in {"any", "timely"}

VARIABLES
    \* struct tdpl_s
    call_queue,                 \* the ring of [func, arg] slots
    call_queue_head,            \* tickets handed to the workers
    call_queue_tail,            \* one more than the tickets handed to callers
    call_wait_n,                \* semaphore: calls that wait for a worker
    ready_n,                    \* semaphore: workers that have started
    call_queue_write_spinlock,  \* the caller that holds it, or NULL
    \* tdpl_create
    pool,                       \* "creating", "ready" (returned), "failed"
    spawned,                    \* workers for which pthread_create was called
    waited,                     \* sem_wait(&ready_n) that returned
    \* the callers
    cpc, job, ret,
    \* the workers
    wpc, ticket, call_func, arg,
    \* history: the job of every ticket
    accepted

creation == <<pool, spawned, waited, ready_n>>
ring == <<call_queue, call_queue_head, call_queue_tail>>
locks == <<call_wait_n, call_queue_write_spinlock>>
callers == <<cpc, job, ret>>
workers == <<wpc, ticket, call_func, arg>>
vars == <<creation, ring, locks, callers, workers, accepted>>

call_queue_period == MaxWaitN + 1
Slot(n) == n % call_queue_period

CallerSteps == {"idle", "lock", "check", "func", "arg", "unlock", "post"}
WorkerSteps == {"absent", "start", "wait", "fetch", "rfunc", "rarg", "run"}

Init ==
    /\ call_queue = [s \in 0..MaxWaitN |-> [func |-> NULL, arg |-> NULL]]
    /\ call_queue_head = 0
    /\ call_queue_tail = 1
    /\ call_wait_n = 0
    /\ ready_n = 0
    /\ call_queue_write_spinlock = NULL
    /\ pool = "creating"
    /\ spawned = {}
    /\ waited = 0
    /\ cpc = [c \in Callers |-> "idle"]
    /\ job = [c \in Callers |-> NULL]
    /\ ret = [c \in Callers |-> 0]
    /\ wpc = [w \in Workers |-> "absent"]
    /\ ticket = [w \in Workers |-> 0]
    /\ call_func = [w \in Workers |-> NULL]
    /\ arg = [w \in Workers |-> NULL]
    /\ accepted = <<>>

CallerStep(c, from, to) == cpc[c] = from /\ cpc' = [cpc EXCEPT ![c] = to]
WorkerStep(w, from, to) == wpc[w] = from /\ wpc' = [wpc EXCEPT ![w] = to]
-----------------------------------------------------------------------------
(* tdpl_create *)

\* One of the first two mallocs fails: nothing was started, NULL is returned.
AllocFails ==
    /\ pool = "creating" /\ spawned = {}
    /\ pool' = "failed"
    /\ UNCHANGED <<spawned, waited, ready_n, ring, locks, callers, workers, accepted>>

\* pthread_create succeeds.
Spawn(w) ==
    /\ pool = "creating" /\ w \notin spawned
    /\ spawned' = spawned \cup {w}
    /\ WorkerStep(w, "absent", "start")
    /\ UNCHANGED <<pool, waited, ready_n, ring, locks, callers, ticket, call_func, arg, accepted>>

\* pthread_create fails.  It returns a positive error number, the code only
\* looks for -1, so that the loop goes on to the next worker.
SpawnError(w) ==
    /\ SpawnFails
    /\ pool = "creating" /\ w \notin spawned
    /\ spawned' = spawned \cup {w}
    /\ UNCHANGED <<pool, waited, ready_n, ring, locks, callers, workers, accepted>>

\* Mutant: the loop of sem_waits stops one worker early.
WaitReadyOffByOne ==
    /\ pool = "creating" /\ spawned = Workers
    /\ ready_n > 0
    /\ ready_n' = ready_n - 1
    /\ waited' = waited + 1
    /\ pool' = IF waited' >= Cardinality(Workers) - 1 THEN "ready" ELSE pool
    /\ UNCHANGED <<spawned, ring, locks, callers, workers, accepted>>

\* One sem_wait(&ready_n) returns; after thread_num of them the pool does.
WaitReady ==
    /\ pool = "creating" /\ spawned = Workers
    /\ ready_n > 0
    /\ ready_n' = ready_n - 1
    /\ waited' = waited + 1
    /\ pool' = IF waited' = Cardinality(Workers) THEN "ready" ELSE pool
    /\ UNCHANGED <<spawned, ring, locks, callers, workers, accepted>>
-----------------------------------------------------------------------------
(* tdpl_call_func, called by c *)

\* A null function is refused before anything is touched.
CallNull(c) ==
    /\ pool = "ready"
    /\ CallerStep(c, "idle", "idle")
    /\ ret' = [ret EXCEPT ![c] = -1]
    /\ UNCHANGED <<creation, ring, locks, job, workers, accepted>>

\* Accepted calls and calls under way, to keep within MaxCalls.
Pending == {c \in Callers : cpc[c] \in {"lock", "check"}}
Submitted(j) == \/ j \in {accepted[n] : n \in DOMAIN accepted}
                \/ \E c \in Pending : job[c] = j

\* The users start every event loop once, any other job again and again.
CallFunc(c, j) ==
    /\ pool = "ready"
    /\ Len(accepted) + Cardinality(Pending) < MaxCalls
    /\ j \in Eternal => ~Submitted(j)
    /\ CallerStep(c, "idle", "lock")
    /\ job' = [job EXCEPT ![c] = j]
    /\ ret' = [ret EXCEPT ![c] = 0]
    /\ UNCHANGED <<creation, ring, locks, workers, accepted>>

\* pthread_spin_lock(&call_queue_write_spinlock)
Lock(c) ==
    /\ call_queue_write_spinlock = NULL
    /\ CallerStep(c, "lock", "check")
    /\ call_queue_write_spinlock' = c
    /\ UNCHANGED <<creation, ring, call_wait_n, job, ret, workers, accepted>>

\* A ticket is needed from the moment the tail passes it until a worker has read
\* both halves of its slot.
Needed == {n \in 1..(call_queue_tail - 1) :
              \/ n > call_queue_head
              \/ \E w \in Workers : wpc[w] \in {"rfunc", "rarg"} /\ ticket[w] = n}

\* The environment, in two strengths.  Nothing in tdpl_call_func ensures more
\* than the first.
\*   "any":     users call as often as they like;
\*   "timely":  the ring is so large that the workers have read a slot before
\*              the callers come round to it again.
Admissible == Load = "timely" => \A n \in Needed : Slot(n) # Slot(call_queue_tail)

\* Mutant: the semaphore is posted with the reservation, before the slot is filled.
ReservePostsEarly(c) ==
    /\ Admissible
    /\ CallerStep(c, "check", "func")
    /\ call_queue_tail' = call_queue_tail + 1
    /\ accepted' = Append(accepted, job[c])
    /\ call_wait_n' = call_wait_n + 1
    /\ UNCHANGED <<creation, call_queue, call_queue_head, call_queue_write_spinlock, job, ret, workers>>

\* The test for a full queue: refuse, or take the slot at the tail.
Reserve(c) ==
    IF call_queue_head = call_queue_tail
    THEN /\ CallerStep(c, "check", "idle")
         /\ call_queue_write_spinlock' = NULL
         /\ ret' = [ret EXCEPT ![c] = -2]
         /\ UNCHANGED <<creation, ring, call_wait_n, job, workers, accepted>>
    ELSE /\ Admissible
         /\ CallerStep(c, "check", "func")
         /\ call_queue_tail' = call_queue_tail + 1
         /\ accepted' = Append(accepted, job[c])
         /\ UNCHANGED <<creation, call_queue, call_queue_head, locks, job, ret, workers>>

WriteFunc(c) ==
    /\ CallerStep(c, "func", "arg")
    /\ call_queue' = [call_queue EXCEPT ![Slot(call_queue_tail - 1)].func = job[c]]
    /\ UNCHANGED <<creation, call_queue_head, call_queue_tail, locks, job, ret, workers, accepted>>

WriteArg(c) ==
    /\ CallerStep(c, "arg", "unlock")
    /\ call_queue' = [call_queue EXCEPT ![Slot(call_queue_tail - 1)].arg = job[c]]
    /\ UNCHANGED <<creation, call_queue_head, call_queue_tail, locks, job, ret, workers, accepted>>

Unlock(c) ==
    /\ CallerStep(c, "unlock", "post")
    /\ call_queue_write_spinlock' = NULL
    /\ UNCHANGED <<creation, ring, call_wait_n, job, ret, workers, accepted>>

\* sem_post(&call_wait_n); return 1
Post(c) ==
    /\ CallerStep(c, "post", "idle")
    /\ call_wait_n' = call_wait_n + 1
    /\ ret' = [ret EXCEPT ![c] = 1]
    /\ UNCHANGED <<creation, ring, call_queue_write_spinlock, job, workers, accepted>>
-----------------------------------------------------------------------------
(* tdpl_worker_thread, run by w *)

\* The memory pool of the thread is created and the creator is told.
Started(w) ==
    /\ WorkerStep(w, "start", "wait")
    /\ ready_n' = ready_n + 1
    /\ UNCHANGED <<pool, spawned, waited, ring, locks, callers, ticket, call_func, arg, accepted>>

\* Mutant: sem_wait comes back without a token, as it does on a signal.
WaitInterrupted(w) ==
    /\ WorkerStep(w, "wait", "fetch")
    /\ UNCHANGED <<creation, ring, locks, callers, ticket, call_func, arg, accepted>>

\* sem_wait(&call_wait_n)
Wait(w) ==
    /\ call_wait_n > 0
    /\ WorkerStep(w, "wait", "fetch")
    /\ call_wait_n' = call_wait_n - 1
    /\ UNCHANGED <<creation, ring, call_queue_write_spinlock, callers, ticket, call_func, arg, accepted>>

\* Mutant: a plain increment instead of the atomic one, so that the update may
\* be lost and the next worker takes the same ticket.
FetchLosesUpdate(w) ==
    /\ WorkerStep(w, "fetch", "rfunc")
    /\ call_queue_head' \in {call_queue_head, call_queue_head + 1}
    /\ ticket' = [ticket EXCEPT ![w] = call_queue_head + 1]
    /\ UNCHANGED <<creation, call_queue, call_queue_tail, locks, callers, call_func, arg, accepted>>

\* __sync_add_and_fetch(&call_queue_head, 1): the slot is chosen, not yet read.
Fetch(w) ==
    /\ WorkerStep(w, "fetch", "rfunc")
    /\ call_queue_head' = call_queue_head + 1
    /\ ticket' = [ticket EXCEPT ![w] = call_queue_head + 1]
    /\ UNCHANGED <<creation, call_queue, call_queue_tail, locks, callers, call_func, arg, accepted>>

ReadFunc(w) ==
    /\ WorkerStep(w, "rfunc", "rarg")
    /\ call_func' = [call_func EXCEPT ![w] = call_queue[Slot(ticket[w])].func]
    /\ UNCHANGED <<creation, ring, locks, callers, ticket, arg, accepted>>

\* Mutant: the argument is read through call_queue_head, which may have moved.
ReadArgAtHead(w) ==
    /\ WorkerStep(w, "rarg", "run")
    /\ arg' = [arg EXCEPT ![w] = call_queue[Slot(call_queue_head)].arg]
    /\ UNCHANGED <<creation, ring, locks, callers, ticket, call_func, accepted>>

\* The argument is read and the function called.
ReadArg(w) ==
    /\ WorkerStep(w, "rarg", "run")
    /\ arg' = [arg EXCEPT ![w] = call_queue[Slot(ticket[w])].arg]
    /\ UNCHANGED <<creation, ring, locks, callers, ticket, call_func, accepted>>

\* The function returns; the argument is forgotten.
Return(w) ==
    /\ call_func[w] \notin Eternal
    /\ WorkerStep(w, "run", "wait")
    /\ arg' = [arg EXCEPT ![w] = NULL]
    /\ UNCHANGED <<creation, ring, locks, callers, ticket, call_func, accepted>>
-----------------------------------------------------------------------------
Creator == AllocFails \/ WaitReady \/ \E w \in Workers : Spawn(w) \/ SpawnError(w)

CallerStepOf(c) == \/ Lock(c) \/ Reserve(c) \/ WriteFunc(c) \/ WriteArg(c)
                   \/ Unlock(c) \/ Post(c)

WorkerStepOf(w) == \/ Started(w) \/ Wait(w) \/ Fetch(w) \/ ReadFunc(w)
                   \/ ReadArg(w) \/ Return(w)

Next == \/ Creator
        \/ \E c \in Callers : \/ CallNull(c)
                              \/ \E j \in Jobs : CallFunc(c, j)
                              \/ CallerStepOf(c)
        \/ \E w \in Workers : WorkerStepOf(w)

Spec == Init /\ [][Next]_vars

(* Threads are scheduled by the operating system: one that can go on does.  *)
(* A job that is not eternal returns.                                        *)
Fairness == /\ WF_vars(Creator)
            /\ \A c \in Callers : WF_vars(CallerStepOf(c))
            /\ \A w \in Workers : WF_vars(WorkerStepOf(w))
FairSpec == Spec /\ Fairness
-----------------------------------------------------------------------------
(* Properties *)

TypeOK ==
    /\ call_queue \in [0..MaxWaitN -> [func : Jobs \cup {NULL}, arg : Jobs \cup {NULL}]]
    /\ call_queue_head \in Nat
    /\ call_queue_tail \in Nat
    /\ call_wait_n \in Nat
    /\ ready_n \in Nat
    /\ call_queue_write_spinlock \in Callers \cup {NULL}
    /\ pool \in {"creating", "ready", "failed"}
    /\ spawned \subseteq Workers
    /\ waited \in Nat
    /\ cpc \in [Callers -> CallerSteps]
    /\ job \in [Callers -> Jobs \cup {NULL}]
    /\ ret \in [Callers -> {-2, -1, 0, 1}]
    /\ wpc \in [Workers -> WorkerSteps]
    /\ ticket \in [Workers -> Nat]
    /\ call_func \in [Workers -> Jobs \cup {NULL}]
    /\ arg \in [Workers -> Jobs \cup {NULL}]
    /\ accepted \in Seq(Jobs)

\* Callers between the reservation of a ticket and its sem_post.
Unposted == {c \in Callers : cpc[c] \in {"func", "arg", "unlock", "post"}}
\* Workers between a sem_wait and the ticket it entitles them to.
Entitled == {w \in Workers : wpc[w] = "fetch"}

\* No call is lost or invented between the queue and the semaphore: every
\* ticket that callers reserved is taken by a worker, promised to one, counted
\* by call_wait_n, or still to be posted by its caller.
SemaphoreAccounting ==
    call_queue_head + Cardinality(Entitled) + call_wait_n + Cardinality(Unposted)
        = call_queue_tail - 1

\* The workers need no reader lock: the ticket a worker takes is never the one
\* whose slot a caller is still filling, although call_queue_head is advanced
\* outside the writer lock and the semaphore does not say which call was posted.
FetchedIsWritten ==
    \A w \in Workers, c \in Callers :
        wpc[w] \in {"rfunc", "rarg"} /\ cpc[c] \in {"func", "arg"}
            => ticket[w] # call_queue_tail - 1

\* A worker that runs calls the function of the call it took, with the argument
\* of that same call: the slot was not reused between its two reads.
RightCall ==
    \A w \in Workers :
        wpc[w] = "run" => call_func[w] = accepted[ticket[w]] /\ arg[w] = accepted[ticket[w]]

\* tdpl_create returns a pool only when every one of its workers waits for calls.
ReadyMeansStarted ==
    pool = "ready" => \A w \in Workers : wpc[w] \notin {"absent", "start"}

\* The pool implements the abstract executor.  A worker that holds a ticket and
\* has not read its slot yet is about to run the call of that ticket.
Running(w) ==
    IF wpc[w] \in {"rfunc", "rarg"} THEN [func |-> accepted[ticket[w]], arg |-> accepted[ticket[w]]]
    ELSE IF wpc[w] = "run" THEN [func |-> call_func[w], arg |-> arg[w]]
    ELSE NULL
Executor == INSTANCE TaskExecutor WITH
    Idle <- NULL, submitted <- accepted, claimed <- call_queue_head,
    exec <- [w \in Workers |-> Running(w)]

\* The calls are started in order, once each, as they were made, and all of
\* them are, as long as the event loops leave a worker free.
ImplementsExecutor == Executor!Spec
=============================================================================
