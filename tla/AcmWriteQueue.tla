--------------------------- MODULE AcmWriteQueue ---------------------------
(***************************************************************************)
(* The write side of one acm_channel of agent-client-manager.c.  Request   *)
(* threads append write tasks under write_queue_spinlock.  The one that    *)
(* finds the queue empty releases write_queue_consume_spinlock, which      *)
(* nobody could take until then, and registers EPOLLOUT.  The event loop   *)
(* takes the consume lock with a trylock and hands acm_io_write_thread to  *)
(* the io thread pool.  The write thread sends until the queue is empty    *)
(* (and keeps the lock) or the socket is full (and releases it and         *)
(* registers EPOLLOUT again).  The lock passes from thread to thread: the  *)
(* one that releases it is seldom the one that took it.                    *)
(*                                                                         *)
(* The first lines of acm_request, the request id and acm_hold_request,    *)
(* are in AcmRequestMap.  A request thread is named after its request.     *)
(***************************************************************************)
EXTENDS Integers, Sequences, FiniteSets

CONSTANTS
    Requests,             \* the requests, each made by a thread of its own
    IoThreads,            \* the threads of tdpl_io
    DataSize,             \* the size of the data of each request
    HeadSize,             \* ACM_MSG_HEAD_SIZE
    max_write_queue_len,  \* slots of the write queue
    MayBreak,             \* whether the connection may be reset
    NULL

ASSUME SizesAssumption == /\ HeadSize \in Nat \ {0}
                          /\ max_write_queue_len \in Nat \ {0}
                          /\ DataSize \in [Requests -> Nat \ {0}]
ASSUME EnvironmentAssumption == MayBreak \in BOOLEAN
ASSUME NullAssumption == NULL \notin Requests

VARIABLES
    \* struct acm_channel
    write_queue,                   \* slots [req, write_index]
    write_queue_head,
    write_queue_tail,
    write_queue_spinlock,          \* the request that holds it, or NULL
    write_queue_consume_spinlock,  \* TRUE: taken, the queue may not be consumed
    \* acm_request
    rpc, is_queue_empty,
    \* epoll_write_fd and its event loop
    armed,                         \* "edge", "oneshot", "off" (one shot used up)
    ready,                         \* the socket is on epoll's ready list
    loop,                          \* "wait", "event": EPOLLOUT in hand
    \* tdpl_io
    queued,                        \* acm_io_write_thread calls that wait
    tpc,
    \* the socket
    writable, broken,
    peer,                          \* history: what the bytes sent make at the peer
    order                          \* history: the request of every queue index

queue == <<write_queue, write_queue_head, write_queue_tail, write_queue_spinlock>>
epoll == <<armed, ready, loop>>
requesters == <<rpc, is_queue_empty>>
io == <<queued, tpc>>
socket == <<writable, broken, peer>>
vars == <<queue, write_queue_consume_spinlock, requesters, epoll, io, socket, order>>

Slot(n) == n % max_write_queue_len
Empty == write_queue_head + 1 = write_queue_tail
Task == write_queue[Slot(write_queue_head + 1)]  \* p_task of the write thread

\* Mutant: the consume lock is not taken when the channel is created.
InitConsumable ==
    /\ write_queue = [s \in 0..(max_write_queue_len - 1) |-> [req |-> NULL, write_index |-> 0]]
    /\ write_queue_head = 0
    /\ write_queue_tail = 1
    /\ write_queue_spinlock = NULL
    /\ write_queue_consume_spinlock = FALSE
    /\ rpc = [r \in Requests |-> "new"]
    /\ is_queue_empty = [r \in Requests |-> FALSE]
    /\ armed = "edge"
    /\ ready = TRUE
    /\ loop = "wait"
    /\ queued = 0
    /\ tpc = [t \in IoThreads |-> "idle"]
    /\ writable = TRUE
    /\ broken = FALSE
    /\ peer = [frames |-> 0, bytes |-> 0, intact |-> TRUE, again |-> FALSE]
    /\ order = <<>>

\* acm_connect: the queue is empty and may not be consumed; the socket is
\* registered edge-triggered, and writable at once.
Init ==
    /\ write_queue = [s \in 0..(max_write_queue_len - 1) |-> [req |-> NULL, write_index |-> 0]]
    /\ write_queue_head = 0
    /\ write_queue_tail = 1
    /\ write_queue_spinlock = NULL
    /\ write_queue_consume_spinlock = TRUE
    /\ rpc = [r \in Requests |-> "new"]
    /\ is_queue_empty = [r \in Requests |-> FALSE]
    /\ armed = "edge"
    /\ ready = TRUE
    /\ loop = "wait"
    /\ queued = 0
    /\ tpc = [t \in IoThreads |-> "idle"]
    /\ writable = TRUE
    /\ broken = FALSE
    /\ peer = [frames |-> 0, bytes |-> 0, intact |-> TRUE, again |-> FALSE]
    /\ order = <<>>

RequestStep(r, from, to) == rpc[r] = from /\ rpc' = [rpc EXCEPT ![r] = to]
ThreadStep(t, from, to) == tpc[t] = from /\ tpc' = [tpc EXCEPT ![t] = to]

\* acm_epoll_mod(EPOLLOUT): one shot; the kernel polls the socket at once.
epoll_mod == /\ armed' = "oneshot"
             /\ ready' = (writable \/ broken)
             /\ UNCHANGED loop
-----------------------------------------------------------------------------
(* acm_request *)

\* The environment: users that keep fewer tasks waiting than there are slots.
\* Nothing in acm_request ensures it.
Room == write_queue_tail - 1 - write_queue_head < max_write_queue_len

\* write_queue_spinlock is taken, the queue examined and a slot reserved.
\* Nothing is compared with max_write_queue_len.
Reserve(r) ==
    /\ Room
    /\ write_queue_spinlock = NULL
    /\ RequestStep(r, "new", "fill")
    /\ write_queue_spinlock' = r
    /\ is_queue_empty' = [is_queue_empty EXCEPT ![r] = Empty]
    /\ write_queue_tail' = write_queue_tail + 1
    /\ order' = Append(order, r)
    /\ UNCHANGED <<write_queue, write_queue_head, write_queue_consume_spinlock, epoll, io, socket>>

\* Mutant: every request releases the consume lock.
FillAlwaysUnlocks(r) ==
    /\ RequestStep(r, "fill", "unlock")
    /\ write_queue' = [write_queue EXCEPT ![Slot(write_queue_tail - 1)] = [req |-> r, write_index |-> 0]]
    /\ write_queue_spinlock' = NULL
    /\ UNCHANGED <<write_queue_head, write_queue_tail, write_queue_consume_spinlock, is_queue_empty,
                   epoll, io, socket, order>>

\* The task is filled in and write_queue_spinlock released.
Fill(r) ==
    /\ RequestStep(r, "fill", IF is_queue_empty[r] THEN "unlock" ELSE "done")
    /\ write_queue' = [write_queue EXCEPT ![Slot(write_queue_tail - 1)] = [req |-> r, write_index |-> 0]]
    /\ write_queue_spinlock' = NULL
    /\ UNCHANGED <<write_queue_head, write_queue_tail, write_queue_consume_spinlock, is_queue_empty,
                   epoll, io, socket, order>>

\* pthread_spin_unlock(&write_queue_consume_spinlock)
AllowConsume(r) ==
    /\ RequestStep(r, "unlock", "mod")
    /\ write_queue_consume_spinlock' = FALSE
    /\ UNCHANGED <<queue, is_queue_empty, epoll, io, socket, order>>

Register(r) ==
    /\ RequestStep(r, "mod", "done")
    /\ epoll_mod
    /\ UNCHANGED <<queue, write_queue_consume_spinlock, is_queue_empty, io, socket, order>>
-----------------------------------------------------------------------------
(* acm_event_loop on epoll_write_fd *)

\* epoll_wait returns.  EPOLLERR is skipped; a socket that is not writable any
\* more is not reported.
EpollWait ==
    /\ loop = "wait" /\ ready
    /\ ready' = FALSE
    /\ armed' = IF armed = "oneshot" /\ (writable \/ broken) THEN "off" ELSE armed
    /\ loop' = IF writable /\ ~broken THEN "event" ELSE "wait"
    /\ UNCHANGED <<queue, write_queue_consume_spinlock, requesters, io, socket, order>>

\* The trylock; the one that gets the lock has acm_io_do_write call the pool.
TryConsume ==
    /\ loop = "event"
    /\ loop' = "wait"
    /\ write_queue_consume_spinlock' = TRUE
    /\ queued' = IF write_queue_consume_spinlock THEN queued ELSE queued + 1
    /\ UNCHANGED <<queue, requesters, armed, ready, tpc, socket, order>>
-----------------------------------------------------------------------------
(* acm_io_write_thread *)

StartWrite(t) ==
    /\ queued > 0
    /\ queued' = queued - 1
    /\ ThreadStep(t, "idle", "check")
    /\ UNCHANGED <<queue, write_queue_consume_spinlock, requesters, epoll, socket, order>>

\* The emptiness test at the entry; an empty queue makes the thread return.
CheckEmpty(t) ==
    /\ ThreadStep(t, "check", IF Empty THEN "idle" ELSE "loop")
    /\ UNCHANGED <<queue, write_queue_consume_spinlock, requesters, epoll, queued, socket, order>>

Advance(n) == write_queue' = [write_queue EXCEPT ![Slot(write_queue_head + 1)].write_index = @ + n]
FrameSize(r) == HeadSize + DataSize[r]

\* n bytes of the task reach the peer, which cuts the stream into frames by
\* their data_size.  A byte that is not the next one of the next request is one
\* the peer cannot make sense of, nor of any that follows.
Deliver(n) ==
    LET expected == /\ order[peer.frames + 1] = Task.req
                    /\ peer.bytes = Task.write_index
        whole == peer.bytes + n = FrameSize(Task.req)
    IN  peer' = IF peer.intact /\ expected
                THEN [again |-> peer.again,
                      frames |-> IF whole THEN peer.frames + 1 ELSE peer.frames,
                      bytes |-> IF whole THEN 0 ELSE peer.bytes + n,
                      intact |-> TRUE]
                ELSE [peer EXCEPT !.intact = FALSE]
HeadLeft == HeadSize - Task.write_index
DataLeft == FrameSize(Task.req) - Task.write_index

\* A send that fails with another error than EAGAIN: the thread returns and
\* keeps the consume lock.
SendError(t) ==
    /\ broken
    /\ tpc[t] \in {"loop", "data"}
    /\ tpc' = [tpc EXCEPT ![t] = "idle"]
    /\ UNCHANGED <<queue, write_queue_consume_spinlock, requesters, epoll, queued, socket, order>>

\* send of the rest of the head, n bytes of it accepted.  A short count means
\* that the socket is full.
SendHead(t) ==
    /\ ~broken /\ writable
    /\ tpc[t] = "loop" /\ Task.write_index < HeadSize
    /\ \E n \in 1..HeadLeft :
          /\ Advance(n)
          /\ Deliver(n)
          /\ tpc' = [tpc EXCEPT ![t] = IF n = HeadLeft THEN "data" ELSE "release"]
          /\ writable' \in IF n < HeadLeft THEN {FALSE} ELSE BOOLEAN
    /\ UNCHANGED <<write_queue_head, write_queue_tail, write_queue_spinlock, write_queue_consume_spinlock,
                   requesters, epoll, queued, broken, order>>

\* send of the head meets EAGAIN.
HeadAgain(t) ==
    /\ ~broken /\ ~writable
    /\ Task.write_index < HeadSize
    /\ ThreadStep(t, "loop", "release")
    /\ UNCHANGED <<queue, write_queue_consume_spinlock, requesters, epoll, queued, socket, order>>

AtData(t) == tpc[t] = "data" \/ (tpc[t] = "loop" /\ Task.write_index >= HeadSize)

\* Mutant: a short count is taken for the whole task.
SendDataOnce(t) ==
    /\ ~broken /\ writable
    /\ AtData(t)
    /\ \E n \in 1..DataLeft :
          /\ Advance(n)
          /\ Deliver(n)
          /\ tpc' = [tpc EXCEPT ![t] = "pop"]
          /\ writable' \in IF n < DataLeft THEN {FALSE} ELSE BOOLEAN
    /\ UNCHANGED <<write_queue_head, write_queue_tail, write_queue_spinlock, write_queue_consume_spinlock,
                   requesters, epoll, queued, broken, order>>

\* send of the rest of the data, n bytes of it accepted.
SendData(t) ==
    /\ ~broken /\ writable
    /\ AtData(t)
    /\ \E n \in 1..DataLeft :
          /\ Advance(n)
          /\ Deliver(n)
          /\ tpc' = [tpc EXCEPT ![t] = IF n = DataLeft THEN "pop" ELSE "release"]
          /\ writable' \in IF n < DataLeft THEN {FALSE} ELSE BOOLEAN
    /\ UNCHANGED <<write_queue_head, write_queue_tail, write_queue_spinlock, write_queue_consume_spinlock,
                   requesters, epoll, queued, broken, order>>

\* send of the data meets EAGAIN.  There is no break here: the -1 that send
\* returned is added to write_index, and the task is then found incomplete.  The
\* peer will get a byte twice, and what it makes of the stream is not followed.
DataAgain(t) ==
    /\ ~broken /\ ~writable
    /\ AtData(t)
    /\ tpc' = [tpc EXCEPT ![t] = "release"]
    /\ Advance(-1)
    /\ peer' = [frames |-> 0, bytes |-> 0, intact |-> FALSE, again |-> TRUE]
    /\ UNCHANGED <<write_queue_head, write_queue_tail, write_queue_spinlock, write_queue_consume_spinlock,
                   requesters, epoll, queued, writable, broken, order>>

\* The task is done: the head moves on under write_queue_spinlock.  The thread
\* goes on, or finds the queue empty and returns with the consume lock.
Pop(t) ==
    /\ write_queue_spinlock = NULL
    /\ write_queue_head' = write_queue_head + 1
    /\ ThreadStep(t, "pop", IF write_queue_head' + 1 = write_queue_tail THEN "idle" ELSE "loop")
    /\ UNCHANGED <<write_queue, write_queue_tail, write_queue_spinlock, write_queue_consume_spinlock,
                   requesters, epoll, queued, socket, order>>

\* Mutant: the thread leaves a full socket with the consume lock.
ReleaseForgotten(t) ==
    /\ ThreadStep(t, "release", "mod")
    /\ UNCHANGED <<queue, write_queue_consume_spinlock, requesters, epoll, queued, socket, order>>

\* The socket is full: let another thread consume, ...
Release(t) ==
    /\ ThreadStep(t, "release", "mod")
    /\ write_queue_consume_spinlock' = FALSE
    /\ UNCHANGED <<queue, requesters, epoll, queued, socket, order>>

\* ... as soon as the socket is writable again.
Rearm(t) ==
    /\ ThreadStep(t, "mod", "idle")
    /\ epoll_mod
    /\ UNCHANGED <<queue, write_queue_consume_spinlock, requesters, queued, socket, order>>
-----------------------------------------------------------------------------
(* The kernel and the peer *)

\* The peer reads: the socket becomes writable, an edge for epoll.
Drain ==
    /\ ~writable /\ ~broken
    /\ writable' = TRUE
    /\ ready' = (ready \/ armed # "off")
    /\ UNCHANGED <<queue, write_queue_consume_spinlock, requesters, armed, loop, io, broken, peer, order>>

\* The connection is reset: EPOLLERR.
Break ==
    /\ MayBreak /\ ~broken
    /\ broken' = TRUE
    /\ ready' = (ready \/ armed # "off")
    /\ UNCHANGED <<queue, write_queue_consume_spinlock, requesters, armed, loop, io, writable, peer, order>>
-----------------------------------------------------------------------------
RequestStepOf(r) == Reserve(r) \/ Fill(r) \/ AllowConsume(r) \/ Register(r)
EventLoop == EpollWait \/ TryConsume
ThreadStepOf(t) ==
    \/ StartWrite(t) \/ CheckEmpty(t) \/ SendError(t) \/ HeadAgain(t) \/ DataAgain(t)
    \/ SendHead(t) \/ SendData(t) \/ Pop(t) \/ Release(t) \/ Rearm(t)

Next == \/ \E r \in Requests : RequestStepOf(r)
        \/ EventLoop
        \/ \E t \in IoThreads : ThreadStepOf(t)
        \/ Drain \/ Break

Spec == Init /\ [][Next]_vars

(* Threads that can go on do; a peer that is alive reads what it is sent.    *)
Fairness == /\ \A r \in Requests : WF_vars(RequestStepOf(r))
            /\ WF_vars(EventLoop)
            /\ \A t \in IoThreads : WF_vars(ThreadStepOf(t))
            /\ WF_vars(Drain)
FairSpec == Spec /\ Fairness
-----------------------------------------------------------------------------
(* Properties *)

TypeOK ==
    /\ write_queue \in [0..(max_write_queue_len - 1) -> [req : Requests \cup {NULL}, write_index : Nat]]
    /\ write_queue_head \in Nat
    /\ write_queue_tail \in Nat
    /\ write_queue_spinlock \in Requests \cup {NULL}
    /\ write_queue_consume_spinlock \in BOOLEAN
    /\ rpc \in [Requests -> {"new", "fill", "unlock", "mod", "done"}]
    /\ is_queue_empty \in [Requests -> BOOLEAN]
    /\ armed \in {"edge", "oneshot", "off"}
    /\ ready \in BOOLEAN
    /\ loop \in {"wait", "event"}
    /\ queued \in Nat
    /\ tpc \in [IoThreads -> {"idle", "check", "loop", "data", "pop", "release", "mod"}]
    /\ writable \in BOOLEAN
    /\ broken \in BOOLEAN
    /\ peer \in [frames : Nat, bytes : Nat, intact : BOOLEAN, again : BOOLEAN]
    /\ order \in Seq(Requests)

\* The consume lock is free only while there is something to consume: the
\* thread that empties the queue keeps it, the request that fills an empty
\* queue releases it, and the two never overlap.
FreeMeansNonEmpty == ~write_queue_consume_spinlock => ~Empty

\* The threads between the trylock that succeeded and the release of the lock.
Consumers == {t \in IoThreads : tpc[t] \in {"check", "loop", "data", "pop", "release"}}

\* Only one thread consumes the queue (agent-client-manager.h: "only one thread
\* consumes"), although the lock is released by threads that never took it.
SingleConsumer == queued + Cardinality(Consumers) <= 1

\* The write thread starts with a non-empty queue, and never sends a task that
\* its request has not filled in: "the write queue must not be empty here".
CalledWithTask ==
    \A t \in Consumers :
        /\ ~Empty
        /\ \A r \in Requests : rpc[r] = "fill" => write_queue_head + 1 < write_queue_tail - 1

\* What the peer receives is the frames of the requests, whole, one after the
\* other in queue order: no byte of a frame is lost, repeated or interleaved
\* with another frame, however often send comes back short, as long as no send
\* of data has met a full socket (DataAgain spoils what follows).
StreamIntact ==
    /\ TypeOK
    /\ ~peer.again =>
          /\ peer.intact
          /\ peer.frames = write_queue_head + Cardinality({t \in IoThreads : tpc[t] = "pop"})

\* On a connection that stays up, and in step, everything that is queued has
\* been sent to its last byte at some later moment, whichever thread is left with
\* the lock (the requests of an instance are finitely many).
EventuallySent == []<>(broken \/ peer.again \/ peer.frames = Len(order))
=============================================================================
