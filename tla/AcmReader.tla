----------------------------- MODULE AcmReader -----------------------------
(***************************************************************************)
(* The read side of one acm_channel of agent-client-manager.c.  The event  *)
(* loop of epoll_read_fd takes reading_spinlock with a trylock and hands   *)
(* acm_io_read_thread to the io thread pool; the read thread cuts the      *)
(* stream into responses, a head of fixed size and then data_size bytes,   *)
(* and keeps what it has of an incomplete one in the channel; when the     *)
(* socket has no more it releases the lock, which another thread took, and *)
(* registers EPOLLIN again.                                                *)
(*                                                                         *)
(* The peer sends the responses 1..Len(Start)-1; a byte is its position in *)
(* that stream.  What a complete response does is in AcmRequestMap.        *)
(***************************************************************************)
EXTENDS Integers, Sequences, FiniteSets

CONSTANTS
    IoThreads,  \* the threads of tdpl_io
    Start,      \* where each response starts in the stream, and where the last one ends
    HeadSize,   \* ACM_MSG_HEAD_SIZE
    MayClose    \* whether the peer may close the connection

\* A response is a head and its data, of which there may be none.
ASSUME SizesAssumption ==
    /\ HeadSize \in Nat \ {0}
    /\ Start \in Seq(Nat) /\ Len(Start) > 0 /\ Start[1] = 0
    /\ \A j, k \in 1..Len(Start) : j < k => Start[j] + HeadSize <= Start[k]
ASSUME CloseAssumption == MayClose \in BOOLEAN

VARIABLES
    \* the socket
    arrived,           \* bytes that have reached the host
    consumed,          \* bytes that recv has returned
    closed,            \* the peer has closed
    \* struct acm_channel
    is_head, head_read_index, data_read_index,
    recv_msg,          \* [from, size]: where the response began, its data_size
    reading_spinlock,
    \* epoll_read_fd and its event loop
    armed,             \* "edge", "oneshot", "off" (used up), "deleted"
    ready,             \* the socket is on epoll's ready list
    loop,              \* "wait", "event": EPOLLIN in hand
    \* tdpl_io
    queued, tpc,
    dispatched         \* history: where the responses that were passed on began

socket == <<arrived, consumed, closed>>
decoder == <<is_head, head_read_index, data_read_index, recv_msg>>
epoll == <<armed, ready, loop>>
io == <<queued, tpc>>
vars == <<socket, decoder, reading_spinlock, epoll, io, dispatched>>

\* The stream: its responses, the data_size of each, and its length.
Responses == 1..(Len(Start) - 1)
DataSize(k) == Start[k + 1] - Start[k] - HeadSize
Total == Start[Len(Start)]

\* acm_bytes2int of a head that was read from position p.  Bytes that are not
\* the head of a response may say any size; 1 stands for it.
SizeAt(p) == IF \E k \in Responses : Start[k] = p
             THEN DataSize(CHOOSE k \in Responses : Start[k] = p)
             ELSE 1

Available == arrived - consumed
Least(a, b) == IF a < b THEN a ELSE b

\* acm_connect
Init ==
    /\ arrived = 0 /\ consumed = 0 /\ closed = FALSE
    /\ is_head = TRUE /\ head_read_index = 0 /\ data_read_index = 0
    /\ recv_msg = [from |-> 0, size |-> 0]
    /\ reading_spinlock = FALSE
    /\ armed = "edge" /\ ready = FALSE /\ loop = "wait"
    /\ queued = 0 /\ tpc = [t \in IoThreads |-> "idle"]
    /\ dispatched = <<>>

ThreadStep(t, from, to) == tpc[t] = from /\ tpc' = [tpc EXCEPT ![t] = to]
-----------------------------------------------------------------------------
(* acm_event_loop on epoll_read_fd *)

\* epoll_wait returns.  EPOLLRDHUP, which comes with EPOLLIN, makes the loop
\* remove the socket and skip the rest of the event.
EpollWait ==
    /\ loop = "wait" /\ ready
    /\ ready' = FALSE
    /\ armed' = IF closed THEN "deleted"
                ELSE IF armed = "oneshot" /\ Available > 0 THEN "off" ELSE armed
    /\ loop' = IF ~closed /\ Available > 0 THEN "event" ELSE "wait"
    /\ UNCHANGED <<socket, decoder, reading_spinlock, io, dispatched>>

\* Mutant: the lock is not tried.
TryReadAlways ==
    /\ loop = "event"
    /\ loop' = "wait"
    /\ reading_spinlock' = TRUE
    /\ queued' = queued + 1
    /\ UNCHANGED <<socket, decoder, armed, ready, tpc, dispatched>>

\* The trylock; the one that gets the lock has acm_io_do_read call the pool.
TryRead ==
    /\ loop = "event"
    /\ loop' = "wait"
    /\ reading_spinlock' = TRUE
    /\ queued' = IF reading_spinlock THEN queued ELSE queued + 1
    /\ UNCHANGED <<socket, decoder, armed, ready, tpc, dispatched>>
-----------------------------------------------------------------------------
(* acm_io_read_thread *)

StartRead(t) ==
    /\ queued > 0
    /\ queued' = queued - 1
    /\ ThreadStep(t, "idle", "recv")
    /\ UNCHANGED <<socket, decoder, reading_spinlock, epoll, dispatched>>

\* Mutant: what was already read of the head is forgotten.
RecvHeadAfresh(t) ==
    LET n == Least(Available, HeadSize)
        complete == n = HeadSize
    IN
    /\ is_head
    /\ ThreadStep(t, "recv", IF complete THEN "data" ELSE "release")
    /\ consumed' = consumed + n
    /\ head_read_index' = n
    /\ IF complete
       THEN /\ is_head' = FALSE
            /\ recv_msg' = [from |-> consumed' - HeadSize, size |-> SizeAt(consumed' - HeadSize)]
            /\ data_read_index' = 0
       ELSE UNCHANGED <<is_head, recv_msg, data_read_index>>
    /\ UNCHANGED <<arrived, closed, reading_spinlock, epoll, queued, dispatched>>

\* recv of the rest of the head: EAGAIN, end of file, a part of it, or all of
\* it, and then the data is awaited.
RecvHead(t) ==
    LET n == Least(Available, HeadSize - head_read_index)
        complete == head_read_index + n = HeadSize
    IN
    /\ is_head
    /\ ThreadStep(t, "recv", IF complete THEN "data" ELSE "release")
    /\ consumed' = consumed + n
    /\ head_read_index' = head_read_index + n
    /\ IF complete
       THEN /\ is_head' = FALSE
            /\ recv_msg' = [from |-> consumed' - HeadSize, size |-> SizeAt(consumed' - HeadSize)]
            /\ data_read_index' = 0
       ELSE UNCHANGED <<is_head, recv_msg, data_read_index>>
    /\ UNCHANGED <<arrived, closed, reading_spinlock, epoll, queued, dispatched>>

\* recv of the rest of the data, at once after the head or in a later event.  A
\* complete response is passed on and the decoder starts again.  To receive 0
\* bytes gives EAGAIN on an empty socket: a response without data waits for a byte
\* behind it, or the end.
RecvData(t) ==
    LET n == Least(Available, recv_msg.size - data_read_index)
        complete == /\ data_read_index + n = recv_msg.size
                    /\ data_read_index = recv_msg.size => Available > 0 \/ closed
    IN
    /\ tpc[t] = "data" \/ (tpc[t] = "recv" /\ ~is_head)
    /\ tpc' = [tpc EXCEPT ![t] = IF complete THEN "recv" ELSE "release"]
    /\ consumed' = consumed + n
    /\ data_read_index' = data_read_index + n
    /\ IF complete
       THEN /\ dispatched' = Append(dispatched, recv_msg.from)
            /\ is_head' = TRUE
            /\ head_read_index' = 0
       ELSE UNCHANGED <<dispatched, is_head, head_read_index>>
    /\ UNCHANGED <<arrived, closed, recv_msg, reading_spinlock, epoll, queued>>

\* Mutant: the lock is kept.
ReleaseForgotten(t) ==
    /\ ThreadStep(t, "release", "mod")
    /\ UNCHANGED <<socket, decoder, reading_spinlock, epoll, queued, dispatched>>

Release(t) ==
    /\ ThreadStep(t, "release", "mod")
    /\ reading_spinlock' = FALSE
    /\ UNCHANGED <<socket, decoder, epoll, queued, dispatched>>

\* acm_epoll_mod; it fails when the event loop has removed the socket.
Rearm(t) ==
    /\ ThreadStep(t, "mod", "idle")
    /\ armed' = IF armed = "deleted" THEN armed ELSE "oneshot"
    /\ ready' = (armed # "deleted" /\ (Available > 0 \/ closed))
    /\ UNCHANGED <<socket, decoder, reading_spinlock, loop, queued, dispatched>>
-----------------------------------------------------------------------------
(* The peer and the kernel *)

Edge == ready' = (ready \/ armed \in {"edge", "oneshot"})

\* Bytes arrive, in pieces of any size.
Arrive(n) ==
    /\ ~closed /\ arrived + n <= Total
    /\ arrived' = arrived + n
    /\ Edge
    /\ UNCHANGED <<consumed, closed, decoder, reading_spinlock, armed, loop, io, dispatched>>

Close ==
    /\ MayClose /\ ~closed
    /\ closed' = TRUE
    /\ Edge
    /\ UNCHANGED <<arrived, consumed, decoder, reading_spinlock, armed, loop, io, dispatched>>
-----------------------------------------------------------------------------
EventLoop == EpollWait \/ TryRead
ThreadStepOf(t) == StartRead(t) \/ RecvHead(t) \/ RecvData(t) \/ Release(t) \/ Rearm(t)

Next == \/ EventLoop
        \/ \E t \in IoThreads : ThreadStepOf(t)
        \/ \E n \in 1..Total : Arrive(n)
        \/ Close

Spec == Init /\ [][Next]_vars

(* Threads that can go on do.                                                *)
Fairness == WF_vars(EventLoop) /\ \A t \in IoThreads : WF_vars(ThreadStepOf(t))
FairSpec == Spec /\ Fairness
-----------------------------------------------------------------------------
(* Properties *)

TypeOK ==
    /\ arrived \in 0..Total /\ consumed \in 0..arrived /\ closed \in BOOLEAN
    /\ is_head \in BOOLEAN /\ head_read_index \in 0..HeadSize /\ data_read_index \in Nat
    /\ recv_msg \in [from : Nat, size : Nat]
    /\ reading_spinlock \in BOOLEAN
    /\ armed \in {"edge", "oneshot", "off", "deleted"} /\ ready \in BOOLEAN
    /\ loop \in {"wait", "event"}
    /\ queued \in Nat
    /\ tpc \in [IoThreads -> {"idle", "recv", "data", "release", "mod"}]
    /\ dispatched \in Seq(Nat)

\* The responses are passed on whole and in order, whatever the pieces in which
\* they arrive and wherever a read thread had to stop.
CutRight == TypeOK /\ \A k \in 1..Len(dispatched) : k \in Responses /\ dispatched[k] = Start[k]

\* The threads between the trylock that succeeded and the release of the lock.
Readers == {t \in IoThreads : tpc[t] \in {"recv", "data", "release"}}

\* Only one thread decodes a channel, although the thread that takes the lock
\* is never the one that releases it.
SingleReader == queued + Cardinality(Readers) <= 1

\* A response that has arrived whole is passed on, unless the peer closes; one
\* without data when anything has come after it.
AllDispatched ==
    \A k \in Responses :
        arrived >= Start[k + 1] + (IF DataSize(k) = 0 THEN 1 ELSE 0) ~> (closed \/ Len(dispatched) >= k)
=============================================================================
