----------------------------- MODULE HttpServer -----------------------------
(***************************************************************************)
(* The start of the consumer agent (cagent_start, hs_start) and the way of *)
(* a connection from accept to its epoll, over the table of new            *)
(* connections of http-server.c.  The event loops and the accept loop live *)
(* on threads of the io pool for ever; the threads that are left register  *)
(* the connections (and, in HttpChannel, read and write them).  The pool   *)
(* is the FIFO executor of TaskExecutor; tdpl_call_func does not fail      *)
(* (ThreadPoolProofs, FullTestNeverTrue).  cagent_start looks at no result  *)
(* of the parts it starts: it goes on without those that failed.           *)
(***************************************************************************)
EXTENDS Integers, Sequences, FiniteSets, SequencesExt

CONSTANTS
    io_thread_num, event_loop_num,
    new_connection_map_size,   \* 20 * max_connection
    Conns,                     \* connections that clients may make
    MayFail,                   \* stages of the start, steps of a connection that may fail
    NULL

ASSUME NumsAssumption ==
    /\ {io_thread_num, event_loop_num, new_connection_map_size} \subseteq Nat \ {0}
    /\ NULL \notin Conns

VARIABLES
    stage,           \* of cagent_start and hs_start; "up", "failed", "crashed" at the end
    managers,        \* "acm", "sd": those whose handle is not NULL
    handle,          \* hs_handle: "none", "alive", "freed"
    epolls,          \* i of hs_start: epolls created, then event loops called
    queue,           \* calls that wait in tdpl_io
    running,         \* calls that a thread of tdpl_io is in
    map, connection_id,
    conn,            \* connection -> where it is
    epoll_fd         \* connection -> the epoll it is registered with

clients == <<conn, epoll_fd>>
boot == <<stage, managers, handle, epolls>>
vars == <<boot, queue, running, map, connection_id, clients>>

Entries == 0..(new_connection_map_size - 1)
Epolls == 0..(event_loop_num - 1)

\* Mutant: no threads for the event loops.
PoolSizeNoLoops == io_thread_num + 1

PoolSize == io_thread_num + event_loop_num + 1

Call(func, arg) == [func |-> func, arg |-> arg, at |-> "start", fd |-> NULL]
Listening == \E c \in running : c.func = "hs_accept_thread"

\* The table has more than 128K, which malloc gives zeroed.
Init ==
    /\ stage = "acm" /\ managers = {} /\ handle = "none" /\ epolls = 0
    /\ queue = <<>> /\ running = {}
    /\ map = [e \in Entries |-> [p_handle |-> FALSE, socket_fd |-> NULL]]
    /\ connection_id = 0
    /\ conn = [c \in Conns |-> "none"] /\ epoll_fd = [c \in Conns |-> NULL]
-----------------------------------------------------------------------------
(* Start *)

acm_start ==
    /\ stage = "acm" /\ stage' = "sd"
    /\ \/ managers' = managers \cup {"acm"}
       \/ "acm" \in MayFail /\ UNCHANGED managers
    /\ UNCHANGED <<handle, epolls, queue, running, map, connection_id, clients>>

\* Without an argument there is no URL of etcd, and the handle stays NULL.
sd_init ==
    /\ stage = "sd" /\ stage' = "pools"
    /\ \/ managers' = managers \cup {"sd"}
       \/ "sd" \in MayFail /\ UNCHANGED managers
    /\ UNCHANGED <<handle, epolls, queue, running, map, connection_id, clients>>

\* The thread pools and the memory pool of hs_start.
CreatePools ==
    /\ stage = "pools" /\ stage' = "bind"
    /\ handle' = "alive"
    /\ UNCHANGED <<managers, epolls, queue, running, map, connection_id, clients>>

hs_bind ==
    /\ stage = "bind" /\ stage' = "epolls"
    /\ UNCHANGED <<managers, handle, epolls, queue, running, map, connection_id, clients>>

EpollCreate ==
    /\ stage = "epolls"
    /\ IF epolls < event_loop_num THEN epolls' = epolls + 1 /\ UNCHANGED stage
       ELSE stage' = "loops" /\ epolls' = 0
    /\ UNCHANGED <<managers, handle, queue, running, map, connection_id, clients>>

\* Mutant: the loop of an epoll is started as soon as it is created.
StartLoopsEarly ==
    /\ stage \in {"epolls", "loops"}
    /\ IF epolls < event_loop_num
       THEN /\ queue' = Append(queue, Call("hs_event_loop", epolls))
            /\ epolls' = epolls + 1 /\ UNCHANGED stage
       ELSE stage' = "accept" /\ UNCHANGED <<queue, epolls>>
    /\ UNCHANGED <<managers, handle, running, map, connection_id, clients>>

StartLoops ==
    /\ stage = "loops"
    /\ IF epolls < event_loop_num
       THEN /\ queue' = Append(queue, Call("hs_event_loop", epolls))
            /\ epolls' = epolls + 1 /\ UNCHANGED stage
       ELSE stage' = "accept" /\ UNCHANGED <<queue, epolls>>
    /\ UNCHANGED <<managers, handle, running, map, connection_id, clients>>

StartAccept ==
    /\ stage = "accept" /\ stage' = "up"
    /\ queue' = Append(queue, Call("hs_accept_thread", NULL))
    /\ UNCHANGED <<managers, handle, epolls, running, map, connection_id, clients>>

\* Any error frees the handle; cagent_start does not look at the result.
StartFails ==
    /\ stage \in MayFail \cap {"pools", "bind", "epolls"}
    /\ stage' = "failed" /\ handle' = "freed"
    /\ UNCHANGED <<managers, epolls, queue, running, map, connection_id, clients>>
-----------------------------------------------------------------------------
(* Threads of the io pool *)

\* A free thread takes the oldest call.
Fetch ==
    /\ queue # <<>> /\ Cardinality(running) < PoolSize
    /\ running' = running \cup {Head(queue)}
    /\ queue' = Tail(queue)
    /\ UNCHANGED <<boot, map, connection_id, clients>>

Moves(c, to) == running' = (running \ {c}) \cup {to}

Connect(k) ==
    /\ Listening /\ conn[k] = "none"
    /\ conn' = [conn EXCEPT ![k] = "waiting"]
    /\ UNCHANGED <<boot, queue, running, map, connection_id, epoll_fd>>

Accept(k) ==
    \E c \in running :
        /\ c.func = "hs_accept_thread" /\ c.at = "start"
        /\ conn[k] = "waiting"
        /\ conn' = [conn EXCEPT ![k] = "accepted"]
        /\ Moves(c, [c EXCEPT !.at = "place", !.fd = k])
        /\ UNCHANGED <<boot, queue, map, connection_id, epoll_fd>>

\* Mutant: an entry that is in use is taken.
PlaceOver ==
    \E c \in running :
        LET e == connection_id % new_connection_map_size IN
        /\ c.func = "hs_accept_thread" /\ c.at = "place"
        /\ connection_id' = connection_id + 1
        /\ map' = [map EXCEPT ![e] = [p_handle |-> TRUE, socket_fd |-> c.fd]]
        /\ Moves(c, [c EXCEPT !.at = "call", !.arg = e])
        /\ UNCHANGED <<boot, queue, clients>>

\* The next entry; one that is still in use refuses the connection.
Place ==
    \E c \in running :
        LET e == connection_id % new_connection_map_size IN
        /\ c.func = "hs_accept_thread" /\ c.at = "place"
        /\ connection_id' = connection_id + 1
        /\ IF map[e].p_handle
           THEN /\ conn' = [conn EXCEPT ![c.fd] = "closed"]
                /\ Moves(c, Call(c.func, NULL))
                /\ UNCHANGED map
           ELSE /\ map' = [map EXCEPT ![e] = [p_handle |-> TRUE, socket_fd |-> c.fd]]
                /\ Moves(c, [c EXCEPT !.at = "call", !.arg = e])
                /\ UNCHANGED conn
        /\ UNCHANGED <<boot, queue, epoll_fd>>

CallNew ==
    \E c \in running :
        /\ c.func = "hs_accept_thread" /\ c.at = "call"
        /\ queue' = Append(queue, Call("hs_new_connection", c.arg))
        /\ Moves(c, Call(c.func, NULL))
        /\ UNCHANGED <<boot, map, connection_id, clients>>

\* hs_new_connection reads its entry, and takes memory for the channel.
New(e) ==
    \E c \in running :
        /\ c.func = "hs_new_connection" /\ c.arg = e /\ c.at = "start"
        /\ Moves(c, [c EXCEPT !.at = "register", !.fd = map[e].socket_fd])
        /\ UNCHANGED <<boot, queue, map, connection_id, clients>>

\* The channel is set up and joins an epoll.  epoll_i is counted without a
\* lock: two threads may read the same value or lose a count, so it may be any.
Register(e) ==
    \E c \in running, i \in Epolls :
        /\ c.func = "hs_new_connection" /\ c.arg = e /\ c.at = "register"
        /\ conn' = [conn EXCEPT ![c.fd] = "registered"]
        /\ epoll_fd' = [epoll_fd EXCEPT ![c.fd] = i]
        /\ Moves(c, [c EXCEPT !.at = "clear"])
        /\ UNCHANGED <<boot, queue, map, connection_id>>

\* Neither mmpl_getmem nor epoll_ctl closes the socket when it fails.
NewFails(e) ==
    \E c \in running :
        /\ c.func = "hs_new_connection" /\ c.arg = e
        /\ c.at = "register" /\ c.at \in MayFail
        /\ conn' = [conn EXCEPT ![c.fd] = "dropped"]
        /\ Moves(c, [c EXCEPT !.at = "clear"])
        /\ UNCHANGED <<boot, queue, map, connection_id, epoll_fd>>

Clear(e) ==
    \E c \in running :
        /\ c.func = "hs_new_connection" /\ c.arg = e /\ c.at = "clear"
        /\ map' = [map EXCEPT ![e].p_handle = FALSE]
        /\ running' = running \ {c}
        /\ UNCHANGED <<boot, queue, connection_id, clients>>

\* The first request is looked up through a NULL handle: the process dies, and
\* the system closes its sockets.
LookUpNull(k) ==
    /\ conn[k] = "registered" /\ "sd" \notin managers
    /\ stage' = "crashed" /\ queue' = <<>> /\ running' = {}
    /\ map' = [e \in Entries |-> [p_handle |-> FALSE, socket_fd |-> NULL]]
    /\ conn' = [c \in Conns |-> IF conn[c] = "none" THEN "none" ELSE "closed"]
    /\ UNCHANGED <<managers, handle, epolls, connection_id, epoll_fd>>
-----------------------------------------------------------------------------
Start == acm_start \/ sd_init \/ CreatePools \/ hs_bind \/ EpollCreate
         \/ StartLoops \/ StartAccept \/ StartFails
hs_accept_thread == Place \/ CallNew \/ \E k \in Conns : Accept(k)
hs_new_connection(e) == New(e) \/ Register(e) \/ NewFails(e) \/ Clear(e)

Next == \/ Start \/ Fetch \/ hs_accept_thread
        \/ \E k \in Conns : Connect(k) \/ LookUpNull(k)
        \/ \E e \in Entries : hs_new_connection(e)

Spec == Init /\ [][Next]_vars

(* Threads of the pool run.                                                  *)
FairSpec ==
    /\ Spec
    /\ WF_vars(Start) /\ WF_vars(Fetch) /\ WF_vars(hs_accept_thread)
    /\ \A e \in Entries : WF_vars(hs_new_connection(e))
-----------------------------------------------------------------------------
(* Properties *)

TypeOK ==
    /\ stage \in {"acm", "sd", "pools", "bind", "epolls", "loops", "accept", "up", "failed",
                 "crashed"}
    /\ managers \subseteq {"acm", "sd"} /\ handle \in {"none", "alive", "freed"}
    /\ epolls \in 0..event_loop_num
    /\ \A c \in running \cup ToSet(queue) :
          /\ c.func \in {"hs_event_loop", "hs_accept_thread", "hs_new_connection"}
          /\ c.at \in {"start", "place", "call", "register", "clear"}
          /\ c.fd \in Conns \cup {NULL}
    /\ map \in [Entries -> [p_handle : BOOLEAN, socket_fd : Conns \cup {NULL}]]
    /\ connection_id \in Nat
    /\ conn \in [Conns -> {"none", "waiting", "accepted", "registered", "closed", "dropped"}]
    /\ epoll_fd \in [Conns -> Epolls \cup {NULL}]

\* Calls of hs_new_connection that have not read their entry yet.
Unread == {c \in running \cup ToSet(queue) : c.func = "hs_new_connection" /\ c.at = "start"}

\* A connection that was accepted is in one pair of hands: the accept thread's,
\* a call's that waits with its entry, or a thread's that registers it.  An entry
\* is in use exactly while a call for it waits or runs: it is neither given away
\* twice nor lost after an error.
OneHolder ==
    /\ TypeOK
    /\ \A k \in Conns : conn[k] = "accepted" =>
          Cardinality({c \in Unread : map[c.arg].socket_fd = k}
                      \cup {c \in running : c.fd = k /\ c.at # "clear"}) = 1
    /\ \A e \in Entries :
          map[e].p_handle <=>
              \E c \in running \cup ToSet(queue) :
                  /\ c.arg = e
                  /\ c.func = "hs_new_connection" \/ (c.func = "hs_accept_thread" /\ c.at = "call")

\* Connections are taken when the event loop of every epoll has a thread (the
\* loops were called before), so one that is registered with an epoll is served by
\* the loop of that epoll.  When hs_start fails and frees the handle no thread has
\* a pointer into it.  That the agent manager and the discovery were started is
\* not known: cagent_start does not ask.
ReadyToServe ==
    /\ Listening => \A i \in Epolls : Call("hs_event_loop", i) \in running
    /\ \A k \in Conns :
          conn[k] = "registered" => Call("hs_event_loop", epoll_fd[k]) \in running
    /\ handle = "freed" => queue = <<>> /\ running = {}

\* A client that connects is served, refused by a full table or met an error:
\* loops that never return leave a thread to register it.
EverySettled ==
    \A k \in Conns : conn[k] = "waiting" ~> conn[k] \notin {"waiting", "accepted"}
=============================================================================
