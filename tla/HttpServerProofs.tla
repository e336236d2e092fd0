-------------------------- MODULE HttpServerProofs --------------------------
(***************************************************************************)
(* Proofs about the start of the consumer agent and the table of new       *)
(* connections, for any numbers of threads, event loops, entries and       *)
(* connections.                                                            *)
(*                                                                         *)
(* No call of the io pool is there twice.  The call of the accept loop is  *)
(* queued behind those of the event loops and the pool is first in, first  *)
(* out, so they have threads when it gets one.  An entry that is in use is *)
(* in the hands of one call, and so is a connection that was accepted.     *)
(***************************************************************************)
EXTENDS HttpServer, FiniteSetTheorems, TLAPS

USE DEF clients, boot
-----------------------------------------------------------------------------
(* The inductive invariant *)

Calls == running \cup ToSet(queue)
CallSet == [func : {"hs_event_loop", "hs_accept_thread", "hs_new_connection"},
            arg : Entries \cup Epolls \cup {NULL},
            at : {"start", "place", "call", "register", "clear"},
            fd : Conns \cup {NULL}]

\* The call has the entry: it is to register its connection, or the accept loop
\* has just filled it in.
Holds(c, e) ==
    /\ c.arg = e
    /\ c.func = "hs_new_connection" \/ (c.func = "hs_accept_thread" /\ c.at = "call")

\* The call has the connection: in its entry, or in hand.
Has(c, k) ==
    \/ c.func = "hs_new_connection" /\ c.at = "start" /\ map[c.arg].socket_fd = k
    \/ c.at \in {"place", "call", "register"} /\ c.fd = k

CallsInv ==
    /\ queue \in Seq(CallSet) /\ running \subseteq CallSet
    /\ \A p \in DOMAIN queue : queue[p].at = "start"
    /\ \A c \in Calls :
          /\ c.at = "start" <=> c.fd = NULL
          /\ c.func = "hs_event_loop" => c.at = "start"
          /\ c.func = "hs_accept_thread" => c.at \in {"start", "place", "call"}
          /\ c.func = "hs_new_connection" => c.at \in {"start", "register", "clear"}
          /\ c.func = "hs_new_connection" => c.arg \in Entries
          /\ c.func = "hs_new_connection" /\ c.at = "start" => map[c.arg].socket_fd \in Conns
          /\ c.func = "hs_accept_thread" /\ c.at = "call" =>
                c.arg \in Entries /\ map[c.arg].socket_fd = c.fd

\* No call is in two places of the queue, or in the queue and with a thread, and
\* there is one accept loop.
OnceInv ==
    /\ \A p, q \in DOMAIN queue : queue[p] = queue[q] => p = q
    /\ \A p \in DOMAIN queue : queue[p] \notin running
    /\ \A c, d \in Calls : c.func = "hs_accept_thread" /\ d.func = "hs_accept_thread" => c = d

EntryInv ==
    \A e \in Entries :
        /\ \A c, d \in Calls : Holds(c, e) /\ Holds(d, e) => c = d
        /\ map[e].p_handle = TRUE <=> \E c \in Calls : Holds(c, e)

ConnInv ==
    \A k \in Conns :
        /\ \A c, d \in Calls : Has(c, k) /\ Has(d, k) => c = d
        /\ conn[k] = "accepted" <=> \E c \in Calls : Has(c, k)

\* The start: what is called at each stage, and in which order.
LoopCall(i) == Call("hs_event_loop", i)
BootInv ==
    /\ handle = "freed" => stage \in {"failed", "crashed"}
    /\ stage \notin {"loops", "accept", "up"} => queue = <<>> /\ running = {}
    /\ \A c \in Calls : c.func = "hs_event_loop" => c.arg \in Epolls
    /\ stage = "loops" => \A c \in Calls : c.func = "hs_event_loop" /\ c.arg < epolls
    /\ stage = "loops" => \A i \in Epolls : i < epolls => LoopCall(i) \in Calls
    /\ stage \in {"accept", "up"} => \A i \in Epolls : LoopCall(i) \in Calls
    /\ \A c \in Calls : c.func # "hs_event_loop" => stage = "up"

\* The accept loop gets a thread after all event loops.
OrderInv ==
    /\ Listening => \A i \in Epolls : LoopCall(i) \in running
    /\ \A p \in DOMAIN queue : queue[p].func = "hs_accept_thread" =>
          \A i \in Epolls : LoopCall(i) \in running \/ \E q \in 1..(p - 1) : queue[q] = LoopCall(i)

\* Clients are there while the loops run, and those that are registered have one.
ClientInv ==
    \A k \in Conns :
        /\ conn[k] \in {"waiting", "accepted", "registered"} =>
              \A i \in Epolls : LoopCall(i) \in running
        /\ conn[k] = "registered" => epoll_fd[k] \in Epolls

ServerInv == TypeOK /\ CallsInv /\ OnceInv /\ EntryInv /\ ConnInv /\ BootInv /\ OrderInv
-----------------------------------------------------------------------------
(* Queues *)

LEMMA AppendFacts ==
    ASSUME NEW S, NEW q \in Seq(S), NEW x \in S
    PROVE  /\ Append(q, x) \in Seq(S)
           /\ DOMAIN Append(q, x) = DOMAIN q \cup {Len(q) + 1}
           /\ \A p \in DOMAIN q : Append(q, x)[p] = q[p]
           /\ Append(q, x)[Len(q) + 1] = x
           /\ ToSet(Append(q, x)) = ToSet(q) \cup {x}
<1>1. Append(q, x) \in Seq(S) /\ Len(Append(q, x)) = Len(q) + 1 /\ Len(q) \in Nat
  OBVIOUS
<1>2. DOMAIN q = 1..Len(q) /\ DOMAIN Append(q, x) = 1..(Len(q) + 1)
  BY <1>1
<1>3. DOMAIN Append(q, x) = DOMAIN q \cup {Len(q) + 1}
  BY <1>1, <1>2
<1>4. \A p \in DOMAIN q : Append(q, x)[p] = q[p]
  BY <1>1, <1>2
<1>5. Append(q, x)[Len(q) + 1] = x
  BY <1>1
<1>6. ToSet(Append(q, x)) = ToSet(q) \cup {x}
  BY <1>3, <1>4, <1>5 DEF ToSet
<1> QED
  BY <1>1, <1>3, <1>4, <1>5, <1>6

LEMMA TailFacts ==
    ASSUME NEW S, NEW q \in Seq(S), q # <<>>
    PROVE  /\ Head(q) \in S /\ Tail(q) \in Seq(S) /\ 1 \in DOMAIN q /\ Head(q) = q[1]
           /\ \A p \in DOMAIN Tail(q) : p \in Nat \ {0} /\ p + 1 \in DOMAIN q /\ Tail(q)[p] = q[p + 1]
           /\ \A p \in DOMAIN q : p # 1 => p \in Nat \ {0, 1} /\ p - 1 \in DOMAIN Tail(q)
           /\ ToSet(q) = ToSet(Tail(q)) \cup {Head(q)}
<1>1. Tail(q) \in Seq(S) /\ Len(Tail(q)) = Len(q) - 1 /\ Len(q) \in Nat \ {0} /\ Head(q) = q[1]
  OBVIOUS
<1>2. DOMAIN q = 1..Len(q) /\ DOMAIN Tail(q) = 1..(Len(q) - 1)
  BY <1>1
<1>3. Head(q) \in S /\ 1 \in DOMAIN q
  BY <1>1, <1>2
<1>4. \A p \in DOMAIN Tail(q) : p \in Nat \ {0} /\ p + 1 \in DOMAIN q /\ Tail(q)[p] = q[p + 1]
  BY <1>1, <1>2
<1>5. \A p \in DOMAIN q : p # 1 => p \in Nat \ {0, 1} /\ p - 1 \in DOMAIN Tail(q) /\ Tail(q)[p - 1] = q[p]
  <2> SUFFICES ASSUME NEW p \in DOMAIN q, p # 1
               PROVE  p \in Nat \ {0, 1} /\ p - 1 \in DOMAIN Tail(q) /\ Tail(q)[p - 1] = q[p]
    OBVIOUS
  <2>1. p \in Nat \ {0, 1} /\ p - 1 \in DOMAIN Tail(q) /\ (p - 1) + 1 = p
    BY <1>1, <1>2
  <2> QED
    BY <1>4, <2>1
<1>6. ToSet(q) = ToSet(Tail(q)) \cup {Head(q)}
  <2>1. \A x \in ToSet(Tail(q)) : x \in ToSet(q)
    BY <1>4 DEF ToSet
  <2>2. \A x \in ToSet(q) : x \in ToSet(Tail(q)) \/ x = Head(q)
    <3> SUFFICES ASSUME NEW p \in DOMAIN q PROVE q[p] \in ToSet(Tail(q)) \/ q[p] = Head(q)
      BY DEF ToSet
    <3>1. CASE p = 1
      BY <1>1, <3>1
    <3>2. CASE p # 1
      BY <1>5, <3>2 DEF ToSet
    <3> QED
      BY <3>1, <3>2
  <2>3. Head(q) \in ToSet(q)
    BY <1>1, <1>3 DEF ToSet
  <2> QED
    BY <2>1, <2>2, <2>3
<1> QED
  BY <1>1, <1>3, <1>4, <1>5, <1>6

LEMMA InQueue == ASSUME NEW x PROVE x \in ToSet(queue) <=> \E p \in DOMAIN queue : queue[p] = x
  BY DEF ToSet
-----------------------------------------------------------------------------
LEMMA ServerInit == Init => ServerInv
<1> SUFFICES ASSUME Init PROVE ServerInv
  OBVIOUS
<1>1. Calls = {} /\ DOMAIN queue = {} /\ queue = <<>> /\ running = {}
  BY DEF Init, Calls, ToSet
<1>2. queue \in Seq(CallSet)
  BY <1>1
<1>3. TypeOK
  <2>1. map \in [Entries -> [p_handle : BOOLEAN, socket_fd : Conns \cup {NULL}]]
    BY DEF Init
  <2>2. /\ conn \in [Conns -> {"none", "waiting", "accepted", "registered", "closed", "dropped"}]
        /\ epoll_fd \in [Conns -> Epolls \cup {NULL}]
    BY DEF Init
  <2>3. connection_id \in Nat /\ epolls \in 0..event_loop_num
    BY NumsAssumption DEF Init
  <2>4. running \cup ToSet(queue) = {}
    BY <1>1 DEF Calls
  <2> QED
    BY <2>1, <2>2, <2>3, <2>4 DEF Init, TypeOK
<1>4. CallsInv /\ OnceInv
  BY <1>1, <1>2 DEF CallsInv, OnceInv
<1>5. EntryInv
  BY <1>1 DEF Init, EntryInv
<1>6. ConnInv
  BY <1>1 DEF Init, ConnInv
<1>7. BootInv /\ OrderInv
  BY <1>1 DEF Init, BootInv, OrderInv, Listening
<1> QED
  BY <1>3, <1>4, <1>5, <1>6, <1>7 DEF ServerInv
-----------------------------------------------------------------------------
(* Steps *)

\* What does not depend on the calls.
RestOK ==
    /\ stage \in {"acm", "sd", "pools", "bind", "epolls", "loops", "accept", "up", "failed",
                 "crashed"}
    /\ managers \subseteq {"acm", "sd"} /\ handle \in {"none", "alive", "freed"}
    /\ epolls \in 0..event_loop_num
    /\ map \in [Entries -> [p_handle : BOOLEAN, socket_fd : Conns \cup {NULL}]]
    /\ connection_id \in Nat
    /\ conn \in [Conns -> {"none", "waiting", "accepted", "registered", "closed", "dropped"}]
    /\ epoll_fd \in [Conns -> Epolls \cup {NULL}]

LEMMA TypeFromCalls == CallsInv => (TypeOK <=> RestOK)
<1> SUFFICES ASSUME CallsInv PROVE TypeOK <=> RestOK
  OBVIOUS
<1>1. ToSet(queue) \subseteq CallSet
  BY DEF CallsInv, ToSet
<1>2. \A c \in running \cup ToSet(queue) :
          /\ c.func \in {"hs_event_loop", "hs_accept_thread", "hs_new_connection"}
          /\ c.at \in {"start", "place", "call", "register", "clear"}
          /\ c.fd \in Conns \cup {NULL}
  BY <1>1 DEF CallsInv, CallSet
<1> QED
  BY <1>2 DEF TypeOK, RestOK

LEMMA TypeNext == CallsInv' /\ RestOK' => TypeOK'
<1>1. CallsInv /\ RestOK => TypeOK
  BY TypeFromCalls
<1> QED
  BY <1>1, PTL

LEMMA CallTyped == ASSUME ServerInv, NEW c \in Calls PROVE c \in CallSet
  BY DEF ServerInv, CallsInv, Calls, ToSet

\* A step that touches neither the calls nor the table.
LEMMA TableKept ==
    ASSUME ServerInv, UNCHANGED <<queue, running, map>>
    PROVE  /\ Calls' = Calls /\ CallsInv' /\ OnceInv' /\ EntryInv' /\ OrderInv'
           /\ UNCHANGED conn => ConnInv'
<1>1. Calls' = Calls
  BY DEF Calls
<1>2. CallsInv' /\ OnceInv'
  BY <1>1 DEF ServerInv, CallsInv, OnceInv
<1>3. EntryInv'
  BY <1>1 DEF ServerInv, EntryInv, Holds
<1>4. UNCHANGED conn => ConnInv'
  BY <1>1 DEF ServerInv, ConnInv, Has
<1>5. OrderInv'
  BY DEF ServerInv, OrderInv, Listening, LoopCall
<1> QED
  BY <1>1, <1>2, <1>3, <1>4, <1>5

\* A thread goes on with its call, which is not that of an event loop.
LEMMA MoveFacts ==
    ASSUME ServerInv, NEW c \in running, NEW to \in CallSet,
           c.func # "hs_event_loop", to.func = c.func, to \notin ToSet(queue),
           Moves(c, to), UNCHANGED <<boot, queue>>
    PROVE  /\ Calls' = (Calls \ {c}) \cup {to} /\ c \in Calls
           /\ running' \subseteq CallSet /\ OnceInv' /\ BootInv' /\ OrderInv'
<1>1. c \in Calls /\ c \notin ToSet(queue)
  BY InQueue DEF ServerInv, OnceInv, Calls
<1>2. running' = (running \ {c}) \cup {to}
  BY DEF Moves
<1>3. Calls' = (Calls \ {c}) \cup {to}
  BY <1>1, <1>2 DEF Calls
<1>4. running' \subseteq CallSet
  BY <1>2 DEF ServerInv, CallsInv
<1>5. OnceInv'
  <2>1. \A p \in DOMAIN queue : queue[p] # to
    BY InQueue
  <2>2. \A d1, d2 \in Calls' : d1.func = "hs_accept_thread" /\ d2.func = "hs_accept_thread" => d1 = d2
    BY <1>1, <1>3 DEF ServerInv, OnceInv
  <2> QED
    BY <1>2, <2>1, <2>2 DEF ServerInv, OnceInv
<1>6. \A i \in Epolls : LoopCall(i) # c /\ LoopCall(i)' = LoopCall(i)
  BY DEF LoopCall, Call
<1>7. BootInv'
  BY <1>1, <1>2, <1>3, <1>6 DEF ServerInv, BootInv
<1>8. OrderInv'
  <2>1. Listening' => Listening
    BY <1>2 DEF Listening
  <2> QED
    BY <1>2, <1>6, <2>1 DEF ServerInv, OrderInv
<1> QED
  BY <1>1, <1>3, <1>4, <1>5, <1>7, <1>8

LEMMA StartStep == ServerInv /\ Start => ServerInv'
<1> SUFFICES ASSUME ServerInv, Start PROVE ServerInv'
  OBVIOUS
<1>0. TypeOK /\ RestOK /\ CallsInv /\ event_loop_num \in Nat
  BY TypeFromCalls, NumsAssumption DEF ServerInv
<1>1. ASSUME acm_start \/ sd_init \/ CreatePools \/ hs_bind \/ EpollCreate \/ StartFails
      PROVE  ServerInv'
  <2>1. UNCHANGED <<queue, running, map, conn>>
    BY <1>1 DEF acm_start, sd_init, CreatePools, hs_bind, EpollCreate, StartFails
  <2>2. RestOK'
    <3>1. /\ stage' \in {"sd", "pools", "bind", "epolls", "loops", "failed"}
          /\ handle' \in {handle, "alive", "freed"} /\ managers' \subseteq managers \cup {"acm", "sd"}
      BY <1>1 DEF acm_start, sd_init, CreatePools, hs_bind, EpollCreate, StartFails
    <3>2. epolls' \in 0..event_loop_num
      <4>1. CASE EpollCreate
        BY <1>0, <4>1 DEF EpollCreate, RestOK
      <4>2. CASE epolls' = epolls
        BY <1>0, <4>2 DEF RestOK
      <4> QED
        BY <1>1, <4>1, <4>2 DEF acm_start, sd_init, CreatePools, hs_bind, StartFails
    <3>3. UNCHANGED <<map, connection_id, conn, epoll_fd>>
      BY <1>1 DEF acm_start, sd_init, CreatePools, hs_bind, EpollCreate, StartFails
    <3> QED
      BY <1>0, <3>1, <3>2, <3>3 DEF RestOK
  <2>3. stage \notin {"loops", "accept", "up"} /\ queue = <<>> /\ running = {}
    BY <1>1 DEF acm_start, sd_init, CreatePools, hs_bind, EpollCreate, StartFails, ServerInv, BootInv
  <2>4. Calls' = {}
    BY <2>1, <2>3 DEF Calls, ToSet
  <2>5. stage' = "loops" => epolls' = 0
    BY <1>1 DEF acm_start, sd_init, CreatePools, hs_bind, EpollCreate, StartFails
  <2>6. stage' \notin {"accept", "up"}
    BY <1>1 DEF acm_start, sd_init, CreatePools, hs_bind, EpollCreate, StartFails
  <2>7. handle' = "freed" => stage' \in {"failed", "crashed"}
    BY <1>1 DEF acm_start, sd_init, CreatePools, hs_bind, EpollCreate, StartFails, ServerInv, BootInv
  <2>8. BootInv'
    BY <2>1, <2>3, <2>4, <2>5, <2>6, <2>7 DEF BootInv, Epolls
  <2> QED
    BY <2>1, <2>2, <2>8, TableKept, TypeNext DEF ServerInv
<1>2. CASE StartLoops /\ epolls < event_loop_num
  <2> DEFINE x == LoopCall(epolls)
  <2>1. /\ stage = "loops" /\ queue' = Append(queue, x) /\ epolls' = epolls + 1
        /\ UNCHANGED <<stage, managers, handle, running, map, connection_id, conn, epoll_fd>>
    BY <1>2 DEF StartLoops, LoopCall
  <2>2. epolls \in Epolls /\ epolls \in Int
    BY <1>0, <1>2 DEF RestOK, Epolls
  <2>3. x.func = "hs_event_loop" /\ x.arg = epolls /\ x.at = "start" /\ x.fd = NULL /\ x \in CallSet
    BY <2>2 DEF LoopCall, Call, CallSet
  <2>4. \A c \in Calls : c.func = "hs_event_loop" /\ c.arg \in Epolls /\ c.arg < epolls
    BY <2>1 DEF ServerInv, BootInv
  <2>5. x \notin Calls
    BY <2>2, <2>3, <2>4
  <2> HIDE DEF x
  <2>6. /\ queue' \in Seq(CallSet) /\ DOMAIN queue' = DOMAIN queue \cup {Len(queue) + 1}
        /\ \A p \in DOMAIN queue : queue'[p] = queue[p]
        /\ queue'[Len(queue) + 1] = x /\ ToSet(queue') = ToSet(queue) \cup {x}
    BY <1>0, <2>1, <2>3, AppendFacts DEF CallsInv
  <2>7. Calls' = Calls \cup {x}
    BY <2>1, <2>6 DEF Calls
  <2>8. CallsInv'
    BY <2>1, <2>3, <2>6, <2>7 DEF ServerInv, CallsInv
  <2>9. OnceInv'
    BY <2>1, <2>3, <2>4, <2>5, <2>6, <2>7, InQueue DEF ServerInv, OnceInv, Calls
  <2>10. EntryInv'
    BY <2>1, <2>3, <2>7 DEF ServerInv, EntryInv, Holds
  <2>11. ConnInv'
    BY <2>1, <2>3, <2>7 DEF ServerInv, ConnInv, Has
  <2>12. BootInv'
    <3>1. \A i \in Epolls : LoopCall(i)' = LoopCall(i) /\ i \in Int
      BY <1>0 DEF LoopCall, Call, Epolls
    <3>2. \A i \in Epolls : i < epolls' => LoopCall(i) \in Calls'
      BY <2>1, <2>2, <2>7, <3>1 DEF ServerInv, BootInv, x
    <3>3. \A c \in Calls' : c.func = "hs_event_loop" /\ c.arg \in Epolls /\ c.arg < epolls'
      BY <2>1, <2>2, <2>3, <2>4, <2>7, <1>0 DEF Epolls
    <3> QED
      BY <2>1, <3>1, <3>2, <3>3 DEF ServerInv, BootInv
  <2>13. OrderInv'
    <3>1. \A c \in Calls' : c.func = "hs_event_loop"
      BY <2>3, <2>4, <2>7
    <3>2. \A p \in DOMAIN queue' : queue'[p] \in Calls'
      BY DEF Calls, ToSet
    <3> QED
      BY <3>1, <3>2 DEF OrderInv, Listening, Calls
  <2>14. RestOK'
    BY <1>0, <1>2, <2>1 DEF RestOK
  <2> QED
    BY <2>8, <2>9, <2>10, <2>11, <2>12, <2>13, <2>14, TypeNext DEF ServerInv
<1>3. CASE StartLoops /\ ~(epolls < event_loop_num)
  <2>1. /\ stage = "loops" /\ stage' = "accept"
        /\ UNCHANGED <<managers, handle, epolls, queue, running, map, connection_id, conn, epoll_fd>>
    BY <1>3 DEF StartLoops
  <2>2. RestOK'
    BY <1>0, <2>1 DEF RestOK
  <2>3. \A i \in Epolls : i < epolls
    BY <1>0, <1>3 DEF RestOK, Epolls
  <2>4. Calls' = Calls /\ \A i \in Epolls : LoopCall(i)' = LoopCall(i)
    BY <2>1 DEF Calls, LoopCall, Call
  <2>5. BootInv'
    BY <2>1, <2>3, <2>4 DEF ServerInv, BootInv
  <2> QED
    BY <2>1, <2>2, <2>5, TableKept, TypeNext DEF ServerInv
<1>4. CASE StartAccept
  <2> DEFINE x == Call("hs_accept_thread", NULL)
  <2>1. /\ stage = "accept" /\ stage' = "up" /\ queue' = Append(queue, x)
        /\ UNCHANGED <<managers, handle, epolls, running, map, connection_id, conn, epoll_fd>>
    BY <1>4 DEF StartAccept
  <2>2. x.func = "hs_accept_thread" /\ x.at = "start" /\ x.fd = NULL /\ x \in CallSet
    BY DEF Call, CallSet
  <2>3. \A c \in Calls : c.func = "hs_event_loop"
    BY <2>1 DEF ServerInv, BootInv
  <2>4. x \notin Calls
    BY <2>2, <2>3
  <2> HIDE DEF x
  <2>5. /\ queue' \in Seq(CallSet) /\ DOMAIN queue' = DOMAIN queue \cup {Len(queue) + 1}
        /\ \A p \in DOMAIN queue : queue'[p] = queue[p]
        /\ queue'[Len(queue) + 1] = x /\ ToSet(queue') = ToSet(queue) \cup {x}
    BY <1>0, <2>1, <2>2, AppendFacts DEF CallsInv
  <2>6. Calls' = Calls \cup {x}
    BY <2>1, <2>5 DEF Calls
  <2>7. CallsInv'
    BY <2>1, <2>2, <2>5, <2>6 DEF ServerInv, CallsInv
  <2>8. OnceInv'
    BY <2>1, <2>2, <2>3, <2>4, <2>5, <2>6, InQueue DEF ServerInv, OnceInv, Calls
  <2>9. EntryInv'
    BY <2>1, <2>2, <2>6 DEF ServerInv, EntryInv, Holds
  <2>10. ConnInv'
    BY <2>1, <2>2, <2>6 DEF ServerInv, ConnInv, Has
  <2>11. \A i \in Epolls : LoopCall(i)' = LoopCall(i) /\ LoopCall(i) \in Calls
    BY <2>1 DEF LoopCall, Call, ServerInv, BootInv
  <2>12. BootInv'
    BY <2>1, <2>2, <2>6, <2>11 DEF ServerInv, BootInv
  <2>13. OrderInv'
    <3>1. ~Listening'
      BY <2>1, <2>3 DEF Listening, Calls
    <3>2. \A p \in DOMAIN queue' : queue'[p].func = "hs_accept_thread" => p = Len(queue) + 1
      BY <2>3, <2>5, InQueue DEF Calls
    <3>3. DOMAIN queue = 1..((Len(queue) + 1) - 1)
      BY <1>0 DEF CallsInv
    <3>4. \A i \in Epolls : LoopCall(i) \in running \/ \E q \in 1..((Len(queue) + 1) - 1) : queue'[q] = LoopCall(i)
      BY <2>5, <2>11, <3>3, InQueue DEF Calls
    <3> QED
      BY <2>1, <2>11, <3>1, <3>2, <3>4 DEF OrderInv
  <2>14. RestOK'
    BY <1>0, <2>1 DEF RestOK
  <2> QED
    BY <2>7, <2>8, <2>9, <2>10, <2>12, <2>13, <2>14, TypeNext DEF ServerInv
<1> QED
  BY <1>1, <1>2, <1>3, <1>4 DEF Start, StartLoops
-----------------------------------------------------------------------------
(* A thread takes a call *)

LEMMA FetchStep == ServerInv /\ Fetch => ServerInv'
<1> SUFFICES ASSUME ServerInv, Fetch PROVE ServerInv'
  OBVIOUS
<1> DEFINE h == Head(queue)
<1>1. /\ queue # <<>> /\ queue' = Tail(queue) /\ running' = running \cup {h}
      /\ UNCHANGED <<stage, managers, handle, epolls, map, connection_id, conn, epoll_fd>>
  BY DEF Fetch
<1>2. RestOK /\ queue \in Seq(CallSet) /\ running \subseteq CallSet
  BY TypeFromCalls DEF ServerInv, CallsInv
<1>3. /\ h \in CallSet /\ queue' \in Seq(CallSet) /\ 1 \in DOMAIN queue /\ h = queue[1]
      /\ \A p \in DOMAIN queue' : p \in Nat \ {0} /\ p + 1 \in DOMAIN queue /\ queue'[p] = queue[p + 1]
      /\ \A p \in DOMAIN queue : p # 1 => p \in Nat \ {0, 1} /\ p - 1 \in DOMAIN queue'
      /\ ToSet(queue) = ToSet(queue') \cup {h}
  BY <1>1, <1>2, TailFacts
<1> HIDE DEF h
<1>4. Calls' = Calls
  BY <1>1, <1>3 DEF Calls
<1>5. CallsInv'
  BY <1>1, <1>2, <1>3, <1>4 DEF ServerInv, CallsInv
<1>6. OnceInv'
  <2>1. \A p, q \in DOMAIN queue' : queue'[p] = queue'[q] => p = q
    <3> SUFFICES ASSUME NEW p \in DOMAIN queue', NEW q \in DOMAIN queue', queue'[p] = queue'[q] PROVE p = q
      OBVIOUS
    <3>1. p \in Nat /\ q \in Nat /\ p + 1 = q + 1
      BY <1>3 DEF ServerInv, OnceInv
    <3> QED
      BY <3>1
  <2>2. \A p \in DOMAIN queue' : queue'[p] \notin running'
    <3> SUFFICES ASSUME NEW p \in DOMAIN queue' PROVE queue'[p] \notin running'
      OBVIOUS
    <3>1. p + 1 # 1 /\ p + 1 \in DOMAIN queue /\ queue'[p] = queue[p + 1]
      BY <1>3
    <3>2. queue[p + 1] # h
      BY <1>3, <3>1 DEF ServerInv, OnceInv
    <3> QED
      BY <1>1, <3>1, <3>2 DEF ServerInv, OnceInv
  <2> QED
    BY <1>4, <2>1, <2>2 DEF ServerInv, OnceInv
<1>7. EntryInv' /\ ConnInv'
  BY <1>1, <1>4 DEF ServerInv, EntryInv, ConnInv, Holds, Has
<1>8. \A i \in Epolls : LoopCall(i)' = LoopCall(i)
  BY DEF LoopCall, Call
<1>9. BootInv'
  <2>1. h \in Calls
    BY <1>3 DEF Calls
  <2>2. stage \in {"loops", "accept", "up"}
    BY <1>1 DEF ServerInv, BootInv
  <2> QED
    BY <1>1, <1>4, <1>8, <2>1, <2>2 DEF ServerInv, BootInv
<1>10. OrderInv'
  <2>1. ASSUME Listening' PROVE \A i \in Epolls : LoopCall(i) \in running'
    <3>1. CASE Listening
      BY <1>1, <3>1 DEF ServerInv, OrderInv
    <3>2. CASE ~Listening
      <4>1. h.func = "hs_accept_thread"
        BY <1>1, <2>1, <3>2 DEF Listening
      <4>2. \A i \in Epolls : LoopCall(i) \in running \/ \E q \in 1..(1 - 1) : queue[q] = LoopCall(i)
        BY <1>3, <4>1 DEF ServerInv, OrderInv
      <4>3. \A q \in 1..(1 - 1) : FALSE
        OBVIOUS
      <4> QED
        BY <1>1, <4>2, <4>3
    <3> QED
      BY <3>1, <3>2
  <2>2. ASSUME NEW p \in DOMAIN queue', queue'[p].func = "hs_accept_thread", NEW i \in Epolls
        PROVE  LoopCall(i) \in running' \/ \E q \in 1..(p - 1) : queue'[q] = LoopCall(i)
    <3>1. p \in Nat \ {0} /\ p + 1 \in DOMAIN queue /\ queue[p + 1].func = "hs_accept_thread"
      BY <1>3, <2>2
    <3>2. LoopCall(i) \in running \/ \E q \in 1..((p + 1) - 1) : queue[q] = LoopCall(i)
      BY <3>1 DEF ServerInv, OrderInv
    <3>3. CASE LoopCall(i) \in running
      BY <1>1, <3>3
    <3>4. ASSUME NEW q \in 1..((p + 1) - 1), queue[q] = LoopCall(i)
          PROVE  LoopCall(i) \in running' \/ \E r \in 1..(p - 1) : queue'[r] = LoopCall(i)
      <4>1. CASE q = 1
        BY <1>1, <1>3, <3>4, <4>1
      <4>2. CASE q # 1
        <5>1. DOMAIN queue = 1..Len(queue) /\ Len(queue) \in Nat
          BY <1>2
        <5>2. q \in DOMAIN queue /\ q - 1 \in 1..(p - 1) /\ (q - 1) + 1 = q
          BY <3>1, <4>2, <5>1
        <5>3. q - 1 \in DOMAIN queue'
          BY <1>3, <4>2, <5>2
        <5>4. queue'[q - 1] = queue[q]
          BY <1>3, <5>2, <5>3
        <5> QED
          BY <3>4, <5>2, <5>4
      <4> QED
        BY <4>1, <4>2
    <3> QED
      BY <3>2, <3>3, <3>4
  <2> QED
    BY <1>8, <2>1, <2>2 DEF OrderInv
<1>11. RestOK'
  BY <1>1, <1>2 DEF RestOK
<1> QED
  BY <1>5, <1>6, <1>7, <1>9, <1>10, <1>11, TypeNext DEF ServerInv

LEMMA ConnectStep == ASSUME ServerInv, NEW k \in Conns, Connect(k) PROVE ServerInv'
<1>1. /\ conn[k] = "none" /\ conn' = [conn EXCEPT ![k] = "waiting"]
      /\ UNCHANGED <<stage, managers, handle, epolls, queue, running, map, connection_id, epoll_fd>>
  BY DEF Connect
<1>2. RestOK /\ CallsInv
  BY TypeFromCalls DEF ServerInv
<1>3. Calls' = Calls /\ CallsInv' /\ OnceInv' /\ EntryInv' /\ OrderInv'
  BY <1>1, TableKept
<1>4. ConnInv'
  BY <1>1, <1>2, <1>3 DEF ServerInv, ConnInv, Has, RestOK
<1>5. BootInv'
  BY <1>1, <1>3 DEF ServerInv, BootInv, LoopCall, Call
<1>6. RestOK'
  BY <1>1, <1>2 DEF RestOK
<1> QED
  BY <1>3, <1>4, <1>5, <1>6, TypeNext DEF ServerInv
-----------------------------------------------------------------------------
(* The accept loop *)

LEMMA EntryInTable == ASSUME NEW n \in Nat PROVE n % new_connection_map_size \in Entries
<1>1. new_connection_map_size \in Nat /\ new_connection_map_size > 0
  BY NumsAssumption
<1> QED
  BY <1>1 DEF Entries

\* A call that has begun does not wait, and the accept loop waits nowhere else.
LEMMA NotQueued ==
    ASSUME ServerInv, NEW c \in running, NEW to,
           \/ to.at # "start"
           \/ to.func = "hs_accept_thread" /\ c.func = "hs_accept_thread" /\ c # to
    PROVE  to \notin ToSet(queue)
<1>1. CASE to.at # "start"
  BY <1>1, InQueue DEF ServerInv, CallsInv
<1>2. CASE to.func = "hs_accept_thread" /\ c.func = "hs_accept_thread" /\ c # to
  BY <1>2 DEF ServerInv, OnceInv, Calls
<1> QED
  BY <1>1, <1>2

LEMMA AcceptStep == ASSUME ServerInv, NEW k \in Conns, Accept(k) PROVE ServerInv'
<1> PICK c \in running :
        /\ c.func = "hs_accept_thread" /\ c.at = "start" /\ conn[k] = "waiting"
        /\ conn' = [conn EXCEPT ![k] = "accepted"]
        /\ Moves(c, [c EXCEPT !.at = "place", !.fd = k])
        /\ UNCHANGED <<boot, queue, map, connection_id, epoll_fd>>
  BY DEF Accept
<1> DEFINE to == [c EXCEPT !.at = "place", !.fd = k]
<1>1. RestOK /\ CallsInv /\ c \in CallSet
  BY TypeFromCalls DEF ServerInv, CallsInv
<1>2. /\ to \in CallSet /\ to.func = "hs_accept_thread" /\ to.at = "place" /\ to.fd = k
      /\ Moves(c, to)
  BY <1>1 DEF CallSet
<1> HIDE DEF to
<1>3. to.fd # NULL
  BY <1>2, NumsAssumption
<1>4. /\ Calls' = (Calls \ {c}) \cup {to} /\ c \in Calls
      /\ running' \subseteq CallSet /\ OnceInv' /\ BootInv' /\ OrderInv'
  BY <1>2, NotQueued, MoveFacts
<1>5. CallsInv'
  BY <1>1, <1>2, <1>3, <1>4 DEF CallsInv
<1>6. EntryInv'
  BY <1>2, <1>4 DEF ServerInv, EntryInv, Holds
<1>7. ConnInv'
  <2>1. \A j \in Conns : ~Has(c, j) /\ (Has(to, j)' <=> j = k) /\ \A d \in Calls : Has(d, j)' <=> Has(d, j)
    BY <1>2 DEF Has
  <2>2. \A d \in Calls : ~Has(d, k)
    BY DEF ServerInv, ConnInv
  <2>3. conn'[k] = "accepted" /\ \A j \in Conns : j # k => conn'[j] = conn[j]
    BY <1>1 DEF RestOK
  <2> QED
    BY <1>4, <2>1, <2>2, <2>3 DEF ServerInv, ConnInv
<1>8. RestOK'
  BY <1>1 DEF RestOK
<1> QED
  BY <1>4, <1>5, <1>6, <1>7, <1>8, TypeNext DEF ServerInv

LEMMA PlaceStep == ServerInv /\ Place => ServerInv'
<1> SUFFICES ASSUME ServerInv, Place PROVE ServerInv'
  OBVIOUS
<1>1. RestOK /\ CallsInv /\ connection_id \in Nat
  BY TypeFromCalls DEF ServerInv, RestOK
<1>2. PICK e \in Entries : e = connection_id % new_connection_map_size
  BY <1>1, EntryInTable
<1>3. PICK c \in running :
        /\ c.func = "hs_accept_thread" /\ c.at = "place"
        /\ connection_id' = connection_id + 1
        /\ IF map[e].p_handle
           THEN /\ conn' = [conn EXCEPT ![c.fd] = "closed"]
                /\ Moves(c, Call(c.func, NULL))
                /\ UNCHANGED map
           ELSE /\ map' = [map EXCEPT ![e] = [p_handle |-> TRUE, socket_fd |-> c.fd]]
                /\ Moves(c, [c EXCEPT !.at = "call", !.arg = e])
                /\ UNCHANGED conn
        /\ UNCHANGED <<boot, queue, epoll_fd>>
  BY <1>2 DEF Place
<1>4. c \in CallSet /\ c \in Calls
  BY <1>1 DEF CallsInv, Calls
<1>5. c.fd \in Conns /\ c.fd # NULL
  BY <1>1, <1>3, <1>4, NumsAssumption DEF CallsInv, CallSet
<1>6. CASE map[e].p_handle
  <2> DEFINE to == Call("hs_accept_thread", NULL)
  <2>1. /\ conn' = [conn EXCEPT ![c.fd] = "closed"] /\ Moves(c, to)
        /\ UNCHANGED <<boot, queue, epoll_fd, map>> /\ connection_id' \in Nat
    BY <1>1, <1>3, <1>6
  <2>2. to \in CallSet /\ to.func = "hs_accept_thread" /\ to.at = "start" /\ to.fd = NULL
    BY DEF Call, CallSet
  <2> HIDE DEF to
  <2>3. /\ Calls' = (Calls \ {c}) \cup {to}
        /\ running' \subseteq CallSet /\ OnceInv' /\ BootInv' /\ OrderInv'
    BY <1>3, <2>1, <2>2, NotQueued, MoveFacts
  <2>4. CallsInv'
    BY <1>1, <1>3, <1>4, <2>1, <2>2, <2>3 DEF CallsInv
  <2>5. EntryInv'
    BY <1>3, <2>1, <2>2, <2>3 DEF ServerInv, EntryInv, Holds
  <2>6. ConnInv'
    <3>1. \A j \in Conns : ~Has(to, j)' /\ (Has(c, j) <=> j = c.fd) /\ \A d \in Calls : Has(d, j)' <=> Has(d, j)
      BY <1>3, <2>1, <2>2 DEF Has
    <3>2. conn'[c.fd] = "closed" /\ \A j \in Conns : j # c.fd => conn'[j] = conn[j]
      BY <1>1, <1>3, <1>4, <1>5, <2>1 DEF RestOK
    <3> QED
      BY <1>1, <1>3, <1>4, <1>5, <2>3, <3>1, <3>2 DEF ServerInv, ConnInv
  <2>7. RestOK'
    BY <1>1, <1>3, <1>4, <2>1 DEF RestOK
  <2> QED
    BY <2>3, <2>4, <2>5, <2>6, <2>7, TypeNext DEF ServerInv
<1>7. CASE ~map[e].p_handle
  <2> DEFINE to == [c EXCEPT !.at = "call", !.arg = e]
  <2>1. /\ map' = [map EXCEPT ![e] = [p_handle |-> TRUE, socket_fd |-> c.fd]] /\ Moves(c, to)
        /\ UNCHANGED <<boot, queue, epoll_fd, conn>> /\ connection_id' \in Nat
    BY <1>1, <1>3, <1>7
  <2>2. /\ to \in CallSet /\ to.func = "hs_accept_thread" /\ to.at = "call"
        /\ to.fd = c.fd /\ to.arg = e
    BY <1>1, <1>3, <1>4, <1>2 DEF CallSet
  <2> HIDE DEF to
  <2>3. /\ Calls' = (Calls \ {c}) \cup {to}
        /\ running' \subseteq CallSet /\ OnceInv' /\ BootInv' /\ OrderInv'
    BY <1>3, <2>1, <2>2, NotQueued, MoveFacts
  <2>4. /\ map'[e].p_handle = TRUE /\ map'[e].socket_fd = c.fd
        /\ \A f \in Entries : f # e => map'[f] = map[f]
    BY <1>1, <1>3, <1>4, <1>2, <2>1 DEF RestOK
  <2>5. \A d \in Calls : ~Holds(d, e)
    BY <1>2, <1>7 DEF ServerInv, EntryInv
  <2>6. CallsInv'
    BY <1>1, <1>3, <1>4, <1>2, <1>5, <2>1, <2>2, <2>3, <2>4, <2>5 DEF CallsInv, Holds
  <2>7. EntryInv'
    <3>1. \A f \in Entries : ~Holds(c, f) /\ (Holds(to, f)' <=> f = e) /\ \A d \in Calls : Holds(d, f)' <=> Holds(d, f)
      BY <1>3, <2>2 DEF Holds
    <3> QED
      BY <1>2, <2>3, <2>4, <2>5, <3>1 DEF ServerInv, EntryInv
  <2>8. ConnInv'
    <3>1. \A d \in Calls : d.func = "hs_new_connection" => d.arg \in Entries /\ d.arg # e
      BY <1>1, <1>3, <1>4, <2>5 DEF CallsInv, Holds
    <3>2. \A j \in Conns : (Has(to, j)' <=> Has(c, j)) /\ \A d \in Calls : Has(d, j)' <=> Has(d, j)
      BY <1>3, <2>2, <2>4, <3>1 DEF Has
    <3> QED
      BY <1>1, <1>3, <1>4, <2>1, <2>3, <3>2 DEF ServerInv, ConnInv
  <2>9. RestOK'
    <3>1. map' \in [Entries -> [p_handle : BOOLEAN, socket_fd : Conns \cup {NULL}]]
      BY <1>1, <1>3, <1>4, <1>2, <1>5, <2>1 DEF RestOK
    <3> QED
      BY <1>1, <1>3, <1>4, <2>1, <3>1 DEF RestOK
  <2> QED
    BY <2>3, <2>6, <2>7, <2>8, <2>9, TypeNext DEF ServerInv
<1> QED
  BY <1>6, <1>7

\* The accept loop hands its entry to the call it queues.
LEMMA CallNewStep == ServerInv /\ CallNew => ServerInv'
<1> SUFFICES ASSUME ServerInv, CallNew PROVE ServerInv'
  OBVIOUS
<1>1. PICK c \in running :
        /\ c.func = "hs_accept_thread" /\ c.at = "call"
        /\ queue' = Append(queue, Call("hs_new_connection", c.arg))
        /\ Moves(c, Call(c.func, NULL))
        /\ UNCHANGED <<boot, map, connection_id, clients>>
  BY DEF CallNew
<1> DEFINE a == Call("hs_accept_thread", NULL)
           n == Call("hs_new_connection", c.arg)
<1>2. RestOK /\ CallsInv /\ c \in CallSet /\ c \in Calls /\ queue \in Seq(CallSet)
  BY TypeFromCalls DEF ServerInv, CallsInv, Calls
<1>3. c.arg \in Entries /\ map[c.arg].socket_fd = c.fd /\ c.fd \in Conns
  BY <1>1, <1>2, NumsAssumption DEF CallsInv, CallSet
<1>4. a \in CallSet /\ a.func = "hs_accept_thread" /\ a.at = "start" /\ a.fd = NULL
  BY DEF Call, CallSet
<1>5. n \in CallSet /\ n.func = "hs_new_connection" /\ n.at = "start" /\ n.fd = NULL /\ n.arg = c.arg
  BY <1>3 DEF Call, CallSet
<1>6. queue' = Append(queue, n) /\ running' = (running \ {c}) \cup {a}
  BY <1>1 DEF Moves
<1> HIDE DEF a, n
<1>7. /\ queue' \in Seq(CallSet) /\ DOMAIN queue' = DOMAIN queue \cup {Len(queue) + 1}
      /\ \A p \in DOMAIN queue : queue'[p] = queue[p]
      /\ queue'[Len(queue) + 1] = n /\ ToSet(queue') = ToSet(queue) \cup {n}
  BY <1>2, <1>5, <1>6, AppendFacts
<1>8. c \notin ToSet(queue) /\ a \notin ToSet(queue) /\ c # n /\ a # n
  BY <1>1, <1>4, <1>5, NotQueued
<1>9. n \notin Calls
  BY <1>1, <1>2, <1>3, <1>5, <1>8 DEF ServerInv, EntryInv, Holds
<1>10. Calls' = (Calls \ {c}) \cup {a, n}
  BY <1>6, <1>7, <1>8, <1>9 DEF Calls
<1>11. CallsInv'
  BY <1>1, <1>2, <1>3, <1>4, <1>5, <1>6, <1>7, <1>10 DEF CallsInv
<1>12. OnceInv'
  <2>1. \A p \in DOMAIN queue : queue[p] \in Calls /\ queue[p] # n /\ queue[p] # a
    BY <1>8, <1>9, InQueue DEF Calls
  <2>2. \A p, q \in DOMAIN queue' : queue'[p] = queue'[q] => p = q
    BY <1>7, <2>1 DEF ServerInv, OnceInv
  <2>3. \A p \in DOMAIN queue' : queue'[p] \notin running'
    BY <1>6, <1>7, <1>8, <1>9, <2>1 DEF ServerInv, OnceInv, Calls
  <2>4. \A d1, d2 \in Calls' : d1.func = "hs_accept_thread" /\ d2.func = "hs_accept_thread" => d1 = d2
    BY <1>1, <1>2, <1>5, <1>10 DEF ServerInv, OnceInv
  <2> QED
    BY <2>2, <2>3, <2>4 DEF OnceInv
<1>13. EntryInv'
  <2>1. \A e \in Entries : ~Holds(a, e) /\ (Holds(n, e) <=> Holds(c, e))
    BY <1>1, <1>4, <1>5 DEF Holds
  <2>2. \A e \in Entries : \A d : Holds(d, e)' <=> Holds(d, e)
    BY DEF Holds
  <2> QED
    BY <1>1, <1>2, <1>10, <2>1, <2>2 DEF ServerInv, EntryInv
<1>14. ConnInv'
  <2>1. \A k \in Conns : ~Has(a, k)' /\ (Has(n, k)' <=> Has(c, k))
    BY <1>1, <1>3, <1>4, <1>5 DEF Has
  <2>2. \A k \in Conns : \A d \in Calls : Has(d, k)' <=> Has(d, k)
    BY <1>1 DEF Has
  <2> QED
    BY <1>1, <1>2, <1>10, <2>1, <2>2 DEF ServerInv, ConnInv
<1>15. \A i \in Epolls : LoopCall(i)' = LoopCall(i) /\ LoopCall(i) # c
  BY <1>1 DEF LoopCall, Call
<1>16. stage = "up" /\ stage' = "up"
  BY <1>1, <1>2 DEF ServerInv, BootInv
<1>17. BootInv'
  BY <1>1, <1>4, <1>5, <1>10, <1>15, <1>16 DEF ServerInv, BootInv
<1>18. OrderInv'
  <2>1. Listening /\ \A p \in DOMAIN queue' : queue'[p].func # "hs_accept_thread"
    <3>1. \A p \in DOMAIN queue : queue[p] # c /\ queue[p] \in Calls
      BY <1>8, InQueue DEF Calls
    <3>2. \A p \in DOMAIN queue : queue[p].func # "hs_accept_thread"
      BY <1>1, <1>2, <3>1 DEF ServerInv, OnceInv
    <3> QED
      BY <1>1, <1>5, <1>7, <3>2 DEF Listening
  <2>2. \A i \in Epolls : LoopCall(i) \in running'
    BY <1>6, <1>15, <2>1 DEF ServerInv, OrderInv
  <2> QED
    BY <1>15, <2>1, <2>2 DEF OrderInv
<1>19. RestOK'
  BY <1>1, <1>2 DEF RestOK
<1> QED
  BY <1>11, <1>12, <1>13, <1>14, <1>17, <1>18, <1>19, TypeNext DEF ServerInv
-----------------------------------------------------------------------------
(* A thread registers a connection *)

LEMMA NewStep == ASSUME ServerInv, NEW e \in Entries, New(e) PROVE ServerInv'
<1>1. PICK k : k = map[e].socket_fd
  OBVIOUS
<1>2. PICK c \in running :
        /\ c.func = "hs_new_connection" /\ c.arg = e /\ c.at = "start"
        /\ Moves(c, [c EXCEPT !.at = "register", !.fd = k])
        /\ UNCHANGED <<boot, queue, map, connection_id, clients>>
  BY <1>1 DEF New
<1> DEFINE to == [c EXCEPT !.at = "register", !.fd = k]
<1>3. RestOK /\ CallsInv /\ c \in CallSet /\ c \in Calls
  BY TypeFromCalls DEF ServerInv, CallsInv, Calls
<1>4. k \in Conns /\ k # NULL
  BY <1>1, <1>2, <1>3, NumsAssumption DEF CallsInv
<1>5. /\ to \in CallSet /\ to.func = "hs_new_connection" /\ to.at = "register"
      /\ to.fd = k /\ to.arg = e /\ Moves(c, to)
  BY <1>2, <1>3, <1>4 DEF CallSet
<1> HIDE DEF to
<1>6. /\ Calls' = (Calls \ {c}) \cup {to}
      /\ running' \subseteq CallSet /\ OnceInv' /\ BootInv' /\ OrderInv'
  BY <1>2, <1>5, NotQueued, MoveFacts
<1>7. CallsInv'
  BY <1>2, <1>3, <1>4, <1>5, <1>6 DEF CallsInv
<1>8. EntryInv'
  <2>1. \A f \in Entries : (Holds(to, f)' <=> Holds(c, f)) /\ \A d \in Calls : Holds(d, f)' <=> Holds(d, f)
    BY <1>2, <1>5 DEF Holds
  <2> QED
    BY <1>2, <1>3, <1>6, <2>1 DEF ServerInv, EntryInv
<1>9. ConnInv'
  <2>1. \A j \in Conns : (Has(to, j)' <=> Has(c, j)) /\ \A d \in Calls : Has(d, j)' <=> Has(d, j)
    BY <1>1, <1>2, <1>5 DEF Has
  <2> QED
    BY <1>2, <1>3, <1>6, <2>1 DEF ServerInv, ConnInv
<1>10. RestOK'
  BY <1>2, <1>3 DEF RestOK
<1> QED
  BY <1>6, <1>7, <1>8, <1>9, <1>10, TypeNext DEF ServerInv

\* The connection leaves the hands of the call, to an epoll or to nowhere.
LEMMA SettleStep == ASSUME ServerInv, NEW e \in Entries, Register(e) \/ NewFails(e) PROVE ServerInv'
<1>1. PICK c \in running, w \in {"registered", "dropped"} :
        /\ c.func = "hs_new_connection" /\ c.arg = e /\ c.at = "register"
        /\ conn' = [conn EXCEPT ![c.fd] = w]
        /\ Moves(c, [c EXCEPT !.at = "clear"])
        /\ UNCHANGED <<boot, queue, map, connection_id>>
        /\ epoll_fd' = epoll_fd \/ \E i \in Epolls : epoll_fd' = [epoll_fd EXCEPT ![c.fd] = i]
  BY DEF Register, NewFails
<1> DEFINE to == [c EXCEPT !.at = "clear"]
<1>2. RestOK /\ CallsInv /\ c \in CallSet /\ c \in Calls
  BY TypeFromCalls DEF ServerInv, CallsInv, Calls
<1>3. c.fd \in Conns /\ c.fd # NULL
  BY <1>1, <1>2, NumsAssumption DEF CallsInv, CallSet
<1>4. /\ to \in CallSet /\ to.func = "hs_new_connection" /\ to.at = "clear"
      /\ to.fd = c.fd /\ to.arg = e /\ Moves(c, to)
  BY <1>1, <1>2 DEF CallSet
<1> HIDE DEF to
<1>5. /\ Calls' = (Calls \ {c}) \cup {to}
      /\ running' \subseteq CallSet /\ OnceInv' /\ BootInv' /\ OrderInv'
  BY <1>1, <1>4, NotQueued, MoveFacts
<1>6. CallsInv'
  BY <1>1, <1>2, <1>3, <1>4, <1>5 DEF CallsInv
<1>7. EntryInv'
  <2>1. \A f \in Entries : (Holds(to, f)' <=> Holds(c, f)) /\ \A d \in Calls : Holds(d, f)' <=> Holds(d, f)
    BY <1>1, <1>4 DEF Holds
  <2> QED
    BY <1>1, <1>2, <1>5, <2>1 DEF ServerInv, EntryInv
<1>8. ConnInv'
  <2>1. \A j \in Conns : ~Has(to, j)' /\ (Has(c, j) <=> j = c.fd) /\ \A d \in Calls : Has(d, j)' <=> Has(d, j)
    BY <1>1, <1>4 DEF Has
  <2>2. conn'[c.fd] # "accepted" /\ \A j \in Conns : j # c.fd => conn'[j] = conn[j]
    BY <1>1, <1>2, <1>3 DEF RestOK
  <2> QED
    BY <1>2, <1>3, <1>5, <2>1, <2>2 DEF ServerInv, ConnInv
<1>9. RestOK'
  <2>1. conn' \in [Conns -> {"none", "waiting", "accepted", "registered", "closed", "dropped"}]
    BY <1>1, <1>2, <1>3 DEF RestOK
  <2>2. epoll_fd' \in [Conns -> Epolls \cup {NULL}]
    BY <1>1, <1>2, <1>3 DEF RestOK
  <2> QED
    BY <1>1, <1>2, <2>1, <2>2 DEF RestOK
<1> QED
  BY <1>5, <1>6, <1>7, <1>8, <1>9, TypeNext DEF ServerInv

LEMMA ClearStep == ASSUME ServerInv, NEW e \in Entries, Clear(e) PROVE ServerInv'
<1>1. PICK c \in running :
        /\ c.func = "hs_new_connection" /\ c.arg = e /\ c.at = "clear"
        /\ map' = [map EXCEPT ![e].p_handle = FALSE]
        /\ running' = running \ {c}
        /\ UNCHANGED <<boot, queue, connection_id, clients>>
  BY DEF Clear
<1>2. RestOK /\ CallsInv /\ c \in Calls /\ c \notin ToSet(queue)
  BY <1>1, TypeFromCalls, InQueue DEF ServerInv, CallsInv, Calls
<1>3. Calls' = Calls \ {c}
  BY <1>1, <1>2 DEF Calls
<1>4. /\ map'[e].p_handle = FALSE /\ map'[e].socket_fd = map[e].socket_fd
      /\ \A f \in Entries : f # e => map'[f] = map[f]
  BY <1>1, <1>2 DEF RestOK
<1>5. CallsInv'
  <2>1. \A d \in Calls : d.arg \in Entries => map'[d.arg].socket_fd = map[d.arg].socket_fd
    BY <1>4
  <2> QED
    BY <1>1, <1>2, <1>3, <2>1 DEF CallsInv
<1>6. OnceInv'
  BY <1>1, <1>3 DEF ServerInv, OnceInv
<1>7. EntryInv'
  <2>1. Holds(c, e) /\ \A f \in Entries : f # e => ~Holds(c, f)
    BY <1>1 DEF Holds
  <2>2. \A f \in Entries : \A d : Holds(d, f)' <=> Holds(d, f)
    BY DEF Holds
  <2> QED
    BY <1>2, <1>3, <1>4, <2>1, <2>2 DEF ServerInv, EntryInv
<1>8. ConnInv'
  <2>1. \A j \in Conns : ~Has(c, j)
    BY <1>1 DEF Has
  <2>2. \A d \in Calls : d.func = "hs_new_connection" => map'[d.arg].socket_fd = map[d.arg].socket_fd
    BY <1>2, <1>4 DEF CallsInv
  <2>3. \A j \in Conns : \A d \in Calls : Has(d, j)' <=> Has(d, j)
    BY <2>2 DEF Has
  <2> QED
    BY <1>1, <1>3, <2>1, <2>3 DEF ServerInv, ConnInv
<1>9. \A i \in Epolls : LoopCall(i)' = LoopCall(i) /\ LoopCall(i) # c
  BY <1>1 DEF LoopCall, Call
<1>10. BootInv'
  BY <1>1, <1>2, <1>3, <1>9 DEF ServerInv, BootInv
<1>11. OrderInv'
  BY <1>1, <1>9 DEF ServerInv, OrderInv, Listening
<1>12. RestOK'
  <2>1. map' \in [Entries -> [p_handle : BOOLEAN, socket_fd : Conns \cup {NULL}]]
    <3>1. map[e] \in [p_handle : BOOLEAN, socket_fd : Conns \cup {NULL}]
      BY <1>2 DEF RestOK
    <3>2. [map[e] EXCEPT !.p_handle = FALSE] \in [p_handle : BOOLEAN, socket_fd : Conns \cup {NULL}]
      BY <3>1
    <3>3. map' = [map EXCEPT ![e] = [map[e] EXCEPT !.p_handle = FALSE]]
      BY <1>1, <1>2 DEF RestOK
    <3> QED
      BY <1>2, <3>2, <3>3 DEF RestOK
  <2> QED
    BY <1>1, <1>2, <2>1 DEF RestOK
<1> QED
  BY <1>5, <1>6, <1>7, <1>8, <1>10, <1>11, <1>12, TypeNext DEF ServerInv
-----------------------------------------------------------------------------
(* The first request meets a NULL handle *)

LEMMA CrashStep == ASSUME ServerInv, NEW k \in Conns, LookUpNull(k) PROVE ServerInv'
<1>1. /\ stage' = "crashed" /\ queue' = <<>> /\ running' = {}
      /\ map' = [e \in Entries |-> [p_handle |-> FALSE, socket_fd |-> NULL]]
      /\ conn' = [c \in Conns |-> IF conn[c] = "none" THEN "none" ELSE "closed"]
      /\ UNCHANGED <<managers, handle, epolls, connection_id, epoll_fd>>
  BY DEF LookUpNull
<1>2. RestOK
  BY TypeFromCalls DEF ServerInv
<1>3. Calls' = {} /\ DOMAIN queue' = {} /\ queue' \in Seq(CallSet)
  BY <1>1 DEF Calls, ToSet
<1>4. CallsInv' /\ OnceInv'
  BY <1>1, <1>3 DEF CallsInv, OnceInv
<1>5. EntryInv'
  BY <1>1, <1>3 DEF EntryInv
<1>6. ConnInv'
  BY <1>1, <1>3 DEF ConnInv
<1>7. BootInv' /\ OrderInv'
  BY <1>1, <1>3 DEF BootInv, OrderInv, Listening
<1>8. RestOK'
  <2>1. map' \in [Entries -> [p_handle : BOOLEAN, socket_fd : Conns \cup {NULL}]]
    BY <1>1
  <2>2. conn' \in [Conns -> {"none", "waiting", "accepted", "registered", "closed", "dropped"}]
    BY <1>1
  <2> QED
    BY <1>1, <1>2, <2>1, <2>2 DEF RestOK
<1> QED
  BY <1>4, <1>5, <1>6, <1>7, <1>8, TypeNext DEF ServerInv
-----------------------------------------------------------------------------
(* Theorems *)

LEMMA ServerStep == ServerInv /\ [Next]_vars => ServerInv'
<1> SUFFICES ASSUME ServerInv, [Next]_vars PROVE ServerInv'
  OBVIOUS
<1>1. CASE UNCHANGED vars
  <2>1. UNCHANGED <<stage, managers, handle, epolls, queue, running, map, connection_id, conn, epoll_fd>>
    BY <1>1 DEF vars
  <2>2. RestOK'
    BY <2>1, TypeFromCalls DEF ServerInv, RestOK
  <2>3. BootInv'
    BY <2>1, TableKept DEF ServerInv, BootInv, LoopCall, Call
  <2> QED
    BY <2>1, <2>2, <2>3, TableKept, TypeNext DEF ServerInv
<1> QED
  BY <1>1, StartStep, FetchStep, ConnectStep, AcceptStep, PlaceStep, CallNewStep, NewStep, SettleStep, ClearStep,
     CrashStep
     DEF Next, hs_accept_thread, hs_new_connection

\* The inductive invariant of the start and of the table of new connections.
THEOREM ServerInvariant == Spec => []ServerInv
  BY ServerInit, ServerStep, PTL DEF Spec

\* A connection that was accepted is in one pair of hands, and an entry of the
\* table is in use exactly while a call for it waits or runs.
THEOREM OneHolderHolds == Spec => []OneHolder
<1>1. ServerInv => OneHolder
  <2> SUFFICES ASSUME ServerInv PROVE OneHolder
    OBVIOUS
  <2>1. ASSUME NEW k \in Conns, conn[k] = "accepted"
        PROVE  Cardinality({c \in Unread : map[c.arg].socket_fd = k}
                           \cup {c \in running : c.fd = k /\ c.at # "clear"}) = 1
    <3> DEFINE H == {c \in Unread : map[c.arg].socket_fd = k}
                    \cup {c \in running : c.fd = k /\ c.at # "clear"}
    <3>1. \A c \in Calls : c.at = "start" => c.fd # k
      BY NumsAssumption DEF ServerInv, CallsInv
    <3>2. \A c \in Calls : c.at \in {"start", "place", "call", "register", "clear"}
      BY DEF ServerInv, TypeOK, Calls
    <3>3. \A c \in ToSet(queue) : c.at = "start"
      BY InQueue DEF ServerInv, CallsInv
    <3>4. H \subseteq Calls /\ \A c \in H : Has(c, k)
      BY <3>1, <3>2 DEF Unread, Has, Calls
    <3>5. \A c \in Calls : Has(c, k) => c \in H
      BY <3>3 DEF Unread, Has, Calls
    <3>6. PICK c \in Calls : Has(c, k)
      BY <2>1 DEF ServerInv, ConnInv
    <3>7. H = {c}
      BY <3>4, <3>5, <3>6 DEF ServerInv, ConnInv
    <3> QED
      BY <3>7, FS_Singleton
  <2>2. ASSUME NEW e \in Entries
        PROVE  map[e].p_handle <=>
                  \E c \in running \cup ToSet(queue) :
                      /\ c.arg = e
                      /\ c.func = "hs_new_connection" \/ (c.func = "hs_accept_thread" /\ c.at = "call")
    <3>1. map[e].p_handle \in BOOLEAN
      BY DEF ServerInv, TypeOK
    <3> QED
      BY <3>1 DEF ServerInv, EntryInv, Holds, Calls
  <2> QED
    BY <2>1, <2>2 DEF OneHolder, ServerInv
<1> QED
  BY <1>1, ServerInvariant, PTL

\* A thread that has the loop of an epoll keeps it until the process dies.
LEMMA LoopsRun ==
    ASSUME ServerInv, [Next]_vars, \A k \in Conns : ~LookUpNull(k),
           NEW i \in Epolls, LoopCall(i) \in running
    PROVE  LoopCall(i) \in running'
<1>1. LoopCall(i).func = "hs_event_loop"
  BY DEF LoopCall, Call
<1>2. CASE UNCHANGED running \/ \E c : running' = running \cup {c}
  BY <1>2
<1>3. CASE \E c \in running : c.func # "hs_event_loop" /\ \E to : Moves(c, to)
  BY <1>1, <1>3 DEF Moves
<1>4. CASE \E c \in running : c.func # "hs_event_loop" /\ running' = running \ {c}
  BY <1>1, <1>4
<1>5. CASE UNCHANGED vars
  BY <1>2, <1>5 DEF vars
<1>6. CASE Start
  <2>1. UNCHANGED running
    BY <1>6 DEF Start, acm_start, sd_init, CreatePools, hs_bind, EpollCreate, StartLoops,
                StartAccept, StartFails
  <2> QED
    BY <1>2, <2>1
<1>7. CASE Fetch
  BY <1>2, <1>7 DEF Fetch
<1>8. CASE \E k \in Conns : Connect(k)
  BY <1>2, <1>8 DEF Connect
<1>9. CASE hs_accept_thread
  BY <1>3, <1>9 DEF hs_accept_thread, Place, CallNew, Accept
<1>10. CASE \E e \in Entries : New(e) \/ Register(e) \/ NewFails(e)
  BY <1>3, <1>10 DEF New, Register, NewFails
<1>11. CASE \E e \in Entries : Clear(e)
  BY <1>4, <1>11 DEF Clear
<1> QED
  BY <1>5, <1>6, <1>7, <1>8, <1>9, <1>10, <1>11 DEF Next, hs_new_connection

LEMMA ClientStep == ServerInv /\ ClientInv /\ [Next]_vars => ClientInv'
<1> SUFFICES ASSUME ServerInv, ClientInv, [Next]_vars PROVE ClientInv'
  OBVIOUS
<1>0. RestOK /\ \A i \in Epolls : LoopCall(i)' = LoopCall(i)
  BY TypeFromCalls DEF ServerInv, LoopCall, Call
<1>1. CASE \E k \in Conns : LookUpNull(k)
  <2>1. \A k \in Conns : conn'[k] \in {"none", "closed"}
    BY <1>1 DEF LookUpNull
  <2> QED
    BY <2>1 DEF ClientInv
<1>2. CASE \A k \in Conns : ~LookUpNull(k)
  <2> DEFINE Here == {"waiting", "accepted", "registered"}
  <2>1. \A i \in Epolls : LoopCall(i) \in running => LoopCall(i) \in running'
    BY <1>2, LoopsRun
  <2>2. ASSUME NEW k \in Conns,
               conn'[k] \in Here => conn[k] \in Here \/ Listening,
               conn'[k] = "registered" =>
                  (conn[k] = "registered" /\ epoll_fd'[k] = epoll_fd[k]) \/ epoll_fd'[k] \in Epolls
        PROVE  /\ conn'[k] \in Here => \A i \in Epolls : LoopCall(i) \in running'
               /\ conn'[k] = "registered" => epoll_fd'[k] \in Epolls
    <3>1. conn[k] \in Here \/ Listening => \A i \in Epolls : LoopCall(i) \in running
      BY DEF ClientInv, ServerInv, OrderInv
    <3> QED
      BY <2>1, <2>2, <3>1 DEF ClientInv
  <2>3. ASSUME UNCHANGED <<conn, epoll_fd>> PROVE ClientInv'
    BY <1>0, <2>2, <2>3 DEF ClientInv
  <2>4. CASE UNCHANGED vars
    BY <2>3, <2>4 DEF vars
  <2>5. CASE Start
    BY <2>3, <2>5 DEF Start, acm_start, sd_init, CreatePools, hs_bind, EpollCreate, StartLoops,
                      StartAccept, StartFails
  <2>6. CASE Fetch
    BY <2>3, <2>6 DEF Fetch
  <2>7. ASSUME NEW k \in Conns, Connect(k) PROVE ClientInv'
    <3>1. /\ Listening /\ conn'[k] = "waiting" /\ epoll_fd' = epoll_fd
          /\ \A j \in Conns : j # k => conn'[j] = conn[j]
      BY <1>0, <2>7 DEF Connect, RestOK
    <3> QED
      BY <1>0, <2>2, <3>1 DEF ClientInv
  <2>8. ASSUME NEW k \in Conns, Accept(k) PROVE ClientInv'
    <3>1. /\ conn[k] = "waiting" /\ conn'[k] = "accepted" /\ epoll_fd' = epoll_fd
          /\ \A j \in Conns : j # k => conn'[j] = conn[j]
      BY <1>0, <2>8 DEF Accept, RestOK
    <3> QED
      BY <1>0, <2>2, <3>1 DEF ClientInv
  <2>9. CASE Place
    <3>1. epoll_fd' = epoll_fd /\ \A j \in Conns : conn'[j] \in {conn[j], "closed"}
      BY <1>0, <2>9 DEF Place, RestOK
    <3> QED
      BY <1>0, <2>2, <3>1 DEF ClientInv
  <2>10. CASE CallNew
    BY <2>3, <2>10 DEF CallNew
  <2>11. ASSUME NEW e \in Entries, New(e) \/ Clear(e) PROVE ClientInv'
    BY <2>3, <2>11 DEF New, Clear
  <2>12. ASSUME NEW e \in Entries, Register(e) PROVE ClientInv'
    <3>1. PICK c \in running, i \in Epolls :
            /\ c.at = "register"
            /\ conn' = [conn EXCEPT ![c.fd] = "registered"]
            /\ epoll_fd' = [epoll_fd EXCEPT ![c.fd] = i]
      BY <2>12 DEF Register
    <3>2. \A j \in Conns : j = c.fd => conn[j] = "accepted"
      BY <3>1 DEF ServerInv, ConnInv, Has, Calls
    <3>3. \A j \in Conns : j = c.fd => conn'[j] = "registered" /\ epoll_fd'[j] = i
      BY <1>0, <3>1 DEF RestOK
    <3>4. \A j \in Conns : j # c.fd => conn'[j] = conn[j] /\ epoll_fd'[j] = epoll_fd[j]
      BY <1>0, <3>1 DEF RestOK
    <3> QED
      BY <1>0, <2>2, <3>2, <3>3, <3>4 DEF ClientInv
  <2>13. ASSUME NEW e \in Entries, NewFails(e) PROVE ClientInv'
    <3>1. epoll_fd' = epoll_fd /\ \A j \in Conns : conn'[j] \in {conn[j], "dropped"}
      BY <1>0, <2>13 DEF NewFails, RestOK
    <3> QED
      BY <1>0, <2>2, <3>1 DEF ClientInv
  <2> QED
    BY <1>2, <2>4, <2>5, <2>6, <2>7, <2>8, <2>9, <2>10, <2>11, <2>12, <2>13
       DEF Next, hs_accept_thread, hs_new_connection
<1> QED
  BY <1>1, <1>2

\* Nobody is accepted before every epoll has its loop on a thread, a connection
\* that is registered has the loop of its epoll, and a start that fails frees the
\* handle while no thread has it: also when the agent manager or the discovery
\* did not start.
THEOREM ReadyToServeHolds == Spec => []ReadyToServe
<1>1. Init => ClientInv
  BY DEF Init, ClientInv
<1>2. ServerInv /\ ClientInv => ReadyToServe
  <2> SUFFICES ASSUME ServerInv, ClientInv PROVE ReadyToServe
    OBVIOUS
  <2>1. Listening => \A i \in Epolls : LoopCall(i) \in running
    BY DEF ServerInv, OrderInv
  <2>2. \A k \in Conns : conn[k] = "registered" => LoopCall(epoll_fd[k]) \in running
    BY DEF ClientInv
  <2>3. handle = "freed" => queue = <<>> /\ running = {}
    BY DEF ServerInv, BootInv
  <2> QED
    BY <2>1, <2>2, <2>3 DEF ReadyToServe, LoopCall
<1> QED
  BY <1>1, <1>2, ServerInvariant, ClientStep, PTL DEF Spec
=============================================================================
