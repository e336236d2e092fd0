--------------------------- MODULE AcmRequestMap ---------------------------
(***************************************************************************)
(* The pairing of requests and responses in agent-client-manager.c: every  *)
(* acm_request draws an id and stores its listener in request_map, at the  *)
(* id modulo max_hold_req_num; the read thread of a channel that gets a    *)
(* response calls the listener it finds at the response's id and empties   *)
(* the entry.  The table is shared by all channels and has no lock.        *)
(*                                                                         *)
(* The queueing and sending of the request in between is AcmWriteQueue.    *)
(* A request thread is named after its request, and so is the arg of its   *)
(* listener; the listener itself is always acm_listening.                  *)
(***************************************************************************)
EXTENDS Integers, FiniteSets

CONSTANTS
    Requests,          \* the requests, each made by a thread of its own
    Channels,          \* the connections to provider agents
    max_hold_req_num,  \* entries of request_map
    Load,              \* how the users press the table, see Admissible
    NULL

ASSUME SetsAssumption == IsFiniteSet(Requests) /\ NULL \notin Requests
ASSUME TableAssumption == max_hold_req_num \in Nat \ {0}
ASSUME LoadAssumption == Load \in {"bounded", "apart"}

VARIABLES
    request_id,   \* of struct acm_handle: the last id drawn
    request_map,  \* the entries [req_id, listening, arg]
    rpc,          \* the step of each request thread
    id,           \* the id a request drew
    channel,      \* the channel it goes to
    request_num,  \* of struct acm_channel
    dpc,          \* the step of the read thread of each channel
    recv_msg,     \* the request that its current response answers
    crashed,      \* a read thread called a null listener
    delivered     \* history: the responses that reached each request

requesters == <<request_id, rpc, id, channel>>
readers == <<dpc, recv_msg, crashed, delivered>>
vars == <<requesters, request_map, request_num, readers>>

Entry(n) == n % max_hold_req_num

\* acm_start.  It does not set the entries: the table, 51200 of them, is too large
\* for the pools and for the heap of malloc, and the pages of which it is made
\* come from the system zeroed.
Init ==
    /\ request_id = 0
    /\ request_map = [e \in 0..(max_hold_req_num - 1) |->
                         [req_id |-> 0, listening |-> FALSE, arg |-> NULL]]
    /\ rpc = [r \in Requests |-> "new"]
    /\ id = [r \in Requests |-> 0]
    /\ channel = [r \in Requests |-> NULL]
    /\ request_num = [c \in Channels |-> 0]
    /\ dpc = [c \in Channels |-> "idle"]
    /\ recv_msg = [c \in Channels |-> NULL]
    /\ crashed = FALSE
    /\ delivered = [r \in Requests |-> {}]

RequestStep(r, from, to) == ~crashed /\ rpc[r] = from /\ rpc' = [rpc EXCEPT ![r] = to]
ReadStep(c, from, to) == ~crashed /\ dpc[c] = from /\ dpc' = [dpc EXCEPT ![c] = to]
-----------------------------------------------------------------------------
(* acm_request and acm_hold_request *)

\* The requests that have drawn an id and whose response was not dealt with.
Outstanding == {r \in Requests : rpc[r] \notin {"new", "done"}}

\* The environment, in two strengths; nothing in the code ensures either.
\*   "bounded": fewer than max_hold_req_num of them when one is added;
\*   "apart":   the next id falls on the entry of none of them.
Admissible ==
    /\ Load = "bounded" => Cardinality(Outstanding) < max_hold_req_num
    /\ Load = "apart" => \A r \in Outstanding : Entry(id[r]) # Entry(request_id + 1)

\* The caller has chosen the channel and counted the request
\* (sd_get_optimal_endpoint); the id is drawn with an atomic increment.
DrawId(r, c) ==
    /\ Admissible
    /\ RequestStep(r, "new", "hold")
    /\ channel' = [channel EXCEPT ![r] = c]
    /\ request_num' = [request_num EXCEPT ![c] = @ + 1]
    /\ request_id' = request_id + 1
    /\ id' = [id EXCEPT ![r] = request_id + 1]
    /\ UNCHANGED <<request_map, readers>>

\* acm_hold_request looks at the entry and takes it, or returns -2, which
\* acm_request does not look at.
Hold(r) ==
    LET e == Entry(id[r]) IN
    /\ IF request_map[e].req_id # 0
       THEN RequestStep(r, "hold", "send") /\ UNCHANGED request_map
       ELSE /\ RequestStep(r, "hold", "listening")
            /\ request_map' = [request_map EXCEPT ![e].req_id = id[r]]
    /\ UNCHANGED <<request_id, id, channel, request_num, readers>>

HoldListening(r) ==
    /\ RequestStep(r, "listening", "arg")
    /\ request_map' = [request_map EXCEPT ![Entry(id[r])].listening = TRUE]
    /\ UNCHANGED <<request_id, id, channel, request_num, readers>>

\* Mutant: the arg of the entry's last request is left in place.
HoldArgForgotten(r) ==
    /\ RequestStep(r, "arg", "send")
    /\ request_map' = [request_map EXCEPT ![Entry(id[r])].arg = IF @ = NULL THEN r ELSE @]
    /\ UNCHANGED <<request_id, id, channel, request_num, readers>>

HoldArg(r) ==
    /\ RequestStep(r, "arg", "send")
    /\ request_map' = [request_map EXCEPT ![Entry(id[r])].arg = r]
    /\ UNCHANGED <<request_id, id, channel, request_num, readers>>

\* The write task is queued: the provider may answer from now on.
Send(r) ==
    /\ RequestStep(r, "send", "sent")
    /\ UNCHANGED <<request_id, id, channel, request_map, request_num, readers>>
-----------------------------------------------------------------------------
(* acm_io_read_thread *)

\* A whole response, to request r, has been read from channel c.
Receive(c, r) ==
    /\ ReadStep(c, "idle", "call")
    /\ rpc[r] = "sent" /\ channel[r] = c
    /\ rpc' = [rpc EXCEPT ![r] = "answered"]
    /\ recv_msg' = [recv_msg EXCEPT ![c] = r]
    /\ request_num' = [request_num EXCEPT ![c] = @ - 1]
    /\ UNCHANGED <<request_id, id, channel, request_map, crashed, delivered>>

EntryOf(c) == Entry(id[recv_msg[c]])

\* The listener found at the response's id is called with its arg, whatever
\* req_id the entry holds; a null listener ends the process.
CallListening(c) ==
    LET e == request_map[EntryOf(c)] IN
    /\ ReadStep(c, "call", "clear")
    /\ crashed' = ~e.listening
    /\ delivered' = IF e.listening /\ e.arg \in Requests
                    THEN [delivered EXCEPT ![e.arg] = @ \cup {recv_msg[c]}] ELSE delivered
    /\ UNCHANGED <<requesters, request_map, request_num, recv_msg>>

ClearListening(c) ==
    /\ ReadStep(c, "clear", "free")
    /\ request_map' = [request_map EXCEPT ![EntryOf(c)].listening = FALSE]
    /\ UNCHANGED <<requesters, request_num, recv_msg, crashed, delivered>>

\* Mutant: the entry of the latest request is freed.
ClearIdOfLatest(c) ==
    /\ ReadStep(c, "free", "idle")
    /\ request_map' = [request_map EXCEPT ![Entry(request_id)].req_id = 0]
    /\ rpc' = [rpc EXCEPT ![recv_msg[c]] = "done"]
    /\ recv_msg' = [recv_msg EXCEPT ![c] = NULL]
    /\ UNCHANGED <<request_id, id, channel, request_num, crashed, delivered>>

\* Mutant: the entry is never freed.
ClearIdForgotten(c) ==
    /\ ReadStep(c, "free", "idle")
    /\ rpc' = [rpc EXCEPT ![recv_msg[c]] = "done"]
    /\ recv_msg' = [recv_msg EXCEPT ![c] = NULL]
    /\ UNCHANGED <<request_id, id, channel, request_map, request_num, crashed, delivered>>

\* The entry is free again; the thread goes on to the next response.
ClearId(c) ==
    /\ ReadStep(c, "free", "idle")
    /\ request_map' = [request_map EXCEPT ![EntryOf(c)].req_id = 0]
    /\ rpc' = [rpc EXCEPT ![recv_msg[c]] = "done"]
    /\ recv_msg' = [recv_msg EXCEPT ![c] = NULL]
    /\ UNCHANGED <<request_id, id, channel, request_num, crashed, delivered>>
-----------------------------------------------------------------------------
RequestStepOf(r) == \/ \E c \in Channels : DrawId(r, c)
                    \/ Hold(r) \/ HoldListening(r) \/ HoldArg(r) \/ Send(r)
ReadStepOf(c) == \/ \E r \in Requests : Receive(c, r)
                 \/ CallListening(c) \/ ClearListening(c) \/ ClearId(c)

Next == \/ \E r \in Requests : RequestStepOf(r)
        \/ \E c \in Channels : ReadStepOf(c)

Spec == Init /\ [][Next]_vars

(* Threads that can go on do, and every request that was sent is answered.   *)
Fairness == /\ \A r \in Requests : WF_vars(RequestStepOf(r))
            /\ \A c \in Channels : WF_vars(ReadStepOf(c))
FairSpec == Spec /\ Fairness
-----------------------------------------------------------------------------
(* Properties *)

TypeOK ==
    /\ request_id \in Nat
    /\ request_map \in [0..(max_hold_req_num - 1) ->
                           [req_id : Nat, listening : BOOLEAN, arg : Requests \cup {NULL}]]
    /\ rpc \in [Requests -> {"new", "hold", "listening", "arg", "send", "sent", "answered", "done"}]
    /\ id \in [Requests -> Nat]
    /\ channel \in [Requests -> Channels \cup {NULL}]
    /\ request_num \in [Channels -> Int]
    /\ dpc \in [Channels -> {"idle", "call", "clear", "free"}]
    /\ recv_msg \in [Channels -> Requests \cup {NULL}]
    /\ crashed \in BOOLEAN
    /\ delivered \in [Requests -> SUBSET Requests]

\* A response reaches the connection whose request it answers, and no other, and
\* the read thread never calls the listener of an entry that has none.
RightDelivery == TypeOK /\ ~crashed /\ \A r \in Requests : delivered[r] \subseteq {r}

\* An entry belongs to one outstanding request from the moment its thread takes
\* it until the response is dealt with: no other request or response changes it.
EntryKept ==
    \A r \in Requests :
        rpc[r] \in {"send", "sent"} =>
            request_map[Entry(id[r])] = [req_id |-> id[r], listening |-> TRUE, arg |-> r]

\* Every request gets its response.
AllDelivered == \A r \in Requests : rpc[r] = "sent" ~> r \in delivered[r]

\* agent-client-manager.h:58: the ids only grow, so there is no collision as
\* long as there are no more requests than entries.  A request that finds its
\* entry taken goes on without one.
NoCollision ==
    \A r \in Requests : rpc[r] \in {"send", "sent"} => request_map[Entry(id[r])].req_id = id[r]
=============================================================================
