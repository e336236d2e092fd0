-------------------------- MODULE ServiceDiscovery --------------------------
(***************************************************************************)
(* service-discovery.c under the content handler of consumer-agent.c.      *)
(* Several io threads handle forms at once.  A handler takes the service   *)
(* name from the form, finds the service's node in a table (service_tb,    *)
(* under service_tb_rwlock) or asks etcd for it (once, under find_mutex),  *)
(* chooses the endpoint with the fewest requests per load_level below a    *)
(* limit (under the node's spin lock), and sends the form there; a read    *)
(* thread of the agent-client-manager takes a request off the count when   *)
(* its response is there.                                                  *)
(*                                                                         *)
(* Characters are their codes.  saturated_list, load_balance_list, remain, *)
(* endpoints_num and p_next_req_endpoint are written by the code and never *)
(* read (their readers are commented out): they are left out.  The request *)
(* itself is the subject of AcmWriteQueue, AcmRequestMap and AcmReader.    *)
(***************************************************************************)
EXTENDS Integers, Sequences, FiniteSets, SequencesExt

CONSTANTS
    Threads,          \* threads that run content_handler
    Forms,            \* the contents they may be called with
    ServiceOf,        \* form -> the service its sender means
    Registry,         \* etcd: service name -> sequence of [key, value, at]: two
                      \* texts, and the address that the provider agent put in
    service_tb_size,
    Limit,            \* requests of an endpoint that has no room (200)
    EtcdAnswers,      \* what etcd_get may come back with
    Refusing,         \* addresses that may refuse a connection
    MaxCalls,         \* bound: calls of the content handler
    NULL

\* A power of two (the code has 1024).
ASSUME SizeAssumption == service_tb_size \in 1..1024 /\ 1024 % service_tb_size = 0
ASSUME LimitAssumption == Limit \in Nat \ {0} /\ MaxCalls \in Nat
ASSUME AnswersAssumption ==
    EtcdAnswers \subseteq {"nodes", "none", "no_node", "no_nodes", "null_value"}
ASSUME FormsAssumption == \A f \in Forms : f \in Seq(0..255)
ASSUME ThreadsAssumption == IsFiniteSet(Threads) /\ NULL \notin Threads
ASSUME RegistryAssumption ==
    \A s \in DOMAIN Registry : Registry[s] \in Seq(ToSet(Registry[s]))

VARIABLES
    service_tb,       \* the table: index -> chain of nodes, as indexes of node
    node,             \* sd_service_node: its name, its comsuming_list
    endpoint,         \* sd_endpoint: load_level, the address of its channel
    request_num,      \* acm_channel.request_num, by endpoint
    outstanding,      \* requests that an endpoint may still answer
    find_mutex, writer, readers, spinlock,
    pc, call,         \* content_handler: where it is, its variables
    calls,            \* calls so far
    wild              \* an unset pointer was used: nothing is known from then on

table == <<service_tb, node, endpoint>>
load == <<request_num, outstanding>>
locks == <<find_mutex, writer, readers, spinlock>>
vars == <<table, load, locks, pc, call, calls, wild>>
-----------------------------------------------------------------------------
(* Names *)

EQ == 61
AMP == 38
PERCENT == 37
SLASH == 47
COLON == 58

hex2dec(c) == CASE c \in 48..57 -> c - 48
                [] c \in 97..102 -> c - 97 + 10
                [] c \in 65..70 -> c - 65 + 10
                [] OTHER -> -1

CharAt(src, i) == IF i \in DOMAIN src THEN src[i] ELSE 0

\* The value of the first parameter, decoded.
get_service_name(src) ==
    LET value[i \in 1..(Len(src) + 3)] ==
            CASE CharAt(src, i) \in {0, AMP} -> <<>>
              [] CharAt(src, i) = EQ -> value[i + 1]
              [] CharAt(src, i) = PERCENT ->
                   <<(16 * hex2dec(CharAt(src, i + 1)) + hex2dec(CharAt(src, i + 2))) % 256>>
                   \o value[i + 3]
              [] OTHER -> <<CharAt(src, i)>> \o value[i + 1]
        start == SelectInSeq(src, LAMBDA c : c \in {EQ, AMP})
    IN  IF start = 0 \/ src[start] = AMP THEN <<>> ELSE value[start]

\* unsigned arithmetic; service_tb_size divides 2^32.
sd_hash_code(str) ==
    LET h[i \in 0..Len(str)] == IF i = 0 THEN 0 ELSE (31 * h[i - 1] + str[i]) % service_tb_size
    IN  h[Len(str)]

\* Digits (stdlib).
atoi(str) == FoldLeft(LAMBDA n, c : 10 * n + c - 48, 0, str)

\* From the end back: what is behind the last slash, cut at its first colon.
sd_parse_ip_and_port(src) ==
    LET slash == SelectLastInSeq(src, LAMBDA c : c = SLASH)
        tail == SubSeq(src, slash + 1, Len(src))
        colon == SelectInSeq(tail, LAMBDA c : c = COLON)
    IN  [ip |-> SubSeq(tail, 1, colon - 1),
         port |-> atoi(SubSeq(tail, colon + 1, Len(tail)))]

AddressIn == [key \in {entry.key : entry \in UNION {ToSet(Registry[s]) : s \in DOMAIN Registry}} |->
                sd_parse_ip_and_port(key)]
NameIn == [f \in Forms |-> get_service_name(f)]
Bucket == [s \in {NameIn[f] : f \in Forms} |-> sd_hash_code(s) % service_tb_size]

\* The forms and keys are decoded to what their senders put in, and services are
\* told apart by their buckets.
NamesRight ==
    /\ \A f \in Forms : NameIn[f] = ServiceOf[f]
    /\ \A s \in DOMAIN Registry : \A entry \in ToSet(Registry[s]) : AddressIn[entry.key] = entry.at
    /\ \A r, s \in DOMAIN Bucket : Bucket[r] = Bucket[s] => r = s

\* Provider agents register numbers.
ASSUME LevelAssumption ==
    \A s \in DOMAIN Registry : \A entry \in ToSet(Registry[s]) : atoi(entry.value) \in Nat
-----------------------------------------------------------------------------
NoCall == [name |-> <<>>, meant |-> <<>>, lookup |-> 0, node |-> 0, nodes |-> <<>>,
           unseen |-> <<>>, seen |-> <<>>, optimal |-> 0]

\* sd_init; no content handler runs before it.
Init ==
    /\ service_tb = [i \in 0..(service_tb_size - 1) |-> <<>>]
    /\ node = <<>> /\ endpoint = <<>>
    /\ request_num = <<>> /\ outstanding = <<>>
    /\ find_mutex = NULL /\ writer = NULL /\ readers = {} /\ spinlock = <<>>
    /\ pc = [t \in Threads |-> "idle"]
    /\ call = [t \in Threads |-> NoCall]
    /\ calls = 0 /\ wild = FALSE

Goto(t, from, to) == ~wild /\ pc[t] = from /\ pc' = [pc EXCEPT ![t] = to]

\* content_handler is called with a form.
content_handler(t) ==
    /\ Goto(t, "idle", "rdlock")
    /\ calls < MaxCalls /\ calls' = calls + 1
    /\ \E f \in Forms :
          call' = [call EXCEPT ![t] = [NoCall EXCEPT !.name = NameIn[f], !.lookup = 1,
                                                     !.meant = ServiceOf[f]]]
    /\ UNCHANGED <<table, load, locks, wild>>
-----------------------------------------------------------------------------
(* sd_get_service_node, called up to three times *)

\* Mutant: the table is read without its lock.
RdLockFree(t) ==
    /\ Goto(t, "rdlock", "lookup")
    /\ readers' = readers \cup {t}
    /\ UNCHANGED <<table, load, find_mutex, writer, spinlock, call, calls, wild>>

RdLock(t) ==
    /\ Goto(t, "rdlock", "lookup")
    /\ writer = NULL
    /\ readers' = readers \cup {t}
    /\ UNCHANGED <<table, load, find_mutex, writer, spinlock, call, calls, wild>>

\* Mutant: the second look is left out.
LookupOnce(t) ==
    LET chain == service_tb[Bucket[call[t].name]]
        found == IF chain = <<>> \/ call[t].lookup = 2 THEN 0 ELSE Head(chain)
    IN
    /\ Goto(t, "lookup",
            CASE call[t].lookup = 1 -> (IF found = 0 THEN "mutex" ELSE "spin")
              [] call[t].lookup = 2 -> (IF found = 0 THEN "wrlock" ELSE "unmutex")
              [] call[t].lookup = 3 -> "unmutex")
    /\ readers' = readers \ {t}
    /\ call' = [call EXCEPT ![t].node = found]
    /\ UNCHANGED <<table, load, find_mutex, writer, spinlock, calls, wild>>

\* The first node of the bucket is taken, whatever its name.
Lookup(t) ==
    LET chain == service_tb[Bucket[call[t].name]]
        found == IF chain = <<>> THEN 0 ELSE Head(chain)
    IN
    /\ Goto(t, "lookup",
            CASE call[t].lookup = 1 -> (IF found = 0 THEN "mutex" ELSE "spin")
              [] call[t].lookup = 2 -> (IF found = 0 THEN "wrlock" ELSE "unmutex")
              [] call[t].lookup = 3 -> "unmutex")
    /\ readers' = readers \ {t}
    /\ call' = [call EXCEPT ![t].node = found]
    /\ UNCHANGED <<table, load, find_mutex, writer, spinlock, calls, wild>>
-----------------------------------------------------------------------------
(* The first call for a service: sd_service_find under both locks *)

LockFind(t) ==
    /\ Goto(t, "mutex", "rdlock")
    /\ find_mutex = NULL /\ find_mutex' = t
    /\ call' = [call EXCEPT ![t].lookup = 2]
    /\ UNCHANGED <<table, load, writer, readers, spinlock, calls, wild>>

WrLock(t) ==
    /\ Goto(t, "wrlock", "add")
    /\ writer = NULL /\ readers = {}
    /\ writer' = t
    /\ UNCHANGED <<table, load, find_mutex, readers, spinlock, call, calls, wild>>

\* The endpoints of a node are freed, and, if there were any, the head of the
\* list after them, which is part of the node.
sd_rls_endpoints(n) == wild' = (node[n].list # <<>>)

\* The node is linked before anything is known of the service.  The endpoints of
\* a service that is there already are released.
sd_add_and_init_service(t) ==
    LET b == Bucket[call[t].name]
        known == SelectInSeq(service_tb[b], LAMBDA n : node[n].name = call[t].name)
    IN
    /\ Goto(t, "add", "etcd")
    /\ IF known > 0
       THEN LET n == service_tb[b][known] IN
            /\ call' = [call EXCEPT ![t].node = n]
            /\ sd_rls_endpoints(n)
            /\ UNCHANGED <<service_tb, node, spinlock>>
       ELSE LET n == Len(node) + 1 IN
            /\ call' = [call EXCEPT ![t].node = n]
            /\ node' = Append(node, [name |-> call[t].name, list |-> <<>>])
            /\ service_tb' = [service_tb EXCEPT ![b] = <<n>> \o @]
            /\ spinlock' = Append(spinlock, NULL)
            /\ UNCHANGED wild
    /\ UNCHANGED <<endpoint, load, find_mutex, writer, readers, calls>>

\* Mutant: etcd is asked for the directory of all services.
AnswerAll(name, a) ==
    CASE a = "nodes" -> FlattenSeq(SetToSeq({Registry[s] : s \in DOMAIN Registry}))
      [] a = "null_value" -> [Registry[name] EXCEPT ![Len(Registry[name])] = NULL]
      [] OTHER -> <<>>

\* The nodes that etcd's answer lists; a null value ends the walk where it is.
Answer(name, a) ==
    CASE a = "nodes" -> Registry[name]
      [] a = "null_value" -> [Registry[name] EXCEPT ![Len(Registry[name])] = NULL]
      [] OTHER -> <<>>

\* etcd_get, and the parts of the answer that lead to the nodes.  There is no
\* answer without libcurl, without etcd, or when it does not come in one piece:
\* etcd_process_get_data takes the first.
etcd_get(t) ==
    /\ \E a \in EtcdAnswers :
          /\ a \in {"nodes", "null_value"} => call[t].name \in DOMAIN Registry
          /\ Goto(t, "etcd", IF a \in {"nodes", "null_value"} THEN "walk" ELSE "fail")
          /\ call' = [call EXCEPT ![t].nodes = Answer(call[t].name, a)]
    /\ UNCHANGED <<table, load, locks, calls, wild>>

\* Before the first endpoint whose load_level is not larger.
sd_insert_endpoint(list, level, e) ==
    LET at == SelectInSeq(list, LAMBDA x : level >= endpoint[x].load_level)
    IN  IF at = 0 THEN Append(list, e) ELSE InsertAt(list, at, e)

\* A node of the answer: acm_connect, and the endpoint is linked.
AddEndpoint(t) ==
    LET entry == Head(call[t].nodes)
        level == atoi(entry.value)
        e == Len(endpoint) + 1
    IN
    /\ pc[t] = "walk" /\ ~wild
    /\ call[t].nodes # <<>> /\ entry # NULL
    /\ endpoint' = Append(endpoint, [at |-> AddressIn[entry.key], load_level |-> level])
    /\ request_num' = Append(request_num, 0)
    /\ outstanding' = Append(outstanding, 0)
    /\ node' = [node EXCEPT ![call[t].node].list = sd_insert_endpoint(@, level, e)]
    /\ call' = [call EXCEPT ![t].nodes = Tail(@)]
    /\ UNCHANGED <<service_tb, locks, pc, calls, wild>>

\* acm_connect fails: the node is passed over.
ConnectFails(t) ==
    /\ pc[t] = "walk" /\ ~wild
    /\ call[t].nodes # <<>> /\ Head(call[t].nodes) # NULL
    /\ AddressIn[Head(call[t].nodes).key] \in Refusing
    /\ call' = [call EXCEPT ![t].nodes = Tail(@)]
    /\ UNCHANGED <<table, load, locks, pc, calls, wild>>

\* The last node, or one without a value (which is an error).
WalkEnds(t) ==
    /\ Goto(t, "walk", IF call[t].nodes = <<>> THEN "unwrlock" ELSE "fail")
    /\ call[t].nodes # <<>> => Head(call[t].nodes) = NULL
    /\ UNCHANGED <<table, load, locks, call, calls, wild>>

\* Mutant: the write lock is forgotten on the way out.
FailForgetsLock(t) ==
    /\ Goto(t, "failed", "idle")
    /\ UNCHANGED <<table, load, locks, call, calls, wild>>

\* The error path gives the mutex back first; the handler answers "Failed!".
FailUnlockFind(t) ==
    /\ Goto(t, "fail", "failed")
    /\ find_mutex' = NULL
    /\ UNCHANGED <<table, load, writer, readers, spinlock, call, calls, wild>>

FailUnlockTable(t) ==
    /\ Goto(t, "failed", "idle")
    /\ writer' = NULL
    /\ call' = [call EXCEPT ![t] = NoCall]
    /\ UNCHANGED <<table, load, find_mutex, readers, spinlock, calls, wild>>

UnlockTable(t) ==
    /\ Goto(t, "unwrlock", "rdlock")
    /\ writer' = NULL
    /\ call' = [call EXCEPT ![t].lookup = 3]
    /\ UNCHANGED <<table, load, find_mutex, readers, spinlock, calls, wild>>

UnlockFind(t) ==
    /\ Goto(t, "unmutex", "spin")
    /\ find_mutex' = NULL
    /\ UNCHANGED <<table, load, writer, readers, spinlock, call, calls, wild>>
-----------------------------------------------------------------------------
(* The choice, under ep_link_spinlock; read threads count down meanwhile *)

\* Mutant: the choice is made without the lock.
SpinLockNotKept(t) ==
    /\ Goto(t, "spin", "choose")
    /\ call' = [call EXCEPT ![t].unseen = node[call[t].node].list, ![t].optimal = 0]
    /\ UNCHANGED <<table, load, locks, calls, wild>>

SpinLock(t) ==
    /\ Goto(t, "spin", "choose")
    /\ spinlock[call[t].node] = NULL
    /\ spinlock' = [spinlock EXCEPT ![call[t].node] = t]
    /\ call' = [call EXCEPT ![t].unseen = node[call[t].node].list, ![t].optimal = 0]
    /\ UNCHANGED <<table, load, find_mutex, writer, readers, calls, wild>>

\* a requests at level l are fewer per level than b at level m.  A level of 0
\* gives infinity or NaN, which is below nothing.
Fewer(a, l, b, m) == l > 0 /\ a * m < b * l

\* Mutant: requests are compared, not requests per level.
BetterUnweighted(t, e) ==
    LET best == call[t].optimal
        n == request_num[e]
    IN  /\ n < Limit
        /\ IF best = 0 THEN endpoint[e].load_level > 0
           ELSE Fewer(n, 1, call[t].seen[best], 1)

\* The endpoint is better than the best one so far (min_ppl starts at 999999999).
Better(t, e) ==
    LET best == call[t].optimal
        n == request_num[e]
    IN  /\ n < Limit
        /\ IF best = 0 THEN endpoint[e].load_level > 0
           ELSE Fewer(n, endpoint[e].load_level,
                      call[t].seen[best], endpoint[best].load_level)

\* One endpoint of the list is looked at; seen is what request_num was then.
Consider(t) ==
    LET e == Head(call[t].unseen) IN
    /\ pc[t] = "choose" /\ ~wild
    /\ call[t].unseen # <<>>
    /\ call' = [call EXCEPT ![t].unseen = Tail(@),
                            ![t].seen = [x \in DOMAIN endpoint |->
                                IF x = e THEN request_num[e]
                                ELSE IF x \in DOMAIN @ THEN @[x] ELSE -1],
                            ![t].optimal = IF Better(t, e) THEN e ELSE @]
    /\ UNCHANGED <<table, load, locks, pc, calls, wild>>

\* The request is counted.  Without an endpoint p_optimal_endpoint was never set.
Take(t) ==
    /\ Goto(t, "choose", "unspin")
    /\ call[t].unseen = <<>>
    /\ IF call[t].optimal = 0
       THEN wild' = TRUE /\ UNCHANGED request_num
       ELSE request_num' = [request_num EXCEPT ![call[t].optimal] = @ + 1] /\ UNCHANGED wild
    /\ call' = [call EXCEPT ![t].seen = <<>>]
    /\ UNCHANGED <<table, outstanding, locks, calls>>

SpinUnlock(t) ==
    /\ Goto(t, "unspin", "request")
    /\ spinlock' = [spinlock EXCEPT ![call[t].node] = NULL]
    /\ UNCHANGED <<table, load, find_mutex, writer, readers, call, calls, wild>>

\* acm_request; a request that fails, or that a broken channel never sends, stays
\* counted.
Request(t) ==
    /\ Goto(t, "request", "idle")
    /\ \/ outstanding' = [outstanding EXCEPT ![call[t].optimal] = @ + 1]
       \/ UNCHANGED outstanding
    /\ call' = [call EXCEPT ![t] = NoCall]
    /\ UNCHANGED <<table, request_num, locks, calls, wild>>

\* acm_io_read_thread has a whole response.
Response(e) ==
    /\ outstanding[e] > 0 /\ ~wild
    /\ outstanding' = [outstanding EXCEPT ![e] = @ - 1]
    /\ request_num' = [request_num EXCEPT ![e] = @ - 1]
    /\ UNCHANGED <<table, locks, pc, call, calls, wild>>
-----------------------------------------------------------------------------
Find(t) == \/ LockFind(t) \/ WrLock(t) \/ sd_add_and_init_service(t) \/ etcd_get(t)
           \/ AddEndpoint(t) \/ ConnectFails(t) \/ WalkEnds(t)
           \/ FailUnlockFind(t) \/ FailUnlockTable(t) \/ UnlockTable(t) \/ UnlockFind(t)
Choose(t) == SpinLock(t) \/ Consider(t) \/ Take(t) \/ SpinUnlock(t) \/ Request(t)
Handling(t) == RdLock(t) \/ Lookup(t) \/ Find(t) \/ Choose(t)

Next == \/ \E t \in Threads : content_handler(t) \/ Handling(t)
        \/ \E e \in DOMAIN endpoint : Response(e)

Spec == Init /\ [][Next]_vars

(* Threads that can go on do; etcd_get and acm_connect return.               *)
FairSpec == Spec /\ \A t \in Threads : WF_vars(Handling(t))
-----------------------------------------------------------------------------
(* Properties *)

TypeOK ==
    /\ service_tb \in [0..(service_tb_size - 1) -> Seq(DOMAIN node)]
    /\ \A n \in DOMAIN node : node[n].name \in DOMAIN Bucket /\ node[n].list \in Seq(DOMAIN endpoint)
    /\ DOMAIN request_num = DOMAIN endpoint /\ DOMAIN outstanding = DOMAIN endpoint
    /\ DOMAIN spinlock = DOMAIN node
    /\ \A e \in DOMAIN endpoint : request_num[e] \in Nat /\ outstanding[e] \in Nat
    /\ {find_mutex, writer} \subseteq Threads \cup {NULL} /\ readers \subseteq Threads
    /\ DOMAIN pc = Threads /\ DOMAIN call = Threads
    /\ \A t \in Threads : call[t].node \in {0} \cup DOMAIN node
                          /\ call[t].optimal \in {0} \cup DOMAIN endpoint
    /\ calls \in 0..MaxCalls /\ wild \in BOOLEAN

Building(t) == pc[t] \in {"add", "etcd", "walk"}
Choosing(t) == pc[t] \in {"choose", "unspin"}

\* etcd is asked once for a service, however many first requests for it come at
\* once: no second node is made for it, and endpoints in use are not released.
FoundOnce ==
    /\ TypeOK
    /\ \A m, n \in DOMAIN node : node[m].name = node[n].name => m = n
    /\ \A t \in Threads : pc[t] = "add" =>
            \A n \in DOMAIN node : node[n].name # call[t].name

\* Nobody walks a list of endpoints while it is being built: insertion takes
\* the mutex of the node, the choice its spin lock, and only the table's lock
\* keeps them apart.
NotWalkedWhileBuilt ==
    \A t, u \in Threads :
        Building(t) /\ pc[t] # "add" /\ pc[u] \in {"spin", "choose", "unspin"}
            => call[t].node # call[u].node

\* The request goes to an address that a provider agent of the service that the
\* form names has registered, however the form was encoded (two services in one bucket are told apart by nobody:
\* the names of the model are in different ones).
RightService ==
    \A t \in Threads : pc[t] \in {"unspin", "request"} /\ ~wild =>
        \E i \in DOMAIN Registry[call[t].meant] :
            Registry[call[t].meant][i].at = endpoint[call[t].optimal].at

\* No endpoint has more requests than the limit, whoever chooses at once and
\* however the responses come in.
LimitKept == \A e \in DOMAIN endpoint : request_num[e] <= Limit

\* What is chosen had the fewest requests per level of all endpoints below the
\* limit, as they were seen; of equals, the one with the larger level.
LeastLoaded ==
    \A t \in Threads : pc[t] = "choose" /\ call[t].unseen = <<>> /\ call[t].optimal # 0 =>
        LET best == call[t].optimal
            seen == call[t].seen
            Lvl(e) == endpoint[e].load_level
        IN  /\ seen[best] < Limit
            /\ \A e \in ToSet(node[call[t].node].list) : seen[e] < Limit /\ Lvl(e) > 0 =>
                  /\ seen[best] * Lvl(e) <= seen[e] * Lvl(best)
                  /\ seen[best] * Lvl(e) = seen[e] * Lvl(best) => Lvl(best) >= Lvl(e)

\* Without an endpoint the content handler is told so ("Failed to get optimal
\* provider-agent!", consumer-agent.c:52).
NoUnsetEndpoint == ~wild

\* A call of the content handler comes to its end, with first requests that
\* wait for the discovery, errors of etcd and connections that are refused.
HandlerReturns == \A t \in Threads : pc[t] # "idle" ~> (pc[t] = "idle" \/ wild)
=============================================================================
