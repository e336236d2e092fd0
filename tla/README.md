# A TLA+ development for the service-mesh agents

The repository holds two agents of a service mesh. The **consumer agent** (C,
`src/src/main/c`) takes HTTP requests, chooses a provider through etcd and sends
the request body over a TCP connection to a **provider agent** (Java,
`src/src/main/java`), which turns it into a Dubbo call and sends the result
back. This directory models both agents, checks the models with TLC on small
instances, and proves part of them with TLAPS for instances of every size.

Paths below are relative to `src/src/main/c/src` unless they say otherwise.

## 1. Inventory

| Part | State | Operations | Talks to |
|---|---|---|---|
| thread pool `com/tdpool.c` | ring of calls, head and tail, semaphores `call_wait_n`, `ready_n`, a spin lock for callers | `tdpl_create`, `tdpl_call_func`, worker loop | everything runs in it; creates a memory pool per worker |
| memory pool `com/mmpool.c` | free lists by size, counters, last use of each size | `mmpl_getmem`, `mmpl_rlsmem`, `mmpl_rls_oldestfree` | one per worker; blocks are released into other pools than they came from |
| agent-client-manager `core/agent-client-manager.c` | per channel: write queue, queue lock, consume lock, decoder state, reading lock; shared: `request_id`, `request_map` | `acm_connect`, `acm_request`, `acm_hold_request`, `acm_event_loop`, `acm_io_write_thread`, `acm_io_read_thread` | thread pool, epoll, TCP; calls the listener of a request |
| http-server `core/http-server.c` | per channel: buffer, indexes, decoder flags; table of new connections | `hs_accept_thread`, `hs_new_connection`, `hs_event_loop`, `hs_io_read`, `hs_decoder`, `hs_io_write`, `hs_response_ok` | thread pool, epoll, TCP; calls the content handler |
| service-discovery `core/service-discovery.c` | table of services, endpoint lists, `request_num` of channels; `find_mutex`, a read-write lock, a spin lock per service | `sd_get_optimal_endpoint`, `sd_get_service_node`, `sd_service_find` | etcd, agent-client-manager |
| consumer-agent `core/consumer-agent.c` | none of its own | `cagent_start`, `content_handler`, `acm_listening`, form helpers | glues the three above |
| provider agent (Java) | decoder of each connection, `processingRequest`, the latch `rpcChannelReady`, decoder of the Dubbo connection | `channelRead`, `switchToDubbo`, `decode`, `responseFromDubbo`, `parse` | Netty, Dubbo |
| red-black tree `com/rbtree.c` | the tree | `rb_insert`, `rb_delete`, `rb_search` | a library; no caller |
| registry (Java), etcdctl, log, main | — | start-up and I/O | etcd |
| cJSON, list.h | — | vendored | |

What is hard in this code:

* **Hand-over of locks.** The consume lock and the reading lock of a channel
  are taken by an event loop and released by another thread; the first holder
  of the consume lock is `acm_connect`, so that an empty queue cannot be
  consumed. Correctness is an argument about a token, not about critical
  sections.
* **Order of registration.** Events are one-shot and edge-triggered; a thread
  releases its lock before it registers again, and everything may happen in
  between.
* **Semaphore and ring.** The semaphore counts posts, the ring counts
  reservations, and nothing says that the call that was posted is the one at
  the head.
* **Partial I/O.** Every `send` and `recv` may be short or meet `EAGAIN`, in the
  head or in the data of a message.
* **Limits.** The ring of calls, the write queue and the request map are
  indexed modulo their length, with tests for fullness that do not test it.
* **Blocking inside a pool.** Loops that never return, a discovery that holds
  two locks over an HTTP request, and a latch that is awaited in an event loop
  occupy the threads that others wait for.
* **Failure.** `pthread_create` fails, connections are reset, peers close, etcd
  does not answer, a provider refuses a connection.

`PROJECT.json` lists these hazards at their lines, with the properties that
would catch them.

## 2. Plan

In the order of importance; all but the last are written.

1. `ThreadPool`, refined to `TaskExecutor`: everything else runs in it.
2. `AcmWriteQueue`: requests, event loop and write threads of a channel.
3. `AcmRequestMap`: responses reach the connection that asked.
4. `AcmReader`: the response stream is cut right.
5. `MemPool`: block ownership and accounting.
6. `HttpChannel`: a channel from the accepted connection to response and close.
7. `ServiceDiscovery`: lookup, discovery and the choice of an endpoint.
8. `HttpServer`: start of the agent, accept loop, table of new connections.
9. `ProviderAgent`: decoders, `processingRequest`, the latch, the form parser.
10. `RbTree`, refined to `KeySet`.
11. One module that puts 2, 3, 4, 6 and 7 into one state space against an
    abstract request/response service. Today the parts meet at interfaces that
    both sides state: a provider's answer in `HttpChannel` is a listener called
    by `AcmRequestMap`, a request of `ServiceDiscovery` is one of
    `AcmWriteQueue`, the pool of `HttpServer` is the executor that `ThreadPool`
    implements, and the frames that `AcmWriteQueue` delivers whole are the input
    of `ProviderAgent`.

Theorems left: the properties of `MemPool` (its counters are sums over free
lists) and `LinksAgree` and `RedBlack` of `RbTree` (search and black heights are
recursions along the tree, which changes under them).

## 3. Modules

### ThreadPool (tdpool.c) and TaskExecutor

Each access to shared state is an action. `tdpl_create` is `Spawn`,
`SpawnError`, `WaitReady`, `AllocFails`; `tdpl_call_func` is `CallNull`,
`CallFunc`, `Lock`, `Reserve`, `WriteFunc`, `WriteArg`, `Unlock`, `Post`; the
worker loop is `Started`, `Wait`, `Fetch`, `ReadFunc`, `ReadArg`, `Return`. The
two halves of a slot are written and read separately, because the code does. A
job stands for a function with its argument. `Eternal` jobs are the event loops
and the accept loop, which occupy a worker for ever. `accepted` is history: the
job of each ticket.

`Load` says how hard the users press. The code enforces nothing, and what holds
under `"any"` is what the code itself guarantees. `"timely"` is the assumption
the design rests on: the ring is so large that workers have read a slot before
callers come round to it. Under `"any"` a worker that is slow to read its slot
may run a call made of two others, so `RightCall` and the refinement are stated
for `"timely"`.

`TaskExecutor` is what users rely on: a call is started once, in the order of
acceptance, with its own argument, and eventually if the eternal jobs leave a
worker. `Running(w)` is the refinement mapping: a worker that has taken a ticket
already runs the call of that ticket.

### AcmWriteQueue (agent-client-manager.c, write side)

One channel. A request runs `Reserve`, `Fill`, `AllowConsume`, `Register`; the
event loop `EpollWait`, `TryConsume`; a write thread `StartWrite`, `CheckEmpty`,
`SendHead`, `HeadAgain`, `SendData`, `DataAgain`, `SendError`, `Pop`, `Release`,
`Rearm`. epoll is a registration (`armed`), a ready list of one (`ready`) and an
event in the hands of the loop. `Drain` and `Break` are the peer and the
network. A byte is its position in its frame; `peer` is what the receiver can
make of the bytes so far. `peer.again` is history: a send of data has met a full
socket, after which nothing is claimed of the stream (section 6). `Room` assumes that users leave a slot free:
`acm_request` does not look.

### AcmRequestMap (agent-client-manager.c, ids and listeners)

The table shared by all channels, its entries written and cleared a field at a
time and without a lock. `Load = "apart"`: the ids of outstanding requests fall
on different entries. `"bounded"`: only that there are fewer of them than
entries, which is what the header takes to be enough. Entries begin empty:
`acm_start` does not clear the table, whose 51200 entries are more than `malloc`
takes from its heap, so they come from the system zeroed.

### AcmReader (agent-client-manager.c, read side)

One channel. The peer sends a fixed sequence of responses, which `Start` gives
by the positions at which they begin, in pieces of any size, and may close at
any moment. The decoder state (`is_head`, the two indexes,
`recv_msg`) survives from one event to the next. A response may have no data: then
the `recv` of 0 bytes succeeds only if something is behind the head in the socket,
or the peer has closed, and meets `EAGAIN` otherwise. Such a response waits for the
next byte, and `AllDispatched` says so.

### MemPool (mmpool.c)

One pool per thread, blocks that travel between them. A call is one step. The
selection sort and the choice of the sizes to trim are operators; the element
that the choice leaves unset is any value in `Uninit`. A block that is in a free list may
be released again (`ReleaseAgain`), which leaves everything as it was. A block that
went back to the system may not: the code would read its header.

### HttpChannel (http-server.c, with content_handler and acm_listening)

One connection. The event loop is `EpollWait`, `HandleEvent`; a reader runs
`Recv` or `RecvError`, `UpdateIndexes`, `Decode` once per character,
`DecodeEnd`, `Handle`, for a request without a provider `RespondFailed` and
`RespondFailedMod`, then `CheckReadDone` and `Rearm`; a provider's answer is
`Respond`, `RespondMod`; a writer runs `StartWrite`, `Send` or `SendError`,
`AfterSend`, `WriterMod`. The channel's indexes and flags are the record `ch`
with the names of the source. A byte in the buffer is its position in the
client's stream, so that what the content handler gets can be compared with
what the client sent; characters that the decoder treats alike are one, so a
header's name is one symbol and the length of a body one digit, 1 or 2.
`WellFormed` says what a request is: lines with a colon, one of them with the
length, an empty line, and a body of that length.
`EventFor` is what Linux reports: a reset is `EPOLLERR` until the error is read,
then, like a closed peer, `EPOLLRDHUP`.
A provider is sent the body through a pointer into the buffer, so `HandledWhole`
also says that the buffer still holds it. `Handle` has no failing `acm_request`: a
handler has a channel when it calls, and the `MOD` that ends `acm_request` is of a
socket that `acm_connect` has added to the write epoll and that nothing takes out
of it. A `send` after a reset is an error and not a `SIGPIPE`: the code neither
ignores the signal nor sends with `MSG_NOSIGNAL`, and would end there.

No lock protects a channel. `Load = "calm"` states what its users depend on
instead: a reader that has called the content handler returns before the event
loop gets to the event its response registered (`Calm`; a provider's answer
takes a network round trip, the reader's return a few instructions), and the
first request comes in one piece (`Whole`), because the first registration is
not one-shot. `"any"` drops both.

### HttpServer (http-server.c and cagent_start: start and accept)

`stage` walks through `cagent_start` and `hs_start` with their error paths.
`acm_start` and `sd_init` may come back with `NULL` (`managers`), which
`cagent_start` does not look at: the server starts and takes connections all the
same, and the first request of one of them goes through the `NULL` handle of the
discovery and ends the process (`LookUpNull`). Without the agent manager every
`acm_connect` fails, which is an input of `ServiceDiscovery`. The
io pool is a FIFO queue of calls (`queue`) and the calls its threads are in
(`running`). The accept loop is `Accept`, `Place`, `CallNew`; a registration is
`New`, `Register` or `NewFails`, `Clear`. `p_handle` of an entry is whether it is
in use. `epoll_i` is counted without a lock, so a connection may go to any epoll.

### ServiceDiscovery (service-discovery.c under content_handler)

A handler is a thread with a program counter: up to three times `RdLock`,
`Lookup`; for a service that is not in the table `LockFind`, `WrLock`,
`sd_add_and_init_service`, `etcd_get`, `AddEndpoint` or `ConnectFails` for each
node of the answer, `WalkEnds`, and the two unlocks in the order of the path
taken; then `SpinLock`, `Consider` for each endpoint, `Take`, `SpinUnlock`,
`Request`. `Response` is a read thread of the agent-client-manager that counts
down. Names, keys and values are sequences of character codes, so that the
decoding of the form, the hash, the parsing of the address and `atoi` are the
code's. Loads are compared by cross-multiplication, which agrees with the
`float` quotients for counts and levels this small. `wild` is set when a pointer
that was never set is used; nothing happens after it. etcd's answer is a member
of `EtcdAnswers`: the nodes, the nodes of which the last has no value, or nothing
usable. That forms are bytes and that providers register numbers are named
assumptions (`FormsAssumption`, `LevelAssumption`); `NamesRight` says that forms
and keys decode to what was put in and that services fall into different
buckets.

### ProviderAgent (the Java agent)

Connections are tied to the threads of one event loop group (`loopOf`, any
assignment), and a thread is inside one handler at a time. Bytes of consumers
and of Dubbo come in pieces; the fields of both decoders survive from one piece
to the next. `switchToDubbo` and `responseFromDubbo` are split where they touch
`processingRequest`. A form may lack a field. `ServiceSwitcher` passes the `null` on
and `halfHardEncode` fails on it, so that nothing is written and the request stays
in `processingRequest` for ever (`Complete`, `switchToDubbo_write`). `main` is the order of `AgentApp`: connect, open the latch,
serve. The widths of the numbers in a header are parameters; numbers are written
and read byte by byte (`Digits`, `Number`), and ids and lengths are assumed to
fit into their fields (`SentAssumption`, `MeaningAssumption`). `parts`,
`unescape` and `parse` are operators, compared with `Meaning`, what the sender
encoded.

### RbTree (rbtree.c) and KeySet

A node is its key. Linking or unlinking is one step, each turn of a repair
another; the mirror cases of the code are one case with a side, and `Rotate` is
both rotations. The sentinel's fields are written where the code writes them.
`KeySet` is what users see.

## 4. Runs

| Run | Bounds | Shows |
|---|---|---|
| threadpool_safety | 2 workers, 2 callers, 2 jobs, ring of 2, 4 calls, failing `pthread_create` | accounting of the semaphore, no half-written slot is taken, a returned pool is complete, under any load |
| threadpool_timely | the same, one eternal job | right calls, refinement of `TaskExecutor` with liveness |
| acm_write | 3 requests through 2 slots, 2 io threads, head of 2 bytes, full sockets, resets | one consumer, never an empty queue; frames arrive whole, in order and eventually while no send of data met a full socket |
| acm_map | 4 requests, 2 channels, 2 entries | right delivery, no null listener, entries kept, all answered |
| acm_read | responses of 1, 0, 2 and 0 bytes, head of 2, 2 io threads, close at any time | responses cut right, one reader, all dispatched |
| mempool | 2 pools, 4 blocks, 3 sizes, 6 units, 3 requests per pool, blocks released twice | exact counters, bounded pools, one owner, oldest sizes trimmed |
| http_channel | 2 requests of 11 and 17 characters in pieces of any size (the first whole), bodies of 1 and 2 bytes, responses of 2, 2 io threads, close and reset at any time | one thread at a time, requests handed over once and whole and kept while a provider has them, responses right, no use after release, all answered |
| http_accept | 4 connections, table of 2 entries, 2 event loops, 2 io threads, failures of the managers, of the start and of registrations | one holder per connection, entries neither given twice nor lost, every event loop runs before a connection is taken, every connection settled |
| sd_lookup | 2 handlers, 4 calls, 2 services with 2 endpoints each (one of level 0), limit of 2, failures of etcd and of a connection | one discovery per service, no list walked while it is built, right service, limit, least load, handlers return |
| rbtree | all sequences over 8 keys | links agree, red-black, refinement of `KeySet`, repairs end |
| provider_switch | 3 requests on 2 connections, 2 threads in any assignment, pieces of 1, 4 or 9 bytes; 28 forms, one without a field | requests cut right, meaning kept, right replies, all complete requests answered |
| sd_failed | as sd_lookup, with an etcd that may give no answer | **violated**: a service without endpoints after a failed lookup |

Every property has a mutant of the code's model that breaks it (`PROJECT.json`).
Where a module has no run for `TypeOK` alone, its first invariant contains it.

The bounds are the smallest at which the interesting cases meet: two workers
and a ring of two slots that four calls lap; a third request that finds the
queue non-empty, empty again, or being emptied; a head of two bytes so that it
can be split; more requests than entries so that entries are reused; more sizes
than `MMPL_OLDEST_RANGE` so that a trim spares some; a second HTTP request with a
second header, a body and a response that can be split, on a channel that was
used before; four connections over a table of two entries, so that entries are
refused and reused; four calls for two endpoints with a limit of two, so that the
limit is met, and two handlers that meet a new service at once; eight keys, with
which every case of both repairs happens away from the root; ids of two digits,
a form that lacks a field, is escaped or broken off, with requests behind it. Bounded inputs end, so
deadlock is not checked: a thread pool without calls and a channel without
requests do stop. The liveness properties say that nothing stops too early.

Symmetry is used in runs without temporal properties only.

**Fairness.** Weak fairness of each thread and of the event loop: the operating
system runs a thread that can go on. Spin locks are weakly fair only because the
instances have finitely many calls. A job that is not eternal returns. A peer
that is alive (provider or HTTP client) reads what it is sent (`Drain`) and answers every request
(`AcmRequestMap`, `HttpChannel`, the provider in `ProviderAgent`). Nothing is
assumed of a peer that may close or reset, nor that a provider ever answers in
`ServiceDiscovery`: its handlers return regardless. In `ServiceDiscovery`
fairness is per handler (`etcd_get` and `acm_connect` return, locks are weakly
fair because calls are finite); in `HttpServer` it is the pool's threads and the
starting thread; in `RbTree` a repair goes on; in `ProviderAgent` the network
delivers and a thread goes on unless it waits for the latch.

## 5. Proofs

`ThreadPoolProofs`, for any finite sets of workers and callers, any jobs, any
queue length and any load. The inductive invariant `SafeInv` has four parts:
the types (and that a caller inside the call has a job), the holder of the spin
lock (`LockInv`), tickets (`TicketInv`: the history has one job per reserved
ticket, the last of which is the job of the caller that writes), and
`SemaphoreAccounting` itself, which counts callers and workers in sets that
change by one element per step. From them follow:

* `FullTestNeverTrue`: the head is always below the tail, so the test for a full
  queue in `tdpl_call_func` is dead code, whatever `max_wait_n` is;
* `FetchedIsWritten`: an unposted reservation keeps the head away from the slot
  that is being written.

`ReadyMeansStarted` has its own invariant, `BegunInv`: what the creator has
waited for and what is still in `ready_n` count the workers that have begun.

The second half of the module assumes `Load = "timely"` and adds `SlotsInv` (tickets
that are needed have slots of their own, each with its call in it except for
the half that is still being written) and `CallInv`. It proves `RightCall` and
that `Spec` implies the safety part of `TaskExecutor`: `Reserve` is a `Submit`,
`Fetch` a `Start`, `Return` a `Finish`, and every other step a stutter.

`AcmWriteQueueProofs`, for any requests, threads, sizes and queue length, with
resets: `TokenInv` says that at most one of a waker, a waiting call and a write
thread exists, that it comes with the consume lock and a non-empty queue, and
that a free lock means a non-empty queue; `FillInv` ties a request that fills
its task to the queue lock. `FreeMeansNonEmpty`, `SingleConsumer` and
`CalledWithTask` follow. `StreamInv` adds the data: tasks between head and tail
are intact in their slots, the indexes of the first one are what the peer has of
its frame, and everything before it arrived whole. It gives `StreamIntact`.

`AcmRequestMapProofs`, for any requests, channels and table length, under
`Load = "apart"`: outstanding requests have entries of their own (`ApartInv`);
an entry is filled as far as its request's thread has come and intact from then
until a read thread has it; entries that belong to nobody have no `req_id`.
`RightDelivery` and `EntryKept` follow. Ids are positive and an id of 0 means an
unused entry, so the order in which the fields are written and cleared matters,
and the invariant says for each step which fields are set.

`AcmReaderProofs`, for any io threads, sizes and pieces, with a peer that may
close: the reading lock is a token that the event loop takes, a waiting call
carries and a read thread gives back (`TokenInv`), so the decoder has one user,
and what it holds is what was consumed since the response began (`DecodeInv`).
`CutRight` and `SingleReader` follow.

`HttpServerProofs`, for any threads, epolls, entries and connections, with all
the failures of the start: calls of the pool are in it once (`OnceInv`), the
accept loop's call is behind those of the event loops in a queue that is first
in, first out (`OrderInv`), an entry in use is in the hands of one call
(`EntryInv`) and so is a connection (`ConnInv`). `OneHolder` follows, and with
`ClientInv` (whoever has connected did so when every event loop ran)
`ReadyToServe`: it is about the event loops and the handle, and holds without the
agent manager or the discovery, for which nobody waits.

`ServiceDiscoveryProofs`, for any threads, forms, services and endpoints. The
invariant `FindInv` has the holders of the four kinds of locks, where a thread
is relative to them, and what they protect: whoever builds a node holds
`find_mutex` and the write lock and saw the bucket empty under the mutex. It
gives `FoundOnce` (one node per service), `NotWalkedWhileBuilt` and `LimitKept`.
`OrderInv` (lists are sorted by level, and a thread has the best of the
endpoints it has compared so far) gives `LeastLoaded`; its arithmetic is the
transitivity of the cross-multiplied comparison, stated as lemmas. `ServiceInv`
gives `RightService`, from `NamesRight`. `NamesDecoded` justifies the first part
of that hypothesis: `get_service_name` finds the bytes that were put in, for
every form whose first parameter escapes them in any way (`Escapes` places each
byte in the form). That hash codes are naturals, which the bounds of the table
rest on, is a lemma (`HashOfName`).

`HttpChannelProofs`, for any requests, any sizes of buffer and response and any
io threads, with a client that may close or reset at any moment. The
theorems do not ask for calm users: they name the two steps that break the
properties, and say that nothing else does. `OnTime` is a condition on a step:
the loop fetches no event while a reader has yet to look at `is_read_done`
(`LookedInTime`, http-server.c:457), and the first request arrives in one piece
(`FirstWhole`, :220). Each theorem is `Spec /\ [][OnTime]_vars => []...`, for any
`Load`; `CalmOnTime` proves that `Load = "calm"` implies the hypothesis, so the
run is an instance. Nothing in the code implies it: the run with `Load = "any"`
fails (section 6). Under it the channel is a token (`TokenInv`) that is with a registration
for one event, an event in the hands of the loop, a waiting call, a thread, a
provider or the thread that brings its answer. Two things are not of that shape
and need clauses of their own: the first registration, which stays armed
(`EpollInv`), and a reader that has passed the channel on but has yet to look at
`is_read_done`. `ReplyInv` counts what the client has of the responses,
`(calls - 1) * ResponseSize + write_index` while one is sent. `OneThread`,
`ResponsesRight` and `NoUseAfterRelease` follow; for them the proof needs of the
decoder only that its indexes stay within what was read (`IndexInv`).

`HandledWhole` needs the rest. `HandledInv` rests on the well-formed requests of
`WellFormedAssumption` and says where the decoder stands in one. Its main part is
`ReadInv`: while a request is under way the buffer holds, from its first byte,
what `recv` has returned of it (`Fetched`, `Loaded`), and the flags of the decoder
are those of the line, key, value or body that `decode_index` is in (`Decoded`);
while one is answered nothing further has been read. What a provider is sent
through the pointer stays as it is for the same reason (`PointerInv`). `SentInv` and `GotInv` say
that the client is not ahead of the responses, and they not of the requests.
Where requests begin
in the stream is the sum of the lengths before them, which is an induction over
the requests.

`ProviderAgentProofs`, for any consumers, threads, assignments of connections to
threads, requests, pieces and widths. `CutInv(K)` places every decoder in its
stream, where `K[c]` is the request it is in: what it holds of header and data is
the part of that frame before its place, and the thread of the connection holds
the bytes that follow (`StreamsRight`); what a thread passes on is the request
before, as it was sent (`ThreadsRight`). That a frame's
header reads back as its id and length (`NumberOfDigits`) and that frames lie
end to end are inductions over digits and frames. `CutRight` follows without a
hypothesis. For the answers, `AnswersInv` adds that a request is in one place on
its way (not cut yet, a thread that is to put or write it, the set that Dubbo
has, a frame among the answers, the thread that replies, the replies of its
connection, or given up by the encoder), with its own data and connection wherever it is (`Placed`), and that
the Dubbo decoder stands in the sequence of answer frames as the consumers'
decoders do in theirs (`RpcAt`). These places and sequences are not variables of
the model: the invariant says that there are such.
`RightReply` and `MeaningKept` follow for forms that spell what their senders
mean (`FormsSpelled`): a form is parts between separators (`Joins`), a part its
bytes, each as itself or as an escape, and possibly an escape that breaks off
(`Escapes`), and the last value of a name counts (`Says`). `FormsParsed` proves
that `FormDataParser` finds the meaning of every such form. All 28 forms of the
run are of that kind, broken ones included.

Induction is by a least counterexample: the numbers with a property form a set,
and a set of numbers has a least one (`LeastOf`, from the library's `WFMin`), which
gives `SetInduction`. That the recursive functions of the models are defined at
all is proved by building their tables, forward from 0 (`RecursionExists`) or
backward from the end of a sequence (`BackwardExists`). Three modules need these
lemmas and state them, since they do not share a module of proofs.

Those invariants that are stated over the variables alone were checked by TLC on
the instance of their run before they were proved.

Assumptions on constants are the named `ASSUME`s of the modules; TLC evaluates
them in every run. `Load`, `NamesRight`, `FormsSpelled` and `[][OnTime]_vars` are hypotheses of the
theorems that need them, and hold in the runs.

Only model-checked: all liveness properties and the fairness part of the
refinement (the prover has no `ENABLED`); the modules MemPool (`CountersExact`,
`OneOwner`, `OldestTrimmed`) and RbTree (`LinksAgree`, `RedBlack`, the refinement
of `KeySet`), whose operators recurse over lists and trees that every step
changes; and, of the hypothesis `NamesRight`, that keys of the registry parse to
the addresses in them and that services have different buckets, which is a
condition on the names and not a fact.

## 6. Findings

`sd_failed` is expected to fail: after a lookup that failed the service's node
stays in the table without endpoints, and the next request uses a pointer that
was never set instead of being answered "Failed!". Details and the quote are in
`PROJECT.json`.

The following disagreements with comments are assumed away, by a named bound,
constant or premise, in the passing runs, and can be seen by changing it:

* `agent-client-manager.c:463`: `EAGAIN` in the data of a write task is added to
  `write_index` as -1 ("一直进行写操作，直到写队列为空，或者TCP写缓存为满", :424). Drop
  `peer.again` from `StreamIntact`.
* `agent-client-manager.c:654`: the comment on the request map (`inc/core/agent-client-manager.h:58`)
  says that it has no collisions while there are fewer requests than entries; one slow request is
  enough for one. `NoCollision` with `Load = "bounded"` in `AcmRequestMap`.
* `mmpool.c:159`: an element of `oldest_index_array` is used unset. `NoWildIndex`
  with `Uninit = {0}`, `max_free_index = 3`, `MaxGets = 2` in `MCMemPool`.
* `http-server.c:220` and `:457`: two threads work on one channel, which
  `inc/core/http-server.h:48` excludes. `OneThread` with `Load = "any"` in `MCHttpChannel`.
* `tdpool.c:277`: the test for a full queue never succeeds (theorem
  `FullTestNeverTrue`), so that more than `max_wait_n` calls wait and the ring is
  overwritten.
* `tdpool.c:225`: a failing `pthread_create` returns a positive number and not
  `-1`, so that `tdpl_create` waits for ever instead of returning `NULL`.
* `http-server.c:437`: a connection whose `recv` failed is never closed, because
  its write event carries `EPOLLRDHUP`, which only takes the socket out of the epoll.
* `consumer-agent.c:89`: `cagent_start` looks at no result. Without an argument there is
  no URL of etcd, `sd_init` returns `NULL`, and the agent accepts connections whose
  first request ends it. `ReadyToServe` claims nothing of the managers.
* `DubboRpcEncoder.java:76` (under `src/src/main/java/com/yiran/dubbo`): a request whose form
  lacks a field is never answered and never leaves `processingRequest`. `AllAnswered`
  is stated for the others.

## 7. Not modelled

The composition in one state space (see the plan). Logging, `main` and the Java
registry (I/O at start-up), the HTTP exchange of `etcd_get`, cJSON and `list.h`
(vendored). Without a caller: `mmpl_destroy`, `tdpl_destroy`, `acm_response`,
`hs_url_decode`, `hash_code`, `get_parameter_start_index`, `rb_pre_traversal`, and the
Java classes `PerformanceMonitor`, `HttpServer`, `LineParser`, `RpcFuture` and
`RpcRequestHolder`. The GET branch of the HTTP decoder, a test answer. The
layout of a Dubbo request (`DubboRpcEncoder`, of which only the failure on a missing
field is modelled), and reference counts of Netty buffers. `SIGPIPE`. In the modelled parts: `AcmReader` and `AcmWriteQueue` have sizes and
ids for the bytes of a head (`ProviderAgent` has the bytes), ids are unbounded
integers (the code's `int`/`long` mix past 2^31 requests is a listed hazard
without a property), epoll errors of the calls themselves are left out, and
`malloc` does not fail after start-up except where an action says so.
