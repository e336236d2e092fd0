---------------------------- MODULE HttpChannel ----------------------------
(***************************************************************************)
(* One hs_channel of http-server.c, from the accepted connection on.  The  *)
(* event loop hands hs_io_read and hs_io_write to the io thread pool; the  *)
(* reader runs hs_decoder over what has come and calls the content handler *)
(* when the body is complete; the response is put into the channel's       *)
(* buffer by whoever calls hs_response_ok, and EPOLLOUT is registered.     *)
(* No lock protects the channel: one-shot events are to pass it from one   *)
(* thread to the next.                                                     *)
(*                                                                         *)
(* The client sends Requests one after the other, each after the whole     *)
(* response to the one before (POST requests; the decoder calls the        *)
(* handler for a GET elsewhere).  A byte in the buffer is its position in  *)
(* the client's stream, 0 one that the client has not sent.  Runs of       *)
(* characters that the decoder treats alike are one character: "x" any     *)
(* other, "content-length" that key (in either case), a digit a number.   *)
(***************************************************************************)
EXTENDS Integers, Sequences, FiniteSets, SequencesExt

CONSTANTS
    IoThreads,      \* the threads of tdpl_io
    Requests,       \* the requests, each a sequence of characters
    BufferSize,     \* buffer_size
    ResponseSize,   \* bytes of a response
    MayBreak,       \* whether the client may close or reset the connection
    Load            \* "any", or "calm": see Calm and Whole

Characters == {"x", ":", "CR", "LF", "content-length", "Content-Length", "1", "2"}

ASSUME RequestsAssumption == Requests \in Seq(Seq(Characters))

LengthKeys == {"content-length", "Content-Length"}
LengthKey(r) == CHOOSE i \in DOMAIN r : r[i] \in LengthKeys
atoi(c) == CASE c = "1" -> 1 [] c = "2" -> 2 [] OTHER -> 0
BodySize(r) == atoi(r[LengthKey(r) + 2])
HeadSize(r) == Len(r) - BodySize(r)

\* Each line after the first has a key, and an empty line ends the head; one of
\* the keys is that of the length of the rest, which is not 0.
WellFormed(r) ==
    LET key == LengthKey(r)
        head == HeadSize(r)
    IN
    /\ \A i \in DOMAIN r : r[i] \in LengthKeys <=> i = key
    /\ key \in 2..(head - 6)
    /\ r[key - 1] = "LF" /\ r[key + 1] = ":" /\ r[key + 2] \in {"1", "2"}
    /\ r[key + 3] = "CR" /\ r[key + 4] = "LF"
    /\ r[head - 2] = "LF" /\ r[head - 1] = "CR" /\ r[head] = "LF"
    /\ \A s \in 2..(head - 2) : r[s - 1] = "LF" =>
          \E c \in s..(head - 2) : r[c] = ":" /\ \A j \in s..c : r[j] # "LF"

ASSUME WellFormedAssumption == \A k \in 1..Len(Requests) : WellFormed(Requests[k])
ASSUME SizesAssumption ==
    /\ BufferSize \in Nat /\ ResponseSize \in 1..(BufferSize - 1)
    /\ \A k \in 1..Len(Requests) : Len(Requests[k]) < BufferSize
ASSUME LoadAssumption == MayBreak \in BOOLEAN /\ Load \in {"any", "calm"}

VARIABLES
    \* the client and the socket
    sent,       \* bytes of the stream that have reached the host
    taken,      \* bytes that recv has returned
    got,        \* what the client received: <<call, byte>> of the responses
    peer,       \* "open", "fin", "rst" (sk_err is set), "gone" (sk_err was read)
    txfull,     \* the send buffer has no room
    \* struct hs_channel
    ch, buffer,
    answer,     \* the handler call whose response was last put in the buffer
    released,   \* closed, and given back to the memory pool
    \* epoll and its event loop
    armed,      \* "none", "edge", "in", "out", "off" (used up), "deleted"
    ready,      \* the socket is on epoll's ready list
    fetched,    \* the event in hand: "none", "err", "rdhup", "read", "write"
    \* tdpl_io
    tasks,      \* calls that wait
    tpc, read_size,
    \* the users of the server
    handled,    \* history: the content of each call of the content handler
    upstream,   \* the calls whose response is awaited from a provider
    responder   \* the thread that responds: "idle", "mod"

client == <<sent, got, peer>>
socket == <<taken, txfull>>
channel == <<ch, buffer, answer, released>>
epoll == <<armed, ready, fetched>>
io == <<tasks, tpc, read_size>>
users == <<handled, upstream, responder>>
vars == <<client, socket, channel, epoll, io, users>>

stream == FlattenSeq(Requests)
Ends == [k \in 0..Len(Requests) |-> Len(FlattenSeq(SubSeq(Requests, 1, k)))]
End(k) == Ends[k]
Available == sent - taken
Char(i) == IF buffer[i] = 0 THEN "x" ELSE stream[buffer[i]]
Least(a, b) == IF a < b THEN a ELSE b
hs_tolower(key) == IF key = "Content-Length" THEN "content-length" ELSE key

hs_init_channel(c) ==
    [c EXCEPT !.decode_index = 0, !.processing_index_now = -1,
              !.is_line = TRUE, !.is_head = TRUE, !.is_body = TRUE,
              !.is_read_done = FALSE, !.is_key = TRUE, !.is_content_length = FALSE,
              !.body_size = 0, !.key_start = -1, !.value_start = -1,
              !.write_index = 0, !.read_index = 0]

\* Memory of the pool: what hs_init_channel does not set may be anything, and
\* is not read before it is set.
Unset == [decode_index |-> 0, processing_index_now |-> 0, is_line |-> FALSE,
          is_head |-> FALSE, is_body |-> FALSE, is_read_done |-> FALSE,
          is_key |-> FALSE, is_content_length |-> FALSE, body_size |-> 0,
          body_start |-> 0, key_start |-> 0, value_start |-> 0,
          read_index |-> 0, write_index |-> 0, write_size |-> 0]

\* hs_accept_thread has accepted the connection and called hs_new_connection.
Init ==
    /\ sent = 0 /\ taken = 0 /\ got = <<>> /\ peer = "open" /\ txfull = FALSE
    /\ ch = Unset /\ buffer = [i \in 0..(BufferSize - 1) |-> 0]
    /\ answer = 0 /\ released = FALSE
    /\ armed = "none" /\ ready = FALSE /\ fetched = "none"
    /\ tasks = <<"connect">>
    /\ tpc = [t \in IoThreads |-> "idle"] /\ read_size = [t \in IoThreads |-> 0]
    /\ handled = <<>> /\ upstream = {} /\ responder = "idle"

ThreadStep(t, from, to) == tpc[t] = from /\ tpc' = [tpc EXCEPT ![t] = to]
-----------------------------------------------------------------------------
(* epoll_ctl and epoll_wait *)

\* The event that a registration would report now.
EventFor(registration) ==
    IF registration \in {"none", "off", "deleted"} THEN "none"
    ELSE IF peer = "rst" THEN "err"
    ELSE IF peer # "open" THEN "rdhup"
    ELSE IF registration = "out" THEN (IF txfull THEN "none" ELSE "write")
    ELSE IF Available > 0 THEN "read" ELSE "none"

\* hs_epoll_mod fails when the event loop has removed the socket, or when the
\* socket is closed.
CanMod == armed # "deleted" /\ ~released

\* Mutant: EPOLLONESHOT is not set for reading.
hs_epoll_mod_edge(registration) ==
    /\ armed' = IF CanMod THEN (IF registration = "in" THEN "edge" ELSE registration) ELSE armed
    /\ ready' = (ready \/ (CanMod /\ EventFor(registration) # "none"))

hs_epoll_mod(registration) ==
    /\ armed' = IF CanMod THEN registration ELSE armed
    /\ ready' = (ready \/ (CanMod /\ EventFor(registration) # "none"))

\* close and mmpl_rlsmem; closing takes the socket out of the epoll.
CloseAndRelease == released' = TRUE /\ armed' = "deleted" /\ ready' = FALSE

\* Assumption: a reader that has called the content handler returns before the
\* event loop gets to the event that its response registered.
Calm == Load = "calm" => \A t \in IoThreads : tpc[t] # "check"

\* epoll_wait: a one-shot registration is used up by the event it reports.
EpollWait ==
    /\ ready /\ fetched = "none" /\ Calm
    /\ ready' = FALSE
    /\ fetched' = EventFor(armed)
    /\ armed' = IF fetched' # "none" /\ armed \in {"in", "out"} THEN "off" ELSE armed
    /\ UNCHANGED <<client, socket, channel, io, users>>

\* A thread of the io pool is called.
hs_io_do_read == tasks' = Append(tasks, "read")
hs_io_do_write == tasks' = Append(tasks, "write")

\* hs_event_loop: errors are skipped, a closed peer only leaves the epoll.
HandleEvent ==
    /\ fetched # "none"
    /\ fetched' = "none"
    /\ armed' = IF fetched = "rdhup" THEN "deleted" ELSE armed
    /\ CASE fetched = "read" -> hs_io_do_read
         [] fetched = "write" -> hs_io_do_write
         [] OTHER -> UNCHANGED tasks
    /\ UNCHANGED <<client, socket, channel, ready, tpc, read_size, users>>

StartTask(t) ==
    /\ tasks # <<>>
    /\ ThreadStep(t, "idle", Head(tasks))
    /\ tasks' = Tail(tasks)
    /\ UNCHANGED <<client, socket, channel, epoll, read_size, users>>

\* hs_new_connection; its registration alone is not one-shot.
hs_new_connection(t) ==
    /\ ThreadStep(t, "connect", "idle")
    /\ ch' = hs_init_channel(ch)
    /\ armed' = "edge"
    /\ ready' = (EventFor("edge") # "none")
    /\ UNCHANGED <<client, socket, buffer, answer, released, fetched, tasks, read_size, users>>
-----------------------------------------------------------------------------
(* hs_decoder: c is the channel, i the character's index, x the character *)

DecodeLine(c, i, x) ==
    IF x = "LF" THEN [c EXCEPT !.is_line = FALSE, !.key_start = i + 1] ELSE c

DecodeKey(c, i, x) ==
    CASE x = ":" -> [c EXCEPT !.is_key = FALSE, !.value_start = i + 1,
                              !.is_content_length = @ \/ hs_tolower(Char(c.key_start)) = "content-length"]
      [] x = "LF" -> [c EXCEPT !.is_head = FALSE, !.body_start = i + 1]
      [] OTHER -> c

\* Mutant: the flag is not taken back, the next header sets the size too.
DecodeValueSticky(c, i, x) ==
    CASE x = "CR" /\ c.is_content_length ->
              [c EXCEPT !.body_size = atoi(Char(c.value_start))]
      [] x = "LF" -> [c EXCEPT !.is_key = TRUE, !.key_start = i + 1]
      [] OTHER -> c

DecodeValue(c, i, x) ==
    CASE x = "CR" /\ c.is_content_length ->
              [c EXCEPT !.is_content_length = FALSE, !.body_size = atoi(Char(c.value_start))]
      [] x = "LF" -> [c EXCEPT !.is_key = TRUE, !.key_start = i + 1]
      [] OTHER -> c

\* Mutant: a body is complete as soon as some of it is there.
DecodeBodyEarly(c) ==
    [c EXCEPT !.decode_index = c.processing_index_now,
              !.is_body = FALSE, !.is_read_done = TRUE]

\* The body is not looked at: it is complete or not.
DecodeBody(c) ==
    LET complete == c.processing_index_now - c.body_start + 1 = c.body_size
    IN  [c EXCEPT !.decode_index = c.processing_index_now,
                  !.is_body = @ /\ ~complete, !.is_read_done = @ \/ complete]

DecodeChar(c, i) ==
    LET x == Char(i)
        d == IF c.is_line THEN DecodeLine(c, i, x)
             ELSE IF c.is_head /\ c.is_key THEN DecodeKey(c, i, x)
             ELSE IF c.is_head THEN DecodeValue(c, i, x)
             ELSE IF c.is_body THEN DecodeBody(c) ELSE c
    IN  [d EXCEPT !.decode_index = @ + 1]
-----------------------------------------------------------------------------
(* hs_io_read *)

\* recv: what is there and has room.  End of file is 0 bytes; with EAGAIN the
\* reader waits for more.
Recv(t) ==
    LET n == Least(Available, BufferSize - ch.read_index)
    IN
    /\ Available > 0 \/ peer # "rst"
    /\ ThreadStep(t, "read", IF Available = 0 /\ peer = "open" THEN "rearm" ELSE "update")
    /\ read_size' = [read_size EXCEPT ![t] = n]
    /\ buffer' = [i \in DOMAIN buffer |->
                    IF i \in ch.read_index..(ch.read_index + n - 1)
                    THEN taken + 1 + (i - ch.read_index) ELSE buffer[i]]
    /\ taken' = taken + n
    /\ UNCHANGED <<client, txfull, ch, answer, released, epoll, tasks, users>>

\* The connection was reset (unread bytes may be lost with it).  It is to be
\* closed through a write event with nothing to write.
RecvError(t) ==
    /\ peer = "rst"
    /\ ThreadStep(t, "read", "modout")
    /\ peer' = "gone"
    /\ taken' = sent
    /\ ch' = [ch EXCEPT !.write_index = 0, !.write_size = 0]
    /\ UNCHANGED <<sent, got, txfull, buffer, answer, released, epoll, tasks, read_size, users>>

\* What has come is to be decoded; a full buffer ends the reading.
UpdateIndexes(t) ==
    LET end == ch.read_index + read_size[t]
    IN
    /\ ThreadStep(t, "update", "decode")
    /\ ch' = [ch EXCEPT !.read_index = end, !.processing_index_now = end - 1,
                        !.is_read_done = @ \/ end >= BufferSize]
    /\ UNCHANGED <<client, socket, buffer, answer, released, epoll, tasks, read_size, users>>

\* The loop of hs_decoder.
Decode(t) ==
    /\ tpc[t] = "decode"
    /\ ch.decode_index <= ch.processing_index_now
    /\ ch' = DecodeChar(ch, ch.decode_index)
    /\ UNCHANGED <<client, socket, buffer, answer, released, epoll, io, users>>

DecodeEnd(t) ==
    /\ ch.decode_index > ch.processing_index_now
    /\ ThreadStep(t, "decode", IF ch.is_read_done THEN "handle" ELSE "check")
    /\ UNCHANGED <<client, socket, channel, epoll, tasks, read_size, users>>

\* What hs_content_handler_thread passes: body_size bytes from body_start on.
Content == [j \in 1..ch.body_size |->
              IF ch.body_start + j <= BufferSize THEN buffer[ch.body_start + j - 1] ELSE 0]

\* content_handler of consumer-agent.c: the content becomes a request to a
\* provider, or is answered at once when sd_get_optimal_endpoint finds none.  The
\* request is a pointer into the channel's buffer.  acm_request does not fail:
\* the channel is not NULL, and its socket never leaves the epoll for writing.
Handle(t) ==
    /\ tpc[t] = "handle"
    /\ handled' = Append(handled, Content)
    /\ \/ tpc' = [tpc EXCEPT ![t] = "check"] /\ upstream' = upstream \cup {Len(handled')}
       \/ tpc' = [tpc EXCEPT ![t] = "fail"] /\ UNCHANGED upstream
    /\ UNCHANGED <<client, socket, channel, epoll, tasks, read_size, responder>>

\* hs_response_ok up to the registration: the response of a call replaces what
\* is in the buffer.
FillResponse(call) ==
    /\ answer' = call
    /\ buffer' = [i \in DOMAIN buffer |-> IF i < ResponseSize THEN 0 ELSE buffer[i]]
    /\ ch' = [ch EXCEPT !.write_index = 0, !.write_size = ResponseSize]

RespondFailed(t) ==
    /\ ThreadStep(t, "fail", "failmod")
    /\ FillResponse(Len(handled))
    /\ UNCHANGED <<client, socket, released, epoll, tasks, read_size, users>>

RespondFailedMod(t) ==
    /\ ThreadStep(t, "failmod", "check")
    /\ hs_epoll_mod("out")
    /\ UNCHANGED <<client, socket, channel, fetched, tasks, read_size, users>>

\* is_read_done is read again after the channel has been passed on.
CheckReadDone(t) ==
    /\ ThreadStep(t, "check", IF ch.is_read_done THEN "idle" ELSE "rearm")
    /\ UNCHANGED <<client, socket, channel, epoll, tasks, read_size, users>>

Rearm(t) ==
    /\ ThreadStep(t, "rearm", "idle")
    /\ hs_epoll_mod("in")
    /\ UNCHANGED <<client, socket, channel, fetched, tasks, read_size, users>>
-----------------------------------------------------------------------------
(* hs_response_ok, called by acm_listening when a provider has answered *)

Respond ==
    /\ responder = "idle"
    /\ \E call \in upstream : FillResponse(call) /\ upstream' = upstream \ {call}
    /\ responder' = "mod"
    /\ UNCHANGED <<client, socket, released, epoll, io, handled>>

RespondMod ==
    /\ responder = "mod"
    /\ responder' = "idle"
    /\ hs_epoll_mod("out")
    /\ UNCHANGED <<client, socket, channel, fetched, io, handled, upstream>>
-----------------------------------------------------------------------------
(* hs_io_write *)

Left == ch.write_size - ch.write_index

\* Nothing is left to write: a new start, and still a send of what that leaves.
StartWrite(t) ==
    /\ ThreadStep(t, "write", "send")
    /\ IF Left <= 0
       THEN /\ ch' = hs_init_channel(ch)
            /\ IF CanMod THEN hs_epoll_mod("in") /\ UNCHANGED released ELSE CloseAndRelease
       ELSE UNCHANGED <<ch, released, armed, ready>>
    /\ UNCHANGED <<client, socket, buffer, answer, fetched, tasks, read_size, users>>

\* Mutant: a short send is begun again.
SendAfresh(t) ==
    /\ peer \in {"open", "fin"} /\ ~released /\ (~txfull \/ Left = 0)
    /\ ThreadStep(t, "send", "written")
    /\ \E n \in Least(1, Left)..Left :
          /\ got' = got \o [j \in 1..n |-> <<answer, ch.write_index + j>>]
          /\ ch' = [ch EXCEPT !.write_index = IF n < Left THEN 0 ELSE @ + n]
          /\ txfull' = (txfull \/ n < Left)
    /\ UNCHANGED <<sent, peer, taken, buffer, answer, released, epoll, tasks, read_size, users>>

\* What the socket takes, at least one byte if it has room.
Send(t) ==
    /\ peer \in {"open", "fin"} /\ ~released /\ (~txfull \/ Left = 0)
    /\ ThreadStep(t, "send", "written")
    /\ \E n \in Least(1, Left)..Left :
          /\ got' = got \o [j \in 1..n |-> <<answer, ch.write_index + j>>]
          /\ ch' = [ch EXCEPT !.write_index = @ + n]
          /\ txfull' = (txfull \/ n < Left)
    /\ UNCHANGED <<sent, peer, taken, buffer, answer, released, epoll, tasks, read_size, users>>

\* Mutant: the error is logged, and the writer goes on to register.
SendErrorGoesOn(t) ==
    /\ peer \in {"rst", "gone"} \/ released \/ (txfull /\ Left > 0)
    /\ ThreadStep(t, "send", "modout")
    /\ CloseAndRelease
    /\ UNCHANGED <<client, socket, ch, buffer, answer, fetched, tasks, read_size, users>>

\* Any error, a full socket included, closes the connection.  (A send after a
\* reset is taken to return its error: SIGPIPE, which nothing in the program
\* handles or masks, to be ignored by whoever starts it.)
SendError(t) ==
    /\ peer \in {"rst", "gone"} \/ released \/ (txfull /\ Left > 0)
    /\ ThreadStep(t, "send", "idle")
    /\ CloseAndRelease
    /\ UNCHANGED <<client, socket, ch, buffer, answer, fetched, tasks, read_size, users>>

AfterSend(t) ==
    /\ ThreadStep(t, "written", IF Left <= 0 THEN "modin" ELSE "modout")
    /\ ch' = IF Left <= 0 THEN hs_init_channel(ch) ELSE ch
    /\ UNCHANGED <<client, socket, buffer, answer, released, epoll, tasks, read_size, users>>

\* The next request, or the rest of the response.
WriterMod(t) ==
    /\ \/ ThreadStep(t, "modin", "idle") /\ (CanMod => hs_epoll_mod("in"))
       \/ ThreadStep(t, "modout", "idle") /\ (CanMod => hs_epoll_mod("out"))
    /\ IF CanMod THEN UNCHANGED released ELSE CloseAndRelease
    /\ UNCHANGED <<client, socket, ch, buffer, answer, fetched, tasks, read_size, users>>
-----------------------------------------------------------------------------
(* The client and the kernel *)

Edge == ready' = (ready \/ armed \in {"edge", "in", "out"})

\* Assumption: the first request arrives in one piece, while the registration
\* is not one-shot.
Whole(n) == Load = "calm" /\ sent = 0 => n = End(1)

\* A piece of the next request, once the response to the last one is there.
Arrive(n) ==
    /\ peer = "open" /\ Whole(n)
    /\ \E k \in 1..Len(Requests) :
          /\ Len(got) = (k - 1) * ResponseSize
          /\ sent + n <= End(k)
    /\ sent' = sent + n
    /\ Edge
    /\ UNCHANGED <<got, peer, socket, channel, armed, fetched, io, users>>

\* The client closes its side, or the connection is reset.
Break ==
    /\ MayBreak
    /\ \/ peer = "open" /\ peer' = "fin"
       \/ peer \in {"open", "fin"} /\ peer' = "rst"
    /\ Edge
    /\ UNCHANGED <<sent, got, socket, channel, armed, fetched, io, users>>

\* The client reads: there is room again.
Drain ==
    /\ txfull
    /\ txfull' = FALSE
    /\ Edge
    /\ UNCHANGED <<client, taken, channel, armed, fetched, io, users>>
-----------------------------------------------------------------------------
EventLoop == EpollWait \/ HandleEvent
Reading(t) == \/ Recv(t) \/ RecvError(t)
              \/ UpdateIndexes(t) \/ Decode(t) \/ DecodeEnd(t) \/ Handle(t)
              \/ RespondFailed(t) \/ RespondFailedMod(t) \/ CheckReadDone(t) \/ Rearm(t)
Writing(t) == \/ StartWrite(t) \/ Send(t) \/ SendError(t) \/ AfterSend(t) \/ WriterMod(t)
ThreadStepOf(t) == StartTask(t) \/ hs_new_connection(t) \/ Reading(t) \/ Writing(t)
Responding == Respond \/ RespondMod

Next == \/ EventLoop
        \/ \E t \in IoThreads : ThreadStepOf(t)
        \/ Responding
        \/ \E n \in 1..Len(stream) : Arrive(n)
        \/ Break
        \/ Drain

Spec == Init /\ [][Next]_vars

(* Threads that can go on do, a provider answers, and a client that is there *)
(* reads what it is sent.                                                    *)
Fairness ==
    /\ WF_vars(EventLoop) /\ WF_vars(Responding) /\ WF_vars(Drain)
    /\ \A t \in IoThreads : WF_vars(ThreadStepOf(t))
FairSpec == Spec /\ Fairness
-----------------------------------------------------------------------------
(* Properties *)

TypeOK ==
    /\ sent \in 0..Len(stream) /\ taken \in 0..sent
    /\ got \in Seq((0..Len(handled)) \X (1..ResponseSize))
    /\ peer \in {"open", "fin", "rst", "gone"}
    /\ {txfull, released, ready} \subseteq BOOLEAN
    /\ buffer \in [0..(BufferSize - 1) -> 0..sent]
    /\ ch.read_index \in 0..BufferSize /\ ch.decode_index \in 0..BufferSize
    /\ ch.write_index \in 0..ch.write_size /\ ch.write_size \in {0, ResponseSize}
    /\ armed \in {"none", "edge", "in", "out", "off", "deleted"}
    /\ fetched \in {"none", "err", "rdhup", "read", "write"}
    /\ tasks \in Seq({"connect", "read", "write"})
    /\ DOMAIN tpc = IoThreads /\ DOMAIN read_size = IoThreads
    /\ upstream \subseteq 1..Len(handled) /\ responder \in {"idle", "mod"}

AtWork == {t \in IoThreads : tpc[t] # "idle"}

\* One thread at a time works on a channel, as the comment on processing_mutex
\* says (the semaphore itself is never waited for).
OneThread == Cardinality(AtWork) <= 1

\* The content handler is called once for each request, with its body whole and
\* nothing else, whatever the pieces it came in; and while a provider has the
\* request, whose data is a pointer into the buffer, that is still what it points
\* to.
Body(k) == LET size == BodySize(Requests[k])
           IN  [j \in 1..size |-> End(k) - size + j]
HandledWhole ==
    /\ TypeOK
    /\ \A k \in 1..Len(handled) : k <= Len(Requests) /\ handled[k] = Body(k)
    /\ \A call \in upstream : Content = handled[call]

\* The client gets the response to each request whole, once, and in order.
ResponsesRight ==
    \A j \in 1..Len(got) :
        got[j] = <<1 + (j - 1) \div ResponseSize, 1 + ((j - 1) % ResponseSize)>>

\* Nobody holds on to a channel that has been given back.
NoUseAfterRelease ==
    released => AtWork = {} /\ tasks = <<>> /\ fetched = "none"
                /\ upstream = {} /\ responder = "idle"

\* A request that has arrived whole is answered, as long as the client stays.
Answered ==
    \A k \in 1..Len(Requests) :
        sent >= End(k) ~> (peer # "open" \/ Len(got) >= k * ResponseSize)
=============================================================================
