--------------------------- MODULE ProviderAgent ---------------------------
(***************************************************************************)
(* The provider agent: consumer agents send frames (id, length, form) over *)
(* several connections; ProviderAgentAdvanceDecoder cuts them,             *)
(* ServiceSwitcher parses the form, keeps the request in processingRequest *)
(* and writes it to the one Dubbo connection; DubboRpcDecoder cuts the     *)
(* answers, which come in any order, and ServiceSwitcher replies on the    *)
(* connection of the request.  Connections are served by the threads of    *)
(* one event loop group, which a handler blocks while it runs.             *)
(*                                                                         *)
(* Characters are their codes.  The widths of the numbers in a header are  *)
(* parameters, 8 and 4 in the code; the header of a Dubbo message has the  *)
(* same two numbers behind four fixed bytes, which are left out.           *)
(***************************************************************************)
EXTENDS Integers, Sequences, FiniteSets, SequencesExt, Functions

CONSTANTS
    Channels, Dubbo,       \* connections: of the consumers, to the provider
    Loops,                 \* threads of workerGroup
    Sent,                  \* channel -> sequence of [id, form] that its consumer sends
    Meaning,               \* form -> what its sender means: field -> value
    Fields, Result,        \* fields of a Dubbo request; the one the provider returns
    IdWidth, SizeWidth,
    Pieces,                \* how many bytes may come at once
    NULL

ASSUME WidthsAssumption == IdWidth \in Nat \ {0} /\ SizeWidth \in Nat \ {0}
ASSUME PiecesAssumption == Pieces \subseteq Nat \ {0}
ASSUME IdsAssumption ==    \* one consumer agent numbers all its requests
    \A c, d \in Channels : \A i \in DOMAIN Sent[c], j \in DOMAIN Sent[d] :
        Sent[c][i].id = Sent[d][j].id => c = d /\ i = j

VARIABLES
    connected, latch, serving,    \* AgentApp.main; latch: rpcChannelReady is open
    loopOf,                       \* connection -> its thread
    loop,                         \* thread -> what it is doing
    read,                         \* bytes of a consumer that channelRead was given
    decoder,                      \* channel -> fields of its decoder
    processingRequest,
    toDubbo,                      \* requests that the provider has not answered
    answers,                      \* bytes of the provider that were not read yet
    rpcDecoder,                   \* fields of DubboRpcDecoder, bytes it has
    replies                       \* channel -> responses written to it

start == <<connected, latch, serving, loopOf>>
switch == <<processingRequest, toDubbo>>
rpc == <<answers, rpcDecoder>>
vars == <<start, loop, read, decoder, switch, rpc, replies>>
-----------------------------------------------------------------------------
(* Numbers in headers, most significant byte first *)

\* v without its last k digits.
Shifted(v, k) == LET rest[i \in Nat] == IF i = 0 THEN v ELSE rest[i - 1] \div 256 IN rest[k]
Fits(v, width) == Shifted(v, width) = 0
Digits(v, width) == [i \in 1..width |-> Shifted(v, width - i) % 256]
Number(b) == LET of[i \in 0..Len(b)] == IF i = 0 THEN 0 ELSE of[i - 1] * 256 + b[i] IN of[Len(b)]

HEADER_LENGTH == IdWidth + SizeWidth
acm_long2bytes(v) == Digits(v, IdWidth)
acm_int2bytes(v) == Digits(v, SizeWidth)
Frame(id, data) == acm_long2bytes(id) \o acm_int2bytes(Len(data)) \o data
bytes2long(b) == Number(SubSeq(b, 1, IdWidth))
bytes2int(b) == Number(SubSeq(b, IdWidth + 1, HEADER_LENGTH))

\* Ids and lengths fit into their fields; what is sent is bytes.
ASSUME SentAssumption ==
    /\ Sent \in [Channels -> Seq([id : Nat, form : DOMAIN Meaning])]
    /\ \A c \in Channels : \A i \in DOMAIN Sent[c] : Fits(Sent[c][i].id, IdWidth)
\* Every field of a request has a value.
Complete(params) == \A f \in Fields : params[f] # NULL
ASSUME MeaningAssumption ==
    /\ Result \in Fields
    /\ \A form \in DOMAIN Meaning :
          /\ form \in Seq(0..255) /\ Fits(Len(form), SizeWidth)
          /\ Complete(Meaning[form]) =>
                Meaning[form][Result] \in Seq(0..255) 
                /\ Fits(Len(Meaning[form][Result]), SizeWidth)

Stream == [c \in Channels |-> FlattenSeq([i \in DOMAIN Sent[c] |-> Frame(Sent[c][i].id, Sent[c][i].form)])]
-----------------------------------------------------------------------------
(* FormDataParser *)

EQ == 61
AMP == 38
PERCENT == 37

hex2dec(c) == CASE c \in 48..57 -> c - 48
                [] c \in 97..102 -> c - 97 + 10
                [] c \in 65..70 -> c - 65 + 10
                [] OTHER -> -1

\* The names and values of a form, still escaped; a separator ends each.
parts(form) ==
    LET n == Len(form)
        from[i \in 1..(n + 1)] ==
            LET to == SelectInSubSeq(form, i, n, LAMBDA c : c \in {EQ, AMP, 13, 10})
            IN  IF to = 0 THEN <<SubSeq(form, i, n)>>
                ELSE <<SubSeq(form, i, to - 1)>> \o from[to + 1]
    IN  from[1]

\* Mutant: the second digit is written again.
unescape_twice(part) ==
    LET n == Len(part)
        from[i \in 1..(n + 3)] ==
            CASE i > n -> <<>>
              [] i <= n /\ part[i] # PERCENT -> <<part[i]>> \o from[i + 1]
              [] i <= n /\ part[i] = PERCENT /\ i + 2 > n -> <<>>
              [] OTHER -> <<(16 * hex2dec(part[i + 1]) + hex2dec(part[i + 2])) % 256>> \o from[i + 2]
    IN  from[1]

\* Two digits make a byte; a part that ends inside an escape loses it, and a
\* "%" inside an escape begins another.
unescape(part) ==
    LET n == Len(part)
        from[i \in 1..(n + 3)] ==
            CASE i > n -> <<>>
              [] i <= n /\ part[i] # PERCENT -> <<part[i]>> \o from[i + 1]
              [] i <= n /\ part[i] = PERCENT /\ i + 2 > n -> <<>>
              [] OTHER ->
                   IF part[i + 1] = PERCENT THEN from[i + 1]
                   ELSE IF part[i + 2] = PERCENT THEN from[i + 2]
                   ELSE <<(16 * hex2dec(part[i + 1]) + hex2dec(part[i + 2])) % 256>> \o from[i + 3]
    IN  from[1]

\* Names and values alternate; the last value of a name counts.
parse(form) ==
    LET part == parts(form)
        At(f) == {k \in DOMAIN part : k % 2 = 0 /\ unescape(part[k - 1]) = f}
    IN  [f \in Fields |-> IF At(f) = {} THEN NULL
                          ELSE unescape(part[CHOOSE k \in At(f) : \A j \in At(f) : j <= k])]

\* Of the forms that consumers send; CutRight has it that there are no others.
Parsed == [form \in DOMAIN Meaning |-> parse(form)]
-----------------------------------------------------------------------------
Idle == [at |-> "idle", chan |-> NULL, in |-> <<>>, req |-> NULL]
Fresh == [isHeader |-> TRUE, header |-> <<>>, requestId |-> 0, dataLength |-> 0, data |-> <<>>]

Init ==
    /\ connected = FALSE /\ latch = FALSE /\ serving = FALSE
    /\ loopOf \in [Channels \cup {Dubbo} -> Loops]
    /\ loop = [l \in Loops |-> Idle]
    /\ read = [c \in Channels |-> 0] /\ decoder = [c \in Channels |-> Fresh]
    /\ processingRequest = <<>> /\ toDubbo = {}
    /\ answers = <<>> /\ rpcDecoder = [isHeader |-> TRUE, requestId |-> 0, dataLength |-> 0, in |-> <<>>]
    /\ replies = [c \in Channels |-> <<>>]

\* DubboConnectManager.connect waits for the thread of the connection.
Connect ==
    /\ ~connected /\ loop[loopOf[Dubbo]] = Idle
    /\ connected' = TRUE
    /\ UNCHANGED <<latch, serving, loopOf, loop, read, decoder, switch, rpc, replies>>

setRpcClientChannel ==
    /\ connected /\ ~latch
    /\ latch' = TRUE
    /\ UNCHANGED <<connected, serving, loopOf, loop, read, decoder, switch, rpc, replies>>

\* Mutant: the server does not wait for the connection to Dubbo.
RunServerAtOnce ==
    /\ ~serving
    /\ serving' = TRUE
    /\ UNCHANGED <<connected, latch, loopOf, loop, read, decoder, switch, rpc, replies>>

RunServer ==
    /\ latch /\ ~serving
    /\ serving' = TRUE
    /\ UNCHANGED <<connected, latch, loopOf, loop, read, decoder, switch, rpc, replies>>
-----------------------------------------------------------------------------
(* From the consumer to Dubbo *)

\* The next bytes of a consumer come in: channelRead is called with them.
Receive(c, n) ==
    /\ serving /\ loop[loopOf[c]] = Idle
    /\ read[c] < Len(Stream[c])
    /\ LET to == IF read[c] + n < Len(Stream[c]) THEN read[c] + n ELSE Len(Stream[c]) IN
       /\ loop' = [loop EXCEPT ![loopOf[c]] = [at |-> "decode", chan |-> c, req |-> NULL,
                                               in |-> SubSeq(Stream[c], read[c] + 1, to)]]
       /\ read' = [read EXCEPT ![c] = to]
    /\ UNCHANGED <<start, decoder, switch, rpc, replies>>

Take(s, n) == SubSeq(s, 1, n)
Drop(s, n) == SubSeq(s, n + 1, Len(s))
Least(a, b) == IF a < b THEN a ELSE b

\* The header as far as the bytes go.
ReadHeader(d, in) ==
    LET header == d.header \o Take(in, Least(HEADER_LENGTH - Len(d.header), Len(in)))
    IN  IF ~d.isHeader THEN d
        ELSE IF Len(header) < HEADER_LENGTH THEN [d EXCEPT !.header = header]
        ELSE [isHeader |-> FALSE, header |-> header, requestId |-> bytes2long(header),
              dataLength |-> bytes2int(header), data |-> <<>>]

\* Mutant: what came before of the data is not counted.
channelRead_afresh(l) ==
    /\ loop[l].at = "decode"
    /\ LET c == loop[l].chan
           d == ReadHeader(decoder[c], loop[l].in)
           in == Drop(loop[l].in, Len(d.header) - Len(decoder[c].header))
           need == d.dataLength
       IN
          IF ~d.isHeader /\ Len(in) >= need
          THEN /\ loop' = [loop EXCEPT ![l].at = "put", ![l].in = Drop(in, need),
                     ![l].req = [id |-> d.requestId, data |-> d.data \o Take(in, need), chan |-> c]]
               /\ decoder' = [decoder EXCEPT ![c] = Fresh]
          ELSE /\ loop' = [loop EXCEPT ![l] = Idle]
               /\ decoder' = [decoder EXCEPT ![c] = IF d.isHeader THEN d ELSE [d EXCEPT !.data = @ \o in]]
    /\ UNCHANGED <<start, read, switch, rpc, replies>>

\* A turn of the loop: a request is complete, or the bytes are used up.
channelRead(l) ==
    /\ loop[l].at = "decode"
    /\ LET c == loop[l].chan
           d == ReadHeader(decoder[c], loop[l].in)
           in == Drop(loop[l].in, Len(d.header) - Len(decoder[c].header))
           need == d.dataLength - Len(d.data)
       IN
          IF ~d.isHeader /\ Len(in) >= need
          THEN /\ loop' = [loop EXCEPT ![l].at = "put", ![l].in = Drop(in, need),
                     ![l].req = [id |-> d.requestId, data |-> d.data \o Take(in, need), chan |-> c]]
               /\ decoder' = [decoder EXCEPT ![c] = Fresh]
          ELSE /\ loop' = [loop EXCEPT ![l] = Idle]
               /\ decoder' = [decoder EXCEPT ![c] = IF d.isHeader THEN d ELSE [d EXCEPT !.data = @ \o in]]
    /\ UNCHANGED <<start, read, switch, rpc, replies>>

Kept(id, req) == [i \in DOMAIN processingRequest \cup {id} |-> IF i = id THEN req ELSE processingRequest[i]]
Message(req) == [id |-> req.id, params |-> Parsed[req.data]]

\* switchToDubbo waits for the latch, in the thread of the event loop.
switchToDubbo_put(l) ==
    /\ loop[l].at = "put" /\ latch
    /\ processingRequest' = Kept(loop[l].req.id, loop[l].req)
    /\ loop' = [loop EXCEPT ![l].at = "write"]
    /\ UNCHANGED <<start, read, decoder, toDubbo, rpc, replies>>

\* The encoder fails on a field that the form does not have: the request is not
\* written, stays in processingRequest, and the handler goes on.
switchToDubbo_write(l) ==
    /\ loop[l].at = "write"
    /\ toDubbo' = IF Complete(Parsed[loop[l].req.data]) THEN toDubbo \cup {Message(loop[l].req)}
                  ELSE toDubbo
    /\ loop' = [loop EXCEPT ![l].at = "decode", ![l].req = NULL]
    /\ UNCHANGED <<start, read, decoder, processingRequest, rpc, replies>>
-----------------------------------------------------------------------------
(* From Dubbo to the consumer *)

\* The provider answers its requests in any order.
Answer ==
    \E m \in toDubbo :
        /\ toDubbo' = toDubbo \ {m}
        /\ answers' = answers \o Frame(m.id, m.params[Result])
        /\ UNCHANGED <<start, loop, read, decoder, processingRequest, rpcDecoder, replies>>

\* Bytes of the provider come in, behind those the decoder has.
ReceiveRpc(n) ==
    /\ loop[loopOf[Dubbo]] = Idle /\ answers # <<>>
    /\ LET k == Least(n, Len(answers)) IN
       /\ rpcDecoder' = [rpcDecoder EXCEPT !.in = @ \o Take(answers, k)]
       /\ answers' = Drop(answers, k)
    /\ loop' = [loop EXCEPT ![loopOf[Dubbo]] = [Idle EXCEPT !.at = "rpc"]]
    /\ UNCHANGED <<start, read, decoder, switch, replies>>

\* DubboRpcDecoder.decode, called while bytes are left and it makes something
\* of them.
decode(l) ==
    LET d == rpcDecoder
        head == d.isHeader /\ Len(d.in) >= HEADER_LENGTH
        id == IF head THEN bytes2long(d.in) ELSE d.requestId
        size == IF head THEN bytes2int(d.in) ELSE d.dataLength
        rest == IF head THEN Drop(d.in, HEADER_LENGTH) ELSE d.in
    IN
    /\ loop[l].at = "rpc"
    /\ IF (head \/ ~d.isHeader) /\ Len(rest) >= size
       THEN /\ rpcDecoder' = [isHeader |-> TRUE, requestId |-> id, dataLength |-> size, in |-> Drop(rest, size)]
            /\ loop' = [loop EXCEPT ![l].at = "get", ![l].req = [id |-> id, value |-> Take(rest, size)]]
       ELSE /\ rpcDecoder' = [isHeader |-> d.isHeader /\ ~head, requestId |-> id, dataLength |-> size, in |-> rest]
            /\ loop' = [loop EXCEPT ![l] = Idle]
    /\ UNCHANGED <<start, read, decoder, switch, answers, replies>>

\* responseFromDubbo; an id that nobody waits for is only logged.
responseFromDubbo_get(l) ==
    LET id == loop[l].req.id IN
    /\ loop[l].at = "get"
    /\ loop' = IF id \in DOMAIN processingRequest
               THEN [loop EXCEPT ![l].at = "remove", ![l].chan = processingRequest[id].chan]
               ELSE [loop EXCEPT ![l] = [Idle EXCEPT !.at = "rpc"]]
    /\ UNCHANGED <<start, read, decoder, switch, rpc, replies>>

responseFromDubbo_remove(l) ==
    /\ loop[l].at = "remove"
    /\ processingRequest' = Restrict(processingRequest, DOMAIN processingRequest \ {loop[l].req.id})
    /\ loop' = [loop EXCEPT ![l].at = "reply"]
    /\ UNCHANGED <<start, read, decoder, toDubbo, rpc, replies>>

\* Mutant: the reply goes to any connection.
responseFromDubbo_reply_any(l) ==
    /\ loop[l].at = "reply"
    /\ \E c \in Channels : replies' = [replies EXCEPT ![c] = Append(@, loop[l].req)]
    /\ loop' = [loop EXCEPT ![l] = [Idle EXCEPT !.at = "rpc"]]
    /\ UNCHANGED <<start, read, decoder, switch, rpc>>

responseFromDubbo_reply(l) ==
    /\ loop[l].at = "reply"
    /\ replies' = [replies EXCEPT ![loop[l].chan] = Append(@, loop[l].req)]
    /\ loop' = [loop EXCEPT ![l] = [Idle EXCEPT !.at = "rpc"]]
    /\ UNCHANGED <<start, read, decoder, switch, rpc>>
-----------------------------------------------------------------------------
main == Connect \/ setRpcClientChannel \/ RunServer
switchToDubbo(l) == switchToDubbo_put(l) \/ switchToDubbo_write(l)
responseFromDubbo(l) ==
    responseFromDubbo_get(l) \/ responseFromDubbo_remove(l) \/ responseFromDubbo_reply(l)
Handler(l) == channelRead(l) \/ switchToDubbo(l) \/ decode(l) \/ responseFromDubbo(l)
Network == \E n \in Pieces : ReceiveRpc(n) \/ \E c \in Channels : Receive(c, n)

Next == main \/ Answer \/ Network \/ \E l \in Loops : Handler(l)

Spec == Init /\ [][Next]_vars

(* Threads run unless they wait for the latch, the network delivers, and the *)
(* provider answers.                                                         *)
FairSpec ==
    /\ Spec
    /\ WF_vars(main) /\ WF_vars(Answer) /\ WF_vars(Network)
    /\ \A l \in Loops : WF_vars(Handler(l))
-----------------------------------------------------------------------------
(* Properties *)

TypeOK ==
    /\ {connected, latch, serving} \subseteq BOOLEAN
    /\ \A l \in Loops : loop[l].at \in {"idle", "decode", "put", "write", "rpc", "get", "remove", "reply"}
                        /\ loop[l].chan \in Channels \cup {NULL}
    /\ \A c \in Channels : Len(decoder[c].header) <= HEADER_LENGTH
                           /\ (decoder[c].isHeader => decoder[c].data = <<>>)
                           /\ read[c] \in 0..Len(Stream[c])
    /\ \A m \in toDubbo : DOMAIN m.params = Fields
    /\ rpcDecoder.isHeader \in BOOLEAN

Asked(c) == {Sent[c][i].id : i \in DOMAIN Sent[c]}
FormOf(id) == LET c == CHOOSE c \in Channels : id \in Asked(c)
              IN  Sent[c][CHOOSE i \in DOMAIN Sent[c] : Sent[c][i].id = id].form

\* A decoder makes of the stream the requests that were sent, whatever the
\* pieces and however requests share them: each with its own id and data.
CutRight ==
    /\ TypeOK
    /\ \A l \in Loops : loop[l].at \in {"put", "write"} =>
        \E i \in DOMAIN Sent[loop[l].chan] :
            Sent[loop[l].chan][i] = [id |-> loop[l].req.id, form |-> loop[l].req.data]

\* Dubbo is asked what the form means: parsing undoes the senders' encoding
\* (whatever the state, so the first ones will do), and what is written under an
\* id is what was sent under it, if the form has every field.
MeaningKept ==
    /\ ~connected => Parsed = Meaning
    /\ \A m \in toDubbo : m.params = Meaning[FormOf(m.id)] /\ Complete(m.params)

\* Nobody is sent an answer that is not theirs, or twice: a reply is on the
\* connection of its request, whose form has every field, and holds what was
\* returned for that request.
RightReply ==
    \A c \in Channels :
        /\ \A i \in DOMAIN replies[c] :
              /\ replies[c][i].id \in Asked(c) /\ Complete(Meaning[FormOf(replies[c][i].id)])
              /\ replies[c][i].value = Meaning[FormOf(replies[c][i].id)][Result]
        /\ \A i, j \in DOMAIN replies[c] : replies[c][i].id = replies[c][j].id => i = j

\* Every request whose form has all the fields is answered, also behind one that
\* the encoder fails on; no handler waits for a thread that waits for it.
AllAnswered ==
    \A c \in Channels : \A i \in DOMAIN Sent[c] :
        Complete(Meaning[Sent[c][i].form]) => <>(\E k \in DOMAIN replies[c] : replies[c][k].id = Sent[c][i].id)
=============================================================================
