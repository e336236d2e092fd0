------------------------- MODULE HttpChannelProofs -------------------------
(***************************************************************************)
(* Proofs about a channel of the http server, for any requests, sizes of   *)
(* buffer and response and numbers of io threads, with a client that may   *)
(* close or reset the connection at any moment, as long as two races do    *)
(* not happen (OnTime): with them excluded by [][OnTime]_vars, nothing     *)
(* else can take the channel out of step.                                  *)
(*                                                                         *)
(* The channel is a token.  It is with the registration for one event, the *)
(* event in the hands of the loop, a call that waits in the pool, a thread *)
(* of the pool, a call of the content handler that a provider answers or   *)
(* the thread that brings the answer.  Two things are not of that shape:   *)
(* the first registration, which is not for one event, and a reader that   *)
(* has passed the channel on and has yet to look at is_read_done.          *)
(*                                                                         *)
(* HandledInv adds what the buffer and the decoder have of the request     *)
(* under way: the buffer begins with it, and the flags are those of the    *)
(* line, key, value or body that decode_index is in.                       *)
(***************************************************************************)
EXTENDS HttpChannel, FiniteSetTheorems, SequenceTheorems, TLAPS

USE DEF client, socket, channel, epoll, io, users
-----------------------------------------------------------------------------
(* What is assumed of the order of steps *)

\* A reader that has called the content handler has looked at is_read_done
\* before the event loop is told of an event (http-server.c:457).
LookedInTime == fetched = "none" /\ fetched' # "none" => \A t \in IoThreads : tpc[t] # "check"

\* The first request comes in one piece: its registration is not one-shot (:220).
FirstWhole == sent = 0 => sent' \in {0, End(1)}

OnTime == LookedInTime /\ FirstWhole

\* Load = "calm" puts this, and nothing else, into the steps.
LEMMA CalmOnTime == ASSUME Load = "calm" PROVE Spec => [][OnTime]_vars
<1>1. ASSUME Next PROVE OnTime
  <2>1. CASE EpollWait
    BY <2>1 DEF OnTime, LookedInTime, FirstWhole, EpollWait, Calm
  <2>2. CASE HandleEvent
    BY <2>2 DEF OnTime, LookedInTime, FirstWhole, HandleEvent
  <2>3. ASSUME NEW t \in IoThreads, ThreadStepOf(t) PROVE OnTime
    <3>1. fetched' = fetched /\ sent' = sent
      <4>1. CASE Reading(t)
        BY <4>1 DEF Reading, Recv, RecvError, UpdateIndexes, Decode, DecodeEnd, Handle, RespondFailed,
           RespondFailedMod, CheckReadDone, Rearm
      <4>2. CASE Writing(t)
        BY <4>2 DEF Writing, StartWrite, Send, SendError, AfterSend, WriterMod
      <4> QED
        BY <2>3, <4>1, <4>2 DEF ThreadStepOf, StartTask, hs_new_connection
    <3> QED
      BY <3>1 DEF OnTime, LookedInTime, FirstWhole
  <2>4. CASE Responding \/ Break \/ Drain
    BY <2>4 DEF OnTime, LookedInTime, FirstWhole, Responding, Respond, RespondMod, Break, Drain
  <2>5. ASSUME NEW n \in 1..Len(stream), Arrive(n) PROVE OnTime
    <3>1. fetched' = fetched /\ sent' = sent + n /\ (sent = 0 => n = End(1))
      BY <2>5 DEF Arrive, Whole
    <3> QED
      BY <3>1 DEF OnTime, LookedInTime, FirstWhole
  <2> QED
    BY <1>1, <2>1, <2>2, <2>3, <2>4, <2>5 DEF Next, EventLoop
<1>2. [Next]_vars => [OnTime]_vars
  BY <1>1
<1> QED
  BY <1>2, PTL DEF Spec
-----------------------------------------------------------------------------
(* Types *)

Channel == [decode_index : 0..BufferSize, processing_index_now : -1..(BufferSize - 1),
            is_line : BOOLEAN, is_head : BOOLEAN, is_body : BOOLEAN,
            is_read_done : BOOLEAN, is_key : BOOLEAN, is_content_length : BOOLEAN,
            body_size : 0..2, body_start : 0..BufferSize,
            key_start : -1..BufferSize, value_start : -1..BufferSize,
            read_index : 0..BufferSize, write_index : 0..ResponseSize,
            write_size : {0, ResponseSize}]
PCs == {"idle", "connect", "read", "update", "decode", "handle", "fail", "failmod",
        "check", "rearm", "write", "send", "written", "modin", "modout"}
Contents == UNION {[1..n -> Nat] : n \in 0..2}

Shapes ==
    /\ sent \in Nat /\ taken \in 0..sent
    /\ got \in Seq(Nat \X Nat)
    /\ peer \in {"open", "fin", "rst", "gone"}
    /\ txfull \in BOOLEAN /\ released \in BOOLEAN /\ ready \in BOOLEAN
    /\ ch \in Channel
    /\ buffer \in [0..(BufferSize - 1) -> Nat]
    /\ answer \in Nat
    /\ armed \in {"none", "edge", "in", "out", "off", "deleted"}
    /\ fetched \in {"none", "err", "rdhup", "read", "write"}
    /\ tasks \in Seq({"connect", "read", "write"})
    /\ tpc \in [IoThreads -> PCs] /\ read_size \in [IoThreads -> 0..BufferSize]
    /\ handled \in Seq(Contents)
    /\ upstream \subseteq Nat /\ responder \in {"idle", "mod"}

\* The reader stays within the buffer and the decoder within what was read.
IndexInv ==
    /\ ch.write_index <= ch.write_size
    /\ ch.decode_index <= ch.read_index
    /\ \A t \in IoThreads :
        /\ tpc[t] = "update" => ch.read_index + read_size[t] <= BufferSize
        /\ tpc[t] = "decode" => ch.processing_index_now + 1 = ch.read_index
-----------------------------------------------------------------------------
(* The token *)

Registered == armed \in {"in", "out"}
Event == fetched \in {"read", "write"}
Idle == \A t \in IoThreads : tpc[t] = "idle"
\* A thread that works on the channel, or will when it has looked at is_read_done.
Busy(t) == tpc[t] # "idle" /\ (tpc[t] = "check" => ch.is_read_done = FALSE)

TokenInv ==
    /\ \A t, u \in IoThreads : tpc[t] # "idle" /\ tpc[u] # "idle" => t = u
    /\ Len(tasks) <= 1
    /\ Event => Idle /\ tasks = <<>>
    /\ tasks # <<>> => Idle
    /\ Event \/ tasks # <<>> \/ (\E t \in IoThreads : Busy(t)) =>
          ~Registered /\ upstream = {} /\ responder = "idle"
    /\ upstream # {} => ~Registered /\ responder = "idle"
    /\ responder = "mod" => ~Registered
    /\ upstream \subseteq {Len(handled)}
    /\ \A t \in IoThreads :
          /\ tpc[t] = "check" => armed # "in"
          /\ tpc[t] \in {"handle", "fail", "failmod"} => ch.is_read_done = TRUE

Nobody == Idle /\ tasks = <<>> /\ ~Event /\ upstream = {} /\ responder = "idle"

InThread(pcs) == \E t \in IoThreads : tpc[t] \in pcs
Connecting == tasks = <<"connect">> \/ InThread({"connect"})
BeingWritten == tasks = <<"write">> \/ InThread({"write", "send", "written", "modin"})

\* What the epoll knows of a channel.  The first registration reports one
\* readable event: the first request comes in one piece, the second one after a
\* response, before which the registration is another.
EpollInv ==
    /\ armed = "none" <=> Connecting
    /\ Connecting => got = <<>> /\ handled = <<>> /\ txfull = FALSE
    /\ armed = "edge" =>
          /\ got = <<>> /\ txfull = FALSE
          /\ sent = 0 \/ (ready = TRUE /\ peer = "open") => Nobody /\ handled = <<>>
    /\ got = <<>> /\ sent > 0 => sent = End(1)
    /\ armed \in {"none", "deleted"} => fetched = "none"
    /\ fetched = "write" => armed = "off"
    /\ BeingWritten => fetched = "none" /\ armed \in {"off", "deleted"}
    /\ released = TRUE => Nobody /\ armed = "deleted"
-----------------------------------------------------------------------------
(* The responses *)

\* The next request is being read.
BeingRead ==
    \/ armed \in {"none", "in"} \/ fetched = "read" \/ tasks = <<"read">>
    \/ InThread({"connect", "read", "update", "decode", "rearm", "handle", "modin"})
    \/ \E t \in IoThreads : tpc[t] = "check" /\ ch.is_read_done = FALSE
\* The content handler has the request.
Called == upstream # {} \/ InThread({"fail"})
\* The response is in the buffer and not sent whole.
Filled ==
    \/ responder = "mod" \/ fetched = "write" \/ tasks = <<"write">>
    \/ InThread({"failmod", "write", "send"})
    \/ peer = "open" /\ (armed = "out" \/ InThread({"modout"}))

SentSoFar == answer = Len(handled) /\ handled # <<>> /\ ch.write_size = ResponseSize
             /\ Len(got) = (Len(handled) - 1) * ResponseSize + ch.write_index

ReplyInv ==
    /\ ResponsesRight
    /\ BeingRead => Len(got) = Len(handled) * ResponseSize
    /\ Called => handled # <<>> /\ Len(got) = (Len(handled) - 1) * ResponseSize
    /\ Filled => SentSoFar /\ ch.write_index < ResponseSize
    /\ InThread({"written"}) => SentSoFar

ChannelInv == Shapes /\ IndexInv /\ TokenInv /\ EpollInv /\ ReplyInv

-----------------------------------------------------------------------------
(* The fields of a channel *)

LEMMA Numbers == BufferSize \in Nat /\ ResponseSize \in Nat /\ ResponseSize > 0 /\ ResponseSize < BufferSize
  BY SizesAssumption

LEMMA SetRest ==
    ASSUME NEW c \in Channel, NEW i \in 0..BufferSize, NEW p \in -1..(BufferSize - 1),
           NEW l \in BOOLEAN, NEW h \in BOOLEAN
    PROVE  [c EXCEPT !.decode_index = i, !.processing_index_now = p, !.is_line = l, !.is_head = h] \in Channel
  BY Numbers DEF Channel
LEMMA SetFlags ==
    ASSUME NEW c \in Channel, NEW b \in BOOLEAN, NEW r \in BOOLEAN, NEW k \in BOOLEAN, NEW l \in BOOLEAN
    PROVE  [c EXCEPT !.is_body = b, !.is_read_done = r, !.is_key = k, !.is_content_length = l] \in Channel
  BY Numbers DEF Channel
LEMMA SetStarts ==
    ASSUME NEW c \in Channel, NEW s \in 0..2, NEW k \in -1..BufferSize, NEW v \in -1..BufferSize
    PROVE  [c EXCEPT !.body_size = s, !.key_start = k, !.value_start = v] \in Channel
  BY Numbers DEF Channel
LEMMA SetIndexes ==
    ASSUME NEW c \in Channel, NEW w \in 0..ResponseSize, NEW r \in 0..BufferSize
    PROVE  [c EXCEPT !.write_index = w, !.read_index = r] \in Channel
  BY Numbers DEF Channel

LEMMA InitChannel ==
    ASSUME NEW c \in Channel
    PROVE  /\ hs_init_channel(c) \in Channel
           /\ hs_init_channel(c).is_read_done = FALSE
           /\ hs_init_channel(c).write_index = 0
           /\ hs_init_channel(c).write_size = c.write_size
           /\ hs_init_channel(c).decode_index = 0
           /\ hs_init_channel(c).read_index = 0
<1>1. 0 \in 0..BufferSize /\ -1 \in -1..(BufferSize - 1) /\ 0 \in 0..2 /\ -1 \in -1..BufferSize /\ 0 \in 0..ResponseSize
  BY Numbers
<1> DEFINE c1 == [c EXCEPT !.decode_index = 0, !.processing_index_now = -1, !.is_line = TRUE, !.is_head = TRUE]
           c2 == [c1 EXCEPT !.is_body = TRUE, !.is_read_done = FALSE, !.is_key = TRUE, !.is_content_length = FALSE]
           c3 == [c2 EXCEPT !.body_size = 0, !.key_start = -1, !.value_start = -1]
           c4 == [c3 EXCEPT !.write_index = 0, !.read_index = 0]
<1>2. hs_init_channel(c) = c4
  BY Zenon DEF hs_init_channel
<1>3. c1 \in Channel
  BY <1>1, SetRest
<1>4. c2 \in Channel
  BY <1>3, SetFlags
<1>5. c3 \in Channel
  BY <1>1, <1>4, SetStarts
<1>6. c4 \in Channel
  BY <1>1, <1>5, SetIndexes
<1>7. hs_init_channel(c).is_read_done = FALSE /\ hs_init_channel(c).write_index = 0
      /\ hs_init_channel(c).write_size = c.write_size
      /\ hs_init_channel(c).decode_index = 0 /\ hs_init_channel(c).read_index = 0
  BY DEF hs_init_channel, Channel
<1> QED
  BY <1>2, <1>6, <1>7
LEMMA SetLine ==
    ASSUME NEW c \in Channel, NEW a \in BOOLEAN, NEW b \in -1..BufferSize
    PROVE  [c EXCEPT !.is_line = a, !.key_start = b] \in Channel
  BY Numbers DEF Channel
LEMMA SetValueStart ==
    ASSUME NEW c \in Channel, NEW a \in BOOLEAN, NEW b \in -1..BufferSize, NEW d \in BOOLEAN
    PROVE  [c EXCEPT !.is_key = a, !.value_start = b, !.is_content_length = d] \in Channel
  BY Numbers DEF Channel
LEMMA SetHeadEnd ==
    ASSUME NEW c \in Channel, NEW a \in BOOLEAN, NEW b \in 0..BufferSize
    PROVE  [c EXCEPT !.is_head = a, !.body_start = b] \in Channel
  BY Numbers DEF Channel
LEMMA SetLength ==
    ASSUME NEW c \in Channel, NEW a \in BOOLEAN, NEW b \in 0..2
    PROVE  [c EXCEPT !.is_content_length = a, !.body_size = b] \in Channel
  BY Numbers DEF Channel
LEMMA SetKey ==
    ASSUME NEW c \in Channel, NEW a \in BOOLEAN, NEW b \in -1..BufferSize
    PROVE  [c EXCEPT !.is_key = a, !.key_start = b] \in Channel
  BY Numbers DEF Channel
LEMMA SetBody ==
    ASSUME NEW c \in Channel, NEW a \in 0..BufferSize, NEW b \in BOOLEAN, NEW d \in BOOLEAN
    PROVE  [c EXCEPT !.decode_index = a, !.is_body = b, !.is_read_done = d] \in Channel
  BY Numbers DEF Channel
LEMMA SetDecodeIndex ==
    ASSUME NEW c \in Channel, NEW a \in 0..BufferSize
    PROVE  [c EXCEPT !.decode_index = a] \in Channel
  BY Numbers DEF Channel
LEMMA SetRead ==
    ASSUME NEW c \in Channel, NEW a \in 0..BufferSize, NEW b \in -1..(BufferSize - 1), NEW d \in BOOLEAN
    PROVE  [c EXCEPT !.read_index = a, !.processing_index_now = b, !.is_read_done = d] \in Channel
  BY Numbers DEF Channel
LEMMA SetWrite ==
    ASSUME NEW c \in Channel, NEW a \in 0..ResponseSize, NEW b \in {0, ResponseSize}
    PROVE  [c EXCEPT !.write_index = a, !.write_size = b] \in Channel
  BY Numbers DEF Channel
LEMMA SetWriteIndex ==
    ASSUME NEW c \in Channel, NEW a \in 0..ResponseSize
    PROVE  [c EXCEPT !.write_index = a] \in Channel
  BY Numbers DEF Channel

LEMMA AtoiSmall == ASSUME NEW c PROVE atoi(c) \in 0..2
  BY DEF atoi

\* What the decoder leaves alone.
Kept(c, d) ==
    /\ d \in Channel
    /\ d.processing_index_now = c.processing_index_now
    /\ d.read_index = c.read_index
    /\ d.write_index = c.write_index /\ d.write_size = c.write_size
    /\ c.is_read_done = TRUE => d.is_read_done = TRUE

LEMMA DecodeCharOK ==
    ASSUME NEW c \in Channel, c.decode_index <= c.processing_index_now
    PROVE  /\ Kept(c, DecodeChar(c, c.decode_index))
           /\ DecodeChar(c, c.decode_index).decode_index <= c.processing_index_now + 1
<1> DEFINE i == c.decode_index
           Good(d) == Kept(c, d) /\ d.decode_index <= c.processing_index_now
<1> PICK x : x = Char(i)
  OBVIOUS
<1>1. /\ i + 1 \in 0..BufferSize /\ i + 1 \in -1..BufferSize /\ i \in 0..BufferSize
      /\ c.processing_index_now \in 0..BufferSize
      /\ Good(c)
  BY Numbers DEF Channel, Kept
<1>2. Good(DecodeLine(c, i, x))
  <2>1. CASE x = "LF"
    <3>1. DecodeLine(c, i, x) = [c EXCEPT !.is_line = FALSE, !.key_start = i + 1]
      BY <2>1 DEF DecodeLine
    <3>2. [c EXCEPT !.is_line = FALSE, !.key_start = i + 1] \in Channel
      BY <1>1, SetLine
    <3> QED
      BY <1>1, <3>1, <3>2 DEF Channel, Kept
  <2> QED
    BY <1>1, <2>1 DEF DecodeLine
<1>3. Good(DecodeKey(c, i, x))
  <2>1. CASE x = ":"
    <3> DEFINE b == c.is_content_length \/ hs_tolower(Char(c.key_start)) = "content-length"
    <3>1. DecodeKey(c, i, x) = [c EXCEPT !.is_key = FALSE, !.value_start = i + 1, !.is_content_length = b]
      BY <2>1 DEF DecodeKey
    <3>2. [c EXCEPT !.is_key = FALSE, !.value_start = i + 1, !.is_content_length = b] \in Channel
      BY <1>1, SetValueStart
    <3> QED
      BY <1>1, <3>1, <3>2 DEF Channel, Kept
  <2>2. CASE x = "LF"
    <3>1. DecodeKey(c, i, x) = [c EXCEPT !.is_head = FALSE, !.body_start = i + 1]
      BY <2>2 DEF DecodeKey
    <3>2. [c EXCEPT !.is_head = FALSE, !.body_start = i + 1] \in Channel
      BY <1>1, SetHeadEnd
    <3> QED
      BY <1>1, <3>1, <3>2 DEF Channel, Kept
  <2> QED
    BY <1>1, <2>1, <2>2 DEF DecodeKey
<1>4. Good(DecodeValue(c, i, x))
  <2>1. CASE x = "CR" /\ c.is_content_length
    <3> DEFINE n == atoi(Char(c.value_start))
    <3>1. DecodeValue(c, i, x) = [c EXCEPT !.is_content_length = FALSE, !.body_size = n]
      BY <2>1 DEF DecodeValue
    <3>2. [c EXCEPT !.is_content_length = FALSE, !.body_size = n] \in Channel
      BY <1>1, AtoiSmall, SetLength
    <3> QED
      BY <1>1, <3>1, <3>2 DEF Channel, Kept
  <2>2. CASE x = "LF"
    <3>1. DecodeValue(c, i, x) = [c EXCEPT !.is_key = TRUE, !.key_start = i + 1]
      BY <2>2 DEF DecodeValue
    <3>2. [c EXCEPT !.is_key = TRUE, !.key_start = i + 1] \in Channel
      BY <1>1, SetKey
    <3> QED
      BY <1>1, <3>1, <3>2 DEF Channel, Kept
  <2> QED
    BY <1>1, <2>1, <2>2 DEF DecodeValue
<1>5. Good(DecodeBody(c))
  <2> DEFINE b == c.is_body /\ ~(c.processing_index_now - c.body_start + 1 = c.body_size)
             r == c.is_read_done \/ c.processing_index_now - c.body_start + 1 = c.body_size
  <2>1. DecodeBody(c) = [c EXCEPT !.decode_index = c.processing_index_now, !.is_body = b, !.is_read_done = r]
    BY DEF DecodeBody
  <2>2. [c EXCEPT !.decode_index = c.processing_index_now, !.is_body = b, !.is_read_done = r] \in Channel
    BY <1>1, SetBody
  <2> QED
    BY <1>1, <2>1, <2>2 DEF Channel, Kept
<1>6. PICK d : Good(d) /\ DecodeChar(c, i) = [d EXCEPT !.decode_index = d.decode_index + 1]
  <2> DEFINE D(d) == DecodeChar(c, i) = [d EXCEPT !.decode_index = d.decode_index + 1]
  <2>1. \/ D(DecodeLine(c, i, x)) \/ D(DecodeKey(c, i, x)) \/ D(DecodeValue(c, i, x))
        \/ D(DecodeBody(c)) \/ D(c)
    BY DEF DecodeChar
  <2> HIDE DEF D, Good
  <2>2. \E d : Good(d) /\ D(d)
    BY <1>1, <1>2, <1>3, <1>4, <1>5, <2>1
  <2> QED
    BY <2>2 DEF D
<1>7. d.decode_index + 1 \in 0..BufferSize
  BY <1>1, <1>6, Numbers DEF Channel, Kept
<1>8. [d EXCEPT !.decode_index = d.decode_index + 1] \in Channel
  BY <1>6, <1>7, SetDecodeIndex DEF Kept
<1> QED
  BY <1>1, <1>6, <1>7, <1>8 DEF Kept, Channel


LEMMA DivMod ==
    ASSUME NEW r \in Nat \ {0}, NEW q \in Nat, NEW x \in 0..(r - 1)
    PROVE  (q * r + x) \div r = q /\ (q * r + x) % r = x
  OBVIOUS

LEMMA ByteNumber ==
    ASSUME NEW r \in Nat \ {0}, NEW h \in Nat \ {0}, NEW w \in Nat, NEW i \in Nat \ {0}, w + i <= r,
           NEW j \in Nat, j = (h - 1) * r + w + i
    PROVE  1 + (j - 1) \div r = h /\ 1 + ((j - 1) % r) = w + i
<1>1. PICK q \in Nat : q = h - 1
  OBVIOUS
<1>2. w + i - 1 \in 0..(r - 1)
  OBVIOUS
<1>3. PICK x \in 0..(r - 1) : x = w + i - 1
  BY <1>2
<1>4. PICK m \in Nat : m = q * r
  OBVIOUS
<1>5. j - 1 = q * r + x
  BY <1>1, <1>3, <1>4
<1>6. (q * r + x) \div r = q /\ (q * r + x) % r = x
  BY DivMod
<1> QED
  BY <1>1, <1>3, <1>5, <1>6

\* Byte j of what the client gets is b.
RightByte(j, b) == b = <<1 + (j - 1) \div ResponseSize, 1 + ((j - 1) % ResponseSize)>>
\* Byte j comes i places after w bytes of the response to call h.
After(j, h, w, i) == j = (h - 1) * ResponseSize + w + i

LEMMA ByteRight ==
    ASSUME NEW h \in Nat \ {0}, NEW w \in Nat, NEW i \in Nat \ {0}, w + i <= ResponseSize,
           NEW j \in Nat, After(j, h, w, i)
    PROVE  RightByte(j, <<h, w + i>>)
<1>1. PICK r \in Nat \ {0} : r = ResponseSize
  BY Numbers
<1>2. w + i <= r /\ j = (h - 1) * r + w + i
  BY <1>1 DEF After
<1>3. 1 + (j - 1) \div r = h /\ 1 + ((j - 1) % r) = w + i
  BY <1>2, ByteNumber
<1> QED
  BY <1>1, <1>3 DEF RightByte

\* n bytes of the response to call a, after w of them.
Bytes(a, w, n) == [j \in 1..n |-> <<a, w + j>>]

LEMMA BytesSeq ==
    ASSUME NEW a \in Nat, NEW w \in Nat, NEW n \in Nat
    PROVE  /\ Bytes(a, w, n) \in Seq(Nat \X Nat)
           /\ Len(Bytes(a, w, n)) = n
           /\ \A i \in 1..n : Bytes(a, w, n)[i] = <<a, w + i>>
<1> DEFINE S == Nat \X Nat
<1>1. Bytes(a, w, n) \in [1..n -> S]
  BY DEF Bytes
<1>2. \A i \in 1..n : Bytes(a, w, n)[i] = <<a, w + i>>
  BY DEF Bytes
<1> HIDE DEF S
<1>3. Bytes(a, w, n) \in Seq(S) /\ Len(Bytes(a, w, n)) = n
  BY <1>1
<1> QED
  BY <1>2, <1>3 DEF S

LEMMA OneTask ==
    ASSUME NEW s \in Seq({"connect", "read", "write"}), Len(s) <= 1, s # <<>>
    PROVE  /\ Head(s) \in {"connect", "read", "write"}
           /\ s = <<Head(s)>> /\ Tail(s) = <<>>
<1> DEFINE S == {"connect", "read", "write"}
<1> HIDE DEF S
<1>1. s \in Seq(S)
  BY DEF S
<1>2. Len(s) = 1
  <2>1. \A q \in Seq(S) : q # <<>> => Len(q) \in Nat \ {0}
    BY EmptySeq
  <2> QED
    BY <1>1, <2>1
<1>3. Head(s) \in S /\ Tail(s) \in Seq(S) /\ Len(Tail(s)) = 0
  BY <1>1, <1>2, HeadTailProperties
<1>4. Tail(s) = <<>>
  BY <1>3, EmptySeq
<1>5. s = <<Head(s)>>
  BY <1>1, <1>2
<1> QED
  BY <1>3, <1>4, <1>5 DEF S

LEMMA ChannelFields ==
    ASSUME NEW c \in Channel
    PROVE  /\ c.is_read_done \in BOOLEAN
           /\ c.read_index \in 0..BufferSize /\ c.decode_index \in 0..BufferSize
           /\ c.processing_index_now \in -1..(BufferSize - 1)
           /\ c.write_index \in 0..ResponseSize /\ c.write_size \in {0, ResponseSize}
           /\ c.body_size \in 0..2 /\ c.body_start \in 0..BufferSize
  BY DEF Channel

-----------------------------------------------------------------------------
(* Who is alone *)

LEMMA Alone ==
    ASSUME ChannelInv, NEW t \in IoThreads, tpc[t] # "idle"
    PROVE  /\ \A u \in IoThreads : u # t => tpc[u] = "idle"
           /\ tasks = <<>> /\ ~Event
           /\ Busy(t) => ~Registered /\ upstream = {} /\ responder = "idle"
           /\ released = FALSE
  BY DEF ChannelInv, TokenInv, Idle, EpollInv, Nobody
-----------------------------------------------------------------------------
(* Steps *)

\* No event is reported.
LEMMA NoEventOK == ASSUME ChannelInv, EpollWait, fetched' = "none" PROVE ChannelInv'
<1>1. /\ UNCHANGED <<client, socket, channel, io, users, fetched, armed>>
      /\ ready' = FALSE
  BY DEF EpollWait
<1>2. Shapes' /\ IndexInv'
  BY <1>1 DEF ChannelInv, Shapes, IndexInv
<1>3. TokenInv'
  BY <1>1 DEF ChannelInv, TokenInv, Registered, Event, Idle, Busy
<1>4. EpollInv'
  BY <1>1 DEF ChannelInv, EpollInv, Nobody, Idle, Event, Connecting, BeingWritten, InThread
<1>5. ReplyInv'
  <2>1. ResponsesRight'
    BY <1>1 DEF ChannelInv, ReplyInv, ResponsesRight
  <2>2. /\ BeingRead' <=> BeingRead
        /\ Called' <=> Called
        /\ Filled' <=> Filled
        /\ InThread({"written"})' <=> InThread({"written"})
    BY <1>1 DEF BeingRead, Called, Filled, InThread
  <2> QED
    BY <1>1, <2>1, <2>2 DEF ChannelInv, ReplyInv, SentSoFar
<1> QED
  BY <1>2, <1>3, <1>4, <1>5 DEF ChannelInv

LEMMA EpollWaitOK == ASSUME OnTime, ChannelInv, EpollWait PROVE ChannelInv'
<1>0. SUFFICES ASSUME fetched' # "none" PROVE ChannelInv'
  BY NoEventOK
<1>1. ready = TRUE /\ fetched = "none" /\ \A t \in IoThreads : tpc[t] # "check"
  BY <1>0 DEF EpollWait, OnTime, LookedInTime, ChannelInv, Shapes
<1>2. fetched' = EventFor(armed) /\ ready' = FALSE
      /\ ch' = ch /\ tasks' = tasks /\ tpc' = tpc /\ upstream' = upstream /\ responder' = responder
      /\ handled' = handled /\ got' = got /\ sent' = sent /\ txfull' = txfull /\ peer' = peer
      /\ released' = released /\ answer' = answer
  BY DEF EpollWait
<1>3. /\ fetched' \in {"none", "err", "rdhup", "read", "write"}
      /\ armed' \in {armed, "off"}
      /\ fetched' = "none" => armed' = armed
      /\ armed \in {"none", "off", "deleted"} => fetched' = "none"
      /\ armed = "edge" => armed' = "edge" /\ fetched' # "write"
      /\ armed \in {"in", "out"} /\ fetched' # "none" => armed' = "off"
      /\ fetched' = "read" => armed \in {"edge", "in"} /\ peer = "open"
      /\ fetched' = "write" => armed = "out" /\ peer = "open"
  BY <1>1, <1>2 DEF EpollWait, EventFor, ChannelInv, Shapes
<1>4. fetched' \in {"read", "write"} => Nobody
  BY <1>1, <1>3 DEF ChannelInv, TokenInv, EpollInv, Nobody, Idle, Registered, Busy, Shapes
<1>5. Shapes'
  BY <1>2, <1>3 DEF ChannelInv, Shapes, EpollWait
<1>6. IndexInv'
  BY <1>2 DEF ChannelInv, IndexInv, EpollWait
<1>7. TokenInv'
  BY <1>2, <1>3, <1>4 DEF ChannelInv, TokenInv, Nobody, Idle, Registered, Event, Busy
<1>8. EpollInv'
  <2>1. /\ BeingWritten' <=> BeingWritten
        /\ Connecting' <=> Connecting
    BY <1>2 DEF BeingWritten, Connecting, InThread
  <2>2. armed' = "edge" => armed = "edge" /\ ~(sent' = 0 /\ fetched' = "read")
    BY <1>2, <1>3 DEF EventFor, Available, ChannelInv, Shapes
  <2>3. BeingWritten => fetched' = "none" /\ armed' = armed
    BY <1>1, <1>3 DEF ChannelInv, EpollInv
  <2>4. fetched' \notin {"read", "write"} => (Nobody => Nobody')
    BY <1>2 DEF Nobody, Idle, Event
  <2>5. armed' = "edge" /\ sent' = 0 => Nobody' /\ handled' = <<>>
    BY <1>2, <2>2, <2>4, <1>3 DEF ChannelInv, EpollInv
  <2>6. released' = TRUE => Nobody' /\ armed' = "deleted"
    BY <1>2, <1>3, <2>4 DEF ChannelInv, EpollInv
  <2> QED
    BY <1>1, <1>2, <1>3, <2>1, <2>2, <2>3, <2>5, <2>6 DEF ChannelInv, EpollInv
<1>9. ReplyInv'
  <2>1. ResponsesRight'
    BY <1>2 DEF ChannelInv, ReplyInv, ResponsesRight
  <2>2. fetched' = "read" => Len(got) = Len(handled) * ResponseSize
    <3>1. CASE armed = "in"
      BY <3>1 DEF ChannelInv, ReplyInv, BeingRead
    <3>2. CASE armed = "edge" /\ peer = "open"
      <4>1. got = <<>> /\ handled = <<>>
        BY <1>1, <3>2 DEF ChannelInv, EpollInv
      <4> QED
        BY <4>1, EmptySeq, Numbers
    <3> QED
      BY <1>3, <3>1, <3>2
  <2>3. fetched' = "write" => Filled
    BY <1>3 DEF Filled
  <2>4. (BeingRead' => BeingRead \/ fetched' = "read") /\ (Filled' => Filled \/ fetched' = "write")
        /\ (Called' <=> Called) /\ (InThread({"written"})' <=> InThread({"written"}))
    BY <1>2, <1>3 DEF BeingRead, Filled, Called, InThread
  <2> QED
    BY <1>2, <2>1, <2>2, <2>3, <2>4 DEF ChannelInv, ReplyInv, SentSoFar
<1> QED
  BY <1>5, <1>6, <1>7, <1>8, <1>9 DEF ChannelInv

LEMMA HandleEventOK == ASSUME ChannelInv, HandleEvent PROVE ChannelInv'
<1>1. /\ fetched # "none" /\ fetched' = "none"
      /\ armed' = IF fetched = "rdhup" THEN "deleted" ELSE armed
      /\ ch' = ch /\ tpc' = tpc /\ upstream' = upstream /\ responder' = responder /\ ready' = ready
      /\ handled' = handled /\ got' = got /\ sent' = sent /\ txfull' = txfull /\ peer' = peer
      /\ released' = released /\ answer' = answer
  BY DEF HandleEvent
<1>2. fetched \in {"read", "write"} => Idle /\ tasks = <<>> /\ ~Registered /\ upstream = {} /\ responder = "idle"
  BY DEF ChannelInv, TokenInv, Event
<1>3. /\ fetched = "read" => tasks' = <<"read">>
      /\ fetched = "write" => tasks' = <<"write">>
      /\ fetched \notin {"read", "write"} => tasks' = tasks
  <2>1. \A f : Append(<<>>, f) = <<f>>
    OBVIOUS
  <2>2. CASE fetched = "read"
    BY <1>2, <2>1, <2>2 DEF HandleEvent, hs_io_do_read
  <2>3. CASE fetched = "write"
    BY <1>2, <2>1, <2>3 DEF HandleEvent, hs_io_do_write
  <2>4. CASE fetched \notin {"read", "write"}
    BY <2>4 DEF HandleEvent
  <2> QED
    BY <2>2, <2>3, <2>4
<1>4. fetched \in {"read", "write"} => Len(tasks') = 1 /\ tasks' # <<>> /\ tasks' # <<"connect">>
  BY <1>3
<1>5. Shapes'
  <2>1. tasks' \in Seq({"connect", "read", "write"})
    <3>1. <<"read">> \in Seq({"connect", "read", "write"}) /\ <<"write">> \in Seq({"connect", "read", "write"})
      OBVIOUS
    <3> QED
      BY <1>3, <3>1 DEF ChannelInv, Shapes
  <2> QED
    BY <1>1, <2>1 DEF ChannelInv, Shapes, HandleEvent
<1>6. IndexInv'
  BY <1>1 DEF ChannelInv, IndexInv, HandleEvent
<1>7. TokenInv'
  <2>1. CASE fetched \in {"read", "write"}
    BY <1>1, <1>2, <1>4, <2>1 DEF ChannelInv, TokenInv, Idle, Registered, Event
  <2>2. CASE fetched \notin {"read", "write"}
    BY <1>1, <1>3, <2>2 DEF ChannelInv, TokenInv, Idle, Registered, Event, Busy
  <2> QED
    BY <2>1, <2>2
<1>8. released = FALSE /\ armed \notin {"none", "deleted"}
  BY <1>1 DEF ChannelInv, EpollInv, Shapes
<1>9. EpollInv'
  <2>1. Connecting' <=> Connecting
    BY <1>1, <1>2, <1>3, <1>4 DEF Connecting, InThread, Idle
  <2>2. BeingWritten' <=> BeingWritten \/ fetched = "write"
    BY <1>1, <1>2, <1>3 DEF BeingWritten, InThread, Idle
  <2>3. armed' = "edge" => armed = "edge"
    BY <1>1
  <2>4. Nobody => Nobody'
    BY <1>1, <1>3 DEF Nobody, Event, Idle
  <2> QED
    BY <1>1, <1>8, <2>1, <2>2, <2>3, <2>4 DEF ChannelInv, EpollInv
<1>10. ReplyInv'
  <2>1. ResponsesRight'
    BY <1>1 DEF ChannelInv, ReplyInv, ResponsesRight
  <2>2. /\ BeingRead' => BeingRead
        /\ Filled' => Filled
        /\ (Called' <=> Called) /\ (InThread({"written"})' <=> InThread({"written"}))
    BY <1>1, <1>3 DEF BeingRead, Filled, Called, InThread
  <2> QED
    BY <1>1, <2>1, <2>2 DEF ChannelInv, ReplyInv, SentSoFar
<1> QED
  BY <1>5, <1>6, <1>7, <1>9, <1>10 DEF ChannelInv

LEMMA StartTaskOK == ASSUME ChannelInv, NEW t \in IoThreads, StartTask(t) PROVE ChannelInv'
<1>1. /\ tasks # <<>> /\ tpc[t] = "idle" /\ tpc' = [tpc EXCEPT ![t] = Head(tasks)] /\ tasks' = Tail(tasks)
      /\ ch' = ch /\ upstream' = upstream /\ responder' = responder /\ ready' = ready
      /\ handled' = handled /\ got' = got /\ sent' = sent /\ txfull' = txfull /\ peer' = peer
      /\ released' = released /\ answer' = answer /\ armed' = armed /\ fetched' = fetched
  BY DEF StartTask, ThreadStep
<1>2. PICK f \in {"connect", "read", "write"} : f = Head(tasks) /\ tasks = <<f>> /\ tasks' = <<>>
  BY <1>1, OneTask DEF ChannelInv, Shapes, TokenInv
<1>3. /\ tpc[t] = "idle" /\ tpc' = [tpc EXCEPT ![t] = f] /\ f \notin {"idle", "check"}
      /\ \A u \in IoThreads : tpc[u] = "idle"
      /\ ~Event /\ ~Registered /\ upstream = {} /\ responder = "idle" /\ released = FALSE
  BY <1>1, <1>2 DEF ChannelInv, TokenInv, EpollInv, Nobody, Idle
<1>4. \A u \in IoThreads : tpc'[u] = IF u = t THEN f ELSE "idle"
  BY <1>3 DEF ChannelInv, Shapes
<1>5. Shapes'
  BY <1>1, <1>2, <1>3 DEF ChannelInv, Shapes, StartTask, PCs
<1>6. IndexInv'
  BY <1>1, <1>2, <1>4 DEF ChannelInv, IndexInv, StartTask
<1>7. TokenInv'
  BY <1>1, <1>2, <1>3, <1>4 DEF ChannelInv, TokenInv, Registered, Event
<1>8. EpollInv'
  <2>1. Connecting' <=> Connecting
    BY <1>2, <1>3, <1>4 DEF Connecting, InThread
  <2>2. BeingWritten' <=> BeingWritten
    BY <1>2, <1>3, <1>4 DEF BeingWritten, InThread
  <2>3. ~Nobody
    BY <1>1 DEF Nobody
  <2> QED
    BY <1>1, <1>3, <2>1, <2>2, <2>3 DEF ChannelInv, EpollInv
<1>9. ReplyInv'
  <2>1. ResponsesRight'
    BY <1>1 DEF ChannelInv, ReplyInv, ResponsesRight
  <2>2. /\ BeingRead' => BeingRead
        /\ Filled' => Filled
        /\ ~Called' /\ ~InThread({"written"})'
    BY <1>1, <1>2, <1>3, <1>4 DEF BeingRead, Filled, Called, InThread, ChannelInv, EpollInv,
       Connecting
  <2> QED
    BY <1>1, <2>1, <2>2 DEF ChannelInv, ReplyInv, SentSoFar
<1> QED
  BY <1>5, <1>6, <1>7, <1>8, <1>9 DEF ChannelInv

LEMMA hs_new_connectionOK == ASSUME ChannelInv, NEW t \in IoThreads, hs_new_connection(t) PROVE ChannelInv'
<1>1. /\ tpc[t] # "idle" /\ \A u \in IoThreads : u # t => tpc[u] = "idle"
      /\ tasks = <<>> /\ ~Event /\ released = FALSE
      /\ Busy(t) => ~Registered /\ upstream = {} /\ responder = "idle"
  BY Alone DEF hs_new_connection, ThreadStep
<1>2. ch' \in Channel /\ ch'.is_read_done = FALSE /\ ch'.write_index = 0 /\ ch'.write_size = ch.write_size
      /\ ch'.decode_index = 0 /\ ch'.read_index = 0
  BY InitChannel DEF ChannelInv, Shapes, hs_new_connection
<1>3. Shapes'
  BY <1>2 DEF ChannelInv, Shapes, PCs, hs_new_connection, ThreadStep
<1>4. IndexInv'
  <2>1. \A u \in IoThreads : tpc'[u] = "idle"
    BY <1>1 DEF ChannelInv, Shapes, hs_new_connection, ThreadStep
  <2>2. ch'.write_size \in {0, ResponseSize}
    BY <1>2, ChannelFields
  <2>3. ch'.write_index <= ch'.write_size /\ ch'.decode_index <= ch'.read_index
    BY <1>2, <2>2, Numbers
  <2> QED
    BY <2>1, <2>3 DEF IndexInv
<1>5. TokenInv'
  BY <1>1 DEF ChannelInv, Shapes, TokenInv, Event, Busy, hs_new_connection, ThreadStep
<1>6. EpollInv'
  BY <1>1 DEF ChannelInv, Shapes, EpollInv, Nobody, Connecting, BeingWritten, Event, Idle, Busy,
     hs_new_connection, ThreadStep, InThread
<1>7. ResponsesRight'
  BY DEF ChannelInv, ReplyInv, ResponsesRight, hs_new_connection
<1>8. ReplyInv'
  BY <1>7, <1>1 DEF ChannelInv, ReplyInv, BeingRead, Called, Filled, InThread, Event, Busy,
     hs_new_connection, ThreadStep
<1> QED
  BY <1>3, <1>4, <1>5, <1>6, <1>8 DEF ChannelInv

LEMMA RecvOK == ASSUME ChannelInv, NEW t \in IoThreads, Recv(t) PROVE ChannelInv'
<1>1. /\ tpc[t] # "idle" /\ \A u \in IoThreads : u # t => tpc[u] = "idle"
      /\ tasks = <<>> /\ ~Event /\ released = FALSE
      /\ Busy(t) => ~Registered /\ upstream = {} /\ responder = "idle"
  BY Alone DEF Recv, ThreadStep
<1>2. ch' = ch /\ ch' \in Channel
  BY DEF ChannelInv, Shapes, Recv
<1>3. PICK n \in 0..BufferSize :
          /\ n <= sent - taken /\ n <= BufferSize - ch.read_index
          /\ n = Least(Available, BufferSize - ch.read_index)
  <2>1. sent - taken \in Nat /\ BufferSize - ch.read_index \in 0..BufferSize
    BY <1>2, ChannelFields, Numbers DEF ChannelInv, Shapes
  <2> QED
    BY <2>1, Numbers DEF Least, Available
<1>4. /\ taken' = taken + n /\ read_size' = [read_size EXCEPT ![t] = n]
      /\ buffer' = [i \in DOMAIN buffer |->
                      IF i \in ch.read_index..(ch.read_index + n - 1)
                      THEN taken + 1 + (i - ch.read_index) ELSE buffer[i]]
  BY <1>3 DEF Recv
<1>5. PICK to \in {"rearm", "update"} : tpc[t] = "read" /\ tpc' = [tpc EXCEPT ![t] = to]
  BY DEF Recv, ThreadStep
<1>6. \A u \in IoThreads : tpc'[u] = IF u = t THEN to ELSE "idle"
  BY <1>1, <1>5 DEF ChannelInv, Shapes
<1>7. Shapes'
  <2>1. buffer' \in [0..(BufferSize - 1) -> Nat]
    <3>1. PICK r \in Nat : r = ch.read_index
      BY <1>2, ChannelFields, Numbers
    <3>2. taken \in Nat /\ buffer \in [0..(BufferSize - 1) -> Nat]
      BY DEF ChannelInv, Shapes
    <3>3. \A i \in 0..(BufferSize - 1) : i \in r..(r + n - 1) => taken + 1 + (i - r) \in Nat
      BY <3>2
    <3> QED
      BY <1>4, <3>1, <3>2, <3>3
  <2>2. taken' \in 0..sent /\ read_size' \in [IoThreads -> 0..BufferSize]
    BY <1>3, <1>4 DEF ChannelInv, Shapes
  <2>3. tpc' \in [IoThreads -> PCs]
    BY <1>5 DEF ChannelInv, Shapes, PCs
  <2> QED
    BY <1>2, <2>1, <2>2, <2>3 DEF ChannelInv, Shapes, Recv
<1>8. IndexInv'
  <2>1. ch.read_index \in 0..BufferSize
    BY <1>2, ChannelFields
  <2>2. read_size'[t] = n
    BY <1>4 DEF ChannelInv, Shapes
  <2>3. ch'.read_index + n <= BufferSize
    BY <1>2, <1>3, <2>1, Numbers
  <2> QED
    BY <1>2, <1>5, <1>6, <2>2, <2>3 DEF ChannelInv, IndexInv
<1>9. TokenInv'
  BY <1>1, <1>5, <1>6 DEF ChannelInv, TokenInv, Registered, Event, Busy, Recv
<1>10. EpollInv'
  BY DEF ChannelInv, EpollInv, Nobody, Connecting, BeingWritten, Idle, Recv, ThreadStep, InThread
<1>11. ResponsesRight'
  BY DEF ChannelInv, ReplyInv, ResponsesRight, Recv
<1>12. ReplyInv'
  BY <1>11, <1>1 DEF ChannelInv, ReplyInv, BeingRead, Called, Filled, InThread, Registered, Event,
     Busy, Recv, ThreadStep
<1> QED
  BY <1>7, <1>8, <1>9, <1>10, <1>12 DEF ChannelInv

LEMMA RecvErrorOK == ASSUME ChannelInv, NEW t \in IoThreads, RecvError(t) PROVE ChannelInv'
<1>1. /\ tpc[t] # "idle" /\ \A u \in IoThreads : u # t => tpc[u] = "idle"
      /\ tasks = <<>> /\ ~Event /\ released = FALSE
      /\ Busy(t) => ~Registered /\ upstream = {} /\ responder = "idle"
  BY Alone DEF RecvError, ThreadStep
<1>2. ch' \in Channel /\ ch'.is_read_done = ch.is_read_done /\ ch'.write_index = 0 /\ ch'.write_size = 0
      /\ ch'.decode_index = ch.decode_index /\ ch'.read_index = ch.read_index
  <2>1. ch \in Channel /\ 0 \in 0..ResponseSize /\ 0 \in {0, ResponseSize}
    BY Numbers DEF ChannelInv, Shapes
  <2>2. ch' = [ch EXCEPT !.write_index = 0, !.write_size = 0]
    BY DEF RecvError
  <2>3. ch' \in Channel
    BY <2>1, <2>2, SetWrite
  <2> QED
    BY <2>1, <2>2, <2>3 DEF Channel
<1>3. Shapes'
  BY <1>2 DEF ChannelInv, Shapes, PCs, RecvError, ThreadStep
<1>4. IndexInv'
  BY DEF ChannelInv, IndexInv, RecvError, ThreadStep
<1>5. TokenInv'
  BY <1>1 DEF ChannelInv, TokenInv, Registered, Event, Busy, RecvError, ThreadStep
<1>6. EpollInv'
  BY DEF ChannelInv, EpollInv, Nobody, Connecting, BeingWritten, Idle, RecvError, ThreadStep,
     InThread
<1>7. ResponsesRight'
  BY DEF ChannelInv, ReplyInv, ResponsesRight, RecvError
<1>8. ReplyInv'
  BY <1>7, <1>1 DEF ChannelInv, ReplyInv, BeingRead, Called, Filled, InThread, Event, Busy,
     RecvError, ThreadStep
<1> QED
  BY <1>3, <1>4, <1>5, <1>6, <1>8 DEF ChannelInv

LEMMA UpdateIndexesOK == ASSUME ChannelInv, NEW t \in IoThreads, UpdateIndexes(t) PROVE ChannelInv'
<1>1. /\ tpc[t] # "idle" /\ \A u \in IoThreads : u # t => tpc[u] = "idle"
      /\ tasks = <<>> /\ ~Event /\ released = FALSE
      /\ Busy(t) => ~Registered /\ upstream = {} /\ responder = "idle"
  BY Alone DEF UpdateIndexes, ThreadStep
<1>2. ch' \in Channel /\ ch'.read_index = ch.read_index + read_size[t] /\ ch'.processing_index_now + 1 = ch'.read_index
      /\ ch'.decode_index = ch.decode_index /\ ch'.write_index = ch.write_index /\ ch'.write_size = ch.write_size
  <2>1. PICK end \in 0..BufferSize : end = ch.read_index + read_size[t] /\ end - 1 \in -1..(BufferSize - 1)
    <3>1. ch \in Channel /\ read_size[t] \in 0..BufferSize
      BY DEF ChannelInv, Shapes
    <3>2. ch.read_index + read_size[t] <= BufferSize
      BY DEF ChannelInv, IndexInv, UpdateIndexes, ThreadStep
    <3>3. ch.read_index \in 0..BufferSize
      BY <3>1, ChannelFields
    <3> QED
      BY <3>1, <3>2, <3>3, Numbers
  <2>2. PICK done \in BOOLEAN : done = (ch.is_read_done \/ end >= BufferSize)
    OBVIOUS
  <2>3. ch \in Channel /\ ch' = [ch EXCEPT !.read_index = end, !.processing_index_now = end - 1, !.is_read_done = done]
    BY <2>1, <2>2 DEF ChannelInv, Shapes, UpdateIndexes
  <2>4. ch' \in Channel
    BY <2>1, <2>3, SetRead
  <2>5. ch'.read_index = end /\ ch'.processing_index_now = end - 1
        /\ ch'.decode_index = ch.decode_index /\ ch'.write_index = ch.write_index /\ ch'.write_size = ch.write_size
    BY <2>3 DEF Channel
  <2> QED
    BY <2>1, <2>4, <2>5
<1>3. tpc[t] = "update"
      /\ \A u \in IoThreads : tpc'[u] = IF u = t THEN "decode" ELSE "idle"
  BY <1>1 DEF UpdateIndexes, ThreadStep, ChannelInv, Shapes
<1>4. Shapes'
  BY <1>2 DEF ChannelInv, Shapes, PCs, UpdateIndexes, ThreadStep
<1>5. IndexInv'
  <2>1. ch.decode_index \in Nat /\ ch.read_index \in Nat /\ read_size[t] \in Nat /\ ch.decode_index <= ch.read_index
    BY ChannelFields, Numbers DEF ChannelInv, Shapes, IndexInv
  <2> QED
    BY <1>2, <1>3, <2>1 DEF ChannelInv, IndexInv
<1>6. TokenInv'
  BY <1>1 DEF ChannelInv, TokenInv, Registered, Event, Busy, UpdateIndexes, ThreadStep
<1>7. EpollInv'
  BY DEF ChannelInv, EpollInv, Nobody, Connecting, BeingWritten, Idle, UpdateIndexes, ThreadStep,
     InThread
<1>8. ResponsesRight'
  BY DEF ChannelInv, ReplyInv, ResponsesRight, UpdateIndexes
<1>9. ReplyInv'
  BY <1>8, <1>1 DEF ChannelInv, ReplyInv, BeingRead, Called, Filled, InThread, Registered, Event,
     Busy, UpdateIndexes, ThreadStep
<1> QED
  BY <1>4, <1>5, <1>6, <1>7, <1>9 DEF ChannelInv

LEMMA DecodeOK == ASSUME ChannelInv, NEW t \in IoThreads, Decode(t) PROVE ChannelInv'
<1>1. /\ tpc[t] # "idle" /\ \A u \in IoThreads : u # t => tpc[u] = "idle"
      /\ tasks = <<>> /\ ~Event /\ released = FALSE
      /\ Busy(t) => ~Registered /\ upstream = {} /\ responder = "idle"
  BY Alone DEF Decode, ThreadStep
<1>2. Kept(ch, ch') /\ ch'.decode_index <= ch.processing_index_now + 1
  BY DecodeCharOK DEF ChannelInv, Shapes, Decode
<1>3. Shapes'
  BY <1>2 DEF ChannelInv, Shapes, Kept, Decode
<1>4. IndexInv'
  BY <1>2 DEF ChannelInv, Kept, IndexInv, Decode
<1>5. TokenInv'
  BY <1>1 DEF ChannelInv, TokenInv, Registered, Event, Busy, Decode
<1>6. EpollInv'
  BY DEF ChannelInv, EpollInv, Nobody, Connecting, BeingWritten, Idle, Decode, InThread
<1>7. ResponsesRight'
  BY DEF ChannelInv, ReplyInv, ResponsesRight, Decode
<1>8. ReplyInv'
  BY <1>7, <1>1 DEF ChannelInv, ReplyInv, BeingRead, Called, Filled, InThread, Registered, Event,
     Busy, Decode
<1> QED
  BY <1>3, <1>4, <1>5, <1>6, <1>8 DEF ChannelInv

LEMMA DecodeEndOK == ASSUME ChannelInv, NEW t \in IoThreads, DecodeEnd(t) PROVE ChannelInv'
<1>1. /\ tpc[t] # "idle" /\ \A u \in IoThreads : u # t => tpc[u] = "idle"
      /\ tasks = <<>> /\ ~Event /\ released = FALSE
      /\ Busy(t) => ~Registered /\ upstream = {} /\ responder = "idle"
  BY Alone DEF DecodeEnd, ThreadStep
<1>2. ch' = ch /\ ch' \in Channel
  BY DEF ChannelInv, Shapes, DecodeEnd
<1>3. Shapes'
  BY DEF ChannelInv, Shapes, PCs, DecodeEnd, ThreadStep
<1>4. IndexInv'
  BY DEF ChannelInv, IndexInv, DecodeEnd, ThreadStep
<1>5. TokenInv'
  BY <1>1 DEF ChannelInv, TokenInv, Registered, Event, Busy, DecodeEnd, ThreadStep
<1>6. EpollInv'
  BY DEF ChannelInv, EpollInv, Nobody, Connecting, BeingWritten, Idle, DecodeEnd, ThreadStep,
     InThread
<1>7. ResponsesRight'
  BY DEF ChannelInv, ReplyInv, ResponsesRight, DecodeEnd
<1>8. ReplyInv'
  BY <1>7, <1>1 DEF ChannelInv, ReplyInv, BeingRead, Called, Filled, InThread, Registered, Event,
     Busy, DecodeEnd, ThreadStep
<1> QED
  BY <1>3, <1>4, <1>5, <1>6, <1>8 DEF ChannelInv

LEMMA HandledGrows ==
    ASSUME ChannelInv, NEW t \in IoThreads, Handle(t)
    PROVE  /\ handled' \in Seq(Contents) /\ Len(handled') = Len(handled) + 1 /\ handled' # <<>>
           /\ Len(handled) \in Nat /\ handled'[Len(handled')] = Content
<1>1. PICK size \in 0..2 : size = ch.body_size
  BY ChannelFields DEF ChannelInv, Shapes
<1>2. PICK start \in 0..BufferSize : start = ch.body_start
  BY ChannelFields DEF ChannelInv, Shapes
<1>3. [j \in 1..size |-> IF start + j <= BufferSize THEN buffer[start + j - 1] ELSE 0] \in [1..size -> Nat]
  BY Numbers DEF ChannelInv, Shapes
<1>4. Content \in [1..size -> Nat]
  BY <1>1, <1>2, <1>3 DEF Content
<1>5. Content \in Contents
  BY <1>4 DEF Contents
<1>6. handled \in Seq(Contents) /\ handled' = Append(handled, Content)
  BY DEF Handle, ChannelInv, Shapes
<1> QED
  BY <1>5, <1>6, AppendProperties

LEMMA HandleOK == ASSUME ChannelInv, NEW t \in IoThreads, Handle(t) PROVE ChannelInv'
<1>1. /\ tpc[t] # "idle" /\ \A u \in IoThreads : u # t => tpc[u] = "idle"
      /\ tasks = <<>> /\ ~Event /\ released = FALSE
      /\ Busy(t) => ~Registered /\ upstream = {} /\ responder = "idle"
  BY Alone DEF Handle, ThreadStep
<1>2. ch' = ch /\ ch' \in Channel
  BY DEF ChannelInv, Shapes, Handle
<1>3. tpc[t] = "handle" /\ upstream = {} /\ responder = "idle" /\ ~Registered
      /\ ch.is_read_done = TRUE /\ Len(got) = Len(handled) * ResponseSize
  BY DEF Handle, Busy, ChannelInv, TokenInv, ReplyInv, BeingRead, InThread
<1>4. PICK to \in {"check", "fail"} :
          /\ tpc' = [tpc EXCEPT ![t] = to]
          /\ to = "check" => upstream' = {Len(handled')}
          /\ to = "fail" => upstream' = {}
  BY <1>3 DEF Handle
<1>5. handled' \in Seq(Contents) /\ Len(handled') = Len(handled) + 1 /\ handled' # <<>>
      /\ Len(handled) \in Nat
  BY HandledGrows
<1>6. \A u \in IoThreads : tpc'[u] = IF u = t THEN to ELSE "idle"
  BY <1>1, <1>4 DEF ChannelInv, Shapes
<1>7. Shapes'
  <2>1. tpc' \in [IoThreads -> PCs]
    BY <1>4 DEF ChannelInv, Shapes, PCs
  <2>2. upstream' \subseteq Nat
    BY <1>4, <1>5
  <2> QED
    BY <1>2, <1>5, <2>1, <2>2 DEF ChannelInv, Shapes, Handle
<1>8. IndexInv'
  BY DEF ChannelInv, Shapes, IndexInv, Handle
<1>9. TokenInv'
  BY <1>1, <1>3, <1>4, <1>6 DEF ChannelInv, TokenInv, Registered, Event, Busy, Handle
<1>10. EpollInv'
  BY <1>1 DEF ChannelInv, Shapes, EpollInv, Nobody, Connecting, BeingWritten, Idle, Handle, InThread
<1>11. ResponsesRight'
  BY DEF ChannelInv, ReplyInv, ResponsesRight, Handle
<1>12. ReplyInv'
  <2>1. ~BeingRead'
    BY <1>1, <1>3, <1>4, <1>6 DEF BeingRead, InThread, Event, Registered, Handle, ChannelInv,
       EpollInv, Connecting
  <2>2. ~Filled' /\ ~InThread({"written"})'
    BY <1>1, <1>3, <1>4, <1>6 DEF Filled, InThread, Event, Registered, Handle
  <2>3. Len(got') = (Len(handled') - 1) * ResponseSize
    BY <1>3, <1>5 DEF Handle
  <2> QED
    BY <1>11, <1>5, <2>1, <2>2, <2>3 DEF ReplyInv
<1> QED
  BY <1>7, <1>8, <1>9, <1>10, <1>12 DEF ChannelInv

LEMMA RespondFailedOK == ASSUME ChannelInv, NEW t \in IoThreads, RespondFailed(t) PROVE ChannelInv'
<1>1. /\ tpc[t] # "idle" /\ \A u \in IoThreads : u # t => tpc[u] = "idle"
      /\ tasks = <<>> /\ ~Event /\ released = FALSE
      /\ Busy(t) => ~Registered /\ upstream = {} /\ responder = "idle"
  BY Alone DEF RespondFailed, ThreadStep
<1>2. ch' \in Channel /\ ch'.is_read_done = ch.is_read_done /\ ch'.write_index = 0 /\ ch'.write_size = ResponseSize
      /\ ch'.decode_index = ch.decode_index /\ ch'.read_index = ch.read_index
  <2>1. ch \in Channel /\ 0 \in 0..ResponseSize /\ ResponseSize \in {0, ResponseSize}
    BY Numbers DEF ChannelInv, Shapes
  <2>2. ch' = [ch EXCEPT !.write_index = 0, !.write_size = ResponseSize]
    BY DEF RespondFailed, FillResponse
  <2>3. ch' \in Channel
    BY <2>1, <2>2, SetWrite
  <2> QED
    BY <2>1, <2>2, <2>3 DEF Channel
<1>3. Shapes'
  BY <1>2 DEF ChannelInv, Shapes, PCs, RespondFailed, ThreadStep, FillResponse
<1>4. IndexInv'
  BY <1>1, <1>2, Numbers DEF ChannelInv, IndexInv, RespondFailed, ThreadStep
<1>5. TokenInv'
  BY <1>1, <1>2 DEF ChannelInv, TokenInv, Registered, Event, Busy, RespondFailed, ThreadStep
<1>6. EpollInv'
  BY DEF ChannelInv, EpollInv, Nobody, Connecting, BeingWritten, Idle, RespondFailed, ThreadStep,
     InThread
<1>7. ResponsesRight'
  BY DEF ChannelInv, ReplyInv, ResponsesRight, RespondFailed
<1>8. /\ tpc[t] = "fail" /\ handled # <<>> /\ Len(got) = (Len(handled) - 1) * ResponseSize
      /\ \A u \in IoThreads : tpc'[u] = IF u = t THEN "failmod" ELSE "idle"
      /\ answer' = Len(handled)
  BY <1>1 DEF RespondFailed, FillResponse, ThreadStep, ChannelInv, Shapes, ReplyInv, Called,
     InThread
<1>9. ReplyInv'
  <2>1. ~BeingRead' /\ ~Called' /\ ~InThread({"written"})'
    BY <1>1, <1>8 DEF BeingRead, Called, InThread, Event, Registered, Busy, RespondFailed,
       ChannelInv, EpollInv
  <2>2. SentSoFar' /\ ch'.write_index < ResponseSize
    <3>1. Len(got) \in Nat
      BY DEF ChannelInv, Shapes
    <3> QED
      BY <1>2, <1>8, <3>1, Numbers DEF SentSoFar, RespondFailed
  <2> QED
    BY <1>7, <2>1, <2>2 DEF ReplyInv
<1> QED
  BY <1>3, <1>4, <1>5, <1>6, <1>9 DEF ChannelInv

LEMMA RespondFailedModOK == ASSUME ChannelInv, NEW t \in IoThreads, RespondFailedMod(t) PROVE ChannelInv'
<1>1. /\ tpc[t] # "idle" /\ \A u \in IoThreads : u # t => tpc[u] = "idle"
      /\ tasks = <<>> /\ ~Event /\ released = FALSE
      /\ Busy(t) => ~Registered /\ upstream = {} /\ responder = "idle"
  BY Alone DEF RespondFailedMod, ThreadStep
<1>2. ch' = ch /\ ch' \in Channel
  BY DEF ChannelInv, Shapes, RespondFailedMod
<1>3. Shapes'
  BY DEF ChannelInv, Shapes, PCs, RespondFailedMod, ThreadStep, hs_epoll_mod
<1>4. IndexInv'
  BY DEF ChannelInv, IndexInv, RespondFailedMod, ThreadStep
<1>5. TokenInv'
  BY <1>1, Numbers DEF ChannelInv, Shapes, TokenInv, Registered, Event, Busy, RespondFailedMod,
     ThreadStep, hs_epoll_mod, Available
<1>6. EpollInv'
  BY <1>1 DEF ChannelInv, Shapes, EpollInv, Nobody, Connecting, BeingWritten, Event, Idle,
     RespondFailedMod, ThreadStep, hs_epoll_mod, InThread
<1>7. ResponsesRight'
  BY DEF ChannelInv, ReplyInv, ResponsesRight, RespondFailedMod
<1>8. ReplyInv'
  BY <1>7 DEF ChannelInv, ReplyInv, BeingRead, Called, Filled, SentSoFar, InThread, TokenInv,
     RespondFailedMod, ThreadStep, hs_epoll_mod
<1> QED
  BY <1>3, <1>4, <1>5, <1>6, <1>8 DEF ChannelInv

LEMMA CheckReadDoneOK == ASSUME ChannelInv, NEW t \in IoThreads, CheckReadDone(t) PROVE ChannelInv'
<1>1. /\ tpc[t] # "idle" /\ \A u \in IoThreads : u # t => tpc[u] = "idle"
      /\ tasks = <<>> /\ ~Event /\ released = FALSE
      /\ Busy(t) => ~Registered /\ upstream = {} /\ responder = "idle"
  BY Alone DEF CheckReadDone, ThreadStep
<1>2. ch' = ch /\ ch' \in Channel
  BY DEF ChannelInv, Shapes, CheckReadDone
<1>3. Shapes'
  BY DEF ChannelInv, Shapes, PCs, CheckReadDone, ThreadStep
<1>4. IndexInv'
  BY DEF ChannelInv, IndexInv, CheckReadDone, ThreadStep
<1>5. TokenInv'
  BY <1>1 DEF ChannelInv, TokenInv, Registered, Event, Busy, CheckReadDone, ThreadStep
<1>6. EpollInv'
  BY DEF ChannelInv, EpollInv, Nobody, Connecting, BeingWritten, Idle, CheckReadDone, ThreadStep,
     InThread
<1>7. ResponsesRight'
  BY DEF ChannelInv, ReplyInv, ResponsesRight, CheckReadDone
<1>8. ReplyInv'
  BY <1>7 DEF ChannelInv, ReplyInv, BeingRead, Called, Filled, SentSoFar, InThread, CheckReadDone,
     ThreadStep
<1> QED
  BY <1>3, <1>4, <1>5, <1>6, <1>8 DEF ChannelInv

LEMMA RearmOK == ASSUME ChannelInv, NEW t \in IoThreads, Rearm(t) PROVE ChannelInv'
<1>1. /\ tpc[t] # "idle" /\ \A u \in IoThreads : u # t => tpc[u] = "idle"
      /\ tasks = <<>> /\ ~Event /\ released = FALSE
      /\ Busy(t) => ~Registered /\ upstream = {} /\ responder = "idle"
  BY Alone DEF Rearm, ThreadStep
<1>2. ch' = ch /\ ch' \in Channel
  BY DEF ChannelInv, Shapes, Rearm
<1>3. Shapes'
  BY DEF ChannelInv, Shapes, PCs, Rearm, ThreadStep, hs_epoll_mod
<1>4. IndexInv'
  BY DEF ChannelInv, IndexInv, Rearm, ThreadStep
<1>5. TokenInv'
  BY <1>1 DEF ChannelInv, Shapes, TokenInv, Event, Busy, Rearm, ThreadStep
<1>6. EpollInv'
  BY <1>1 DEF ChannelInv, Shapes, EpollInv, Nobody, Connecting, BeingWritten, Event, Idle, Rearm,
     ThreadStep, hs_epoll_mod, InThread
<1>7. ResponsesRight'
  BY DEF ChannelInv, ReplyInv, ResponsesRight, Rearm
<1>8. ReplyInv'
  BY <1>7, <1>1 DEF ChannelInv, ReplyInv, BeingRead, Called, Filled, InThread, Registered, Event,
     Busy, Rearm, ThreadStep, hs_epoll_mod
<1> QED
  BY <1>3, <1>4, <1>5, <1>6, <1>8 DEF ChannelInv

LEMMA RespondOK == ASSUME ChannelInv, Respond PROVE ChannelInv'
<1>1. ch' \in Channel /\ ch'.is_read_done = ch.is_read_done /\ ch'.write_index = 0 /\ ch'.write_size = ResponseSize
      /\ ch'.decode_index = ch.decode_index /\ ch'.read_index = ch.read_index
  <2>1. ch \in Channel /\ 0 \in 0..ResponseSize /\ ResponseSize \in {0, ResponseSize}
    BY Numbers DEF ChannelInv, Shapes
  <2>2. ch' = [ch EXCEPT !.write_index = 0, !.write_size = ResponseSize]
    BY DEF Respond, FillResponse
  <2>3. ch' \in Channel
    BY <2>1, <2>2, SetWrite
  <2> QED
    BY <2>1, <2>2, <2>3 DEF Channel
<1>2. Shapes'
  BY <1>1 DEF ChannelInv, Shapes, Respond, FillResponse
<1>3. IndexInv'
  BY Numbers DEF ChannelInv, IndexInv, Respond, FillResponse
<1>4. TokenInv'
  BY DEF ChannelInv, TokenInv, Registered, Event, Busy, Respond, FillResponse
<1>5. EpollInv'
  BY DEF ChannelInv, EpollInv, Nobody, Connecting, BeingWritten, Respond, InThread
<1>6. ResponsesRight'
  BY DEF ChannelInv, ReplyInv, ResponsesRight, Respond
<1>7. ReplyInv'
  BY <1>6, Numbers DEF ChannelInv, ReplyInv, BeingRead, Called, Filled, SentSoFar, InThread,
     Connecting, PCs, TokenInv, Respond, FillResponse
<1> QED
  BY <1>2, <1>3, <1>4, <1>5, <1>7 DEF ChannelInv

LEMMA RespondModOK == ASSUME ChannelInv, RespondMod PROVE ChannelInv'
<1>1. ch' = ch /\ ch' \in Channel
  BY DEF ChannelInv, Shapes, RespondMod
<1>2. Shapes'
  BY DEF ChannelInv, Shapes, RespondMod, hs_epoll_mod
<1>3. IndexInv'
  BY DEF ChannelInv, IndexInv, RespondMod
<1>4. TokenInv'
  BY DEF ChannelInv, TokenInv, Event, Busy, RespondMod, hs_epoll_mod
<1>5. /\ responder = "mod" /\ responder' = "idle"
      /\ tasks' = tasks /\ tpc' = tpc /\ upstream' = upstream /\ fetched' = fetched
      /\ handled' = handled /\ got' = got /\ sent' = sent /\ released' = released
  BY DEF RespondMod
<1>6. ~Event /\ ~Connecting /\ ~BeingWritten /\ ~Nobody /\ released = FALSE
  <2>1. ~Event /\ tasks = <<>> /\ \A t \in IoThreads : ~Busy(t)
    BY <1>5 DEF ChannelInv, TokenInv
  <2>2. ~Nobody
    BY <1>5 DEF Nobody
  <2>3. released = FALSE
    BY <2>2 DEF ChannelInv, EpollInv, Shapes
  <2>4. ~Connecting
    BY <2>1 DEF Connecting, InThread, Busy
  <2>5. ~BeingWritten
    BY <2>1 DEF BeingWritten, InThread, Busy
  <2> QED
    BY <2>1, <2>2, <2>3, <2>4, <2>5
<1>7. /\ armed' = IF armed = "deleted" THEN "deleted" ELSE "out"
      /\ ~Connecting' /\ ~BeingWritten'
  BY <1>5, <1>6 DEF Connecting, BeingWritten, InThread, RespondMod, hs_epoll_mod, CanMod
<1>8. EpollInv'
  <2>1. (armed = "none" <=> Connecting)'
    BY <1>7
  <2>2. (Connecting => got = <<>> /\ handled = <<>> /\ txfull = FALSE)'
    BY <1>7
  <2>3. armed' # "edge"
    BY <1>7
  <2>4. (got = <<>> /\ sent > 0 => sent = End(1))'
    BY <1>5 DEF ChannelInv, EpollInv
  <2>5. (armed \in {"none", "deleted"} => fetched = "none")'
    BY <1>5, <1>7 DEF ChannelInv, EpollInv
  <2>6. (fetched = "write" => armed = "off")'
    BY <1>5, <1>6 DEF Event
  <2> QED
    BY <1>5, <1>6, <1>7, <2>1, <2>2, <2>3, <2>4, <2>5, <2>6 DEF EpollInv
<1>9. ResponsesRight'
  BY DEF ChannelInv, ReplyInv, ResponsesRight, RespondMod
<1>10. ReplyInv'
  BY <1>9 DEF ChannelInv, ReplyInv, BeingRead, Called, Filled, SentSoFar, InThread, RespondMod,
     hs_epoll_mod
<1> QED
  BY <1>2, <1>3, <1>4, <1>8, <1>10 DEF ChannelInv

LEMMA StartWriteOK == ASSUME ChannelInv, NEW t \in IoThreads, StartWrite(t) PROVE ChannelInv'
<1>1. /\ tpc[t] # "idle" /\ \A u \in IoThreads : u # t => tpc[u] = "idle"
      /\ tasks = <<>> /\ ~Event /\ released = FALSE
      /\ Busy(t) => ~Registered /\ upstream = {} /\ responder = "idle"
  BY Alone DEF StartWrite, ThreadStep
<1>2. ch' = ch /\ ch' \in Channel /\ released' = released /\ armed' = armed /\ ready' = ready
  <2>1. tpc[t] = "write" /\ ch \in Channel
    BY DEF ChannelInv, Shapes, StartWrite, ThreadStep
  <2>2. ch.write_size = ResponseSize /\ ch.write_index < ResponseSize
    BY <2>1 DEF ChannelInv, ReplyInv, Filled, SentSoFar, InThread
  <2>3. ~(Left <= 0)
    BY <2>1, <2>2, ChannelFields, Numbers DEF Left
  <2> QED
    BY <2>1, <2>3 DEF StartWrite
<1>3. Shapes'
  BY <1>2 DEF ChannelInv, Shapes, PCs, StartWrite, ThreadStep
<1>4. IndexInv'
  BY <1>2 DEF ChannelInv, IndexInv, StartWrite, ThreadStep
<1>5. TokenInv'
  BY <1>1, <1>2 DEF ChannelInv, TokenInv, Registered, Event, Busy, StartWrite, ThreadStep
<1>6. EpollInv'
  BY <1>1, <1>2 DEF ChannelInv, EpollInv, Connecting, BeingWritten, StartWrite, ThreadStep, InThread
<1>7. ResponsesRight'
  BY DEF ChannelInv, ReplyInv, ResponsesRight, StartWrite
<1>8. ReplyInv'
  BY <1>7, <1>2 DEF ChannelInv, ReplyInv, BeingRead, Called, Filled, SentSoFar, InThread,
     StartWrite, ThreadStep
<1> QED
  BY <1>3, <1>4, <1>5, <1>6, <1>8 DEF ChannelInv

LEMMA SendOK == ASSUME ChannelInv, NEW t \in IoThreads, Send(t) PROVE ChannelInv'
<1>1. /\ tpc[t] # "idle" /\ \A u \in IoThreads : u # t => tpc[u] = "idle"
      /\ tasks = <<>> /\ ~Event /\ released = FALSE
      /\ Busy(t) => ~Registered /\ upstream = {} /\ responder = "idle"
  BY Alone DEF Send, ThreadStep
<1>2. PICK w \in 0..ResponseSize, n \in 0..ResponseSize :
          /\ w = ch.write_index /\ w + n <= ResponseSize
          /\ got' = got \o [j \in 1..n |-> <<answer, w + j>>]
          /\ ch' = [ch EXCEPT !.write_index = w + n]
          /\ txfull' = (txfull \/ n < Left)
  <2>1. tpc[t] = "send"
    BY DEF Send, ThreadStep
  <2>2. ch.write_size = ResponseSize /\ ch.write_index \in 0..ResponseSize /\ ch.write_index < ResponseSize
    BY <2>1, ChannelFields DEF ChannelInv, Shapes, ReplyInv, Filled, SentSoFar, InThread
  <2>3. PICK n \in Least(1, Left)..Left :
            /\ got' = got \o [j \in 1..n |-> <<answer, ch.write_index + j>>]
            /\ ch' = [ch EXCEPT !.write_index = @ + n]
            /\ txfull' = (txfull \/ n < Left)
    BY DEF Send
  <2>4. n \in 0..ResponseSize /\ ch.write_index + n <= ResponseSize
    BY <2>2, <2>3, Numbers DEF Left, Least
  <2>5. ch' = [ch EXCEPT !.write_index = ch.write_index + n]
    BY <2>3
  <2> QED
    BY <2>2, <2>3, <2>4, <2>5
<1>3. /\ ch' \in Channel /\ ch'.is_read_done = ch.is_read_done /\ ch'.write_size = ch.write_size
      /\ ch'.decode_index = ch.decode_index /\ ch'.read_index = ch.read_index /\ ch'.write_index = w + n
  <2>1. ch \in Channel /\ w + n \in 0..ResponseSize
    BY <1>2, Numbers DEF ChannelInv, Shapes
  <2> QED
    BY <1>2, <2>1, SetWriteIndex DEF Channel
<1>4. /\ tpc[t] = "send" /\ tpc' = [tpc EXCEPT ![t] = "written"]
      /\ \A u \in IoThreads : tpc'[u] = IF u = t THEN "written" ELSE "idle"
      /\ tasks = <<>> /\ ~Event /\ ~Registered /\ upstream = {} /\ responder = "idle"
      /\ fetched = "none" /\ armed \in {"off", "deleted"} /\ SentSoFar /\ w < ResponseSize
  BY <1>1, <1>2 DEF Send, ThreadStep, Busy, ChannelInv, Shapes, EpollInv, BeingWritten, ReplyInv,
     Filled, InThread
<1>5. /\ tasks' = tasks /\ fetched' = fetched /\ armed' = armed /\ upstream' = upstream /\ responder' = responder
      /\ handled' = handled /\ sent' = sent /\ released' = released /\ answer' = answer /\ peer' = peer
  BY DEF Send
<1>6. PICK h \in Nat \ {0} : h = Len(handled)
  BY <1>4, EmptySeq DEF SentSoFar, ChannelInv, Shapes
<1>7. answer = h /\ got \in Seq(Nat \X Nat) /\ Len(got) = (h - 1) * ResponseSize + w
  BY <1>2, <1>4, <1>6 DEF SentSoFar, ChannelInv, Shapes
<1>8. w \in Nat /\ n \in Nat /\ w + n <= ResponseSize /\ w < ResponseSize
  BY <1>2, <1>4, Numbers
<1>9. PICK more \in Seq(Nat \X Nat) :
         /\ got' = got \o more /\ Len(more) = n
         /\ \A i \in 1..n : more[i] = <<answer, w + i>>
  <2>1. answer \in Nat
    BY DEF ChannelInv, Shapes
  <2>2. got' = got \o Bytes(answer, w, n)
    BY <1>2 DEF Bytes
  <2>3. /\ Bytes(answer, w, n) \in Seq(Nat \X Nat) /\ Len(Bytes(answer, w, n)) = n
        /\ \A i \in 1..n : Bytes(answer, w, n)[i] = <<answer, w + i>>
    BY <1>8, <2>1, BytesSeq
  <2> QED
    BY <2>2, <2>3
<1>10. /\ got' \in Seq(Nat \X Nat)
       /\ Len(got') = Len(got) + n
       /\ \A i \in 1..(Len(got) + n) : got'[i] = IF i <= Len(got) THEN got[i] ELSE more[i - Len(got)]
  <2>1. got' = got \o more /\ Len(more) = n
    BY <1>9
  <2> DEFINE P == Nat \X Nat
  <2>2. got \in Seq(P) /\ more \in Seq(P)
    BY <1>7, <1>9
  <2> HIDE DEF P
  <2>3. /\ got \o more \in Seq(P)
        /\ Len(got \o more) = Len(got) + Len(more)
        /\ \A i \in 1..(Len(got) + Len(more)) :
              (got \o more)[i] = IF i <= Len(got) THEN got[i] ELSE more[i - Len(got)]
    BY <2>2, ConcatProperties
  <2> QED
    BY <2>1, <2>3 DEF P
<1>11. Shapes'
  <2>1. txfull' \in BOOLEAN /\ tpc' \in [IoThreads -> PCs]
    BY <1>2, <1>4 DEF ChannelInv, Shapes, PCs
  <2> QED
    BY <1>3, <1>5, <1>10, <2>1 DEF ChannelInv, Shapes, Send
<1>12. IndexInv'
  <2>1. ch'.write_index <= ch'.write_size
    BY <1>2, <1>3, <1>4, Numbers DEF SentSoFar
  <2> QED
    BY <1>3, <1>4, <2>1 DEF ChannelInv, IndexInv
<1>13. TokenInv'
  BY <1>4, <1>5 DEF ChannelInv, TokenInv, Registered, Event
<1>14. EpollInv'
  <2>1. ~Connecting' /\ ~Connecting /\ released = FALSE /\ armed # "edge"
    BY <1>1, <1>4, <1>5 DEF Connecting, InThread
  <2>2. got' = <<>> => got = <<>>
    <3>1. PICK k \in Nat : k = Len(got)
      BY <1>7
    <3>2. PICK l : l = Len(got') /\ l = k + n
      BY <1>10, <3>1
    <3>3. l = 0 => k = 0
      BY <1>8, <3>2
    <3> QED
      BY <1>7, <3>1, <3>2, <3>3, EmptySeq
  <2> QED
    BY <1>4, <1>5, <2>1, <2>2 DEF ChannelInv, EpollInv
<1>15. ReplyInv'
  <2>1. ~BeingRead' /\ ~Filled' /\ ~Called'
    BY <1>4, <1>5 DEF BeingRead, Filled, Called, InThread, Event
  <2>2. SentSoFar'
    <3>1. (h - 1) * ResponseSize \in Nat
      BY Numbers
    <3> QED
      BY <1>2, <1>3, <1>4, <1>5, <1>6, <1>7, <1>10, <3>1 DEF SentSoFar
  <2>3. ResponsesRight'
    <3> SUFFICES ASSUME NEW j \in 1..Len(got')
                 PROVE  got'[j] = <<1 + (j - 1) \div ResponseSize, 1 + ((j - 1) % ResponseSize)>>
      BY DEF ResponsesRight
    <3>1. PICK m \in Nat : m = Len(got) /\ m = (h - 1) * ResponseSize + w
      BY <1>7
    <3>2. j \in 1..(m + n) /\ j \in Int
      BY <1>10, <1>8, <3>1
    <3>3. CASE j <= m
      <4>1. j \in 1..Len(got) /\ j \in 1..(Len(got) + n) /\ j <= Len(got)
        BY <3>1, <3>2, <3>3
      <4>2. got'[j] = got[j]
        BY <1>10, <4>1
      <4> QED
        BY <4>1, <4>2 DEF ChannelInv, ReplyInv, ResponsesRight
    <3>4. CASE j > m
      <4>1. PICK i \in 1..n : j = m + i
        <5>1. j - m \in 1..n /\ j = m + (j - m)
          BY <1>8, <3>2, <3>4
        <5> QED
          BY <5>1
      <4>2. i \in Nat \ {0} /\ w + i <= ResponseSize
        BY <1>8, <4>1, Numbers
      <4>3. got'[j] = <<h, w + i>>
        <5>1. j - m = i /\ ~(j <= m)
          BY <3>4, <4>1, <4>2
        <5>2. got'[j] = IF j <= m THEN got[j] ELSE more[j - m]
          BY <1>10, <3>1, <3>2
        <5>3. got'[j] = more[i]
          BY <5>1, <5>2
        <5> QED
          BY <1>7, <1>9, <4>1, <5>3
      <4>4. j \in Nat /\ After(j, h, w, i)
        <5>1. PICK d \in Nat : d = (h - 1) * ResponseSize
          BY Numbers
        <5> QED
          BY <1>8, <3>1, <4>1, <4>2, <5>1 DEF After
      <4>5. RightByte(j, <<h, w + i>>)
        BY <1>6, <1>8, <4>2, <4>4, ByteRight
      <4> QED
        BY <4>3, <4>5 DEF RightByte
    <3> QED
      BY <3>1, <3>2, <3>3, <3>4
  <2> QED
    BY <2>1, <2>2, <2>3 DEF ReplyInv
<1> QED
  BY <1>11, <1>12, <1>13, <1>14, <1>15 DEF ChannelInv

LEMMA SendErrorOK == ASSUME ChannelInv, NEW t \in IoThreads, SendError(t) PROVE ChannelInv'
<1>1. /\ tpc[t] # "idle" /\ \A u \in IoThreads : u # t => tpc[u] = "idle"
      /\ tasks = <<>> /\ ~Event /\ released = FALSE
      /\ Busy(t) => ~Registered /\ upstream = {} /\ responder = "idle"
  BY Alone DEF SendError, ThreadStep
<1>2. ch' = ch /\ ch' \in Channel
  BY DEF ChannelInv, Shapes, SendError
<1>3. Shapes'
  BY DEF ChannelInv, Shapes, PCs, SendError, ThreadStep, CloseAndRelease
<1>4. IndexInv'
  BY DEF ChannelInv, IndexInv, SendError, ThreadStep
<1>5. TokenInv'
  BY <1>1 DEF ChannelInv, Shapes, TokenInv, Event, Busy, SendError, ThreadStep
<1>6. EpollInv'
  BY <1>1 DEF ChannelInv, Shapes, EpollInv, Nobody, Connecting, BeingWritten, Event, Idle, Busy,
     SendError, ThreadStep, CloseAndRelease, InThread
<1>7. ResponsesRight'
  BY DEF ChannelInv, ReplyInv, ResponsesRight, SendError
<1>8. ReplyInv'
  BY <1>7, <1>1 DEF ChannelInv, Shapes, ReplyInv, BeingRead, Called, Filled, InThread, Event,
     Busy, SendError, ThreadStep, CloseAndRelease
<1> QED
  BY <1>3, <1>4, <1>5, <1>6, <1>8 DEF ChannelInv

LEMMA AfterSendOK == ASSUME ChannelInv, NEW t \in IoThreads, AfterSend(t) PROVE ChannelInv'
<1>1. /\ tpc[t] # "idle" /\ \A u \in IoThreads : u # t => tpc[u] = "idle"
      /\ tasks = <<>> /\ ~Event /\ released = FALSE
      /\ Busy(t) => ~Registered /\ upstream = {} /\ responder = "idle"
  BY Alone DEF AfterSend, ThreadStep
<1>2. ch' \in Channel /\ ch'.write_size = ch.write_size
      /\ ch'.write_index <= ch'.write_size /\ ch'.decode_index <= ch'.read_index
  <2>1. ch \in Channel /\ ch.write_index <= ch.write_size /\ ch.decode_index <= ch.read_index
    BY DEF ChannelInv, Shapes, IndexInv
  <2>2. ch' = hs_init_channel(ch) \/ ch' = ch
    BY DEF AfterSend
  <2>3. ch.write_size >= 0
    BY <2>1, ChannelFields, Numbers
  <2>4. CASE ch' = hs_init_channel(ch)
    <3>1. ch' \in Channel /\ ch'.write_size = ch.write_size /\ ch'.write_index = 0
          /\ ch'.decode_index = 0 /\ ch'.read_index = 0
      BY <2>1, <2>4, InitChannel
    <3> QED
      BY <2>3, <3>1
  <2> QED
    BY <2>1, <2>2, <2>4
<1>3. PICK to \in {"modin", "modout"} :
          /\ tpc[t] = "written" /\ tpc' = [tpc EXCEPT ![t] = to]
          /\ \A u \in IoThreads : tpc'[u] = IF u = t THEN to ELSE "idle"
          /\ to = "modin" => Left <= 0
          /\ to = "modout" => ~(Left <= 0) /\ ch' = ch
  BY <1>1 DEF AfterSend, ThreadStep, ChannelInv, Shapes
<1>4. Shapes'
  BY <1>2 DEF ChannelInv, Shapes, PCs, AfterSend, ThreadStep
<1>5. IndexInv'
  BY <1>2, <1>3 DEF IndexInv
<1>6. TokenInv'
  BY <1>1, <1>3 DEF ChannelInv, TokenInv, Registered, Event, Busy, AfterSend
<1>7. EpollInv'
  BY <1>1 DEF ChannelInv, EpollInv, Connecting, BeingWritten, AfterSend, ThreadStep, InThread
<1>8. ResponsesRight'
  BY DEF ChannelInv, ReplyInv, ResponsesRight, AfterSend
<1>9. /\ tasks = <<>> /\ ~Event /\ ~Registered /\ upstream = {} /\ responder = "idle"
      /\ SentSoFar /\ armed # "none"
  BY <1>1, <1>3 DEF Busy, ChannelInv, ReplyInv, InThread, EpollInv, Connecting
<1>10. /\ tasks' = tasks /\ fetched' = fetched /\ armed' = armed /\ upstream' = upstream /\ responder' = responder
       /\ handled' = handled /\ got' = got /\ answer' = answer
  BY DEF AfterSend
<1>11. ReplyInv'
  <2>1. ~Called' /\ ~InThread({"written"})'
    BY <1>3, <1>9, <1>10 DEF Called, InThread
  <2>2. CASE to = "modin"
    <3>1. ~Filled'
      BY <1>3, <1>9, <1>10, <2>2 DEF Filled, InThread, Event, Registered
    <3>2. Len(got) = Len(handled) * ResponseSize
      <4>1. ch.write_index = ResponseSize
        <5>1. ch.write_index \in 0..ResponseSize /\ ch.write_size = ResponseSize
          BY <1>9, ChannelFields DEF SentSoFar, ChannelInv, Shapes
        <5> QED
          BY <1>3, <2>2, <5>1, Numbers DEF Left
      <4>2. PICK h \in Nat : h = Len(handled)
        BY DEF ChannelInv, Shapes
      <4>3. Len(got) = (h - 1) * ResponseSize + ResponseSize
        BY <1>9, <4>1, <4>2 DEF SentSoFar
      <4>4. (h - 1) * ResponseSize + ResponseSize = h * ResponseSize
        BY Numbers
      <4> QED
        BY <4>2, <4>3, <4>4
    <3> QED
      BY <1>8, <1>10, <2>1, <3>1, <3>2 DEF ReplyInv
  <2>3. CASE to = "modout"
    <3>1. ~BeingRead'
      BY <1>3, <1>9, <1>10, <2>3 DEF BeingRead, InThread, Event, Registered
    <3>2. SentSoFar' /\ ch'.write_index < ResponseSize
      <4>1. ch.write_index \in 0..ResponseSize /\ ch.write_size = ResponseSize
        BY <1>9, ChannelFields DEF SentSoFar, ChannelInv, Shapes
      <4>2. ch.write_index < ResponseSize
        BY <1>3, <2>3, <4>1, Numbers DEF Left
      <4> QED
        BY <1>3, <1>9, <1>10, <2>3, <4>2 DEF SentSoFar
    <3> QED
      BY <1>8, <2>1, <3>1, <3>2 DEF ReplyInv
  <2> QED
    BY <2>2, <2>3
<1> QED
  BY <1>4, <1>5, <1>6, <1>7, <1>11 DEF ChannelInv

LEMMA WriterModOK == ASSUME ChannelInv, NEW t \in IoThreads, WriterMod(t) PROVE ChannelInv'
<1>1. /\ tpc[t] # "idle" /\ \A u \in IoThreads : u # t => tpc[u] = "idle"
      /\ tasks = <<>> /\ ~Event /\ released = FALSE
      /\ Busy(t) => ~Registered /\ upstream = {} /\ responder = "idle"
  BY Alone DEF WriterMod, ThreadStep
<1>2. PICK from \in {"modin", "modout"}, registration \in {"in", "out"} :
          /\ tpc[t] = from /\ tpc' = [tpc EXCEPT ![t] = "idle"]
          /\ from = "modin" <=> registration = "in"
          /\ CanMod => hs_epoll_mod(registration)
  BY DEF WriterMod, ThreadStep
<1>3. /\ \A u \in IoThreads : tpc'[u] = "idle"
      /\ ~Registered /\ upstream = {} /\ responder = "idle" /\ armed # "none"
      /\ from = "modin" => fetched = "none"
  BY <1>1, <1>2 DEF Busy, ChannelInv, Shapes, EpollInv, Connecting, BeingWritten, InThread
<1>4. /\ CanMod <=> armed # "deleted"
      /\ armed # "deleted" => armed' = registration /\ released' = released /\ ready' \in BOOLEAN
      /\ armed = "deleted" => armed' = "deleted" /\ released' = TRUE /\ ready' = FALSE
  BY <1>1, <1>2 DEF WriterMod, CanMod, hs_epoll_mod, CloseAndRelease, ChannelInv
<1>5. /\ ch' = ch /\ tasks' = tasks /\ fetched' = fetched /\ upstream' = upstream /\ responder' = responder
      /\ handled' = handled /\ got' = got /\ sent' = sent /\ txfull' = txfull /\ peer' = peer /\ answer' = answer
  BY DEF WriterMod
<1>6. Shapes'
  BY <1>1, <1>2, <1>4, <1>5 DEF ChannelInv, Shapes, PCs, WriterMod
<1>7. IndexInv'
  BY <1>3, <1>5 DEF ChannelInv, IndexInv
<1>8. TokenInv'
  BY <1>1, <1>3, <1>5 DEF ChannelInv, TokenInv, Event, Idle, Busy
<1>9. EpollInv'
  <2>1. ~Connecting' /\ ~BeingWritten'
    BY <1>1, <1>3, <1>5 DEF Connecting, BeingWritten, InThread
  <2>2. armed' \in {"in", "out", "deleted"} /\ (armed' = "deleted" => armed = "deleted")
    BY <1>2, <1>4
  <2>3. Nobody'
    BY <1>1, <1>3, <1>5 DEF Nobody, Idle, Event
  <2>4. (got = <<>> /\ sent > 0 => sent = End(1))'
    BY <1>5 DEF ChannelInv, EpollInv
  <2>5. (armed \in {"none", "deleted"} => fetched = "none")' /\ (fetched = "write" => armed = "off")'
    BY <1>1, <1>5, <2>2 DEF ChannelInv, EpollInv, Event
  <2>6. (released = TRUE => Nobody /\ armed = "deleted")'
    BY <1>1, <1>4, <2>3
  <2> QED
    BY <2>1, <2>2, <2>4, <2>5, <2>6 DEF EpollInv
<1>10. ReplyInv'
  <2>1. ResponsesRight'
    BY <1>5 DEF ChannelInv, ReplyInv, ResponsesRight
  <2>2. ~Called' /\ ~InThread({"written"})'
    BY <1>3, <1>5 DEF Called, InThread
  <2>3. BeingRead' => BeingRead
    <3>1. BeingRead' => armed' = "in"
      BY <1>1, <1>3, <1>4, <1>5 DEF BeingRead, InThread, Event
    <3>2. armed' = "in" => from = "modin"
      BY <1>2, <1>3, <1>4
    <3> QED
      BY <1>2, <3>1, <3>2 DEF BeingRead, InThread
  <2>4. Filled' => Filled
    <3>1. Filled' => armed' = "out" /\ peer = "open"
      BY <1>1, <1>3, <1>5 DEF Filled, InThread, Event
    <3>2. armed' = "out" => from = "modout"
      BY <1>2, <1>3, <1>4
    <3> QED
      BY <1>2, <3>1, <3>2 DEF Filled, InThread
  <2> QED
    BY <1>5, <2>1, <2>2, <2>3, <2>4 DEF ChannelInv, ReplyInv, SentSoFar
<1> QED
  BY <1>6, <1>7, <1>8, <1>9, <1>10 DEF ChannelInv

LEMMA ArriveOK == ASSUME OnTime, ChannelInv, NEW n \in 1..Len(stream), Arrive(n) PROVE ChannelInv'
<1>1. ch' = ch /\ ch' \in Channel
  BY DEF ChannelInv, Shapes, Arrive
<1>2. Shapes'
  <2>1. sent' \in Nat /\ taken' \in 0..sent'
    <3>1. n \in Nat
      OBVIOUS
    <3> QED
      BY <3>1 DEF ChannelInv, Shapes, Arrive
  <2>2. ready' \in BOOLEAN
    BY DEF ChannelInv, Shapes, Arrive, Edge
  <2> QED
    BY <2>1, <2>2 DEF ChannelInv, Shapes, Arrive
<1>3. IndexInv'
  BY DEF ChannelInv, IndexInv, Arrive
<1>4. TokenInv'
  BY DEF ChannelInv, TokenInv, Registered, Event, Idle, Busy, Arrive
<1>5. /\ peer = "open" /\ sent' = sent + n /\ ready' = (ready \/ armed \in {"edge", "in", "out"})
      /\ tasks' = tasks /\ fetched' = fetched /\ upstream' = upstream /\ responder' = responder
      /\ handled' = handled /\ got' = got /\ txfull' = txfull /\ peer' = peer /\ tpc' = tpc
      /\ armed' = armed /\ released' = released
  BY DEF Arrive, Edge
<1>6. sent \in Nat /\ n \in Nat \ {0}
  BY DEF ChannelInv, Shapes
<1>whole. sent = 0 => n = End(1)
  BY <1>5, <1>6 DEF OnTime, FirstWhole
<1>7. got = <<>> => sent = 0
  <2>1. PICK k \in 1..Len(Requests) : Len(got) = (k - 1) * ResponseSize /\ sent + n <= End(k)
    BY DEF Arrive
  <2>2. ASSUME got = <<>> PROVE k = 1
    <3>1. Len(got) = 0 /\ k \in Nat \ {0}
      BY <2>1, <2>2, RequestsAssumption
    <3>2. PICK d \in Nat : d = k - 1
      BY <3>1
    <3>3. d * ResponseSize = 0
      BY <2>1, <3>1, <3>2
    <3>4. d = 0
      BY <3>3, Numbers
    <3> QED
      BY <3>1, <3>2, <3>4
  <2>3. ASSUME got = <<>>, sent > 0 PROVE FALSE
    <3>1. sent = End(1) /\ sent + n <= End(1)
      BY <2>1, <2>2, <2>3 DEF ChannelInv, EpollInv
    <3> QED
      BY <1>6, <3>1
  <2> QED
    BY <1>6, <2>3
<1>8. EpollInv'
  <2>1. (Connecting' <=> Connecting) /\ (BeingWritten' <=> BeingWritten) /\ (Nobody' <=> Nobody)
    BY <1>5 DEF Connecting, BeingWritten, InThread, Nobody, Idle, Event
  <2>2. (armed = "edge" => got = <<>> /\ txfull = FALSE
            /\ (sent = 0 \/ (ready = TRUE /\ peer = "open") => Nobody /\ handled = <<>>))'
    BY <1>5, <1>7, <2>1 DEF ChannelInv, EpollInv
  <2>3. (got = <<>> /\ sent > 0 => sent = End(1))'
    BY <1>5, <1>6, <1>7, <1>whole
  <2> QED
    BY <1>5, <2>1, <2>2, <2>3 DEF ChannelInv, EpollInv
<1>9. ResponsesRight'
  BY DEF ChannelInv, ReplyInv, ResponsesRight, Arrive
<1>10. ReplyInv'
  BY <1>9 DEF ChannelInv, ReplyInv, BeingRead, Called, Filled, SentSoFar, InThread, Arrive
<1> QED
  BY <1>2, <1>3, <1>4, <1>8, <1>10 DEF ChannelInv

LEMMA BreakOK == ASSUME ChannelInv, Break PROVE ChannelInv'
<1>1. ch' = ch /\ ch' \in Channel
  BY DEF ChannelInv, Shapes, Break
<1>2. Shapes'
  BY DEF ChannelInv, Shapes, Break, Edge
<1>3. IndexInv'
  BY DEF ChannelInv, IndexInv, Break
<1>4. TokenInv'
  BY DEF ChannelInv, TokenInv, Registered, Event, Idle, Busy, Break
<1>5. EpollInv'
  BY DEF ChannelInv, EpollInv, Nobody, Connecting, BeingWritten, Event, Idle, Break, InThread
<1>6. ResponsesRight'
  BY DEF ChannelInv, ReplyInv, ResponsesRight, Break
<1>7. ReplyInv'
  BY <1>6 DEF ChannelInv, ReplyInv, BeingRead, Called, Filled, SentSoFar, InThread, Break
<1> QED
  BY <1>2, <1>3, <1>4, <1>5, <1>7 DEF ChannelInv

LEMMA DrainOK == ASSUME ChannelInv, Drain PROVE ChannelInv'
<1>1. ch' = ch /\ ch' \in Channel
  BY DEF ChannelInv, Shapes, Drain
<1>2. Shapes'
  BY DEF ChannelInv, Shapes, Drain, Edge
<1>3. IndexInv'
  BY DEF ChannelInv, IndexInv, Drain
<1>4. TokenInv'
  BY DEF ChannelInv, TokenInv, Registered, Event, Idle, Busy, Drain
<1>5. EpollInv'
  BY DEF ChannelInv, EpollInv, Nobody, Connecting, BeingWritten, Event, Idle, Drain, InThread
<1>6. ResponsesRight'
  BY DEF ChannelInv, ReplyInv, ResponsesRight, Drain
<1>7. ReplyInv'
  BY <1>6 DEF ChannelInv, ReplyInv, BeingRead, Called, Filled, SentSoFar, InThread, Drain
<1> QED
  BY <1>2, <1>3, <1>4, <1>5, <1>7 DEF ChannelInv

-----------------------------------------------------------------------------
(* Theorems *)

LEMMA ChannelInit == Init => ChannelInv
<1> SUFFICES ASSUME Init PROVE ChannelInv
  OBVIOUS
<1>1. ch \in Channel /\ ch.is_read_done = FALSE
  BY Numbers DEF Init, Unset, Channel
<1>2. Shapes
  <2>1. tasks \in Seq({"connect", "read", "write"})
    BY DEF Init
  <2>2. buffer \in [0..(BufferSize - 1) -> Nat] /\ sent \in Nat /\ taken \in 0..sent /\ answer \in Nat
    BY DEF Init
  <2>3. tpc \in [IoThreads -> PCs] /\ read_size \in [IoThreads -> 0..BufferSize]
    BY Numbers DEF Init, PCs
  <2>4. got \in Seq(Nat \X Nat) /\ handled \in Seq(Contents)
    BY EmptySeq DEF Init
  <2>5. txfull \in BOOLEAN /\ released \in BOOLEAN /\ ready \in BOOLEAN
    BY DEF Init
  <2> QED
    BY <1>1, <2>1, <2>2, <2>3, <2>4, <2>5 DEF Init, Shapes
<1>3. IndexInv
  BY DEF Init, Unset, IndexInv
<1>4. TokenInv
  BY DEF Init, TokenInv, Event, Registered, Idle
<1>5. EpollInv
  BY DEF Init, EpollInv, Connecting, BeingWritten, InThread
<1>6. ReplyInv
  <2>1. Len(got) = 0 /\ Len(handled) = 0
    BY DEF Init
  <2>2. ResponsesRight
    BY <2>1 DEF ResponsesRight
  <2>3. ~Called /\ ~Filled /\ ~InThread({"written"})
    BY DEF Init, Called, Filled, InThread
  <2> QED
    BY <2>1, <2>2, <2>3, Numbers DEF ReplyInv
<1> QED
  BY <1>2, <1>3, <1>4, <1>5, <1>6 DEF ChannelInv

LEMMA ChannelStep == ASSUME ChannelInv, [Next]_vars, [OnTime]_vars PROVE ChannelInv'
<1>0. CASE UNCHANGED vars
  <2>1. Shapes' /\ IndexInv'
    BY <1>0 DEF vars, ChannelInv, Shapes, IndexInv
  <2>2. TokenInv'
    BY <1>0 DEF vars, ChannelInv, TokenInv, Registered, Event, Idle, Busy
  <2>3. EpollInv'
    BY <1>0 DEF vars, ChannelInv, EpollInv, Nobody, Idle, Event, Connecting, BeingWritten, InThread
  <2>4. ReplyInv'
    <3>1. ResponsesRight'
      BY <1>0 DEF vars, ChannelInv, ReplyInv, ResponsesRight
    <3>2. /\ BeingRead' <=> BeingRead
          /\ Called' <=> Called
          /\ Filled' <=> Filled
          /\ InThread({"written"})' <=> InThread({"written"})
      BY <1>0 DEF vars, BeingRead, Called, Filled, InThread
    <3> QED
      BY <1>0, <3>1, <3>2 DEF vars, ChannelInv, ReplyInv, SentSoFar
  <2> QED
    BY <2>1, <2>2, <2>3, <2>4 DEF ChannelInv
<1>5. SUFFICES ASSUME Next, OnTime PROVE ChannelInv'
  BY <1>0
<1>1. CASE EventLoop
  BY <1>1, <1>5, EpollWaitOK, HandleEventOK DEF EventLoop
<1>2. ASSUME NEW t \in IoThreads, ThreadStepOf(t) PROVE ChannelInv'
  <2>1. CASE Reading(t)
    BY <2>1, RecvOK, RecvErrorOK, UpdateIndexesOK, DecodeOK, DecodeEndOK, HandleOK,
       RespondFailedOK, RespondFailedModOK, CheckReadDoneOK, RearmOK DEF Reading
  <2>2. CASE Writing(t)
    BY <2>2, StartWriteOK, SendOK, SendErrorOK, AfterSendOK, WriterModOK DEF Writing
  <2> QED
    BY <1>2, <2>1, <2>2, StartTaskOK, hs_new_connectionOK DEF ThreadStepOf
<1>3. CASE Responding
  BY <1>3, RespondOK, RespondModOK DEF Responding
<1>4. CASE \E n \in 1..Len(stream) : Arrive(n)
  BY <1>4, <1>5, ArriveOK
<1> QED
  BY <1>1, <1>2, <1>3, <1>4, <1>5, BreakOK, DrainOK DEF Next

\* The channel is in one place at a time: with the epoll, the event loop, the io
\* pool, one of its threads, a provider or the thread that brings its answer.
THEOREM ChannelInvariant == Spec /\ [][OnTime]_vars => []ChannelInv
<1>1. ChannelInv /\ [Next]_vars /\ [OnTime]_vars => ChannelInv'
  BY ChannelStep
<1> QED
  BY <1>1, ChannelInit, PTL DEF Spec

\* At most one thread of the io pool works on a channel, although no lock of
\* http-server.c protects it, unless one of the two races of OnTime is lost: they
\* are the only ways in which a second thread can get there.
THEOREM OneThreadHolds == Spec /\ [][OnTime]_vars => []OneThread
<1>1. ChannelInv => OneThread
  <2> SUFFICES ASSUME ChannelInv PROVE Cardinality(AtWork) <= 1
    BY DEF OneThread
  <2>1. CASE AtWork = {}
    BY <2>1, FS_EmptySet
  <2>2. CASE AtWork # {}
    <3>0. PICK t : t \in AtWork
      BY <2>2
    <3>1. AtWork = {t}
      BY <3>0 DEF AtWork, ChannelInv, TokenInv
    <3>2. Cardinality({t}) = 1
      BY FS_Singleton
    <3> QED
      BY <3>1, <3>2
  <2> QED
    BY <2>1, <2>2
<1> QED
  BY <1>1, ChannelInvariant, PTL

\* The client gets the bytes of the responses in the order of its requests, each
\* once, however hs_io_write has to split them, if both races are won.
THEOREM ResponsesRightHolds == Spec /\ [][OnTime]_vars => []ResponsesRight
<1>1. ChannelInv => ResponsesRight
  BY DEF ChannelInv, ReplyInv
<1> QED
  BY <1>1, ChannelInvariant, PTL

\* A channel is given back to the memory pool by the last one that has it: no
\* thread, call, event or provider's answer comes to it afterwards, if both races
\* are won.
THEOREM NoUseAfterReleaseHolds == Spec /\ [][OnTime]_vars => []NoUseAfterRelease
<1>1. ChannelInv => NoUseAfterRelease
  <2> SUFFICES ASSUME ChannelInv, released
               PROVE  AtWork = {} /\ tasks = <<>> /\ fetched = "none" /\ upstream = {} /\ responder = "idle"
    BY DEF NoUseAfterRelease
  <2>1. Nobody /\ armed = "deleted"
    BY DEF ChannelInv, EpollInv, Shapes
  <2>2. fetched = "none"
    BY <2>1 DEF ChannelInv, EpollInv
  <2> QED
    BY <2>1, <2>2 DEF Nobody, Idle, AtWork
<1> QED
  BY <1>1, ChannelInvariant, PTL
-----------------------------------------------------------------------------
(* The stream of the client, with induction and recursion over the naturals *)

Texts == Seq(Characters)

\* A set of numbers has a least one.
LEMMA LeastOf ==
    ASSUME NEW T \in SUBSET Nat, T # {}
    PROVE  \E m \in T : \A k \in T : m <= k
<1> DEFINE R == OpToRel(<, Nat)
<1>1. \E m \in T : \A k \in T : ~ (<<k, m>> \in R)
  <2>1. IsWellFoundedOn(R, Nat)
    BY NatLessThanWellFounded
  <2> HIDE DEF R
  <2> QED
    BY <2>1, WFMin
<1>2. PICK m \in T : \A k \in T : ~ (<<k, m>> \in R)
  BY <1>1
<1>3. \A k \in T : m <= k
  <2> SUFFICES ASSUME NEW k \in T, k < m PROVE FALSE
    OBVIOUS
  <2>1. <<k, m>> \in R
    BY DEF OpToRel
  <2> QED
    BY <2>1, <1>2
<1> QED
  BY <1>3

\* Induction, for the set of the numbers with some property.
LEMMA SetInduction ==
    ASSUME NEW T, 0 \in T, \A n \in Nat : n \in T => n + 1 \in T
    PROVE  \A n \in Nat : n \in T
<1> SUFFICES ASSUME Nat \ T # {} PROVE FALSE
  OBVIOUS
<1>1. PICK m \in Nat \ T : \A k \in Nat \ T : m <= k
  BY LeastOf
<1>2. m # 0 /\ m - 1 \in Nat
  BY <1>1
<1>3. m - 1 \in T
  BY <1>1, <1>2
<1>4. (m - 1) + 1 \in T
  BY <1>3, <1>2
<1> QED
  BY <1>4, <1>1

\* The tables of the first n + 1 values of a recursion that begins with c.
Table(S, c, G, n) ==
    {f \in [0..n -> S] : f[0] = c /\ \A i \in 0..(n - 1) : f[i + 1] = G[i][f[i]]}

LEMMA TableExists ==
    ASSUME NEW S, NEW c \in S, NEW G \in [Nat -> [S -> S]], NEW n \in Nat
    PROVE  Table(S, c, G, n) # {}
<1> DEFINE T == {k \in Nat : Table(S, c, G, k) # {}}
<1>1. 0 \in T
  <2>1. [i \in 0..0 |-> c] \in Table(S, c, G, 0)
    BY DEF Table
  <2> QED
    BY <2>1
<1>2. ASSUME NEW k \in Nat, k \in T PROVE k + 1 \in T
  <2>1. PICK f \in [0..k -> S] : f[0] = c /\ \A i \in 0..(k - 1) : f[i + 1] = G[i][f[i]]
    BY <1>2 DEF Table
  <2> DEFINE g == [i \in 0..(k + 1) |-> IF i = k + 1 THEN G[k][f[k]] ELSE f[i]]
  <2>2. G[k][f[k]] \in S
    BY <2>1
  <2>3. g \in [0..(k + 1) -> S]
    BY <2>1, <2>2
  <2>4. g[0] = c
    BY <2>1
  <2>5. ASSUME NEW i \in 0..k PROVE g[i + 1] = G[i][g[i]]
    BY <2>1, <2>5
  <2>6. g \in Table(S, c, G, k + 1)
    <3>1. (k + 1) - 1 = k
      OBVIOUS
    <3> HIDE DEF g
    <3> QED
      BY <2>3, <2>4, <2>5, <3>1 DEF Table
  <2> QED
    BY <2>6
<1>3. \A k \in Nat : k \in T
  <2> HIDE DEF T
  <2> QED
    BY <1>1, <1>2, SetInduction
<1> QED
  BY <1>3

LEMMA TableUnique ==
    ASSUME NEW S, NEW c \in S, NEW G \in [Nat -> [S -> S]], NEW m \in Nat, NEW n \in Nat, m <= n,
           NEW f \in Table(S, c, G, m), NEW g \in Table(S, c, G, n)
    PROVE  f[m] = g[m]
<1> DEFINE T == {k \in Nat : k <= m => f[k] = g[k]}
<1>1. 0 \in T
  BY DEF Table
<1>2. ASSUME NEW k \in Nat, k \in T PROVE k + 1 \in T
  BY <1>2 DEF Table
<1>3. \A k \in Nat : k \in T
  <2> HIDE DEF T
  <2> QED
    BY <1>1, <1>2, SetInduction
<1> QED
  BY <1>3

\* f is the function that a recursion defines.
Recurses(f, S, c, G) == f \in [Nat -> S] /\ f[0] = c /\ \A i \in Nat : f[i + 1] = G[i][f[i]]

LEMMA RecursionExists ==
    ASSUME NEW S, NEW c \in S, NEW G \in [Nat -> [S -> S]]
    PROVE  \E f : Recurses(f, S, c, G)
<1> DEFINE t == [n \in Nat |-> CHOOSE f : f \in Table(S, c, G, n)]
<1> DEFINE f == [n \in Nat |-> t[n][n]]
<1>1. ASSUME NEW n \in Nat PROVE t[n] \in Table(S, c, G, n)
  <2>1. \E h : h \in Table(S, c, G, n)
    BY TableExists
  <2> QED
    BY <2>1
<1> HIDE DEF t
<1>2. f \in [Nat -> S]
  BY <1>1 DEF Table
<1>3. f[0] = c
  BY <1>1 DEF Table
<1>4. ASSUME NEW i \in Nat PROVE f[i + 1] = G[i][f[i]]
  <2>1. t[i] \in Table(S, c, G, i) /\ t[i + 1] \in Table(S, c, G, i + 1) /\ i <= i + 1 /\ i + 1 \in Nat
    BY <1>1
  <2>2. t[i][i] = t[i + 1][i]
    BY <2>1, TableUnique
  <2>3. t[i + 1][i + 1] = G[i][t[i + 1][i]]
    BY <2>1 DEF Table
  <2> QED
    BY <2>2, <2>3
<1>5. Recurses(f, S, c, G)
  <2> HIDE DEF f
  <2> QED
    BY <1>2, <1>3, <1>4 DEF Recurses
<1> QED
  BY <1>5

LEMMA ConcatFacts ==
    ASSUME NEW s \in Texts, NEW t \in Texts
    PROVE  /\ s \o t \in Texts /\ Len(s \o t) = Len(s) + Len(t)
           /\ Len(s) \in Nat /\ Len(t) \in Nat
           /\ \A j \in 1..Len(s) : (s \o t)[j] = s[j]
           /\ \A j \in 1..Len(t) : (s \o t)[Len(s) + j] = t[j]
  BY DEF Texts

\* F holds what FlattenSeq has made of the first sequences.
Flattens(F, s, n) ==
    /\ F \in [0..n -> Texts] /\ F[0] = <<>>
    /\ \A k \in 1..n : F[k] = F[k - 1] \o s[k]

LEMMA FlattenedNonempty ==
    ASSUME NEW n \in Nat \ {0}, NEW s \in Seq(Texts), Len(s) = n
    PROVE  \E F : Flattens(F, s, n) /\ FlattenSeq(s) = F[n]
<1> DEFINE Good(f) == f = [i \in 1..n |-> IF i = 1 THEN s[i] ELSE f[i - 1] \o s[i]]
<1> DEFINE flatten == CHOOSE f : Good(f)
<1>1. FlattenSeq(s) = flatten[n]
  BY DEF FlattenSeq
<1>0. \A i \in 1..n : s[i] \in Texts
  BY ElementOfSeq
<1>2. \E f : Good(f)
  <2> DEFINE G == [i \in Nat |-> [x \in Texts |-> IF i < n THEN x \o s[i + 1] ELSE x]]
  <2>1. G \in [Nat -> [Texts -> Texts]]
    <3>1. ASSUME NEW i \in Nat, NEW x \in Texts PROVE (IF i < n THEN x \o s[i + 1] ELSE x) \in Texts
      <4>1. CASE i < n
        <5>1. s[i + 1] \in Texts
          BY <1>0, <4>1
        <5> QED
          BY <5>1, ConcatFacts
      <4> QED
        BY <4>1
    <3> QED
      BY <3>1
  <2>2. PICK g : Recurses(g, Texts, <<>>, G)
    <3>1. <<>> \in Texts
      BY EmptySeq DEF Texts
    <3> HIDE DEF G
    <3> QED
      BY <2>1, <3>1, RecursionExists
  <2> DEFINE f == [i \in 1..n |-> g[i]]
  <2>3. ASSUME NEW i \in 1..n PROVE g[i] = g[i - 1] \o s[i]
    <3>1. i - 1 \in Nat /\ (i - 1) + 1 = i /\ i - 1 < n
      OBVIOUS
    <3>2. g[i] = G[i - 1][g[i - 1]] /\ g[i - 1] \in Texts
      BY <2>2, <3>1 DEF Recurses
    <3> QED
      BY <3>1, <3>2
  <2>4. g[1] = s[1]
    <3>1. 1 \in 1..n /\ 1 - 1 = 0
      OBVIOUS
    <3>2. g[1] = g[1 - 1] \o s[1]
      BY <2>3, <3>1
    <3>3. g[1 - 1] = <<>>
      BY <2>2, <3>1 DEF Recurses
    <3> QED
      BY <3>1, <3>2, <3>3, <1>0, ConcatEmptySeq DEF Texts
  <2>5. ASSUME NEW i \in 1..n PROVE f[i] = IF i = 1 THEN s[i] ELSE f[i - 1] \o s[i]
    <3>1. CASE i = 1
      BY <2>4, <3>1
    <3>2. CASE i # 1
      <4>1. i - 1 \in 1..n
        BY <3>2
      <4> HIDE DEF G
      <4> QED
        BY <2>3, <3>2, <4>1
    <3> QED
      BY <3>1, <3>2
  <2>6. Good(f)
    BY <2>5
  <2> QED
    BY <2>6
<1>3. Good(flatten)
  BY <1>2
<1> HIDE DEF flatten
<1> DEFINE T == {k \in Nat : k + 1 <= n => flatten[k + 1] \in Texts}
<1>4. 0 \in T
  BY <1>3, <1>0
<1>5. ASSUME NEW k \in Nat, k \in T PROVE k + 1 \in T
  <2> SUFFICES ASSUME k + 1 + 1 <= n PROVE flatten[k + 1 + 1] \in Texts
    OBVIOUS
  <2>1. PICK m \in 1..n : m = k + 1 + 1 /\ m # 1 /\ m - 1 = k + 1
    OBVIOUS
  <2>2. flatten[m] = flatten[m - 1] \o s[m]
    BY <1>3, <2>1
  <2>3. flatten[k + 1] \in Texts
    BY <1>5
  <2> QED
    BY <2>1, <2>2, <2>3, <1>0, ConcatFacts
<1>6. \A k \in Nat : k \in T
  <2> HIDE DEF T
  <2> QED
    BY <1>4, <1>5, SetInduction
<1>7. ASSUME NEW k \in 1..n PROVE flatten[k] \in Texts
  <2>1. k - 1 \in Nat /\ k - 1 + 1 = k /\ k - 1 + 1 <= n
    OBVIOUS
  <2> QED
    BY <2>1, <1>6
<1> DEFINE F == [k \in 0..n |-> IF k = 0 THEN <<>> ELSE flatten[k]]
<1>8. F \in [0..n -> Texts] /\ F[0] = <<>>
  <2>1. <<>> \in Texts
    BY EmptySeq DEF Texts
  <2> QED
    BY <1>7, <2>1
<1>9. ASSUME NEW k \in 1..n PROVE F[k] = F[k - 1] \o s[k]
  <2>1. CASE k = 1
    <3>1. F[k] = s[k] /\ F[k - 1] = <<>>
      BY <2>1, <1>3
    <3> QED
      BY <3>1, <1>0, ConcatEmptySeq DEF Texts
  <2>2. CASE k # 1
    <3>1. k - 1 \in 1..n /\ k \in 0..n /\ k # 0 /\ k - 1 # 0 /\ k - 1 \in 0..n
      BY <2>2
    <3> QED
      BY <3>1, <2>2, <1>3
  <2> QED
    BY <2>1, <2>2
<1>10. FlattenSeq(s) = F[n]
  BY <1>1
<1> QED
  <2>1. Flattens(F, s, n)
    <3> HIDE DEF F
    <3> QED
      BY <1>8, <1>9 DEF Flattens
  <2> QED
    BY <2>1, <1>10

LEMMA Flattened ==
    ASSUME NEW s \in Seq(Texts)
    PROVE  \E F : Flattens(F, s, Len(s)) /\ FlattenSeq(s) = F[Len(s)]
<1>0. Len(s) \in Nat
  BY LenProperties
<1>1. CASE Len(s) = 0
  <2>1. s = <<>>
    BY <1>1, EmptySeq
  <2>2. FlattenSeq(s) = <<>>
    BY <1>1, <2>1 DEF FlattenSeq
  <2> DEFINE F == [k \in 0..0 |-> <<>>]
  <2>3. F \in [0..0 -> Texts] /\ F[0] = <<>>
    <3>1. <<>> \in Texts
      BY EmptySeq DEF Texts
    <3> QED
      BY <3>1
  <2>4. Flattens(F, s, 0)
    <3> HIDE DEF F
    <3> QED
      BY <2>3 DEF Flattens
  <2> QED
    BY <1>1, <2>2, <2>3, <2>4
<1>2. CASE Len(s) # 0
  BY <1>0, <1>2, FlattenedNonempty
<1> QED
  BY <1>1, <1>2

\* What has been flattened stays where it is.
Keeps(F, m, u) == Len(F[m]) <= Len(F[u]) /\ \A j \in 1..Len(F[m]) : F[u][j] = F[m][j]

LEMMA FlattenKeeps ==
    ASSUME NEW n \in Nat, NEW s \in Seq(Texts), Len(s) = n, NEW F, Flattens(F, s, n),
           NEW m \in 0..n
    PROVE  Keeps(F, m, n)
<1> DEFINE T == {i \in Nat : m + i <= n => /\ Len(F[m]) <= Len(F[m + i])
                                            /\ \A j \in 1..Len(F[m]) : F[m + i][j] = F[m][j]}
<1>0. \A i \in 0..n : F[i] \in Texts /\ Len(F[i]) \in Nat
  BY DEF Flattens, Texts
<1>1. 0 \in T
  <2>1. m + 0 = m
    OBVIOUS
  <2> QED
    BY <2>1, <1>0
<1>2. ASSUME NEW i \in Nat, i \in T PROVE i + 1 \in T
  <2> SUFFICES ASSUME m + (i + 1) <= n
               PROVE  /\ Len(F[m]) <= Len(F[m + (i + 1)])
                      /\ \A j \in 1..Len(F[m]) : F[m + (i + 1)][j] = F[m][j]
    OBVIOUS
  <2>1. PICK u \in 1..n : u = m + (i + 1) /\ u - 1 = m + i /\ u - 1 \in 0..n
    OBVIOUS
  <2>2. F[u] = F[u - 1] \o s[u] /\ s[u] \in Texts /\ F[u - 1] \in Texts
    BY <2>1, <1>0, ElementOfSeq DEF Flattens
  <2>3. /\ Len(F[u - 1]) <= Len(F[u]) /\ Len(F[u - 1]) \in Nat /\ Len(F[u]) \in Nat
        /\ \A j \in 1..Len(F[u - 1]) : F[u][j] = F[u - 1][j]
    <3>1. /\ Len(F[u]) = Len(F[u - 1]) + Len(s[u]) /\ Len(F[u - 1]) \in Nat /\ Len(s[u]) \in Nat
          /\ \A j \in 1..Len(F[u - 1]) : F[u][j] = F[u - 1][j]
      BY <2>2, ConcatFacts
    <3>2. Len(F[u - 1]) <= Len(F[u]) /\ Len(F[u]) \in Nat
      <4>1. PICK x \in Nat, y \in Nat : x = Len(F[u - 1]) /\ y = Len(s[u])
        BY <3>1
      <4>2. Len(F[u]) = x + y
        BY <3>1, <4>1
      <4>3. x <= x + y /\ x + y \in Nat
        OBVIOUS
      <4> QED
        BY <4>1, <4>2, <4>3
    <3> QED
      BY <3>1, <3>2
  <2>4. /\ Len(F[m]) <= Len(F[u - 1]) /\ Len(F[m]) \in Nat
        /\ \A j \in 1..Len(F[m]) : F[u - 1][j] = F[m][j]
    BY <1>2, <2>1, <1>0
  <2>5. PICK x \in Nat, y \in Nat, z \in Nat : x = Len(F[m]) /\ y = Len(F[u - 1]) /\ z = Len(F[u])
    BY <2>3, <2>4
  <2>6. x <= y /\ y <= z
    BY <2>3, <2>4, <2>5
  <2>7. x <= z /\ 1..x \subseteq 1..y
    BY <2>6
  <2>8. Len(F[m]) <= Len(F[u])
    BY <2>5, <2>7
  <2>9. \A j \in 1..Len(F[m]) : F[u][j] = F[m][j]
    BY <2>3, <2>4, <2>5, <2>7
  <2> QED
    BY <2>1, <2>4, <2>8, <2>9
<1>3. \A i \in Nat : i \in T
  <2> HIDE DEF T
  <2> QED
    BY <1>1, <1>2, SetInduction
<1>4. n - m \in Nat /\ m + (n - m) = n /\ m + (n - m) <= n
  OBVIOUS
<1> QED
  BY <1>3, <1>4 DEF Keeps

LEMMA RequestFacts ==
    /\ Len(Requests) \in Nat
    /\ \A k \in 1..Len(Requests) : Requests[k] \in Texts /\ Len(Requests[k]) \in Nat
                                   /\ DOMAIN Requests[k] = 1..Len(Requests[k])
<1>1. Requests \in Seq(Texts)
  BY RequestsAssumption DEF Texts
<1>2. Len(Requests) \in Nat
  BY <1>1, LenProperties
<1>3. ASSUME NEW k \in 1..Len(Requests)
      PROVE  Requests[k] \in Texts /\ Len(Requests[k]) \in Nat /\ DOMAIN Requests[k] = 1..Len(Requests[k])
  <2>1. Requests[k] \in Texts
    BY <1>1, ElementOfSeq
  <2> QED
    BY <2>1, LenProperties DEF Texts
<1> QED
  BY <1>2, <1>3

\* The first k requests end where they do in the whole stream.
LEMMA EndsAt ==
    ASSUME NEW F, Flattens(F, Requests, Len(Requests)), NEW k \in 0..Len(Requests)
    PROVE  End(k) = Len(F[k])
<1>0. PICK n \in Nat : n = Len(Requests)
  BY RequestFacts
<1>1. PICK s : s = SubSeq(Requests, 1, k)
  OBVIOUS
<1>2. s \in Seq(Texts) /\ Len(s) = k /\ \A i \in 1..k : s[i] = Requests[i]
  <2>1. Requests \in Seq(Texts) /\ k \in 0..n
    BY <1>0, RequestsAssumption DEF Texts
  <2>2. \A i \in 1..k : Requests[i] \in Texts
    BY <1>0, RequestFacts
  <2> HIDE DEF Texts
  <2> QED
    BY <1>0, <1>1, <2>1, <2>2
<1>3. PICK G : Flattens(G, s, k) /\ FlattenSeq(s) = G[k]
  BY <1>2, Flattened
<1> DEFINE T == {i \in Nat : i <= k => G[i] = F[i]}
<1>4. 0 \in T
  BY <1>3 DEF Flattens
<1>5. ASSUME NEW i \in Nat, i \in T PROVE i + 1 \in T
  <2> SUFFICES ASSUME i + 1 <= k PROVE G[i + 1] = F[i + 1]
    OBVIOUS
  <2>1. PICK m \in 1..k : m = i + 1 /\ m - 1 = i
    OBVIOUS
  <2>2. G[m] = G[m - 1] \o s[m] /\ s[m] = Requests[m]
    BY <1>2, <1>3 DEF Flattens
  <2>3. F[m] = F[m - 1] \o Requests[m]
    BY <1>0 DEF Flattens
  <2>4. G[m - 1] = F[m - 1]
    BY <1>5, <2>1
  <2> QED
    BY <2>1, <2>2, <2>3, <2>4
<1>6. \A i \in Nat : i \in T
  <2> HIDE DEF T
  <2> QED
    BY <1>4, <1>5, SetInduction
<1>7. k \in Nat
  BY <1>0
<1>8. G[k] = F[k]
  BY <1>6, <1>7
<1>9. End(k) = Len(FlattenSeq(SubSeq(Requests, 1, k)))
  BY DEF End, Ends
<1> QED
  BY <1>1, <1>3, <1>8, <1>9

\* Request k of the stream begins after byte b.
Places(k, b) ==
    /\ End(k) = b + Len(Requests[k])
    /\ \A j \in 1..Len(Requests[k]) : stream[b + j] = Requests[k][j]

LEMMA EndFacts ==
    /\ End(0) = 0
    /\ \A k \in 0..Len(Requests) : End(k) \in Nat /\ End(k) <= Len(stream)
    /\ \A k \in 1..Len(Requests) : Places(k, End(k - 1))
<1>0. PICK n \in Nat : n = Len(Requests)
  BY RequestFacts
<1>1. Requests \in Seq(Texts)
  BY RequestsAssumption DEF Texts
<1>2. PICK F : Flattens(F, Requests, n) /\ stream = F[n]
  BY <1>0, <1>1, Flattened DEF stream
<1>3. \A k \in 0..n : End(k) = Len(F[k]) /\ F[k] \in Texts /\ Len(F[k]) \in Nat
  <2>1. \A k \in 0..n : End(k) = Len(F[k])
    BY <1>0, <1>2, EndsAt
  <2>2. \A k \in 0..n : F[k] \in Texts
    BY <1>2 DEF Flattens
  <2> QED
    BY <2>1, <2>2, LenProperties DEF Texts
<1>4. \A k \in 0..n : Keeps(F, k, n)
  BY <1>0, <1>1, <1>2, FlattenKeeps
<1>5. End(0) = 0
  BY <1>2, <1>3, EmptySeq DEF Flattens
<1>6. \A k \in 0..n : End(k) <= Len(stream)
  BY <1>2, <1>3, <1>4 DEF Keeps
<1>7. ASSUME NEW k \in 1..n PROVE Places(k, End(k - 1))
  <2>1. k \in 0..n /\ k - 1 \in 0..n
    OBVIOUS
  <2>2. PICK p : p = k - 1 /\ p \in 0..n
    BY <2>1
  <2>3. F[k] = F[p] \o Requests[k] /\ F[p] \in Texts /\ Requests[k] \in Texts
    BY <1>0, <1>2, <1>3, <2>2, RequestFacts DEF Flattens
  <2>4. /\ Len(F[k]) = Len(F[p]) + Len(Requests[k]) /\ Len(F[p]) \in Nat /\ Len(Requests[k]) \in Nat
        /\ \A j \in 1..Len(Requests[k]) : F[k][Len(F[p]) + j] = Requests[k][j]
    <3>1. PICK u \in Texts, v \in Texts : u = F[p] /\ v = Requests[k]
      BY <2>3
    <3>2. F[k] = u \o v
      BY <2>3, <3>1
    <3>3. /\ Len(u \o v) = Len(u) + Len(v) /\ Len(u) \in Nat /\ Len(v) \in Nat
          /\ \A j \in 1..Len(v) : (u \o v)[Len(u) + j] = v[j]
      BY ConcatFacts
    <3> QED
      BY <3>1, <3>2, <3>3
  <2>5. PICK b \in Nat : b = End(k - 1) /\ b = Len(F[p])
    BY <1>3, <2>2, <2>4
  <2>6. PICK z \in Nat : z = Len(Requests[k])
    BY <2>4
  <2>7. Len(F[k]) = b + z /\ End(k) = b + z
    BY <1>3, <2>1, <2>4, <2>5, <2>6
  <2>8. ASSUME NEW j \in 1..z PROVE stream[b + j] = Requests[k][j]
    <3>1. b + j \in 1..Len(F[k])
      BY <2>7
    <3>2. F[n][b + j] = F[k][b + j]
      BY <1>4, <2>1, <3>1 DEF Keeps
    <3> QED
      BY <1>2, <2>4, <2>5, <2>6, <3>2
  <2> QED
    BY <2>5, <2>6, <2>7, <2>8 DEF Places
<1> QED
  BY <1>0, <1>3, <1>5, <1>6, <1>7

LEMMA EndsOrdered ==
    ASSUME NEW j \in 0..Len(Requests), NEW k \in 0..Len(Requests), j <= k
    PROVE  End(j) <= End(k)
<1>0. PICK n \in Nat : n = Len(Requests)
  BY RequestFacts
<1> DEFINE T == {i \in Nat : j + i <= n => End(j) <= End(j + i)}
<1>1. 0 \in T
  <2>1. j + 0 = j /\ End(j) \in Nat
    BY <1>0, EndFacts
  <2> QED
    BY <2>1
<1>2. ASSUME NEW i \in Nat, i \in T PROVE i + 1 \in T
  <2> SUFFICES ASSUME j + (i + 1) <= n PROVE End(j) <= End(j + (i + 1))
    OBVIOUS
  <2>1. PICK m \in 1..n : m = j + (i + 1) /\ m - 1 = j + i /\ m - 1 \in 0..n /\ j \in 0..n
    BY <1>0
  <2>2. End(m) = End(m - 1) + Len(Requests[m]) /\ Len(Requests[m]) \in Nat
    BY <1>0, <2>1, EndFacts, RequestFacts DEF Places
  <2>3. End(j) <= End(m - 1)
    BY <1>2, <2>1
  <2>4. PICK a \in Nat, b \in Nat, z \in Nat : a = End(j) /\ b = End(m - 1) /\ z = Len(Requests[m])
    BY <1>0, <2>1, <2>2, EndFacts
  <2>5. a <= b + z
    BY <2>3, <2>4
  <2> QED
    BY <2>1, <2>2, <2>4, <2>5
<1>3. \A i \in Nat : i \in T
  <2> HIDE DEF T
  <2> QED
    BY <1>1, <1>2, SetInduction
<1>4. k - j \in Nat /\ j + (k - j) = k /\ j + (k - j) <= n
  BY <1>0
<1> QED
  BY <1>3, <1>4
-----------------------------------------------------------------------------
(* The requests: what has been read, decoded and handled *)

\* The line that the decoder is in, after i characters of request r, begins at
\* s; its key is being read, or ended at the colon before value_start.
InLine(c, r, i, s) ==
    /\ s \in 2..(i + 1) /\ r[s - 1] = "LF" /\ c.key_start = s - 1
    /\ \A j \in s..i : r[j] # "LF"
    /\ c.is_key = TRUE => \A j \in s..i : r[j] # ":"
    /\ c.is_key = FALSE => /\ c.value_start \in s..i /\ r[c.value_start] = ":"
                           /\ \A j \in s..(c.value_start - 1) : r[j] # ":"

\* What the decoder knows of request r, with n characters, of which head are its
\* head and size its body, and the key of its length at key.
Knows(c, r, n, key, head, size) ==
    LET i == c.decode_index IN
    /\ i \in 0..n
    /\ c.is_line = TRUE <=> \A j \in 1..i : r[j] # "LF"
    /\ c.is_line = TRUE => c.is_key = TRUE
    /\ c.is_head = TRUE <=> i < head
    /\ c.is_body = TRUE <=> i < n
    /\ c.is_read_done = TRUE <=> i = n
    /\ c.is_content_length = TRUE <=> i \in {key + 1, key + 2}
    /\ c.body_size = IF i >= key + 3 THEN size ELSE 0
    /\ i >= head => c.body_start = head
    /\ c.is_line = FALSE /\ c.is_head = TRUE => \E s \in 2..(i + 1) : InLine(c, r, i, s)

\* A decoder that has not begun.
Unread(c) ==
    /\ c.decode_index = 0 /\ c.is_line = TRUE /\ c.is_key = TRUE /\ c.is_head = TRUE
    /\ c.is_body = TRUE /\ c.is_read_done = FALSE /\ c.is_content_length = FALSE
    /\ c.body_size = 0

\* The decoder is in request k, or waits when there is none.
Decoded(c, k) ==
    IF k <= Len(Requests)
    THEN LET r == Requests[k] IN Knows(c, r, Len(r), LengthKey(r), HeadSize(r), BodySize(r))
    ELSE Unread(c)

\* A request is being read, or will be with the event of the first registration.
Underway ==
    \/ armed = "edge" /\ (sent = 0 \/ (ready = TRUE /\ peer = "open"))
    \/ BeingRead /\ ~Connecting
Replying == Called \/ Filled \/ InThread({"written"})
\* What recv returned is in the buffer, and is there to be decoded.
Fetched(b) ==
    /\ ~InThread({"update"}) => taken = b + ch.read_index
    /\ \A t \in IoThreads : tpc[t] = "update" => taken = b + ch.read_index + read_size[t]
Loaded(b) == \A i \in 0..(BufferSize - 1) : b + i + 1 <= taken => buffer[i] = b + i + 1

ReadInv ==
    /\ Connecting => taken = 0
    /\ Underway => /\ Fetched(End(Len(handled))) /\ Loaded(End(Len(handled)))
                   /\ Decoded(ch, Len(handled) + 1)
    /\ Replying => taken = End(Len(handled))

\* The client is not ahead of the responses, and they not of the requests.
SentInv == \E m \in 0..Len(Requests) : sent <= End(m) /\ (m = 0 \/ (m - 1) * ResponseSize <= Len(got))
GotInv == Len(got) <= Len(handled) * ResponseSize
BufferInv == \A i \in 0..(BufferSize - 1) : buffer[i] <= sent
HandledRight == Len(handled) <= Len(Requests) /\ \A k \in 1..Len(handled) : handled[k] = Body(k)

HandledInv == ReadInv /\ SentInv /\ GotInv /\ BufferInv /\ HandledRight
-----------------------------------------------------------------------------
(* The decoder *)

\* The characters of a request, its numbers at hand.
Shape(r, n, key, head, size) ==
    /\ n \in Nat /\ n < BufferSize /\ key \in Nat /\ head \in Nat /\ size \in 1..2
    /\ head + size = n /\ 2 <= key /\ key + 6 <= head
    /\ \A i \in 1..n : r[i] \in LengthKeys <=> i = key
    /\ r[key - 1] = "LF" /\ r[key + 1] = ":" /\ r[key + 2] \in {"1", "2"} /\ atoi(r[key + 2]) = size
    /\ r[key + 3] = "CR" /\ r[key + 4] = "LF"
    /\ r[head - 2] = "LF" /\ r[head - 1] = "CR" /\ r[head] = "LF"
    /\ \A s \in 2..(head - 2) : r[s - 1] = "LF" =>
          \E c \in s..(head - 2) : r[c] = ":" /\ \A j \in s..c : r[j] # "LF"

LEMMA RequestShape ==
    ASSUME NEW k \in 1..Len(Requests)
    PROVE  LET r == Requests[k] IN Shape(r, Len(r), LengthKey(r), HeadSize(r), BodySize(r))
<1>1. PICK r : r = Requests[k]
  OBVIOUS
<1>2. PICK n \in Nat : n = Len(r) /\ n < BufferSize /\ DOMAIN r = 1..n
  BY <1>1, RequestFacts, SizesAssumption
<1>3. PICK key : key = LengthKey(r)
  OBVIOUS
<1>4. PICK size : size = BodySize(r) /\ size = atoi(r[key + 2])
  BY <1>3 DEF BodySize
<1>5. PICK head : head = HeadSize(r) /\ head = n - size
  BY <1>2, <1>4 DEF HeadSize
<1>6. size \in 0..2
  BY <1>4, AtoiSmall
<1>7. /\ \A i \in 1..n : r[i] \in LengthKeys <=> i = key
      /\ key \in 2..(head - 6)
      /\ r[key - 1] = "LF" /\ r[key + 1] = ":" /\ r[key + 2] \in {"1", "2"}
      /\ r[key + 3] = "CR" /\ r[key + 4] = "LF"
      /\ r[head - 2] = "LF" /\ r[head - 1] = "CR" /\ r[head] = "LF"
      /\ \A s \in 2..(head - 2) : r[s - 1] = "LF" =>
            \E c \in s..(head - 2) : r[c] = ":" /\ \A j \in s..c : r[j] # "LF"
  <2>1. WellFormed(r)
    BY <1>1, WellFormedAssumption
  <2> QED
    BY <1>2, <1>3, <1>5, <2>1 DEF WellFormed
<1>8. size \in 1..2
  BY <1>4, <1>7 DEF atoi
<1>9. /\ key \in Nat /\ head \in Nat /\ head + size = n /\ 2 <= key /\ key + 6 <= head
  BY <1>2, <1>5, <1>7, <1>8
<1> QED
  BY <1>1, <1>2, <1>3, <1>4, <1>5, <1>7, <1>8, <1>9 DEF Shape

\* e is the channel d, with one more character decoded.
Onward(d, e) ==
    /\ e.decode_index = d.decode_index + 1
    /\ e.is_line = d.is_line /\ e.is_head = d.is_head /\ e.is_key = d.is_key /\ e.is_body = d.is_body
    /\ e.is_read_done = d.is_read_done /\ e.is_content_length = d.is_content_length
    /\ e.body_size = d.body_size /\ e.body_start = d.body_start
    /\ e.key_start = d.key_start /\ e.value_start = d.value_start

LEMMA GoesOnward ==
    ASSUME NEW d \in Channel
    PROVE  Onward(d, [d EXCEPT !.decode_index = @ + 1])
  BY DEF Channel, Onward

\* A step of the decoder in the first line.
LineStep(c, d, x) ==
    /\ d.decode_index = c.decode_index + 1
    /\ d.is_head = c.is_head /\ d.is_key = c.is_key /\ d.is_body = c.is_body
    /\ d.is_read_done = c.is_read_done /\ d.is_content_length = c.is_content_length
    /\ d.body_size = c.body_size /\ d.body_start = c.body_start
    /\ x = "LF" => d.is_line = FALSE /\ d.key_start = c.decode_index + 1
    /\ x # "LF" => d.is_line = c.is_line

LEMMA DecodesLine ==
    ASSUME NEW c \in Channel, c.decode_index <= c.processing_index_now, c.is_line = TRUE
    PROVE  LineStep(c, DecodeChar(c, c.decode_index), Char(c.decode_index))
<1>1. PICK i \in Nat : i = c.decode_index /\ i + 1 \in 0..BufferSize /\ i + 1 \in -1..BufferSize
  BY Numbers DEF Channel
<1>2. PICK x : x = Char(i)
  OBVIOUS
<1>3. PICK d, e : d = DecodeLine(c, i, x) /\ e = DecodeChar(c, i) /\ e = [d EXCEPT !.decode_index = @ + 1]
  BY <1>2 DEF DecodeChar
<1>4. CASE x = "LF"
  BY <1>1, <1>2, <1>3, <1>4 DEF DecodeLine, Channel, LineStep
<1>5. CASE x # "LF"
  BY <1>1, <1>2, <1>3, <1>5 DEF DecodeLine, Channel, LineStep
<1> QED
  BY <1>4, <1>5

\* In the key of a header, which begins with f.
KeyStep(c, d, x, f) ==
    /\ d.decode_index = c.decode_index + 1
    /\ d.is_line = c.is_line /\ d.is_body = c.is_body
    /\ d.is_read_done = c.is_read_done /\ d.body_size = c.body_size /\ d.key_start = c.key_start
    /\ x = ":" => /\ d.is_key = FALSE /\ d.is_head = c.is_head /\ d.value_start = c.decode_index + 1
                  /\ d.is_content_length = (c.is_content_length \/ f \in LengthKeys)
    /\ x = "LF" => /\ d.is_head = FALSE /\ d.is_key = c.is_key /\ d.body_start = c.decode_index + 1
                   /\ d.is_content_length = c.is_content_length
    /\ x \notin {":", "LF"} => d.is_key = c.is_key /\ d.is_head = c.is_head
                               /\ d.is_content_length = c.is_content_length

LEMMA DecodesKey ==
    ASSUME NEW c \in Channel, c.decode_index <= c.processing_index_now, c.is_line = FALSE, c.is_head = TRUE, c.is_key = TRUE
    PROVE  KeyStep(c, DecodeChar(c, c.decode_index), Char(c.decode_index), Char(c.key_start))
<1>1. PICK i \in Nat : i = c.decode_index /\ i + 1 \in 0..BufferSize /\ i + 1 \in -1..BufferSize
  BY Numbers DEF Channel
<1>2. PICK x : x = Char(i)
  OBVIOUS
<1>3. PICK d, e : d = DecodeKey(c, i, x) /\ e = DecodeChar(c, i) /\ e = [d EXCEPT !.decode_index = @ + 1]
  BY <1>2 DEF DecodeChar
<1>4. PICK f : f = Char(c.key_start)
  OBVIOUS
<1>5. hs_tolower(f) = "content-length" <=> f \in LengthKeys
  BY DEF hs_tolower, LengthKeys
<1>6. CASE x = ":"
  <2>1. PICK b \in BOOLEAN : b = (c.is_content_length \/ f \in LengthKeys)
    OBVIOUS
  <2>2. d = [c EXCEPT !.is_key = FALSE, !.value_start = i + 1, !.is_content_length = b]
    BY <1>3, <1>4, <1>5, <1>6, <2>1 DEF DecodeKey
  <2>3. d \in Channel
    BY <1>1, <2>1, <2>2, SetValueStart
  <2>4. Onward(d, e)
    BY <1>3, <2>3, GoesOnward
  <2>5. /\ d.decode_index = i /\ d.is_line = c.is_line /\ d.is_head = c.is_head /\ d.is_body = c.is_body
        /\ d.is_read_done = c.is_read_done /\ d.body_size = c.body_size /\ d.key_start = c.key_start
        /\ d.is_key = FALSE /\ d.value_start = i + 1 /\ d.is_content_length = b
    BY <1>1, <2>2 DEF Channel
  <2> QED
    BY <1>1, <1>2, <1>3, <1>4, <1>6, <2>1, <2>4, <2>5 DEF Onward, KeyStep
<1>7. CASE x = "LF"
  <2>1. d = [c EXCEPT !.is_head = FALSE, !.body_start = i + 1]
    BY <1>3, <1>7 DEF DecodeKey
  <2>2. d \in Channel
    BY <1>1, <2>1, SetHeadEnd
  <2>3. Onward(d, e)
    BY <1>3, <2>2, GoesOnward
  <2>4. /\ d.decode_index = i /\ d.is_line = c.is_line /\ d.is_head = FALSE /\ d.is_body = c.is_body
        /\ d.is_read_done = c.is_read_done /\ d.body_size = c.body_size /\ d.key_start = c.key_start
        /\ d.is_key = c.is_key /\ d.body_start = i + 1 /\ d.is_content_length = c.is_content_length
    BY <1>1, <2>1 DEF Channel
  <2> QED
    BY <1>1, <1>2, <1>3, <1>7, <2>3, <2>4 DEF Onward, KeyStep
<1>8. CASE x \notin {":", "LF"}
  <2>1. d = c
    BY <1>3, <1>8 DEF DecodeKey
  <2>2. Onward(c, e)
    BY <1>3, <2>1, GoesOnward
  <2> QED
    BY <1>1, <1>2, <1>3, <1>8, <2>2 DEF Onward, KeyStep
<1> QED
  BY <1>6, <1>7, <1>8

\* In the value of a header, which begins with f.
ValueStep(c, d, x, f) ==
    /\ d.decode_index = c.decode_index + 1
    /\ d.is_line = c.is_line /\ d.is_head = c.is_head /\ d.is_body = c.is_body
    /\ d.is_read_done = c.is_read_done
    /\ x = "CR" /\ c.is_content_length = TRUE => d.is_content_length = FALSE /\ d.body_size = atoi(f)
    /\ ~(x = "CR" /\ c.is_content_length = TRUE) =>
          d.is_content_length = c.is_content_length /\ d.body_size = c.body_size
    /\ x = "LF" => d.is_key = TRUE /\ d.key_start = c.decode_index + 1
    /\ x # "LF" => d.is_key = c.is_key /\ d.key_start = c.key_start /\ d.value_start = c.value_start

LEMMA DecodesValue ==
    ASSUME NEW c \in Channel, c.decode_index <= c.processing_index_now, c.is_line = FALSE, c.is_head = TRUE, c.is_key = FALSE
    PROVE  ValueStep(c, DecodeChar(c, c.decode_index), Char(c.decode_index), Char(c.value_start))
<1>1. PICK i \in Nat : i = c.decode_index /\ i + 1 \in 0..BufferSize /\ i + 1 \in -1..BufferSize
  BY Numbers DEF Channel
<1>2. PICK x : x = Char(i)
  OBVIOUS
<1>3. PICK d, e : d = DecodeValue(c, i, x) /\ e = DecodeChar(c, i) /\ e = [d EXCEPT !.decode_index = @ + 1]
  BY <1>2 DEF DecodeChar
<1>4. PICK f : f = Char(c.value_start)
  OBVIOUS
<1>5. CASE x = "CR" /\ c.is_content_length = TRUE
  <2>1. d = [c EXCEPT !.is_content_length = FALSE, !.body_size = atoi(f)]
    BY <1>3, <1>4, <1>5 DEF DecodeValue
  <2>2. d \in Channel
    BY <2>1, AtoiSmall, SetLength
  <2>3. Onward(d, e)
    BY <1>3, <2>2, GoesOnward
  <2>4. /\ d.decode_index = i /\ d.is_line = c.is_line /\ d.is_head = c.is_head /\ d.is_body = c.is_body
        /\ d.is_read_done = c.is_read_done /\ d.body_size = atoi(f) /\ d.is_content_length = FALSE
        /\ d.is_key = c.is_key /\ d.key_start = c.key_start /\ d.value_start = c.value_start
    BY <1>1, <2>1 DEF Channel
  <2> QED
    BY <1>1, <1>2, <1>3, <1>4, <1>5, <2>3, <2>4 DEF Onward, ValueStep
<1>6. CASE x = "LF"
  <2>1. d = [c EXCEPT !.is_key = TRUE, !.key_start = i + 1]
    BY <1>3, <1>6 DEF DecodeValue
  <2>2. d \in Channel
    BY <1>1, <2>1, SetKey
  <2>3. Onward(d, e)
    BY <1>3, <2>2, GoesOnward
  <2>4. /\ d.decode_index = i /\ d.is_line = c.is_line /\ d.is_head = c.is_head /\ d.is_body = c.is_body
        /\ d.is_read_done = c.is_read_done /\ d.body_size = c.body_size
        /\ d.is_content_length = c.is_content_length /\ d.is_key = TRUE /\ d.key_start = i + 1
    BY <1>1, <2>1 DEF Channel
  <2> QED
    BY <1>1, <1>2, <1>3, <1>6, <2>3, <2>4 DEF Onward, ValueStep
<1>7. CASE ~(x = "CR" /\ c.is_content_length = TRUE) /\ x # "LF"
  <2>1. c.is_content_length \in BOOLEAN
    BY DEF Channel
  <2>2. d = c
    BY <1>3, <1>7, <2>1 DEF DecodeValue
  <2> QED
    BY <1>1, <1>2, <1>3, <1>7, <2>2 DEF Channel, ValueStep
<1> QED
  BY <1>5, <1>6, <1>7

\* In the body, of which size characters are to come and all up to e are there.
BodyStep(c, d, e) ==
    /\ d.decode_index = e
    /\ d.is_line = c.is_line /\ d.is_head = c.is_head /\ d.is_key = c.is_key
    /\ d.is_content_length = c.is_content_length
    /\ d.body_size = c.body_size /\ d.body_start = c.body_start
    /\ e - c.body_start = c.body_size => d.is_body = FALSE /\ d.is_read_done = TRUE
    /\ e - c.body_start # c.body_size => d.is_body = c.is_body /\ d.is_read_done = c.is_read_done

LEMMA DecodesBody ==
    ASSUME NEW c \in Channel, c.decode_index <= c.processing_index_now, c.is_line = FALSE, c.is_head = FALSE, c.is_body = TRUE
    PROVE  BodyStep(c, DecodeChar(c, c.decode_index), c.processing_index_now + 1)
<1>1. PICK p \in 0..BufferSize : p = c.processing_index_now
  BY Numbers DEF Channel
<1>2. PICK a \in Nat, z \in Nat : a = c.body_start /\ z = c.body_size
  BY Numbers DEF Channel
<1>3. PICK d, e : d = DecodeBody(c) /\ e = DecodeChar(c, c.decode_index) /\ e = [d EXCEPT !.decode_index = @ + 1]
  BY DEF DecodeChar
<1>4. PICK b \in BOOLEAN, r \in BOOLEAN :
          /\ d = [c EXCEPT !.decode_index = p, !.is_body = b, !.is_read_done = r]
          /\ p - a + 1 = z => b = FALSE /\ r = TRUE
          /\ p - a + 1 # z => b = c.is_body /\ r = c.is_read_done
  <2>1. c.is_read_done \in BOOLEAN
    BY DEF Channel
  <2>2. CASE p - a + 1 = z
    <3>1. d = [c EXCEPT !.decode_index = p, !.is_body = FALSE, !.is_read_done = TRUE]
      BY <1>1, <1>2, <1>3, <2>2 DEF DecodeBody
    <3> QED
      BY <2>2, <3>1
  <2>3. CASE p - a + 1 # z
    <3>1. d = [c EXCEPT !.decode_index = p, !.is_body = TRUE, !.is_read_done = c.is_read_done]
      BY <1>1, <1>2, <1>3, <2>1, <2>3 DEF DecodeBody
    <3> QED
      BY <2>1, <2>3, <3>1
  <2> QED
    BY <2>2, <2>3
<1>5. d \in Channel
  BY <1>1, <1>4, SetBody
<1>6. Onward(d, e)
  BY <1>3, <1>5, GoesOnward
<1>7. /\ d.decode_index = p /\ d.is_line = c.is_line /\ d.is_head = c.is_head /\ d.is_key = c.is_key
      /\ d.is_content_length = c.is_content_length /\ d.is_body = b /\ d.is_read_done = r
      /\ d.body_size = z /\ d.body_start = a
  BY <1>1, <1>2, <1>4 DEF Channel
<1>8. p - a + 1 = (p + 1) - a
  OBVIOUS
<1> QED
  BY <1>1, <1>2, <1>3, <1>4, <1>6, <1>7, <1>8 DEF Onward, BodyStep

Flags(c) ==
    /\ c.is_line \in BOOLEAN /\ c.is_key \in BOOLEAN /\ c.is_head \in BOOLEAN /\ c.is_body \in BOOLEAN
    /\ c.is_read_done \in BOOLEAN /\ c.is_content_length \in BOOLEAN

LEMMA ChannelFlags == ASSUME NEW c \in Channel PROVE Flags(c)
  BY DEF Channel, Flags

LEMMA KnowsAfterLine ==
    ASSUME NEW r, NEW n, NEW key, NEW head, NEW size, Shape(r, n, key, head, size),
           NEW c, Flags(c), Knows(c, r, n, key, head, size), c.is_line = TRUE,
           NEW i \in Nat, i = c.decode_index, i < n,
           NEW d, Flags(d), LineStep(c, d, r[i + 1])
    PROVE  Knows(d, r, n, key, head, size)
<1>1. PICK m \in Nat : m = i + 1 /\ d.decode_index = m
  BY DEF LineStep
<1>2. \A j \in 1..i : r[j] # "LF"
  BY DEF Knows
<1>3. n \in Nat /\ key \in Nat /\ head \in Nat /\ 2 <= key /\ key + 6 <= head /\ head <= n /\ r[key - 1] = "LF"
  BY DEF Shape
<1>4. i < key - 1
  <2> SUFFICES ASSUME key - 1 <= i PROVE FALSE
    BY <1>3
  <2>1. key - 1 \in 1..i
    BY <1>3
  <2> QED
    BY <1>2, <1>3, <2>1
<1>5. i < head /\ m < head /\ m < n /\ m < key /\ i # n /\ m # n /\ m \in 0..n
  BY <1>1, <1>3, <1>4
<1>6. /\ c.is_key = TRUE /\ c.is_head = TRUE /\ c.is_body = TRUE /\ c.is_read_done = FALSE
      /\ c.is_content_length = FALSE /\ c.body_size = 0
  <2>1. i \notin {key + 1, key + 2} /\ ~(i >= key + 3)
    BY <1>3, <1>4
  <2> QED
    BY <1>3, <1>5, <2>1 DEF Knows, Flags
<1>7. /\ d.is_key = TRUE /\ d.is_head = TRUE /\ d.is_body = TRUE /\ d.is_read_done = FALSE
      /\ d.is_content_length = FALSE /\ d.body_size = 0
  BY <1>6 DEF LineStep
<1>8. m \notin {key + 1, key + 2} /\ ~(m >= key + 3) /\ ~(m >= head)
  BY <1>3, <1>5
<1>9. CASE r[m] = "LF"
  <2>1. d.is_line = FALSE /\ d.key_start = m
    BY <1>1, <1>9 DEF LineStep
  <2>2. ~(\A j \in 1..m : r[j] # "LF")
    BY <1>1, <1>9
  <2>3. InLine(d, r, m, m + 1)
    <3>1. m + 1 \in 2..(m + 1) /\ (m + 1) - 1 = m /\ (m + 1)..m = {}
      BY <1>1
    <3> QED
      BY <1>7, <1>9, <2>1, <3>1 DEF InLine
  <2>4. m + 1 \in 2..(m + 1)
    BY <1>1
  <2> QED
    BY <1>1, <1>5, <1>7, <1>8, <2>1, <2>2, <2>3, <2>4 DEF Knows
<1>10. CASE r[m] # "LF"
  <2>1. d.is_line = TRUE
    BY <1>1, <1>10 DEF LineStep
  <2>2. \A j \in 1..m : r[j] # "LF"
    BY <1>1, <1>2, <1>10
  <2> QED
    BY <1>1, <1>5, <1>7, <1>8, <2>1, <2>2 DEF Knows
<1> QED
  BY <1>9, <1>10

LEMMA KnowsAfterBody ==
    ASSUME NEW r, NEW n, NEW key, NEW head, NEW size, Shape(r, n, key, head, size),
           NEW c, Flags(c), Knows(c, r, n, key, head, size), c.is_head = FALSE,
           NEW i \in Nat, i = c.decode_index, NEW e \in Nat, i < e, e <= n,
           NEW d, Flags(d), BodyStep(c, d, e)
    PROVE  Knows(d, r, n, key, head, size)
<1>1. /\ n \in Nat /\ key \in Nat /\ head \in Nat /\ size \in Nat /\ 2 <= key /\ key + 6 <= head
      /\ head + size = n /\ r[head - 2] = "LF"
  BY DEF Shape
<1>2. i >= head /\ c.is_line = FALSE
  <2>1. i >= head
    BY <1>1 DEF Knows
  <2>2. head - 2 \in 1..i
    BY <1>1, <2>1
  <2>3. ~(\A j \in 1..i : r[j] # "LF")
    BY <1>1, <2>2
  <2> QED
    BY <2>1, <2>3 DEF Knows, Flags
<1>3. i # n /\ i < n /\ ~(i \in {key + 1, key + 2}) /\ i >= key + 3
  BY <1>1, <1>2
<1>4. /\ c.is_body = TRUE /\ c.is_read_done = FALSE /\ c.is_content_length = FALSE
      /\ c.body_size = size /\ c.body_start = head
  BY <1>2, <1>3 DEF Knows, Flags
<1>5. /\ d.decode_index = e /\ d.is_line = FALSE /\ d.is_head = FALSE /\ d.is_content_length = FALSE
      /\ d.body_size = size /\ d.body_start = head
  BY <1>2, <1>4 DEF BodyStep
<1>6. e - head = size <=> e = n
  BY <1>1
<1>7. /\ e = n => d.is_body = FALSE /\ d.is_read_done = TRUE
      /\ e # n => d.is_body = TRUE /\ d.is_read_done = FALSE
  BY <1>4, <1>6 DEF BodyStep
<1>8. /\ e \in 0..n /\ e >= head /\ ~(e < head) /\ e >= key + 3 /\ ~(e \in {key + 1, key + 2})
      /\ (e < n <=> e # n)
  BY <1>1, <1>2
<1>9. ~(\A j \in 1..e : r[j] # "LF")
  <2>1. head - 2 \in 1..e
    BY <1>1, <1>8
  <2> QED
    BY <1>1, <2>1
<1> QED
  BY <1>5, <1>7, <1>8, <1>9 DEF Knows

\* Where the key of the length stands among the lines.
LEMMA KeyLine ==
    ASSUME NEW r, NEW n, NEW key, NEW head, NEW size, Shape(r, n, key, head, size),
           NEW c, NEW i \in Nat, i < n, NEW s, InLine(c, r, i, s)
    PROVE  /\ i \in key..(key + 3) => s = key
           /\ r[s] \in LengthKeys /\ s <= n <=> s = key
<1>1. /\ n \in Nat /\ key \in Nat /\ head \in Nat /\ 2 <= key /\ key + 6 <= head /\ head <= n
      /\ r[key - 1] = "LF" /\ r[key + 1] = ":" /\ r[key + 2] \in {"1", "2"} /\ r[key + 3] = "CR"
      /\ \A j \in 1..n : r[j] \in LengthKeys <=> j = key
  BY DEF Shape
<1>2. s \in Nat /\ 2 <= s /\ s <= i + 1 /\ r[s - 1] = "LF" /\ \A j \in s..i : r[j] # "LF"
  BY DEF InLine
<1>3. r[key] # "LF"
  <2>1. key \in 1..n
    BY <1>1
  <2> QED
    BY <1>1, <2>1 DEF LengthKeys
<1>4. ASSUME i \in key..(key + 3) PROVE s = key
  <2>1. s - 1 # key /\ s - 1 # key + 1 /\ s - 1 # key + 2 /\ s - 1 # key + 3
    BY <1>1, <1>2, <1>3
  <2>2. ~(s <= key - 1)
    <3> SUFFICES ASSUME s <= key - 1 PROVE FALSE
      OBVIOUS
    <3>1. key - 1 \in s..i
      BY <1>1, <1>2, <1>4
    <3> QED
      BY <1>1, <1>2, <3>1
  <2> QED
    BY <1>1, <1>2, <1>4, <2>1, <2>2
<1>5. r[s] \in LengthKeys /\ s <= n <=> s = key
  <2>1. s <= n => s \in 1..n
    BY <1>1, <1>2
  <2>2. key \in 1..n /\ key <= n
    BY <1>1
  <2> QED
    BY <1>1, <2>1, <2>2
<1> QED
  BY <1>4, <1>5

LEMMA KnowsAfterKey ==
    ASSUME NEW r, NEW n, NEW key, NEW head, NEW size, Shape(r, n, key, head, size),
           NEW c, Flags(c), Knows(c, r, n, key, head, size),
           c.is_line = FALSE, c.is_head = TRUE, c.is_key = TRUE,
           NEW i \in Nat, i = c.decode_index, i < n,
           NEW d, Flags(d), KeyStep(c, d, r[i + 1], r[c.key_start + 1])
    PROVE  Knows(d, r, n, key, head, size)
<1>1. /\ n \in Nat /\ key \in Nat /\ head \in Nat /\ 2 <= key /\ key + 6 <= head /\ head < n
      /\ r[key - 1] = "LF" /\ r[key + 1] = ":" /\ \A j \in 1..n : r[j] \in LengthKeys <=> j = key
      /\ r[head - 1] = "CR" /\ r[head] = "LF"
  BY DEF Shape
<1>2. PICK s \in 2..(i + 1) : InLine(c, r, i, s)
  BY DEF Knows
<1>3. /\ s \in Nat /\ 2 <= s /\ s <= i + 1 /\ r[s - 1] = "LF" /\ c.key_start = s - 1
      /\ \A j \in s..i : r[j] # "LF" /\ r[j] # ":"
  BY <1>2 DEF InLine
<1>4. r[c.key_start + 1] = r[s]
  <2>1. (s - 1) + 1 = s
    BY <1>3
  <2> QED
    BY <1>3, <2>1
<1>5. (i \in key..(key + 3) => s = key) /\ (r[s] \in LengthKeys <=> s = key)
  <2>1. s <= n
    BY <1>1, <1>3
  <2> QED
    BY <1>2, <2>1, KeyLine
<1>6. i # key + 1 /\ i # key + 2
  <2> SUFFICES ASSUME i \in {key + 1, key + 2} PROVE FALSE
    OBVIOUS
  <2>1. i \in key..(key + 3) /\ key + 1 \in key..i
    BY <1>1
  <2> QED
    BY <1>1, <1>3, <1>5, <2>1
<1>7. PICK m \in Nat : m = i + 1 /\ d.decode_index = m
  BY DEF KeyStep
<1>8. i < head /\ m <= head /\ m \in 0..n /\ i # n /\ m < n
  BY <1>1, <1>7 DEF Knows
<1>9. /\ c.is_body = TRUE /\ c.is_read_done = FALSE /\ c.is_content_length = FALSE
      /\ c.body_size = IF m >= key + 3 THEN size ELSE 0
  <2>1. m >= key + 3 <=> i >= key + 3
    BY <1>1, <1>6, <1>7
  <2> QED
    BY <1>6, <1>8, <2>1 DEF Knows, Flags
<1>10. /\ d.is_line = FALSE /\ d.is_body = TRUE /\ d.is_read_done = FALSE
       /\ d.body_size = IF m >= key + 3 THEN size ELSE 0
       /\ d.key_start = s - 1
  BY <1>3, <1>9 DEF KeyStep
<1>11. ~(\A j \in 1..m : r[j] # "LF")
  <2>1. s - 1 \in 1..m
    BY <1>3, <1>7
  <2> QED
    BY <1>3, <2>1
<1>12. CASE r[m] = ":"
  <2>1. m < head
    BY <1>1, <1>8, <1>12
  <2>2. /\ d.is_key = FALSE /\ d.is_head = TRUE /\ d.value_start = m
        /\ d.is_content_length = (r[s] \in LengthKeys)
    BY <1>4, <1>7, <1>9, <1>12 DEF KeyStep
  <2>3. s = key <=> m \in {key + 1, key + 2}
    <3>1. ASSUME s = key PROVE m = key + 1
      <4>1. ~(i >= key + 1)
        <5> SUFFICES ASSUME i >= key + 1 PROVE FALSE
          OBVIOUS
        <5>1. key + 1 \in s..i
          BY <1>1, <3>1
        <5> QED
          BY <1>1, <1>3, <5>1
      <4>2. i # key - 1
        <5> SUFFICES ASSUME i = key - 1 PROVE FALSE
          OBVIOUS
        <5>1. m = key /\ key \in 1..n
          BY <1>1, <1>7
        <5>2. r[key] \in LengthKeys
          BY <1>1, <5>1
        <5> QED
          BY <1>12, <5>1, <5>2 DEF LengthKeys
      <4> QED
        BY <1>1, <1>3, <1>7, <3>1, <4>1, <4>2
    <3>2. ASSUME m \in {key + 1, key + 2} PROVE s = key
      <4>1. i = key
        BY <1>1, <1>6, <1>7, <3>2
      <4>2. i \in key..(key + 3)
        BY <1>1, <4>1
      <4> QED
        BY <1>5, <4>2
    <3> QED
      BY <3>1, <3>2
  <2>4. InLine(d, r, m, s)
    <3>1. s \in 2..(m + 1) /\ m \in s..m /\ s..(m - 1) = s..i
      BY <1>3, <1>7
    <3>2. \A j \in s..m : r[j] # "LF"
      <4> SUFFICES ASSUME NEW j \in s..m, j # m PROVE r[j] # "LF"
        BY <1>12
      <4>1. j \in s..i
        BY <1>3, <1>7
      <4> QED
        BY <1>3, <4>1
    <3>3. \A j \in s..(m - 1) : r[j] # ":"
      BY <1>3, <3>1
    <3> QED
      BY <1>3, <1>10, <1>12, <2>2, <3>1, <3>2, <3>3 DEF InLine
  <2>5. s \in 2..(m + 1) /\ ~(m >= head)
    BY <1>1, <1>3, <1>7, <2>1
  <2>6. d.is_content_length = TRUE <=> m \in {key + 1, key + 2}
    BY <1>5, <2>2, <2>3
  <2> QED
    BY <1>7, <1>8, <1>10, <1>11, <2>1, <2>2, <2>4, <2>5, <2>6 DEF Knows
<1>13. CASE r[m] = "LF"
  <2>1. s > head - 2
    <3> SUFFICES ASSUME s <= head - 2 PROVE FALSE
      BY <1>1, <1>3
    <3>1. s \in 2..(head - 2)
      BY <1>1, <1>3
    <3>2. PICK p \in s..(head - 2) : r[p] = ":" /\ \A j \in s..p : r[j] # "LF"
      BY <1>3, <3>1 DEF Shape
    <3>3. p \in Nat
      BY <1>1, <1>3, <3>2
    <3>4. CASE p <= i
      <4>1. p \in s..i
        BY <3>2, <3>3, <3>4
      <4> QED
        BY <1>3, <3>2, <4>1
    <3>5. CASE p > i
      <4>1. m \in s..p
        BY <1>3, <1>7, <3>3, <3>5
      <4> QED
        BY <1>13, <3>2, <4>1
    <3> QED
      BY <3>3, <3>4, <3>5
  <2>2. m = head
    <3>1. s # head
      BY <1>1, <1>3
    <3>2. s = head - 1
      BY <1>1, <1>3, <1>7, <1>8, <2>1, <3>1
    <3>3. m = head - 1 \/ m = head
      BY <1>1, <1>3, <1>7, <1>8, <3>2
    <3> QED
      BY <1>1, <1>13, <3>3
  <2>3. d.is_head = FALSE /\ d.is_key = TRUE /\ d.body_start = head /\ d.is_content_length = FALSE
    BY <1>7, <1>9, <1>13, <2>2 DEF KeyStep
  <2>4. ~(m < head) /\ ~(m \in {key + 1, key + 2})
    BY <1>1, <2>2
  <2> QED
    BY <1>7, <1>8, <1>10, <1>11, <2>3, <2>4 DEF Knows
<1>14. CASE r[m] \notin {":", "LF"}
  <2>1. m < head /\ ~(m >= head)
    BY <1>1, <1>8, <1>14
  <2>2. d.is_key = TRUE /\ d.is_head = TRUE /\ d.is_content_length = FALSE
    BY <1>7, <1>9, <1>14 DEF KeyStep
  <2>3. ~(m \in {key + 1, key + 2})
    BY <1>1, <1>6, <1>7, <1>14
  <2>4. InLine(d, r, m, s)
    <3>1. s \in 2..(m + 1)
      BY <1>3, <1>7
    <3>2. ASSUME NEW j \in s..m PROVE r[j] # "LF" /\ r[j] # ":"
      <4>1. CASE j = m
        BY <1>14, <4>1
      <4>2. CASE j # m
        <5>1. j \in s..i
          BY <1>3, <1>7, <4>2
        <5> QED
          BY <1>3, <5>1
      <4> QED
        BY <4>1, <4>2
    <3> QED
      BY <1>3, <1>10, <2>2, <3>1, <3>2 DEF InLine
  <2>5. s \in 2..(m + 1)
    BY <1>3, <1>7
  <2> QED
    BY <1>7, <1>8, <1>10, <1>11, <2>1, <2>2, <2>3, <2>4, <2>5 DEF Knows
<1> QED
  BY <1>12, <1>13, <1>14

LEMMA KnowsAfterValue ==
    ASSUME NEW r, NEW n, NEW key, NEW head, NEW size, Shape(r, n, key, head, size),
           NEW c, Flags(c), Knows(c, r, n, key, head, size),
           c.is_line = FALSE, c.is_head = TRUE, c.is_key = FALSE,
           NEW i \in Nat, i = c.decode_index, i < n,
           NEW d, Flags(d), ValueStep(c, d, r[i + 1], r[c.value_start + 1])
    PROVE  Knows(d, r, n, key, head, size)
<1>1. /\ n \in Nat /\ key \in Nat /\ head \in Nat /\ 2 <= key /\ key + 6 <= head /\ head < n
      /\ r[key + 1] = ":" /\ r[key + 2] \in {"1", "2"} /\ r[key + 3] = "CR" /\ atoi(r[key + 2]) = size
      /\ r[head - 2] = "LF" /\ r[head - 1] = "CR" /\ r[head] = "LF"
      /\ \A j \in 1..n : r[j] \in LengthKeys <=> j = key
  BY DEF Shape
<1>2. PICK s \in 2..(i + 1) : InLine(c, r, i, s)
  BY DEF Knows
<1>3. PICK v \in Nat : /\ v = c.value_start /\ s \in Nat /\ 2 <= s /\ s <= v /\ v <= i
                       /\ r[s - 1] = "LF" /\ c.key_start = s - 1 /\ r[v] = ":"
                       /\ (\A j \in s..i : r[j] # "LF") /\ \A j \in s..(v - 1) : r[j] # ":"
  BY <1>2 DEF InLine
<1>4. i \in key..(key + 3) => s = key
  BY <1>2, KeyLine
<1>5. r[key] \in LengthKeys /\ r[key] # ":"
  <2>1. key \in 1..n
    BY <1>1
  <2> QED
    BY <1>1, <2>1 DEF LengthKeys
<1>6. i # key
  <2> SUFFICES ASSUME i = key PROVE FALSE
    OBVIOUS
  <2>1. i \in key..(key + 3)
    BY <1>1
  <2>2. s = key
    BY <1>4, <2>1
  <2>3. v = key
    BY <1>1, <1>3, <2>2
  <2> QED
    BY <1>3, <1>5, <2>3
<1>7. i \in {key + 1, key + 2} => v = key + 1
  <2> SUFFICES ASSUME i \in {key + 1, key + 2} PROVE v = key + 1
    OBVIOUS
  <2>1. i \in key..(key + 3)
    BY <1>1
  <2>2. s = key
    BY <1>4, <2>1
  <2>3. v # key
    BY <1>3, <1>5
  <2>4. ~(v > key + 1)
    <3> SUFFICES ASSUME v > key + 1 PROVE FALSE
      OBVIOUS
    <3>1. key + 1 \in s..(v - 1)
      BY <1>1, <1>3, <2>2
    <3> QED
      BY <1>1, <1>3, <3>1
  <2> QED
    BY <1>1, <1>3, <2>2, <2>3, <2>4
<1>8. PICK m \in Nat : m = i + 1 /\ d.decode_index = m
  BY DEF ValueStep
<1>9. i < head /\ m <= head /\ m \in 0..n /\ i # n /\ m < n
  BY <1>1, <1>8 DEF Knows
<1>10. /\ c.is_body = TRUE /\ c.is_read_done = FALSE
       /\ c.is_content_length = TRUE <=> i \in {key + 1, key + 2}
       /\ c.body_size = IF i >= key + 3 THEN size ELSE 0
  BY <1>9 DEF Knows, Flags
<1>11. d.is_line = FALSE /\ d.is_head = TRUE /\ d.is_body = TRUE /\ d.is_read_done = FALSE
  BY <1>10 DEF ValueStep
<1>12. ~(\A j \in 1..m : r[j] # "LF")
  <2>1. s - 1 \in 1..m
    BY <1>3, <1>8
  <2> QED
    BY <1>3, <2>1
<1>13. m < head /\ ~(m >= head)
  <2> SUFFICES ASSUME m = head PROVE FALSE
    BY <1>1, <1>8, <1>9
  <2>1. head - 2 \notin s..i
    BY <1>1, <1>3
  <2>2. s = head - 1 /\ v = head - 1
    BY <1>1, <1>3, <1>8, <2>1
  <2> QED
    BY <1>1, <1>3, <2>2
<1>14. /\ d.is_content_length = TRUE <=> m \in {key + 1, key + 2}
       /\ d.body_size = IF m >= key + 3 THEN size ELSE 0
  <2>1. CASE r[m] = "CR" /\ c.is_content_length = TRUE
    <3>1. i = key + 2
      BY <1>1, <1>8, <1>10, <2>1
    <3>2. c.value_start + 1 = key + 2
      BY <1>1, <1>3, <1>7, <3>1
    <3>3. d.is_content_length = FALSE /\ d.body_size = size
      BY <1>1, <1>8, <2>1, <3>2 DEF ValueStep
    <3>4. m >= key + 3 /\ ~(m \in {key + 1, key + 2})
      BY <1>1, <1>8, <3>1
    <3> QED
      BY <3>3, <3>4
  <2>2. CASE ~(r[m] = "CR" /\ c.is_content_length = TRUE)
    <3>1. i # key + 2
      BY <1>1, <1>8, <1>10, <2>2
    <3>2. (i \in {key + 1, key + 2} <=> m \in {key + 1, key + 2}) /\ (i >= key + 3 <=> m >= key + 3)
      BY <1>1, <1>6, <1>8, <3>1
    <3>3. d.is_content_length = c.is_content_length /\ d.body_size = c.body_size
      BY <1>8, <2>2 DEF ValueStep
    <3> QED
      BY <1>10, <3>2, <3>3
  <2> QED
    BY <2>1, <2>2
<1>15. \E q \in 2..(m + 1) : InLine(d, r, m, q)
  <2>1. CASE r[m] = "LF"
    <3>1. d.is_key = TRUE /\ d.key_start = m
      BY <1>8, <2>1 DEF ValueStep
    <3>2. m + 1 \in 2..(m + 1) /\ (m + 1) - 1 = m /\ (m + 1)..m = {}
      BY <1>8
    <3>3. InLine(d, r, m, m + 1)
      BY <2>1, <3>1, <3>2 DEF InLine
    <3> QED
      BY <3>2, <3>3
  <2>2. CASE r[m] # "LF"
    <3>1. d.is_key = FALSE /\ d.key_start = s - 1 /\ d.value_start = v
      BY <1>3, <1>8, <2>2 DEF ValueStep
    <3>2. s \in 2..(m + 1) /\ v \in s..m
      BY <1>3, <1>8
    <3>3. \A j \in s..m : r[j] # "LF"
      <4> SUFFICES ASSUME NEW j \in s..m, j # m PROVE r[j] # "LF"
        BY <2>2
      <4>1. j \in s..i
        BY <1>3, <1>8
      <4> QED
        BY <1>3, <4>1
    <3>4. InLine(d, r, m, s)
      BY <1>3, <3>1, <3>2, <3>3 DEF InLine
    <3> QED
      BY <3>2, <3>4
  <2> QED
    BY <2>1, <2>2
<1> QED
  BY <1>8, <1>9, <1>11, <1>12, <1>13, <1>14, <1>15 DEF Knows

\* What the buffer holds of request r is read as what was sent.
LEMMA KnowsAfter ==
    ASSUME NEW r, NEW n, NEW key, NEW head, NEW size, Shape(r, n, key, head, size),
           NEW c \in Channel, Knows(c, r, n, key, head, size),
           NEW e \in Nat, e = c.processing_index_now + 1, c.decode_index < e, e <= n,
           \A j \in 0..(e - 1) : Char(j) = r[j + 1]
    PROVE  Knows(DecodeChar(c, c.decode_index), r, n, key, head, size)
<1>1. PICK i \in Nat : i = c.decode_index /\ i < e
  BY DEF Channel
<1>2. c.decode_index <= c.processing_index_now
  BY <1>1 DEF Channel
<1>3. PICK d : d = DecodeChar(c, c.decode_index)
  OBVIOUS
<1>4. d \in Channel
  BY <1>2, <1>3, DecodeCharOK DEF Kept
<1>5. Flags(c) /\ Flags(d)
  BY <1>4, ChannelFlags
<1>6. n \in Nat /\ i < n
  BY <1>1 DEF Shape
<1>7. Char(i) = r[i + 1]
  BY <1>1
<1>8. CASE c.is_line = TRUE
  <2>1. LineStep(c, d, r[i + 1])
    BY <1>1, <1>2, <1>3, <1>7, <1>8, DecodesLine
  <2>2. Knows(d, r, n, key, head, size)
    BY <1>1, <1>5, <1>6, <1>8, <2>1, KnowsAfterLine
  <2> QED
    BY <1>3, <2>2
<1>9. CASE c.is_line = FALSE /\ c.is_head = TRUE
  <2>1. PICK s \in 2..(i + 1) : InLine(c, r, i, s)
    BY <1>1, <1>9 DEF Knows
  <2>2. CASE c.is_key = TRUE
    <3>1. c.key_start \in 0..(e - 1)
      BY <1>1, <2>1 DEF InLine
    <3>2. KeyStep(c, d, r[i + 1], r[c.key_start + 1])
      BY <1>1, <1>2, <1>3, <1>7, <1>9, <2>2, <3>1, DecodesKey
    <3>3. Knows(d, r, n, key, head, size)
      BY <1>1, <1>5, <1>6, <1>9, <2>2, <3>2, KnowsAfterKey
    <3> QED
      BY <1>3, <3>3
  <2>3. CASE c.is_key = FALSE
    <3>1. c.value_start \in 0..(e - 1)
      BY <1>1, <2>1, <2>3 DEF InLine
    <3>2. ValueStep(c, d, r[i + 1], r[c.value_start + 1])
      BY <1>1, <1>2, <1>3, <1>7, <1>9, <2>3, <3>1, DecodesValue
    <3>3. Knows(d, r, n, key, head, size)
      BY <1>1, <1>5, <1>6, <1>9, <2>3, <3>2, KnowsAfterValue
    <3> QED
      BY <1>3, <3>3
  <2> QED
    BY <1>5, <2>2, <2>3 DEF Flags
<1>10. CASE c.is_line = FALSE /\ c.is_head = FALSE
  <2>1. c.is_body = TRUE
    BY <1>1, <1>6 DEF Knows
  <2>2. BodyStep(c, d, e)
    BY <1>2, <1>3, <1>10, <2>1, DecodesBody
  <2>3. Knows(d, r, n, key, head, size)
    BY <1>1, <1>5, <1>10, <2>2, KnowsAfterBody
  <2> QED
    BY <1>3, <2>3
<1> QED
  BY <1>5, <1>8, <1>9, <1>10 DEF Flags
-----------------------------------------------------------------------------
(* Steps *)

\* Nothing is read, decoded, handled or sent, and nothing begins.
Quiet ==
    /\ UNCHANGED <<sent, got, taken, buffer, ch, handled, read_size>>
    /\ \A t \in IoThreads : tpc'[t] = "update" <=> tpc[t] = "update"
    /\ Connecting' => Connecting
    /\ Underway' => Underway
    /\ Replying' => Replying

LEMMA QuietStep == ASSUME HandledInv, Quiet PROVE HandledInv'
<1>1. SentInv' /\ GotInv' /\ BufferInv'
  BY DEF HandledInv, Quiet, SentInv, GotInv, BufferInv
<1>2. HandledRight'
  BY DEF HandledInv, Quiet, HandledRight
<1>3. PICK b : b = End(Len(handled)) /\ b = End(Len(handled))'
  BY DEF Quiet, End, Ends
<1>4. ASSUME Underway' PROVE Fetched(b)' /\ Loaded(b)' /\ Decoded(ch, Len(handled) + 1)'
  <2>1. Underway
    BY <1>4 DEF Quiet
  <2>2. Fetched(b) /\ Loaded(b) /\ Decoded(ch, Len(handled) + 1)
    BY <1>3, <2>1 DEF HandledInv, ReadInv
  <2>3. Fetched(b)'
    BY <2>2 DEF Fetched, Quiet, InThread
  <2>4. Loaded(b)'
    BY <2>2 DEF Loaded, Quiet
  <2>5. Decoded(ch, Len(handled) + 1)'
    BY <2>2 DEF Decoded, Quiet, Knows, Unread, InLine
  <2> QED
    BY <2>3, <2>4, <2>5
<1>5. ReadInv'
  BY <1>3, <1>4 DEF HandledInv, ReadInv, Quiet
<1> QED
  BY <1>1, <1>2, <1>5 DEF HandledInv

LEMMA EpollWaitWhole == ASSUME ChannelInv, HandledInv, EpollWait PROVE HandledInv'
<1>1. /\ UNCHANGED <<sent, got, taken, buffer, ch, handled, read_size, tpc, tasks, upstream, responder, peer>>
      /\ ready = TRUE /\ ready' = FALSE /\ fetched = "none" /\ fetched' = EventFor(armed)
      /\ armed' \in {armed, "off"}
  BY DEF EpollWait, ChannelInv, Shapes
<1>2. /\ fetched' = "read" => armed \in {"edge", "in"} /\ peer = "open"
      /\ fetched' = "write" => armed = "out" /\ peer = "open"
  BY <1>1 DEF EventFor, ChannelInv, Shapes
<1>3. Connecting' <=> Connecting
  BY <1>1 DEF Connecting, InThread
<1>4. armed \in {"in", "edge"} => ~Connecting
  BY DEF ChannelInv, EpollInv
<1>5. Underway' => Underway
  BY <1>1, <1>2, <1>3, <1>4 DEF Underway, BeingRead, InThread
<1>6. Replying' => Replying
  BY <1>1, <1>2 DEF Replying, Called, Filled, InThread
<1> QED
  BY <1>1, <1>3, <1>5, <1>6, QuietStep DEF Quiet

LEMMA HandleEventWhole == ASSUME ChannelInv, HandledInv, HandleEvent PROVE HandledInv'
<1>1. /\ UNCHANGED <<sent, got, taken, buffer, ch, handled, read_size, tpc, upstream, responder, peer, ready>>
      /\ fetched # "none" /\ fetched' = "none" /\ armed' \in {armed, "deleted"}
  BY DEF HandleEvent
<1>2. /\ fetched = "read" => tasks' = <<"read">>
      /\ fetched = "write" => tasks' = <<"write">>
      /\ fetched \notin {"read", "write"} => tasks' = tasks
  <2>1. fetched \in {"read", "write"} => tasks = <<>>
    BY DEF ChannelInv, TokenInv, Event
  <2>2. \A f : Append(<<>>, f) = <<f>>
    OBVIOUS
  <2>3. CASE fetched = "read"
    BY <2>1, <2>2, <2>3 DEF HandleEvent, hs_io_do_read
  <2>4. CASE fetched = "write"
    BY <2>1, <2>2, <2>4 DEF HandleEvent, hs_io_do_write
  <2>5. CASE fetched \notin {"read", "write"}
    BY <2>5 DEF HandleEvent
  <2> QED
    BY <2>3, <2>4, <2>5
<1>3. /\ Connecting' => Connecting
      /\ fetched = "read" => ~Connecting
  <2>1. fetched \in {"read", "write"} => Idle /\ tasks = <<>>
    BY DEF ChannelInv, TokenInv, Event
  <2>2. <<"read">> # <<"connect">> /\ <<"write">> # <<"connect">> /\ <<>> # <<"connect">>
    OBVIOUS
  <2> QED
    BY <1>1, <1>2, <2>1, <2>2 DEF Connecting, InThread, Idle
<1>4. Underway' => Underway
  <2>1. BeingRead' => BeingRead
    BY <1>1, <1>2 DEF BeingRead, InThread
  <2>2. Connecting => Connecting'
    <3>1. Connecting => fetched \notin {"read", "write"}
      <4>1. armed = "none" <=> Connecting
        BY DEF ChannelInv, EpollInv
      <4> QED
        BY <4>1 DEF ChannelInv, EpollInv
    <3> QED
      BY <1>1, <1>2, <3>1 DEF Connecting, InThread
  <2> QED
    BY <1>1, <2>1, <2>2 DEF Underway
<1>5. Replying' => Replying
  BY <1>1, <1>2 DEF Replying, Called, Filled, InThread
<1> QED
  BY <1>1, <1>3, <1>4, <1>5, QuietStep DEF Quiet

LEMMA StartTaskWhole == ASSUME ChannelInv, HandledInv, NEW t \in IoThreads, StartTask(t) PROVE HandledInv'
<1>1. /\ UNCHANGED <<sent, got, taken, buffer, ch, handled, read_size, upstream, responder, peer, ready, armed, fetched>>
      /\ tasks # <<>> /\ tpc[t] = "idle" /\ tpc' = [tpc EXCEPT ![t] = Head(tasks)] /\ tasks' = Tail(tasks)
  BY DEF StartTask, ThreadStep
<1>2. PICK f \in {"connect", "read", "write"} : f = Head(tasks) /\ tasks = <<f>> /\ tasks' = <<>>
  BY <1>1, OneTask DEF ChannelInv, Shapes, TokenInv
<1>3. \A u \in IoThreads : tpc[u] = "idle" /\ tpc'[u] = IF u = t THEN f ELSE "idle"
  BY <1>1, <1>2 DEF ChannelInv, TokenInv, Idle, Shapes
<1>4. Connecting' <=> Connecting
  BY <1>2, <1>3 DEF Connecting, InThread
<1>5. Underway' => Underway
  <2>1. BeingRead' => BeingRead
    BY <1>1, <1>2, <1>3 DEF BeingRead, InThread, ChannelInv, EpollInv, Connecting
  <2> QED
    BY <1>1, <1>4, <2>1 DEF Underway
<1>6. Replying' => Replying
  BY <1>1, <1>2, <1>3 DEF Replying, Called, Filled, InThread
<1> QED
  BY <1>1, <1>2, <1>3, <1>4, <1>5, <1>6, QuietStep DEF Quiet

\* The thread t, alone with the channel, goes to pc.
Moves(t, pc) ==
    /\ \A u \in IoThreads : u # t => tpc[u] = "idle"
    /\ \A u \in IoThreads : tpc'[u] = IF u = t THEN pc ELSE "idle"
    /\ tasks = <<>> /\ fetched \notin {"read", "write"}

LEMMA ThreadMoves ==
    ASSUME ChannelInv, NEW t \in IoThreads, NEW from, NEW pc, ThreadStep(t, from, pc), from # "idle"
    PROVE  Moves(t, pc) /\ tpc[t] = from
  BY Alone DEF ThreadStep, Moves, Event, ChannelInv, Shapes

LEMMA DecodeEndWhole == ASSUME ChannelInv, HandledInv, NEW t \in IoThreads, DecodeEnd(t) PROVE HandledInv'
<1>1. /\ UNCHANGED <<sent, got, taken, buffer, ch, handled, read_size, upstream, responder, peer, ready, armed, fetched, tasks>>
  BY DEF DecodeEnd
<1>2. PICK pc \in {"handle", "check"} : ThreadStep(t, "decode", pc)
  BY DEF DecodeEnd
<1>3. Moves(t, pc) /\ tpc[t] = "decode"
  BY <1>2, ThreadMoves
<1>4. ~Connecting /\ ~Connecting'
  BY <1>1, <1>3 DEF Connecting, InThread, Moves
<1>5. Underway
  BY <1>3, <1>4 DEF Underway, BeingRead, InThread
<1>6. Replying' => Replying
  BY <1>1, <1>3 DEF Replying, Called, Filled, InThread, Moves
<1> QED
  BY <1>1, <1>3, <1>4, <1>5, <1>6, QuietStep DEF Quiet, Moves

LEMMA RespondFailedModWhole ==
    ASSUME ChannelInv, HandledInv, NEW t \in IoThreads, RespondFailedMod(t) PROVE HandledInv'
<1>1. /\ UNCHANGED <<sent, got, taken, buffer, ch, handled, read_size, upstream, responder, peer, fetched, tasks>>
      /\ armed' \in {armed, "out"}
  BY DEF RespondFailedMod, hs_epoll_mod
<1>2. Moves(t, "check") /\ tpc[t] = "failmod"
  BY ThreadMoves DEF RespondFailedMod
<1>3. ~Connecting /\ ~Connecting'
  BY <1>1, <1>2 DEF Connecting, InThread, Moves
<1>4. ch.is_read_done = TRUE /\ ~(armed \in {"in", "none"}) /\ upstream = {} /\ responder = "idle"
  BY <1>2, <1>3, Alone DEF ChannelInv, TokenInv, EpollInv, Busy, Registered
<1>5. armed = "edge" => CanMod
  BY <1>2, Alone DEF CanMod
<1>6. armed' # "edge"
  BY <1>1, <1>5 DEF RespondFailedMod, hs_epoll_mod
<1>7. ~Underway'
  BY <1>1, <1>2, <1>4, <1>6 DEF Underway, BeingRead, InThread, Moves
<1>8. Replying
  BY <1>2 DEF Replying, Filled, InThread
<1> QED
  BY <1>1, <1>2, <1>3, <1>7, <1>8, QuietStep DEF Quiet, Moves

LEMMA CheckReadDoneWhole ==
    ASSUME ChannelInv, HandledInv, NEW t \in IoThreads, CheckReadDone(t) PROVE HandledInv'
<1>1. /\ UNCHANGED <<sent, got, taken, buffer, ch, handled, read_size, upstream, responder, peer, ready, armed, fetched, tasks>>
  BY DEF CheckReadDone
<1>2. PICK pc \in {"idle", "rearm"} :
          ThreadStep(t, "check", pc) /\ (pc = "rearm" => ch.is_read_done = FALSE)
  BY DEF CheckReadDone, ChannelInv, Shapes, Channel
<1>3. Moves(t, pc) /\ tpc[t] = "check"
  BY <1>2, ThreadMoves
<1>4. ~Connecting /\ ~Connecting'
  BY <1>1, <1>3 DEF Connecting, InThread, Moves
<1>5. Underway' => Underway
  BY <1>1, <1>2, <1>3, <1>4 DEF Underway, BeingRead, InThread, Moves
<1>6. Replying' => Replying
  BY <1>1, <1>3 DEF Replying, Called, Filled, InThread, Moves
<1> QED
  BY <1>1, <1>3, <1>4, <1>5, <1>6, QuietStep DEF Quiet, Moves

LEMMA RearmWhole == ASSUME ChannelInv, HandledInv, NEW t \in IoThreads, Rearm(t) PROVE HandledInv'
<1>1. /\ UNCHANGED <<sent, got, taken, buffer, ch, handled, read_size, upstream, responder, peer, fetched, tasks>>
      /\ armed' \in {armed, "in"}
  BY DEF Rearm, hs_epoll_mod
<1>2. Moves(t, "idle") /\ tpc[t] = "rearm"
  BY ThreadMoves DEF Rearm
<1>3. ~Connecting /\ ~Connecting'
  BY <1>1, <1>2 DEF Connecting, InThread, Moves
<1>4. Underway
  BY <1>2, <1>3 DEF Underway, BeingRead, InThread
<1>5. Replying' => Replying
  BY <1>1, <1>2 DEF Replying, Called, Filled, InThread, Moves
<1> QED
  BY <1>1, <1>2, <1>3, <1>4, <1>5, QuietStep DEF Quiet, Moves

LEMMA RespondModWhole == ASSUME ChannelInv, HandledInv, RespondMod PROVE HandledInv'
<1>1. /\ UNCHANGED <<sent, got, taken, buffer, ch, handled, read_size, upstream, peer, fetched, tasks, tpc>>
      /\ armed' \in {armed, "out"} /\ responder = "mod" /\ responder' = "idle"
      /\ armed' = armed => armed = "out" \/ armed = "deleted" \/ released = TRUE
  BY DEF RespondMod, hs_epoll_mod, CanMod, ChannelInv, Shapes
<1>2. released = FALSE
  BY <1>1 DEF ChannelInv, EpollInv, Nobody, Shapes
<1>3. Connecting' <=> Connecting
  BY <1>1 DEF Connecting, InThread
<1>4. Replying
  BY <1>1 DEF Replying, Filled
<1>5. Underway' => Underway
  BY <1>1, <1>2, <1>3 DEF Underway, BeingRead, InThread
<1> QED
  BY <1>1, <1>3, <1>4, <1>5, QuietStep DEF Quiet

LEMMA StartWriteWhole == ASSUME ChannelInv, HandledInv, NEW t \in IoThreads, StartWrite(t) PROVE HandledInv'
<1>1. Moves(t, "send") /\ tpc[t] = "write"
  BY ThreadMoves DEF StartWrite
<1>2. Filled
  BY <1>1 DEF Filled, InThread
<1>3. ~(Left <= 0)
  <2>1. ch.write_size = ResponseSize /\ ch.write_index < ResponseSize
    BY <1>2 DEF ChannelInv, ReplyInv, SentSoFar
  <2>2. ch.write_index \in 0..ResponseSize
    BY ChannelFields DEF ChannelInv, Shapes
  <2> QED
    BY <2>1, <2>2, Numbers DEF Left
<1>4. UNCHANGED <<sent, got, taken, buffer, ch, handled, read_size, upstream, responder, peer, ready, armed, fetched, tasks>>
  BY <1>3 DEF StartWrite
<1>5. ~Connecting /\ ~Connecting'
  BY <1>1, <1>4 DEF Connecting, InThread, Moves
<1>6. Underway' => Underway
  BY <1>1, <1>4, <1>5 DEF Underway, BeingRead, InThread, Moves
<1> QED
  BY <1>1, <1>2, <1>4, <1>5, <1>6, QuietStep DEF Quiet, Moves, Replying

LEMMA SendErrorWhole == ASSUME ChannelInv, HandledInv, NEW t \in IoThreads, SendError(t) PROVE HandledInv'
<1>1. /\ UNCHANGED <<sent, got, taken, buffer, ch, handled, read_size, upstream, responder, peer, fetched, tasks>>
      /\ armed' = "deleted"
  BY DEF SendError, CloseAndRelease
<1>2. Moves(t, "idle") /\ tpc[t] = "send"
  BY ThreadMoves DEF SendError
<1>3. ~Connecting'
  BY <1>1, <1>2 DEF Connecting, InThread, Moves
<1>4. ~Underway'
  BY <1>1, <1>2 DEF Underway, BeingRead, InThread, Moves
<1>5. Replying
  BY <1>2 DEF Replying, Filled, InThread
<1> QED
  BY <1>1, <1>2, <1>3, <1>4, <1>5, QuietStep DEF Quiet, Moves

LEMMA WriterModWhole == ASSUME ChannelInv, HandledInv, NEW t \in IoThreads, WriterMod(t) PROVE HandledInv'
<1>1. UNCHANGED <<sent, got, taken, buffer, ch, handled, read_size, upstream, responder, peer, fetched, tasks>>
  BY DEF WriterMod
<1>2. PICK from \in {"modin", "modout"} :
          /\ ThreadStep(t, from, "idle")
          /\ from = "modin" => armed' \in {"in", "deleted"}
          /\ from = "modout" => armed' \in {"out", "deleted"}
  BY DEF WriterMod, hs_epoll_mod, CloseAndRelease
<1>3. Moves(t, "idle") /\ tpc[t] = from
  BY <1>2, ThreadMoves
<1>4. ~Connecting /\ ~Connecting'
  BY <1>1, <1>3 DEF Connecting, InThread, Moves
<1>5. Underway' => Underway
  BY <1>1, <1>2, <1>3, <1>4 DEF Underway, BeingRead, InThread, Moves
<1>6. Replying' => Replying
  <2>1. armed' = "out" /\ peer' = "open" => tpc[t] = "modout" /\ peer = "open"
    BY <1>1, <1>2, <1>3
  <2> QED
    BY <1>1, <1>3, <2>1 DEF Replying, Called, Filled, InThread, Moves
<1> QED
  BY <1>1, <1>3, <1>4, <1>5, <1>6, QuietStep DEF Quiet, Moves

LEMMA BreakWhole == ASSUME ChannelInv, HandledInv, Break PROVE HandledInv'
<1>1. /\ UNCHANGED <<sent, got, taken, buffer, ch, handled, read_size, upstream, responder, armed, fetched, tasks, tpc>>
      /\ peer' # "open"
  BY DEF Break
<1>2. Connecting' <=> Connecting
  BY <1>1 DEF Connecting, InThread
<1>3. Underway' => Underway
  BY <1>1, <1>2 DEF Underway, BeingRead, InThread
<1>4. Replying' => Replying
  BY <1>1 DEF Replying, Called, Filled, InThread
<1> QED
  BY <1>1, <1>2, <1>3, <1>4, QuietStep DEF Quiet

LEMMA DrainWhole == ASSUME ChannelInv, HandledInv, Drain PROVE HandledInv'
<1>1. /\ UNCHANGED <<sent, got, taken, buffer, ch, handled, read_size, upstream, responder, armed, fetched, tasks, tpc, peer>>
      /\ txfull = TRUE
  BY DEF Drain, ChannelInv, Shapes
<1>2. armed # "edge"
  BY <1>1 DEF ChannelInv, EpollInv
<1>3. Connecting' <=> Connecting
  BY <1>1 DEF Connecting, InThread
<1>4. Underway' => Underway
  BY <1>1, <1>2, <1>3 DEF Underway, BeingRead, InThread
<1>5. Replying' => Replying
  BY <1>1 DEF Replying, Called, Filled, InThread
<1> QED
  BY <1>1, <1>3, <1>4, <1>5, QuietStep DEF Quiet

LEMMA UnreadDecoded ==
    ASSUME NEW c, Unread(c), NEW k \in Nat \ {0}
    PROVE  Decoded(c, k)
<1>1. CASE k <= Len(Requests)
  <2>1. k \in 1..Len(Requests)
    BY <1>1, RequestFacts
  <2>2. PICK r, n, key, head, size :
            /\ r = Requests[k] /\ n = Len(r) /\ key = LengthKey(r) /\ head = HeadSize(r) /\ size = BodySize(r)
            /\ Shape(r, n, key, head, size)
    BY <2>1, RequestShape
  <2>3. /\ 0 \in 0..n /\ 0 < head /\ 0 < n /\ 0 # n /\ 0 \notin {key + 1, key + 2} /\ ~(0 >= key + 3)
        /\ ~(0 >= head) /\ 1..0 = {}
    <3>1. /\ n \in Nat /\ key \in Nat /\ head \in Nat /\ size \in 1..2
          /\ head + size = n /\ 2 <= key /\ key + 6 <= head
      BY <2>2 DEF Shape
    <3> QED
      BY <3>1
  <2>4. Knows(c, r, n, key, head, size)
    BY <2>3 DEF Knows, Unread
  <2> QED
    BY <1>1, <2>2, <2>4 DEF Decoded
<1>2. CASE ~(k <= Len(Requests))
  BY <1>2 DEF Decoded
<1> QED
  BY <1>1, <1>2

LEMMA InitUnread ==
    ASSUME NEW c \in Channel
    PROVE  Unread(hs_init_channel(c)) /\ hs_init_channel(c).read_index = 0
  BY DEF hs_init_channel, Channel, Unread

\* The decoder has not gone on.
Alike(c, d) ==
    /\ d.decode_index = c.decode_index /\ d.is_line = c.is_line /\ d.is_key = c.is_key
    /\ d.is_head = c.is_head /\ d.is_body = c.is_body /\ d.is_read_done = c.is_read_done
    /\ d.is_content_length = c.is_content_length /\ d.body_size = c.body_size
    /\ d.body_start = c.body_start /\ d.key_start = c.key_start /\ d.value_start = c.value_start

LEMMA AlikeDecoded ==
    ASSUME NEW c, NEW d, NEW k, Alike(c, d), Decoded(c, k)
    PROVE  Decoded(d, k)
<1>1. CASE k <= Len(Requests)
  <2>1. PICK r, n, key, head, size :
            /\ r = Requests[k] /\ n = Len(r) /\ key = LengthKey(r) /\ head = HeadSize(r) /\ size = BodySize(r)
            /\ Knows(c, r, n, key, head, size)
    BY <1>1 DEF Decoded
  <2>2. \A i, s : InLine(c, r, i, s) => InLine(d, r, i, s)
    BY DEF Alike, InLine
  <2>3. Knows(d, r, n, key, head, size)
    BY <2>1, <2>2 DEF Knows, Alike
  <2> QED
    BY <1>1, <2>1, <2>3 DEF Decoded
<1>2. CASE ~(k <= Len(Requests))
  BY <1>2 DEF Decoded, Unread, Alike
<1> QED
  BY <1>1, <1>2

LEMMA Factor ==
    ASSUME NEW r \in Nat \ {0}, NEW a \in Nat, NEW h \in Nat, a * r <= h * r
    PROVE  a <= h
<1> SUFFICES ASSUME h + 1 <= a PROVE FALSE
  OBVIOUS
<1>1. PICK x \in Nat : a = h + 1 + x
  <2>1. a - (h + 1) \in Nat /\ a = h + 1 + (a - (h + 1))
    OBVIOUS
  <2> QED
    BY <2>1
<1>2. (h + 1 + x) * r = h * r + r + x * r
  OBVIOUS
<1>3. PICK p \in Nat, q \in Nat : p = h * r /\ q = x * r
  OBVIOUS
<1> QED
  BY <1>1, <1>2, <1>3

\* While request h + 1 is read, no more has been sent than it and those before.
Within(h, b) ==
    /\ h \in 0..Len(Requests) /\ b = End(h) /\ b \in Nat
    /\ h < Len(Requests) => sent <= b + Len(Requests[h + 1])
    /\ h = Len(Requests) => sent <= b

LEMMA UnderwayWithin ==
    ASSUME ChannelInv, HandledInv, Underway
    PROVE  Within(Len(handled), End(Len(handled)))
<1>0. PICK n \in Nat : n = Len(Requests)
  BY RequestFacts
<1>1. PICK h \in 0..n : h = Len(handled)
  BY <1>0 DEF HandledInv, HandledRight, ChannelInv, Shapes
<1>2. PICK r \in Nat \ {0} : r = ResponseSize
  BY Numbers
<1>3. Len(got) = h * r
  <2>1. CASE BeingRead
    BY <1>1, <1>2, <2>1 DEF ChannelInv, ReplyInv
  <2>2. CASE ~BeingRead
    <3>1. got = <<>> /\ handled = <<>>
      BY <2>2 DEF Underway, ChannelInv, EpollInv
    <3>2. Len(got) = 0 /\ h = 0
      BY <1>1, <3>1
    <3> QED
      BY <3>2
  <2> QED
    BY <2>1, <2>2
<1>4. PICK m \in 0..n : sent <= End(m) /\ (m = 0 \/ (m - 1) * r <= h * r)
  BY <1>0, <1>2, <1>3 DEF HandledInv, SentInv
<1>5. m <= h + 1
  <2>1. CASE m = 0
    BY <2>1
  <2>2. CASE m # 0
    <3>1. PICK a \in Nat : a = m - 1 /\ a * r <= h * r
      BY <1>4, <2>2
    <3>2. a <= h
      BY <3>1, Factor
    <3> QED
      BY <3>1, <3>2
  <2> QED
    BY <2>1, <2>2
<1>6. PICK b \in Nat : b = End(h)
  BY <1>0, EndFacts
<1>7. sent \in Nat /\ End(m) \in Nat
  BY <1>0, EndFacts DEF ChannelInv, Shapes
<1>8. ASSUME h < n PROVE sent <= b + Len(Requests[h + 1])
  <2>1. h + 1 \in 1..n /\ h + 1 \in 0..n /\ (h + 1) - 1 = h
    BY <1>8
  <2>2. End(h + 1) = b + Len(Requests[h + 1]) /\ End(h + 1) \in Nat
    BY <1>0, <1>6, <2>1, EndFacts DEF Places
  <2>3. End(m) <= End(h + 1)
    BY <1>0, <1>5, <2>1, EndsOrdered
  <2> QED
    BY <1>4, <1>7, <2>2, <2>3
<1>9. ASSUME h = n PROVE sent <= b
  <2>1. m <= h
    BY <1>9
  <2>2. End(m) <= End(h)
    BY <1>0, <2>1, EndsOrdered
  <2> QED
    BY <1>4, <1>6, <1>7, <2>2
<1> QED
  BY <1>0, <1>1, <1>6, <1>8, <1>9 DEF Within

LEMMA hs_new_connectionWhole ==
    ASSUME ChannelInv, HandledInv, NEW t \in IoThreads, hs_new_connection(t)
    PROVE  HandledInv'
<1>1. /\ UNCHANGED <<sent, got, taken, peer, buffer, handled, read_size, upstream, responder, fetched, tasks>>
      /\ armed' = "edge" /\ ch' = hs_init_channel(ch)
  BY DEF hs_new_connection
<1>2. Moves(t, "idle") /\ tpc[t] = "connect"
  BY ThreadMoves DEF hs_new_connection
<1>3. Connecting
  BY <1>2 DEF Connecting, InThread
<1>4. taken = 0 /\ handled = <<>> /\ upstream = {} /\ responder = "idle"
  BY <1>2, <1>3, Alone DEF HandledInv, ReadInv, ChannelInv, EpollInv, Busy
<1>5. ~Connecting'
  BY <1>1, <1>2 DEF Connecting, InThread, Moves
<1>6. ~Replying'
  BY <1>1, <1>2, <1>4 DEF Replying, Called, Filled, InThread, Moves
<1>7. Unread(ch') /\ ch'.read_index = 0
  BY <1>1, InitUnread DEF ChannelInv, Shapes
<1>8. Len(handled') = 0 /\ End(Len(handled')) = 0
  BY <1>1, <1>4, EndFacts
<1>9. Fetched(0)' /\ Loaded(0)'
  <2>1. taken' = 0 /\ \A u \in IoThreads : tpc'[u] # "update"
    BY <1>1, <1>2, <1>4 DEF Moves
  <2>2. Fetched(0)'
    BY <1>7, <2>1 DEF Fetched
  <2>3. \A i \in 0..(BufferSize - 1) : ~(0 + i + 1 <= 0)
    BY Numbers
  <2>4. Loaded(0)'
    BY <2>1, <2>3 DEF Loaded
  <2> QED
    BY <2>2, <2>4
<1>10. Decoded(ch', Len(handled') + 1)
  BY <1>7, <1>8, UnreadDecoded
<1>11. Decoded(ch, Len(handled) + 1)'
  BY <1>10 DEF Decoded
<1>12. PICK b : b = 0 /\ b = End(Len(handled)) /\ b = End(Len(handled))'
  BY <1>1, <1>8 DEF End, Ends
<1>13. ReadInv'
  BY <1>5, <1>6, <1>9, <1>11, <1>12 DEF ReadInv
<1>14. SentInv' /\ GotInv' /\ BufferInv' /\ HandledRight'
  BY <1>1 DEF HandledInv, SentInv, GotInv, BufferInv, HandledRight
<1> QED
  BY <1>13, <1>14 DEF HandledInv

\* The facts that do not change when nothing is sent, received or handled.
LEMMA RestKept ==
    ASSUME HandledInv, UNCHANGED <<sent, got, handled>>
    PROVE  SentInv' /\ GotInv' /\ HandledRight'
  BY DEF HandledInv, SentInv, GotInv, HandledRight

\* Where the current request begins.
LEMMA BaseOf ==
    ASSUME ChannelInv, HandledInv
    PROVE  \E h, b \in Nat : h = Len(handled) /\ h \in 0..Len(Requests) /\ b = End(h)
<1>1. Len(handled) \in 0..Len(Requests)
  <2>1. Len(handled) \in Nat /\ Len(handled) <= Len(Requests)
    BY DEF HandledInv, HandledRight, ChannelInv, Shapes
  <2> QED
    BY <2>1, RequestFacts
<1>2. Len(handled) \in Nat /\ End(Len(handled)) \in Nat
  BY <1>1, EndFacts, RequestFacts
<1> QED
  BY <1>1, <1>2

LEMMA RecvWhole == ASSUME ChannelInv, HandledInv, NEW t \in IoThreads, Recv(t) PROVE HandledInv'
<1>1. /\ UNCHANGED <<sent, got, peer, ch, handled, upstream, responder, fetched, tasks, armed, ready>>
  BY DEF Recv
<1>2. PICK pc \in {"rearm", "update"} : ThreadStep(t, "read", pc) /\ (pc = "rearm" => sent - taken = 0)
  BY DEF Recv, Available
<1>3. Moves(t, pc) /\ tpc[t] = "read"
  BY <1>2, ThreadMoves
<1>4. PICK x \in Nat : x = ch.read_index /\ x <= BufferSize
  <2>1. ch.read_index \in 0..BufferSize
    BY ChannelFields DEF ChannelInv, Shapes
  <2> QED
    BY <2>1, Numbers
<1>5. PICK n \in Nat :
          /\ n <= sent - taken /\ n <= BufferSize - x /\ (sent - taken = 0 => n = 0)
          /\ taken' = taken + n /\ read_size'[t] = n
          /\ buffer' = [i \in DOMAIN buffer |->
                          IF i \in x..(x + n - 1) THEN taken + 1 + (i - x) ELSE buffer[i]]
  <2>1. sent - taken \in Nat /\ BufferSize - x \in Nat
    BY <1>4, Numbers DEF ChannelInv, Shapes
  <2>2. PICK n \in Nat : n = Least(Available, BufferSize - ch.read_index)
    BY <1>4, <2>1 DEF Least, Available
  <2>3. n <= sent - taken /\ n <= BufferSize - x /\ (sent - taken = 0 => n = 0)
    BY <1>4, <2>1, <2>2 DEF Least, Available
  <2>4. taken' = taken + n /\ read_size' = [read_size EXCEPT ![t] = n]
    BY <2>2 DEF Recv
  <2>5. read_size'[t] = n
    BY <2>4 DEF ChannelInv, Shapes
  <2>6. buffer' = [i \in DOMAIN buffer |->
                     IF i \in x..(x + n - 1) THEN taken + 1 + (i - x) ELSE buffer[i]]
    BY <1>4, <2>2 DEF Recv
  <2> QED
    BY <2>3, <2>4, <2>5, <2>6
<1>6. ~Connecting /\ ~Connecting'
  BY <1>1, <1>3 DEF Connecting, InThread, Moves
<1>7. Underway
  BY <1>3, <1>6 DEF Underway, BeingRead, InThread
<1>8. PICK h \in Nat, b \in Nat : h = Len(handled) /\ b = End(h)
  BY BaseOf
<1>9. taken \in Nat /\ sent \in Nat /\ taken = b + x
  <2>1. ~InThread({"update"})
    BY <1>3 DEF InThread, Moves
  <2> QED
    BY <1>4, <1>7, <1>8, <2>1 DEF HandledInv, ReadInv, Fetched, ChannelInv, Shapes
<1>10. Fetched(b)'
  <2>1. CASE pc = "update"
    <3>1. \A u \in IoThreads : tpc'[u] = "update" <=> u = t
      BY <1>3, <2>1 DEF Moves
    <3>2. taken' = b + x + n
      BY <1>5, <1>9
    <3> QED
      BY <1>1, <1>4, <1>5, <3>1, <3>2 DEF Fetched, InThread
  <2>2. CASE pc = "rearm"
    <3>1. \A u \in IoThreads : tpc'[u] # "update"
      BY <1>3, <2>2 DEF Moves
    <3>2. taken' = b + x
      BY <1>2, <1>5, <1>9, <2>2
    <3> QED
      BY <1>1, <1>4, <3>1, <3>2 DEF Fetched, InThread
  <2> QED
    BY <2>1, <2>2
<1>11. ASSUME NEW i \in 0..(BufferSize - 1)
       PROVE  buffer'[i] = IF i \in x..(x + n - 1) THEN taken + 1 + (i - x) ELSE buffer[i]
  BY <1>5 DEF ChannelInv, Shapes
<1>12. Loaded(b)'
  <2> SUFFICES ASSUME NEW i \in 0..(BufferSize - 1), b + i + 1 <= taken' PROVE buffer'[i] = b + i + 1
    BY DEF Loaded
  <2>1. i \in Nat /\ b + i + 1 <= b + x + n
    BY <1>5, <1>9, Numbers
  <2>2. CASE i < x
    <3>1. i \notin x..(x + n - 1) /\ b + i + 1 <= taken
      BY <1>9, <2>1, <2>2
    <3>2. buffer[i] = b + i + 1
      BY <1>7, <1>8, <3>1 DEF HandledInv, ReadInv, Loaded
    <3> QED
      BY <1>11, <3>1, <3>2
  <2>3. CASE x <= i
    <3>1. i \in x..(x + n - 1) /\ taken + 1 + (i - x) = b + i + 1
      BY <1>9, <2>1, <2>3
    <3> QED
      BY <1>11, <3>1
  <2> QED
    BY <2>1, <2>2, <2>3
<1>13. BufferInv'
  <2> SUFFICES ASSUME NEW i \in 0..(BufferSize - 1) PROVE buffer'[i] <= sent'
    BY DEF BufferInv
  <2>1. CASE i \in x..(x + n - 1)
    <3>1. taken + 1 + (i - x) <= sent
      BY <1>5, <1>9, <2>1
    <3> QED
      BY <1>1, <1>11, <2>1, <3>1
  <2>2. CASE i \notin x..(x + n - 1)
    BY <1>1, <1>11, <2>2 DEF HandledInv, BufferInv
  <2> QED
    BY <2>1, <2>2
<1>14. Decoded(ch, Len(handled) + 1)'
  <2>1. Decoded(ch, Len(handled) + 1)
    BY <1>7 DEF HandledInv, ReadInv
  <2> QED
    BY <1>1, <2>1 DEF Decoded, Knows, InLine, Unread
<1>15. ~Replying'
  <2>1. upstream = {} /\ responder = "idle" /\ ~Registered
    BY <1>3, Alone DEF Busy
  <2> QED
    BY <1>1, <1>3, <2>1 DEF Replying, Called, Filled, InThread, Moves, Registered
<1>16. b = End(Len(handled))'
  BY <1>1, <1>8 DEF End, Ends
<1>17. ReadInv'
  BY <1>6, <1>10, <1>12, <1>14, <1>15, <1>16 DEF ReadInv
<1> QED
  BY <1>1, <1>13, <1>17, RestKept DEF HandledInv

LEMMA RecvErrorWhole == ASSUME ChannelInv, HandledInv, NEW t \in IoThreads, RecvError(t) PROVE HandledInv'
<1>1. /\ UNCHANGED <<sent, got, buffer, handled, upstream, responder, fetched, tasks, armed, ready>>
      /\ peer' = "gone"
  BY DEF RecvError
<1>2. Moves(t, "modout") /\ tpc[t] = "read"
  BY ThreadMoves DEF RecvError
<1>3. ~Connecting /\ ~Connecting'
  BY <1>1, <1>2 DEF Connecting, InThread, Moves
<1>4. upstream = {} /\ responder = "idle" /\ ~Registered /\ armed # "none"
  BY <1>2, <1>3, Alone DEF Busy, ChannelInv, EpollInv
<1>5. ~(armed = "edge" /\ sent = 0)
  BY <1>2 DEF ChannelInv, EpollInv, Nobody, Idle
<1>6. ~Underway'
  BY <1>1, <1>2, <1>4, <1>5 DEF Underway, BeingRead, InThread, Moves, Registered
<1>7. ~Replying'
  BY <1>1, <1>2, <1>4 DEF Replying, Called, Filled, InThread, Moves, Registered
<1>8. ReadInv'
  BY <1>3, <1>6, <1>7 DEF ReadInv
<1>9. BufferInv'
  BY <1>1 DEF HandledInv, BufferInv
<1> QED
  BY <1>1, <1>8, <1>9, RestKept DEF HandledInv

LEMMA UpdateIndexesWhole ==
    ASSUME ChannelInv, HandledInv, NEW t \in IoThreads, UpdateIndexes(t) PROVE HandledInv'
<1>1. UNCHANGED <<sent, got, taken, peer, buffer, handled, upstream, responder, fetched, tasks, armed, ready, read_size>>
  BY DEF UpdateIndexes
<1>2. Moves(t, "decode") /\ tpc[t] = "update"
  BY ThreadMoves DEF UpdateIndexes
<1>3. ~Connecting /\ ~Connecting'
  BY <1>1, <1>2 DEF Connecting, InThread, Moves
<1>4. Underway
  BY <1>2, <1>3 DEF Underway, BeingRead, InThread
<1>5. PICK h \in Nat, b \in Nat : h = Len(handled) /\ h \in 0..Len(Requests) /\ b = End(h)
  BY BaseOf
<1>6. PICK end \in Nat : end = ch.read_index + read_size[t] /\ taken = b + end
  <2>1. ch.read_index \in Nat /\ read_size[t] \in Nat
    BY ChannelFields, Numbers DEF ChannelInv, Shapes
  <2>2. taken = b + ch.read_index + read_size[t]
    BY <1>2, <1>4, <1>5 DEF HandledInv, ReadInv, Fetched
  <2> QED
    BY <2>1, <2>2
<1>7. end < BufferSize
  <2>1. Within(h, b)
    BY <1>4, <1>5, UnderwayWithin
  <2>2. taken <= sent /\ taken \in Nat /\ sent \in Nat
    BY DEF ChannelInv, Shapes
  <2>3. CASE h < Len(Requests)
    <3>1. h + 1 \in 1..Len(Requests)
      BY <1>5, <2>3, RequestFacts
    <3>2. Len(Requests[h + 1]) \in Nat /\ Len(Requests[h + 1]) < BufferSize
      BY <3>1, RequestFacts, SizesAssumption
    <3>3. sent <= b + Len(Requests[h + 1])
      BY <2>1, <2>3 DEF Within
    <3> QED
      BY <1>6, <2>2, <3>2, <3>3, Numbers
  <2>4. CASE h = Len(Requests)
    <3>1. sent <= b
      BY <2>1, <2>4 DEF Within
    <3> QED
      BY <1>6, <2>2, <3>1, Numbers
  <2> QED
    BY <1>5, <2>3, <2>4, RequestFacts
<1>8. ch'.read_index = end /\ Alike(ch, ch')
  <2>1. ch \in Channel /\ ch.is_read_done \in BOOLEAN
    BY ChannelFields DEF ChannelInv, Shapes
  <2>2. ch' = [ch EXCEPT !.read_index = end, !.processing_index_now = end - 1, !.is_read_done = ch.is_read_done]
    <3>1. (ch.is_read_done \/ end >= BufferSize) = ch.is_read_done
      BY <1>7, <2>1, Numbers
    <3> QED
      BY <1>6, <3>1 DEF UpdateIndexes
  <2> QED
    BY <2>1, <2>2 DEF Channel, Alike
<1>9. Fetched(b)'
  <2>1. \A u \in IoThreads : tpc'[u] # "update"
    BY <1>2 DEF Moves
  <2> QED
    BY <1>1, <1>6, <1>8, <2>1 DEF Fetched
<1>10. Loaded(b)'
  BY <1>1, <1>4, <1>5 DEF HandledInv, ReadInv, Loaded
<1>11. Decoded(ch', Len(handled) + 1)
  BY <1>4, <1>8, AlikeDecoded DEF HandledInv, ReadInv
<1>12. Decoded(ch, Len(handled) + 1)'
  BY <1>1, <1>11 DEF Decoded
<1>13. ~Replying'
  <2>1. upstream = {} /\ responder = "idle" /\ ~Registered
    BY <1>2, Alone DEF Busy
  <2> QED
    BY <1>1, <1>2, <2>1 DEF Replying, Called, Filled, InThread, Moves, Registered
<1>14. b = End(Len(handled))'
  BY <1>1, <1>5 DEF End, Ends
<1>15. ReadInv'
  BY <1>3, <1>9, <1>10, <1>12, <1>13, <1>14 DEF ReadInv
<1>16. BufferInv'
  BY <1>1 DEF HandledInv, BufferInv
<1> QED
  BY <1>1, <1>15, <1>16, RestKept DEF HandledInv

LEMMA DecodeWhole == ASSUME ChannelInv, HandledInv, NEW t \in IoThreads, Decode(t) PROVE HandledInv'
<1>1. UNCHANGED <<sent, got, taken, peer, buffer, handled, upstream, responder, fetched, tasks, armed, ready, tpc, read_size>>
  BY DEF Decode
<1>2. tpc[t] = "decode" /\ (\A u \in IoThreads : u # t => tpc[u] = "idle") /\ tasks = <<>>
      /\ upstream = {} /\ responder = "idle" /\ ~Registered /\ fetched # "write"
  BY Alone DEF Decode, Busy, Event
<1>3. ~Connecting /\ ~Connecting'
  BY <1>1, <1>2 DEF Connecting, InThread
<1>4. Underway
  BY <1>2, <1>3 DEF Underway, BeingRead, InThread
<1>5. PICK h \in Nat, b \in Nat : h = Len(handled) /\ h \in 0..Len(Requests) /\ b = End(h)
  BY BaseOf
<1>6. PICK e \in Nat : e = ch.read_index /\ e = ch.processing_index_now + 1 /\ taken = b + e /\ e <= BufferSize
  <2>1. ch.read_index \in Nat /\ ch.read_index <= BufferSize
    BY ChannelFields, Numbers DEF ChannelInv, Shapes
  <2>2. ~InThread({"update"})
    BY <1>2 DEF InThread
  <2>3. taken = b + ch.read_index
    BY <1>4, <1>5, <2>2 DEF HandledInv, ReadInv, Fetched
  <2>4. ch.processing_index_now + 1 = ch.read_index
    BY <1>2 DEF ChannelInv, IndexInv
  <2> QED
    BY <2>1, <2>3, <2>4
<1>7. ch \in Channel /\ ch.decode_index \in Nat /\ ch.processing_index_now \in Int /\ ch.decode_index < e
  <2>1. ch \in Channel /\ ch.decode_index \in Nat /\ ch.processing_index_now \in Int
    BY ChannelFields, Numbers DEF ChannelInv, Shapes
  <2> QED
    BY <1>6, <2>1 DEF Decode
<1>8. Within(h, b)
  BY <1>4, <1>5, UnderwayWithin
<1>9. taken <= sent /\ taken \in Nat /\ sent \in Nat
  BY DEF ChannelInv, Shapes
<1>10. h < Len(Requests)
  <2> SUFFICES ASSUME h = Len(Requests) PROVE FALSE
    BY <1>5, RequestFacts
  <2>1. sent <= b
    BY <1>8 DEF Within
  <2> QED
    BY <1>6, <1>7, <1>9, <2>1
<1>11. PICK k \in 1..Len(Requests) : k = h + 1 /\ k - 1 = h /\ k <= Len(Requests)
  BY <1>5, <1>10, RequestFacts
<1>12. PICK r, n, key, head, size :
           /\ r = Requests[k] /\ n = Len(r) /\ key = LengthKey(r) /\ head = HeadSize(r) /\ size = BodySize(r)
           /\ Shape(r, n, key, head, size)
  BY RequestShape
<1>13. n \in Nat /\ e <= n
  <2>1. n \in Nat /\ sent <= b + n
    BY <1>8, <1>10, <1>11, <1>12, RequestFacts DEF Within
  <2> QED
    BY <1>6, <1>9, <2>1
<1>14. ASSUME NEW j \in 0..(e - 1) PROVE Char(j) = r[j + 1]
  <2>1. j \in 0..(BufferSize - 1) /\ b + j + 1 <= taken /\ j + 1 \in 1..n /\ b + (j + 1) = b + j + 1 /\ b + j + 1 # 0
    BY <1>6, <1>13, Numbers
  <2>2. buffer[j] = b + j + 1
    BY <1>4, <1>5, <2>1 DEF HandledInv, ReadInv, Loaded
  <2>3. stream[b + (j + 1)] = r[j + 1]
    BY <1>5, <1>11, <1>12, <2>1, EndFacts DEF Places
  <2> QED
    BY <2>1, <2>2, <2>3 DEF Char
<1>15. Knows(ch, r, n, key, head, size)
  BY <1>4, <1>5, <1>11, <1>12 DEF HandledInv, ReadInv, Decoded
<1>16. Knows(DecodeChar(ch, ch.decode_index), r, n, key, head, size)
  BY <1>6, <1>7, <1>12, <1>13, <1>14, <1>15, KnowsAfter
<1>17. ch' = DecodeChar(ch, ch.decode_index) /\ ch'.read_index = e
  <2>1. ch' = DecodeChar(ch, ch.decode_index) /\ ch.decode_index <= ch.processing_index_now
    BY DEF Decode
  <2>2. ch'.read_index = ch.read_index
    BY <1>7, <2>1, DecodeCharOK DEF Kept
  <2> QED
    BY <1>6, <2>1, <2>2
<1>18. Decoded(ch, Len(handled) + 1)'
  <2>1. Knows(ch', r, n, key, head, size)
    BY <1>16, <1>17
  <2>2. Decoded(ch', k)
    BY <1>11, <1>12, <2>1 DEF Decoded
  <2>3. Len(handled)' + 1 = k
    BY <1>1, <1>5, <1>11
  <2> QED
    BY <2>2, <2>3 DEF Decoded
<1>19. Fetched(b)'
  <2>1. \A u \in IoThreads : tpc'[u] # "update"
    BY <1>1, <1>2
  <2> QED
    BY <1>1, <1>6, <1>17, <2>1 DEF Fetched
<1>20. Loaded(b)'
  BY <1>1, <1>4, <1>5 DEF HandledInv, ReadInv, Loaded
<1>21. ~Replying'
  BY <1>1, <1>2 DEF Replying, Called, Filled, InThread, Registered
<1>22. b = End(Len(handled))'
  BY <1>1, <1>5 DEF End, Ends
<1>23. ReadInv'
  BY <1>3, <1>18, <1>19, <1>20, <1>21, <1>22 DEF ReadInv
<1>24. BufferInv'
  BY <1>1 DEF HandledInv, BufferInv
<1> QED
  BY <1>1, <1>23, <1>24, RestKept DEF HandledInv

LEMMA HandleWhole == ASSUME ChannelInv, HandledInv, NEW t \in IoThreads, Handle(t) PROVE HandledInv'
<1>1. UNCHANGED <<sent, got, taken, peer, buffer, ch, armed, ready, fetched, tasks, responder>>
  BY DEF Handle
<1>2. tpc[t] = "handle" /\ ch.is_read_done = TRUE /\ handled' = Append(handled, Content)
  BY DEF Handle, ChannelInv, TokenInv
<1>3. /\ \A u \in IoThreads : u # t => tpc[u] = "idle"
      /\ tasks = <<>> /\ ~Event /\ ~Registered /\ upstream = {} /\ responder = "idle"
  BY <1>2, Alone DEF Busy
<1>4. \A u \in IoThreads : tpc'[u] \in {"check", "fail", "idle"}
  BY <1>3 DEF Handle, ChannelInv, Shapes
<1>5. ~Connecting /\ ~Connecting'
  BY <1>1, <1>2, <1>3, <1>4 DEF Connecting, InThread
<1>6. Underway
  BY <1>2, <1>5 DEF Underway, BeingRead, InThread
<1>7. ~Underway'
  <2>1. ~(armed = "edge" /\ (sent = 0 \/ (ready = TRUE /\ peer = "open")))
    BY <1>2 DEF ChannelInv, EpollInv, Nobody, Idle
  <2>2. armed # "none"
    BY <1>5 DEF ChannelInv, EpollInv
  <2>3. ~BeingRead'
    BY <1>1, <1>2, <1>3, <1>4, <2>2 DEF BeingRead, InThread, Event, Registered
  <2> QED
    BY <1>1, <2>1, <2>3 DEF Underway
<1>8. PICK h \in Nat, b \in Nat : h = Len(handled) /\ h \in 0..Len(Requests) /\ b = End(h)
  BY BaseOf
<1>9. Decoded(ch, h + 1) /\ Fetched(b) /\ Loaded(b) /\ Within(h, b)
  BY <1>6, <1>8, UnderwayWithin DEF HandledInv, ReadInv
<1>10. h < Len(Requests)
  <2> SUFFICES ASSUME h = Len(Requests) PROVE FALSE
    BY <1>8, RequestFacts
  <2>1. ~(h + 1 <= Len(Requests))
    OBVIOUS
  <2>2. Unread(ch)
    BY <1>9, <2>1 DEF Decoded
  <2> QED
    BY <1>2, <2>2 DEF Unread
<1>11. PICK k \in 1..Len(Requests) : k = h + 1 /\ k - 1 = h /\ k <= Len(Requests)
  BY <1>8, <1>10, RequestFacts
<1>12. PICK r, n, key, head, size :
           /\ r = Requests[k] /\ n = Len(r) /\ key = LengthKey(r) /\ head = HeadSize(r) /\ size = BodySize(r)
           /\ Shape(r, n, key, head, size)
  BY RequestShape
<1>13. /\ n \in Nat /\ n < BufferSize /\ key \in Nat /\ head \in Nat /\ size \in 1..2
       /\ head + size = n /\ 2 <= key /\ key + 6 <= head
  BY <1>12 DEF Shape
<1>14. Knows(ch, r, n, key, head, size)
  BY <1>9, <1>11, <1>12 DEF Decoded
<1>15. ch.decode_index = n
  BY <1>2, <1>14 DEF Knows
<1>16. ch.body_size = size /\ ch.body_start = head
  <2>1. n >= key + 3 /\ n >= head
    BY <1>13
  <2> QED
    BY <1>14, <1>15, <2>1 DEF Knows
<1>17. End(k) = b + n /\ taken = b + n
  <2>1. End(k) = b + n
    BY <1>8, <1>11, <1>12, EndFacts DEF Places
  <2>2. PICK x \in Nat : x = ch.read_index /\ n <= x
    <3>1. ch.read_index \in 0..BufferSize
      BY ChannelFields DEF ChannelInv, Shapes
    <3>2. n <= ch.read_index
      BY <1>15 DEF ChannelInv, IndexInv
    <3> QED
      BY <3>1, <3>2, Numbers
  <2>3. ~InThread({"update"})
    BY <1>2, <1>3 DEF InThread
  <2>4. taken = b + x
    BY <1>9, <2>2, <2>3 DEF Fetched
  <2>5. taken <= sent /\ sent \in Nat
    BY DEF ChannelInv, Shapes
  <2>6. sent <= b + n
    BY <1>9, <1>10, <1>11, <1>12 DEF Within
  <2> QED
    BY <1>13, <2>1, <2>2, <2>4, <2>5, <2>6
<1>18. Content = Body(k)
  <2>1. \A j \in 1..size : /\ head + j <= BufferSize
                           /\ head + j - 1 \in 0..(BufferSize - 1)
                           /\ b + (head + j - 1) + 1 <= taken
                           /\ b + (head + j - 1) + 1 = End(k) - size + j
    BY <1>13, <1>17, Numbers
  <2>2. \A j \in 1..size : buffer[head + j - 1] = End(k) - size + j
    BY <1>9, <2>1 DEF Loaded
  <2>3. Content = [j \in 1..size |-> IF head + j <= BufferSize THEN buffer[head + j - 1] ELSE 0]
    BY <1>16 DEF Content
  <2>4. Body(k) = [j \in 1..size |-> End(k) - size + j]
    BY <1>12 DEF Body
  <2>5. \A j \in 1..size : (IF head + j <= BufferSize THEN buffer[head + j - 1] ELSE 0) = End(k) - size + j
    BY <2>1, <2>2
  <2> QED
    BY <2>3, <2>4, <2>5
<1>19. /\ Len(handled') = k
       /\ \A j \in 1..h : handled'[j] = handled[j]
       /\ handled'[k] = Content
  BY <1>2, <1>8, <1>11 DEF ChannelInv, Shapes
<1>20. HandledRight'
  <2>1. \A j \in 1..h : handled[j] = Body(j)
    BY <1>8 DEF HandledInv, HandledRight
  <2>2. \A j \in 1..k : handled'[j] = Body(j)
    <3> SUFFICES ASSUME NEW j \in 1..k PROVE handled'[j] = Body(j)
      OBVIOUS
    <3>1. CASE j = k
      BY <1>18, <1>19, <3>1
    <3>2. CASE j # k
      <4>1. j \in 1..h
        BY <1>11, <3>2
      <4> QED
        BY <1>19, <2>1, <4>1
    <3> QED
      BY <3>1, <3>2
  <2>3. \A j : Body(j)' = Body(j)
    BY DEF Body, End, Ends
  <2> QED
    BY <1>11, <1>19, <2>2, <2>3 DEF HandledRight
<1>21. GotInv'
  <2>1. Len(got) = h * ResponseSize
    BY <1>2, <1>8 DEF ChannelInv, ReplyInv, BeingRead, InThread
  <2>2. PICK p \in Nat : p = h * ResponseSize
    BY Numbers
  <2>3. (h + 1) * ResponseSize = h * ResponseSize + ResponseSize
    BY Numbers
  <2>4. h * ResponseSize <= k * ResponseSize
    BY <1>11, <2>2, <2>3, Numbers
  <2> QED
    BY <1>1, <1>19, <2>1, <2>4 DEF GotInv
<1>22. SentInv' /\ BufferInv'
  BY <1>1 DEF HandledInv, SentInv, BufferInv
<1>23. taken' = End(Len(handled))'
  BY <1>1, <1>17, <1>19 DEF End, Ends
<1>24. ReadInv'
  BY <1>5, <1>7, <1>23 DEF ReadInv
<1> QED
  BY <1>20, <1>21, <1>22, <1>24 DEF HandledInv

\* The response is in the buffer in place of the request.
LEMMA FillResponseWhole ==
    ASSUME ChannelInv, HandledInv, NEW call, FillResponse(call), UNCHANGED <<sent, got, taken, handled>>,
           Replying, ~Connecting', ~Underway'
    PROVE  HandledInv'
<1>1. BufferInv'
  <2> SUFFICES ASSUME NEW i \in 0..(BufferSize - 1) PROVE buffer'[i] <= sent
    BY DEF BufferInv
  <2>1. buffer'[i] \in {0, buffer[i]}
    BY DEF FillResponse, ChannelInv, Shapes
  <2>2. sent \in Nat /\ buffer[i] <= sent
    BY DEF HandledInv, BufferInv, ChannelInv, Shapes
  <2> QED
    BY <2>1, <2>2
<1>2. taken = End(Len(handled))
  BY DEF HandledInv, ReadInv
<1>3. taken' = End(Len(handled))'
  BY <1>2 DEF End, Ends
<1>4. ReadInv'
  BY <1>3 DEF ReadInv
<1> QED
  BY <1>1, <1>4, RestKept DEF HandledInv

LEMMA RespondFailedWhole ==
    ASSUME ChannelInv, HandledInv, NEW t \in IoThreads, RespondFailed(t) PROVE HandledInv'
<1>1. /\ UNCHANGED <<sent, got, taken, peer, handled, upstream, responder, fetched, tasks, armed, ready>>
      /\ FillResponse(Len(handled))
  BY DEF RespondFailed
<1>2. Moves(t, "failmod") /\ tpc[t] = "fail"
  BY ThreadMoves DEF RespondFailed
<1>3. ~Connecting /\ ~Connecting'
  BY <1>1, <1>2 DEF Connecting, InThread, Moves
<1>4. ~Registered /\ armed # "none"
  BY <1>2, <1>3, Alone DEF Busy, ChannelInv, EpollInv
<1>5. ~(armed = "edge" /\ (sent = 0 \/ (ready = TRUE /\ peer = "open")))
  BY <1>2 DEF ChannelInv, EpollInv, Nobody, Idle
<1>6. ~Underway'
  BY <1>1, <1>2, <1>4, <1>5 DEF Underway, BeingRead, InThread, Moves, Registered
<1>7. Replying
  BY <1>2 DEF Replying, Called, InThread
<1> QED
  BY <1>1, <1>3, <1>6, <1>7, FillResponseWhole

LEMMA RespondWhole == ASSUME ChannelInv, HandledInv, Respond PROVE HandledInv'
<1>1. UNCHANGED <<sent, got, taken, peer, handled, fetched, tasks, tpc, armed, ready>>
  BY DEF Respond
<1>2. PICK call \in upstream : FillResponse(call)
  BY DEF Respond
<1>3. ~Event /\ tasks = <<>> /\ ~Registered /\ \A t \in IoThreads : ~Busy(t)
  BY <1>2 DEF ChannelInv, TokenInv
<1>4. ~Connecting /\ ~Connecting'
  BY <1>1, <1>3 DEF Connecting, InThread, Busy
<1>5. armed # "none"
  BY <1>4 DEF ChannelInv, EpollInv
<1>6. ~(armed = "edge" /\ (sent = 0 \/ (ready = TRUE /\ peer = "open")))
  BY <1>2 DEF ChannelInv, EpollInv, Nobody
<1>7. ch'.is_read_done = ch.is_read_done
  BY <1>2 DEF FillResponse, ChannelInv, Shapes, Channel
<1>8. ~BeingRead'
  BY <1>1, <1>3, <1>5, <1>7 DEF BeingRead, InThread, Busy, Event, Registered
<1>9. ~Underway'
  BY <1>1, <1>6, <1>8 DEF Underway
<1>10. Replying
  BY <1>2 DEF Replying, Called
<1> QED
  BY <1>1, <1>2, <1>4, <1>9, <1>10, FillResponseWhole

LEMMA SendWhole ==
    ASSUME ChannelInv, ChannelInv', HandledInv, NEW t \in IoThreads, Send(t) PROVE HandledInv'
<1>1. UNCHANGED <<sent, taken, peer, buffer, handled, upstream, responder, fetched, tasks, armed, ready>>
  BY DEF Send
<1>2. Moves(t, "written") /\ tpc[t] = "send"
  BY ThreadMoves DEF Send
<1>3. ~Connecting /\ ~Connecting'
  BY <1>1, <1>2 DEF Connecting, InThread, Moves
<1>4. armed \in {"off", "deleted"} /\ fetched = "none"
  BY <1>2 DEF ChannelInv, EpollInv, BeingWritten, InThread
<1>5. ~Underway'
  BY <1>1, <1>2, <1>4 DEF Underway, BeingRead, InThread, Moves
<1>6. Filled /\ InThread({"written"})'
  BY <1>2 DEF Filled, InThread, Moves
<1>7. SentSoFar /\ SentSoFar' /\ ch.write_index < ResponseSize
  BY <1>6 DEF ChannelInv, ReplyInv
<1>8. PICK w \in Nat, v \in Nat : w = ch.write_index /\ v = ch'.write_index /\ w <= v /\ v <= ResponseSize
  <2>1. /\ ch \in Channel /\ ch.write_index \in 0..ResponseSize
        /\ ch' \in Channel /\ ch'.write_index \in 0..ResponseSize
    BY ChannelFields DEF ChannelInv, Shapes
  <2>2. PICK n \in Least(1, Left)..Left : ch' = [ch EXCEPT !.write_index = @ + n]
    BY DEF Send
  <2>3. n \in Nat
    BY <1>7, <2>1, Numbers DEF Left, Least, SentSoFar
  <2>4. ch'.write_index = ch.write_index + n
    BY <2>1, <2>2 DEF Channel
  <2> QED
    BY <2>1, <2>3, <2>4, Numbers
<1>9. PICK h \in Nat \ {0} : h = Len(handled)
  BY <1>7, EmptySeq DEF SentSoFar, ChannelInv, Shapes
<1>10. PICK p \in Nat : p = (h - 1) * ResponseSize /\ h * ResponseSize = p + ResponseSize
  BY Numbers
<1>11. Len(got) = p + w /\ Len(got') = p + v
  BY <1>1, <1>7, <1>8, <1>9, <1>10 DEF SentSoFar
<1>12. Len(got) <= Len(got') /\ Len(got') <= h * ResponseSize /\ Len(got) \in Nat /\ Len(got') \in Nat
  BY <1>8, <1>10, <1>11, Numbers
<1>13. GotInv'
  BY <1>1, <1>9, <1>12 DEF GotInv
<1>14. SentInv'
  <2>1. PICK m \in 0..Len(Requests) : sent <= End(m) /\ (m = 0 \/ (m - 1) * ResponseSize <= Len(got))
    BY DEF HandledInv, SentInv
  <2>2. m = 0 \/ (m - 1) * ResponseSize <= Len(got')
    <3> SUFFICES ASSUME m # 0 PROVE (m - 1) * ResponseSize <= Len(got')
      OBVIOUS
    <3>1. PICK a \in Nat : a = m - 1
      BY RequestFacts
    <3>2. PICK q \in Nat : q = a * ResponseSize
      BY Numbers
    <3>3. q <= Len(got)
      BY <2>1, <3>1, <3>2
    <3> QED
      BY <1>12, <3>1, <3>2, <3>3
  <2>3. sent' <= End(m)' /\ (m = 0 \/ (m - 1) * ResponseSize <= Len(got'))
    BY <1>1, <2>1, <2>2 DEF End, Ends
  <2> QED
    BY <2>3 DEF SentInv
<1>15. BufferInv' /\ HandledRight'
  BY <1>1 DEF HandledInv, BufferInv, HandledRight
<1>16. taken = End(Len(handled))
  BY <1>6 DEF HandledInv, ReadInv, Replying
<1>17. ReadInv'
  BY <1>1, <1>3, <1>5, <1>16 DEF ReadInv, End, Ends
<1> QED
  BY <1>13, <1>14, <1>15, <1>17 DEF HandledInv

LEMMA AfterSendWhole == ASSUME ChannelInv, HandledInv, NEW t \in IoThreads, AfterSend(t) PROVE HandledInv'
<1>1. UNCHANGED <<sent, got, taken, peer, buffer, handled, upstream, responder, fetched, tasks, armed, ready>>
  BY DEF AfterSend
<1>2. PICK pc \in {"modin", "modout"} : ThreadStep(t, "written", pc) /\ (pc = "modin" => ch' = hs_init_channel(ch))
  BY DEF AfterSend
<1>3. Moves(t, pc) /\ tpc[t] = "written"
  BY <1>2, ThreadMoves
<1>4. ~Connecting /\ ~Connecting'
  BY <1>1, <1>3 DEF Connecting, InThread, Moves
<1>5. armed \in {"off", "deleted"} /\ fetched = "none"
  BY <1>3 DEF ChannelInv, EpollInv, BeingWritten, InThread
<1>6. PICK h \in Nat, b \in Nat : h = Len(handled) /\ h \in 0..Len(Requests) /\ b = End(h)
  BY BaseOf
<1>7. taken = b /\ taken' = b /\ b = End(Len(handled))'
  <2>1. Replying
    BY <1>3 DEF Replying, InThread
  <2> QED
    BY <1>1, <1>6, <2>1 DEF HandledInv, ReadInv, End, Ends
<1>8. ASSUME Underway' PROVE Fetched(b)' /\ Loaded(b)' /\ Decoded(ch, Len(handled) + 1)'
  <2>1. pc = "modin"
    BY <1>1, <1>3, <1>5, <1>8 DEF Underway, BeingRead, InThread, Moves
  <2>2. Unread(ch') /\ ch'.read_index = 0
    BY <1>2, <2>1, InitUnread DEF ChannelInv, Shapes
  <2>3. \A u \in IoThreads : tpc'[u] # "update"
    BY <1>3 DEF Moves
  <2>4. taken' = b + ch'.read_index
    BY <1>7, <2>2
  <2>5. Fetched(b)'
    BY <2>3, <2>4 DEF Fetched
  <2>6. \A i \in 0..(BufferSize - 1) : ~(b + i + 1 <= b)
    BY Numbers
  <2>7. Loaded(b)'
    BY <1>7, <2>6 DEF Loaded
  <2>8. h + 1 \in Nat \ {0} /\ Len(handled)' + 1 = h + 1
    BY <1>1, <1>6
  <2>9. Decoded(ch', h + 1)
    BY <2>2, <2>8, UnreadDecoded
  <2>10. Decoded(ch, Len(handled) + 1)'
    BY <2>8, <2>9 DEF Decoded
  <2> QED
    BY <2>5, <2>7, <2>10
<1>9. ReadInv'
  BY <1>4, <1>7, <1>8 DEF ReadInv
<1>10. BufferInv'
  BY <1>1 DEF HandledInv, BufferInv
<1> QED
  BY <1>1, <1>9, <1>10, RestKept DEF HandledInv

LEMMA ArriveWhole ==
    ASSUME ChannelInv, HandledInv, NEW n \in 1..Len(stream), Arrive(n)
    PROVE  HandledInv'
<1>1. /\ UNCHANGED <<got, taken, peer, buffer, ch, handled, upstream, responder, fetched, tasks, armed, tpc, read_size>>
      /\ sent' = sent + n
  BY DEF Arrive
<1>2. PICK k \in 1..Len(Requests) : Len(got) = (k - 1) * ResponseSize /\ sent + n <= End(k)
  BY DEF Arrive
<1>3. sent \in Nat /\ n \in Nat \ {0}
  BY DEF ChannelInv, Shapes
<1>4. SentInv'
  <2>1. k \in 0..Len(Requests)
    OBVIOUS
  <2>2. (k - 1) * ResponseSize <= Len(got)
    <3>1. Len(got) \in Nat
      BY DEF ChannelInv, Shapes
    <3> QED
      BY <1>2, <3>1
  <2>3. sent' <= End(k)' /\ (k = 0 \/ (k - 1) * ResponseSize <= Len(got'))
    BY <1>1, <1>2, <2>2 DEF End, Ends
  <2> QED
    BY <2>1, <2>3 DEF SentInv
<1>5. BufferInv'
  <2> SUFFICES ASSUME NEW i \in 0..(BufferSize - 1) PROVE buffer'[i] <= sent'
    BY DEF BufferInv
  <2>1. buffer[i] \in Nat /\ buffer[i] <= sent
    BY DEF ChannelInv, Shapes, HandledInv, BufferInv
  <2> QED
    BY <1>1, <1>3, <2>1
<1>6. GotInv' /\ HandledRight'
  BY <1>1 DEF HandledInv, GotInv, HandledRight
<1>7. got = <<>> => sent = 0
  <2> SUFFICES ASSUME got = <<>>, sent > 0 PROVE FALSE
    BY <1>3
  <2>1. PICK d \in Nat : d = k - 1
    BY RequestFacts
  <2>2. d * ResponseSize = 0
    BY <1>2, <2>1
  <2>3. d = 0
    BY <2>2, Numbers
  <2>4. k = 1
    BY <2>1, <2>3, RequestFacts
  <2>5. sent = End(1)
    BY DEF ChannelInv, EpollInv
  <2> QED
    BY <1>2, <1>3, <2>4, <2>5
<1>8. Connecting' <=> Connecting
  BY <1>1 DEF Connecting, InThread
<1>9. Underway' => Underway
  <2>1. armed = "edge" => sent = 0
    BY <1>7 DEF ChannelInv, EpollInv
  <2> QED
    BY <1>1, <1>8, <2>1 DEF Underway, BeingRead, InThread
<1>10. Replying' => Replying
  BY <1>1 DEF Replying, Called, Filled, InThread
<1>11. PICK b : b = End(Len(handled)) /\ b = End(Len(handled))'
  BY <1>1 DEF End, Ends
<1>12. ASSUME Underway' PROVE Fetched(b)' /\ Loaded(b)' /\ Decoded(ch, Len(handled) + 1)'
  <2>1. Fetched(b) /\ Loaded(b) /\ Decoded(ch, Len(handled) + 1)
    BY <1>9, <1>11, <1>12 DEF HandledInv, ReadInv
  <2>2. Fetched(b)'
    BY <1>1, <2>1 DEF Fetched, InThread
  <2>3. Loaded(b)'
    BY <1>1, <2>1 DEF Loaded
  <2>4. Decoded(ch, Len(handled) + 1)'
    BY <1>1, <2>1 DEF Decoded, Knows, Unread, InLine
  <2> QED
    BY <2>2, <2>3, <2>4
<1>13. ReadInv'
  BY <1>1, <1>8, <1>10, <1>11, <1>12 DEF HandledInv, ReadInv
<1> QED
  BY <1>4, <1>5, <1>6, <1>13 DEF HandledInv

LEMMA HandledInit == Init => HandledInv
<1> SUFFICES ASSUME Init PROVE HandledInv
  OBVIOUS
<1>1. Connecting /\ ~Underway /\ ~Replying
  BY DEF Init, Connecting, Underway, BeingRead, Replying, Called, Filled, InThread
<1>2. ReadInv
  BY <1>1 DEF ReadInv, Init
<1>3. SentInv
  <2>1. 0 \in 0..Len(Requests) /\ sent <= End(0)
    BY RequestFacts, EndFacts DEF Init
  <2> QED
    BY <2>1 DEF SentInv
<1>4. Len(handled) = 0 /\ Len(got) = 0
  BY DEF Init
<1>5. GotInv /\ BufferInv
  BY <1>4, Numbers DEF GotInv, BufferInv, Init
<1>6. HandledRight
  BY <1>4, RequestFacts DEF HandledRight
<1> QED
  BY <1>2, <1>3, <1>5, <1>6 DEF HandledInv

LEMMA HandledStep == ASSUME ChannelInv, ChannelInv', HandledInv, [Next]_vars PROVE HandledInv'
<1>1. CASE EventLoop
  BY <1>1, EpollWaitWhole, HandleEventWhole DEF EventLoop
<1>2. ASSUME NEW t \in IoThreads, ThreadStepOf(t) PROVE HandledInv'
  <2>1. CASE Reading(t)
    BY <2>1, RecvWhole, RecvErrorWhole, UpdateIndexesWhole, DecodeWhole, DecodeEndWhole, HandleWhole,
       RespondFailedWhole, RespondFailedModWhole, CheckReadDoneWhole, RearmWhole DEF Reading
  <2>2. CASE Writing(t)
    BY <2>2, StartWriteWhole, SendWhole, SendErrorWhole, AfterSendWhole, WriterModWhole DEF Writing
  <2> QED
    BY <1>2, <2>1, <2>2, StartTaskWhole, hs_new_connectionWhole DEF ThreadStepOf
<1>3. CASE Responding
  BY <1>3, RespondWhole, RespondModWhole DEF Responding
<1>4. CASE \E n \in 1..Len(stream) : Arrive(n)
  BY <1>4, ArriveWhole
<1>5. CASE UNCHANGED vars
  <2>1. Quiet
    <3>1. /\ Connecting' <=> Connecting
          /\ BeingRead' <=> BeingRead
          /\ Replying' <=> Replying
      BY <1>5 DEF vars, Connecting, BeingRead, Replying, Called, Filled, InThread
    <3>2. Underway' <=> Underway
      BY <1>5, <3>1 DEF vars, Underway
    <3> QED
      BY <1>5, <3>1, <3>2 DEF vars, Quiet
  <2> QED
    BY <2>1, QuietStep
<1> QED
  BY <1>1, <1>2, <1>3, <1>4, <1>5, BreakWhole, DrainWhole DEF Next

LEMMA DivBelow ==
    ASSUME NEW r \in Nat \ {0}, NEW h \in Nat, NEW a \in Nat, a < h * r
    PROVE  a \div r \in 0..(h - 1) /\ a % r \in 0..(r - 1)
<1>1. PICK q \in Nat, x \in 0..(r - 1) : q = a \div r /\ x = a % r /\ a = q * r + x
  BY SMTT(20)
<1>2. q < h
  <2> SUFFICES ASSUME h <= q PROVE FALSE
    OBVIOUS
  <2>1. PICK y \in Nat : q = h + y
    <3>1. q - h \in Nat /\ q = h + (q - h)
      OBVIOUS
    <3> QED
      BY <3>1
  <2>2. (h + y) * r = h * r + y * r
    OBVIOUS
  <2>3. PICK u \in Nat, v \in Nat : u = h * r /\ v = y * r
    OBVIOUS
  <2> QED
    BY <1>1, <2>1, <2>2, <2>3
<1> QED
  BY <1>1, <1>2

LEMMA StreamLength == Len(stream) \in Nat
<1>1. PICK n \in Nat : n = Len(Requests)
  BY RequestFacts
<1>2. Requests \in Seq(Texts)
  BY RequestsAssumption DEF Texts
<1>3. PICK F : Flattens(F, Requests, n) /\ stream = F[n]
  BY <1>1, <1>2, Flattened DEF stream
<1>4. F[n] \in Texts
  BY <1>3 DEF Flattens
<1> QED
  BY <1>3, <1>4, LenProperties DEF Texts

LEMMA WholeType == ASSUME ChannelInv, HandledInv PROVE TypeOK
<1>1. sent \in 0..Len(stream)
  <2>1. PICK m \in 0..Len(Requests) : sent <= End(m)
    BY DEF HandledInv, SentInv
  <2>2. End(m) \in Nat /\ End(m) <= Len(stream)
    BY EndFacts
  <2> QED
    BY <2>1, <2>2, StreamLength DEF ChannelInv, Shapes
<1>2. PICK h \in Nat : h = Len(handled)
  BY DEF ChannelInv, Shapes
<1>3. PICK r \in Nat \ {0} : r = ResponseSize
  BY Numbers
<1>4. PICK l \in Nat : l = Len(got) /\ l <= h * r /\ got \in [1..l -> Nat \X Nat]
  <2>1. got \in Seq(Nat \X Nat)
    BY DEF ChannelInv, Shapes
  <2>2. Len(got) \in Nat /\ got \in [1..Len(got) -> Nat \X Nat]
    BY <2>1, LenProperties
  <2> QED
    BY <1>2, <1>3, <2>2 DEF HandledInv, GotInv
<1>5. ASSUME NEW j \in 1..l PROVE got[j] \in (0..h) \X (1..r)
  <2>1. got[j] = <<1 + (j - 1) \div r, 1 + ((j - 1) % r)>>
    BY <1>3, <1>4 DEF ChannelInv, ReplyInv, ResponsesRight
  <2>2. PICK a \in Nat : a = j - 1
    OBVIOUS
  <2>3. a < h * r
    <3>1. PICK p \in Nat : p = h * r
      OBVIOUS
    <3> QED
      BY <1>4, <2>2, <3>1
  <2>4. a \div r \in 0..(h - 1) /\ a % r \in 0..(r - 1)
    BY <2>3, DivBelow
  <2>5. PICK q \in 0..(h - 1), x \in 0..(r - 1) : q = a \div r /\ x = a % r
    BY <2>4
  <2>6. got[j] = <<1 + q, 1 + x>> /\ 1 + q \in 0..h /\ 1 + x \in 1..r
    BY <2>1, <2>2, <2>5
  <2> QED
    BY <2>6
<1>6. got \in Seq((0..Len(handled)) \X (1..ResponseSize))
  <2> DEFINE S == (0..h) \X (1..r)
  <2>1. \A j \in 1..l : got[j] \in S
    BY <1>5
  <2> HIDE DEF S
  <2>2. got \in [1..l -> S]
    BY <1>4, <2>1
  <2>3. got \in Seq(S)
    BY <2>2
  <2> QED
    BY <1>2, <1>3, <2>3 DEF S
<1>7. buffer \in [0..(BufferSize - 1) -> 0..sent]
  <2>1. ASSUME NEW i \in 0..(BufferSize - 1) PROVE buffer[i] \in 0..sent
    <3>1. buffer[i] \in Nat /\ buffer[i] <= sent /\ sent \in Nat
      BY DEF ChannelInv, Shapes, HandledInv, BufferInv
    <3> QED
      BY <3>1
  <2> QED
    BY <2>1 DEF ChannelInv, Shapes
<1>8. ch.write_index \in 0..ch.write_size /\ ch.write_size \in {0, ResponseSize}
      /\ ch.read_index \in 0..BufferSize /\ ch.decode_index \in 0..BufferSize
  <2>1. /\ ch.write_index \in 0..ResponseSize /\ ch.write_size \in {0, ResponseSize}
        /\ ch.read_index \in 0..BufferSize /\ ch.decode_index \in 0..BufferSize
    BY ChannelFields DEF ChannelInv, Shapes
  <2>2. ch.write_index <= ch.write_size
    BY DEF ChannelInv, IndexInv
  <2> QED
    BY <2>1, <2>2, Numbers
<1>9. upstream \subseteq 1..Len(handled)
  <2>1. upstream \subseteq {h}
    BY <1>2 DEF ChannelInv, TokenInv
  <2>2. upstream # {} => h # 0
    <3> SUFFICES ASSUME upstream # {} PROVE h # 0
      OBVIOUS
    <3>1. handled # <<>> /\ handled \in Seq(Contents)
      BY DEF ChannelInv, Shapes, ReplyInv, Called
    <3> QED
      BY <1>2, <3>1, EmptySeq
  <2> QED
    BY <1>2, <2>1, <2>2
<1>10. {txfull, released, ready} \subseteq BOOLEAN /\ DOMAIN tpc = IoThreads /\ DOMAIN read_size = IoThreads
       /\ taken \in 0..sent
  BY DEF ChannelInv, Shapes
<1> QED
  BY <1>1, <1>6, <1>7, <1>8, <1>9, <1>10 DEF TypeOK, ChannelInv, Shapes

-----------------------------------------------------------------------------
(* What a provider is sent *)

\* What the request to a provider points to is what the content handler got.
PointerInv == \A call \in upstream : Content = handled[call]

LEMMA PointerKept ==
    ASSUME PointerInv, UNCHANGED <<ch, buffer, handled>>, upstream' \subseteq upstream
    PROVE  PointerInv'
<1>1. Content' = Content
  BY DEF Content
<1> QED
  BY <1>1 DEF PointerInv

LEMMA PointerStep == ASSUME ChannelInv, PointerInv, [Next]_vars PROVE PointerInv'
<1>1. CASE EventLoop \/ Break \/ Drain \/ (\E n \in 1..Len(stream) : Arrive(n)) \/ UNCHANGED vars
  <2>1. UNCHANGED <<ch, buffer, handled, upstream>>
    BY <1>1 DEF EventLoop, EpollWait, HandleEvent, Break, Drain, Arrive, vars
  <2> QED
    BY <2>1, PointerKept
<1>2. CASE Responding
  <2>1. CASE Respond
    <3>1. upstream' = {}
      BY <2>1 DEF Respond, ChannelInv, TokenInv
    <3> QED
      BY <3>1 DEF PointerInv
  <2>2. CASE RespondMod
    BY <2>2, PointerKept DEF RespondMod
  <2> QED
    BY <1>2, <2>1, <2>2 DEF Responding
<1>3. ASSUME NEW t \in IoThreads, ThreadStepOf(t) PROVE PointerInv'
  <2>1. CASE StartTask(t)
    BY <2>1, PointerKept DEF StartTask
  <2>2. CASE CheckReadDone(t)
    BY <2>2, PointerKept DEF CheckReadDone
  <2>3. CASE Handle(t)
    <3>1. upstream = {}
      BY <2>3, Alone DEF Handle, Busy
    <3>2. upstream' \subseteq {Len(handled')}
      BY <2>3, <3>1 DEF Handle
    <3>3. Content' = Content
      BY <2>3 DEF Handle, Content
    <3>4. handled'[Len(handled')] = Content
      BY <2>3, HandledGrows
    <3> QED
      BY <3>2, <3>3, <3>4 DEF PointerInv
  <2>4. CASE Busy(t) /\ UNCHANGED upstream
    <3>1. upstream' = {}
      BY <2>4 DEF ChannelInv, TokenInv
    <3> QED
      BY <3>1 DEF PointerInv
  <2>5. ASSUME hs_new_connection(t) \/ Writing(t) \/ Reading(t), ~Handle(t), ~CheckReadDone(t)
        PROVE  Busy(t) /\ UNCHANGED upstream
    <3>1. CASE hs_new_connection(t)
      BY <3>1 DEF hs_new_connection, ThreadStep, Busy
    <3>2. CASE Writing(t)
      BY <3>2 DEF Writing, StartWrite, Send, SendError, AfterSend, WriterMod, ThreadStep, Busy
    <3>3. CASE Reading(t)
      BY <2>5, <3>3 DEF Reading, Recv, RecvError, UpdateIndexes, Decode, DecodeEnd, RespondFailed,
         RespondFailedMod, Rearm, ThreadStep, Busy
    <3> QED
      BY <2>5, <3>1, <3>2, <3>3
  <2> QED
    BY <1>3, <2>1, <2>2, <2>3, <2>4, <2>5 DEF ThreadStepOf
<1> QED
  BY <1>1, <1>2, <1>3 DEF Next

\* The content handler is called once for each request of the client, in their
\* order, and gets the body and nothing else, in however many pieces recv
\* returns a request to hs_io_read and whatever else is in the buffer; the body
\* stays there while a provider has the request.  Again if both races are won.
THEOREM HandledWholeHolds == Spec /\ [][OnTime]_vars => []HandledWhole
<1>1. HandledInv /\ ChannelInv /\ ChannelInv' /\ [Next]_vars => HandledInv'
  BY HandledStep
<1>2. ChannelInv /\ PointerInv /\ [Next]_vars => PointerInv'
  BY PointerStep
<1>3. Init => PointerInv
  BY DEF Init, PointerInv
<1>4. ChannelInv /\ HandledInv /\ PointerInv => HandledWhole
  BY WholeType DEF HandledWhole, HandledInv, HandledRight, ChannelInv, Shapes, PointerInv
<1> QED
  BY <1>1, <1>2, <1>3, <1>4, HandledInit, ChannelInvariant, PTL DEF Spec
=============================================================================
