------------------------ MODULE AcmRequestMapProofs ------------------------
(***************************************************************************)
(* Proofs about the request map: as long as the ids of outstanding         *)
(* requests fall on different entries (Load = "apart"), every response     *)
(* reaches the connection of its request, for any number of requests and   *)
(* channels and any length of the table, although the entries are written  *)
(* and cleared field by field and without a lock.                          *)
(*                                                                         *)
(* An entry belongs to the outstanding request whose id falls on it.  The  *)
(* thread of the request fills it, the read thread that has its response   *)
(* clears it, and an entry that belongs to nobody has no req_id.           *)
(***************************************************************************)
EXTENDS AcmRequestMap, TLAPS

USE DEF requesters, readers

\* An id falls on an entry of the table.
LEMMA EntryInTable == ASSUME NEW n \in Nat PROVE Entry(n) \in 0..(max_hold_req_num - 1)
  BY TableAssumption DEF Entry
-----------------------------------------------------------------------------
(* The inductive invariant *)

\* Outstanding requests have entries of their own.
ApartInv ==
    \A r, s \in Requests :
        r \in Outstanding /\ s \in Outstanding /\ Entry(id[r]) = Entry(id[s]) => r = s

\* How far the thread of a request has filled its entry.
Filled(r) ==
    LET e == request_map[Entry(id[r])] IN
    /\ rpc[r] = "hold" => e.req_id = 0
    /\ rpc[r] \in {"listening", "arg", "send", "sent"} => e.req_id = id[r]
    /\ rpc[r] \in {"arg", "send", "sent"} => e.listening = TRUE
    /\ rpc[r] \in {"send", "sent"} => e.arg = r
FilledInv == \A r \in Requests : Filled(r)

\* A read thread that deals with a response has that of an answered request of
\* its channel, whose entry is complete until the listener is called.
ReaderInv ==
    \A c \in Channels :
        dpc[c] # "idle" =>
            /\ recv_msg[c] \in Requests
            /\ rpc[recv_msg[c]] = "answered"
            /\ channel[recv_msg[c]] = c
            /\ dpc[c] = "call" =>
                  /\ request_map[Entry(id[recv_msg[c]])].listening = TRUE
                  /\ request_map[Entry(id[recv_msg[c]])].arg = recv_msg[c]

\* An entry that belongs to nobody is free.
FreeInv ==
    \A e \in 0..(max_hold_req_num - 1) :
        (\A r \in Requests : r \in Outstanding => Entry(id[r]) # e) => request_map[e].req_id = 0

MapInv == TypeOK /\ ApartInv /\ FilledInv /\ ReaderInv /\ FreeInv /\ RightDelivery

MapEntry == [req_id : Nat, listening : BOOLEAN, arg : Requests \cup {NULL}]

\* One field of one entry is written.
LEMMA EntryChanged ==
    ASSUME TypeOK, NEW e \in 0..(max_hold_req_num - 1), NEW n \in Nat, NEW r \in Requests, NEW b \in BOOLEAN
    PROVE  /\ [request_map EXCEPT ![e].req_id = n] \in [0..(max_hold_req_num - 1) -> MapEntry]
           /\ [request_map EXCEPT ![e].listening = b] \in [0..(max_hold_req_num - 1) -> MapEntry]
           /\ [request_map EXCEPT ![e].arg = r] \in [0..(max_hold_req_num - 1) -> MapEntry]
<1>1. request_map \in [0..(max_hold_req_num - 1) -> MapEntry]
  BY DEF TypeOK, MapEntry
<1>2. request_map[e] \in MapEntry
  BY <1>1
<1>3. /\ [request_map[e] EXCEPT !.req_id = n] \in MapEntry
      /\ [request_map[e] EXCEPT !.listening = b] \in MapEntry
      /\ [request_map[e] EXCEPT !.arg = r] \in MapEntry
  BY <1>2 DEF MapEntry
<1> QED
  BY <1>1, <1>3

LEMMA TypeStep == TypeOK /\ ReaderInv /\ [Next]_vars => TypeOK'
<1> SUFFICES ASSUME TypeOK, ReaderInv, [Next]_vars PROVE TypeOK'
  OBVIOUS
<1> USE DEF TypeOK, RequestStep, ReadStep
<1>1. CASE UNCHANGED vars
  BY <1>1 DEF vars
<1>2. ASSUME NEW r \in Requests, NEW c \in Channels, DrawId(r, c) PROVE TypeOK'
  BY <1>2 DEF DrawId
<1>3. ASSUME NEW r \in Requests, Hold(r) PROVE TypeOK'
  <2>1. CASE request_map[Entry(id[r])].req_id # 0
    BY <1>3, <2>1 DEF Hold
  <2>2. CASE request_map[Entry(id[r])].req_id = 0
    <3>1. Entry(id[r]) \in 0..(max_hold_req_num - 1) /\ id[r] \in Nat
      BY EntryInTable
    <3>2. /\ request_map' = [request_map EXCEPT ![Entry(id[r])].req_id = id[r]]
          /\ rpc' = [rpc EXCEPT ![r] = "listening"]
          /\ UNCHANGED <<request_id, id, channel, request_num, readers>>
      BY <1>3, <2>2 DEF Hold
    <3>3. request_map' \in [0..(max_hold_req_num - 1) -> MapEntry]
      BY <3>1, <3>2, EntryChanged
    <3> QED
      BY <3>2, <3>3 DEF MapEntry
  <2> QED
    BY <2>1, <2>2
<1>4. ASSUME NEW r \in Requests, HoldListening(r) PROVE TypeOK'
  <2>1. /\ request_map' = [request_map EXCEPT ![Entry(id[r])].listening = TRUE]
        /\ Entry(id[r]) \in 0..(max_hold_req_num - 1)
    BY <1>4, EntryInTable DEF HoldListening
  <2>2. request_map' \in [0..(max_hold_req_num - 1) -> MapEntry]
    BY <2>1, EntryChanged
  <2> QED
    BY <1>4, <2>2 DEF HoldListening, MapEntry
<1>5. ASSUME NEW r \in Requests, HoldArg(r) PROVE TypeOK'
  <2>1. /\ request_map' = [request_map EXCEPT ![Entry(id[r])].arg = r]
        /\ Entry(id[r]) \in 0..(max_hold_req_num - 1)
    BY <1>5, EntryInTable DEF HoldArg
  <2>2. request_map' \in [0..(max_hold_req_num - 1) -> MapEntry]
    BY <2>1, EntryChanged
  <2> QED
    BY <1>5, <2>2 DEF HoldArg, MapEntry
<1>6. ASSUME NEW r \in Requests, Send(r) PROVE TypeOK'
  BY <1>6 DEF Send
<1>7. ASSUME NEW r \in Requests, NEW c \in Channels, Receive(c, r) PROVE TypeOK'
  BY <1>7 DEF Receive
<1>8. ASSUME NEW c \in Channels, CallListening(c) PROVE TypeOK'
  <2>1. crashed' \in BOOLEAN /\ dpc' \in [Channels -> {"idle", "call", "clear", "free"}]
    BY <1>8 DEF CallListening
  <2>2. delivered' \in [Requests -> SUBSET Requests]
    <3>1. CASE delivered' = delivered
      BY <3>1
    <3>2. CASE delivered' # delivered
      <4> DEFINE a == request_map[EntryOf(c)].arg
      <4>1. a \in Requests /\ delivered' = [delivered EXCEPT ![a] = @ \cup {recv_msg[c]}]
        BY <1>8, <3>2 DEF CallListening
      <4>2. recv_msg[c] \in Requests
        BY <1>8 DEF CallListening, ReaderInv
      <4> HIDE DEF a
      <4> QED
        BY <4>1, <4>2
    <3> QED
      BY <3>1, <3>2
  <2> QED
    BY <1>8, <2>1, <2>2 DEF CallListening
<1>9. ASSUME NEW c \in Channels, ClearListening(c) PROVE TypeOK'
  BY <1>9 DEF ClearListening
<1>10. ASSUME NEW c \in Channels, ClearId(c) PROVE TypeOK'
  <2>1. recv_msg[c] \in Requests
    BY <1>10 DEF ClearId, ReaderInv
  <2>2. EntryOf(c) \in 0..(max_hold_req_num - 1)
    BY <2>1, EntryInTable DEF EntryOf
  <2>3. request_map' = [request_map EXCEPT ![EntryOf(c)].req_id = 0]
    BY <1>10 DEF ClearId
  <2>4. request_map' \in [0..(max_hold_req_num - 1) -> MapEntry]
    <3>1. 0 \in Nat
      OBVIOUS
    <3> HIDE DEF TypeOK
    <3> QED
      BY <2>1, <2>2, <2>3, <3>1, EntryChanged
  <2>5. recv_msg' \in [Channels -> Requests \cup {NULL}] /\ dpc' \in [Channels -> {"idle", "call", "clear", "free"}]
    BY <1>10 DEF ClearId
  <2>6. rpc' \in [Requests -> {"new", "hold", "listening", "arg", "send", "sent", "answered", "done"}]
    BY <1>10 DEF ClearId
  <2> QED
    BY <1>10, <2>4, <2>5, <2>6 DEF ClearId, MapEntry
<1> QED
  BY <1>1, <1>2, <1>3, <1>4, <1>5, <1>6, <1>7, <1>8, <1>9, <1>10
     DEF Next, RequestStepOf, ReadStepOf

LEMMA MapInit == Init => MapInv
<1> SUFFICES ASSUME Init PROVE MapInv
  OBVIOUS
<1>1. TypeOK
  <2>1. request_map \in [0..(max_hold_req_num - 1) ->
                            [req_id : Nat, listening : BOOLEAN, arg : Requests \cup {NULL}]]
    BY DEF Init
  <2>2. delivered \in [Requests -> SUBSET Requests]
    BY DEF Init
  <2>3. rpc \in [Requests -> {"new", "hold", "listening", "arg", "send", "sent", "answered", "done"}]
    BY DEF Init
  <2>4. id \in [Requests -> Nat] /\ channel \in [Requests -> Channels \cup {NULL}]
    BY DEF Init
  <2>5. request_num \in [Channels -> Int] /\ dpc \in [Channels -> {"idle", "call", "clear", "free"}]
    BY DEF Init
  <2>6. recv_msg \in [Channels -> Requests \cup {NULL}] /\ request_id \in Nat /\ crashed \in BOOLEAN
    BY DEF Init
  <2> QED
    BY <2>1, <2>2, <2>3, <2>4, <2>5, <2>6 DEF TypeOK
<1>2. Outstanding = {}
  BY DEF Init, Outstanding
<1>3. ApartInv /\ FreeInv
  BY <1>2 DEF Init, ApartInv, FreeInv
<1>4. FilledInv /\ ReaderInv
  BY DEF Init, FilledInv, Filled, ReaderInv
<1>5. RightDelivery
  BY <1>1 DEF Init, RightDelivery
<1> QED
  BY <1>1, <1>3, <1>4, <1>5 DEF MapInv

\* An entry is changed by its owner only, so what the others have is untouched.
LEMMA OthersApart ==
    ASSUME TypeOK, ApartInv, NEW r \in Outstanding, NEW s \in Requests, s # r, s \in Outstanding
    PROVE  Entry(id[s]) # Entry(id[r])
  BY DEF ApartInv, Outstanding

\* A step of the thread of an outstanding request, that writes no entry but its
\* own and leaves that one as far filled as it should be.
LEMMA FillStep ==
    ASSUME MapInv, TypeOK', NEW r \in Outstanding, rpc[r] # "answered", Outstanding' = Outstanding,
           \A s \in Requests \ {r} : rpc'[s] = rpc[s],
           \A e \in 0..(max_hold_req_num - 1) \ {Entry(id[r])} : request_map'[e] = request_map[e],
           UNCHANGED <<id, channel, dpc, recv_msg, crashed, delivered>>,
           Filled(r)'
    PROVE  MapInv'
<1> USE DEF MapInv, TypeOK
<1>0. r \in Requests
  BY DEF Outstanding
<1>1. \A s \in Requests : Entry(id[s]) \in 0..(max_hold_req_num - 1)
  BY EntryInTable
<1>2. \A s \in Outstanding \ {r} : request_map'[Entry(id[s])] = request_map[Entry(id[s])]
  <2> SUFFICES ASSUME NEW s \in Outstanding \ {r}
               PROVE  request_map'[Entry(id[s])] = request_map[Entry(id[s])]
    OBVIOUS
  <2>1. s \in Requests
    BY DEF Outstanding
  <2> QED
    BY <1>0, <1>1, <2>1, OthersApart
<1>3. ApartInv'
  BY DEF ApartInv
<1>4. FilledInv'
  <2> SUFFICES ASSUME NEW s \in Requests PROVE Filled(s)'
    BY DEF FilledInv
  <2>1. CASE s = r
    BY <2>1
  <2>2. CASE s # r /\ s \in Outstanding
    <3>1. rpc'[s] = rpc[s] /\ id'[s] = id[s] /\ request_map'[Entry(id[s])] = request_map[Entry(id[s])]
      BY <1>2, <2>2
    <3> QED
      BY <3>1 DEF FilledInv, Filled
  <2>3. CASE s \notin Outstanding
    BY <2>3 DEF Outstanding, Filled
  <2> QED
    BY <2>1, <2>2, <2>3
<1>5. ReaderInv'
  <2> SUFFICES ASSUME NEW c \in Channels, dpc'[c] # "idle" PROVE ReaderInv!(c)!2'
    BY DEF ReaderInv
  <2>0. dpc[c] # "idle"
    OBVIOUS
  <2>1. recv_msg[c] \in Requests \ {r} /\ recv_msg[c] \in Outstanding \ {r}
    BY <1>0, <2>0 DEF ReaderInv, Outstanding
  <2>2. /\ rpc'[recv_msg[c]] = rpc[recv_msg[c]]
        /\ request_map'[Entry(id[recv_msg[c]])] = request_map[Entry(id[recv_msg[c]])]
    BY <1>2, <2>1
  <2> QED
    BY <2>0, <2>1, <2>2 DEF ReaderInv
<1>6. FreeInv'
  BY <1>0 DEF FreeInv
<1>7. RightDelivery'
  BY DEF RightDelivery
<1> QED
  BY <1>3, <1>4, <1>5, <1>6, <1>7

LEMMA MapStep ==
    ASSUME Load = "apart"
    PROVE  MapInv /\ [Next]_vars => MapInv'
<1> SUFFICES ASSUME MapInv, [Next]_vars PROVE MapInv'
  OBVIOUS
<1>0. TypeOK'
  BY TypeStep DEF MapInv
<1> USE DEF MapInv, RequestStep, ReadStep, TypeOK
<1>1. CASE UNCHANGED vars
  <2>1. Outstanding' = Outstanding
    BY <1>1 DEF vars, Outstanding
  <2> QED
    BY <1>1, <2>1 DEF vars, ApartInv, FilledInv, Filled, ReaderInv, FreeInv, RightDelivery, Entry
<1>2. ASSUME NEW r \in Requests, NEW c \in Channels, DrawId(r, c) PROVE MapInv'
  <2>1. Outstanding' = Outstanding \cup {r} /\ r \notin Outstanding
    BY <1>2 DEF DrawId, Outstanding
  <2>2. id'[r] = request_id + 1 /\ \A s \in Requests \ {r} : id'[s] = id[s] /\ rpc'[s] = rpc[s] /\ channel'[s] = channel[s]
    BY <1>2 DEF DrawId
  <2>3. \A s \in Outstanding : Entry(id[s]) # Entry(id'[r])
    BY <1>2, <2>2 DEF DrawId, Admissible
  <2>4. request_map[Entry(id'[r])].req_id = 0
    BY <2>2, <2>3, EntryInTable DEF FreeInv
  <2>5. ApartInv'
    BY <2>1, <2>2, <2>3 DEF ApartInv
  <2>6. FilledInv'
    BY <1>2, <2>2, <2>4 DEF DrawId, FilledInv, Filled
  <2>7. ReaderInv'
    <3>1. UNCHANGED <<dpc, recv_msg, request_map>> /\ rpc[r] = "new"
      BY <1>2 DEF DrawId
    <3> SUFFICES ASSUME NEW d \in Channels, dpc[d] # "idle" PROVE ReaderInv!(d)!2'
      BY <3>1 DEF ReaderInv
    <3>2. recv_msg[d] \in Requests \ {r} /\ ReaderInv!(d)!2
      BY <3>1 DEF ReaderInv
    <3>3. id'[recv_msg[d]] = id[recv_msg[d]] /\ rpc'[recv_msg[d]] = rpc[recv_msg[d]] /\ channel'[recv_msg[d]] = channel[recv_msg[d]]
      BY <2>2, <3>2
    <3> QED
      BY <3>1, <3>2, <3>3
  <2>8. FreeInv'
    BY <1>2, <2>1, <2>2 DEF DrawId, FreeInv, Outstanding
  <2>9. RightDelivery'
    BY <1>0, <1>2 DEF DrawId, RightDelivery
  <2> QED
    BY <1>0, <2>5, <2>6, <2>7, <2>8, <2>9
<1>3. ASSUME NEW r \in Requests, Hold(r) PROVE MapInv'
  <2>0. /\ request_map' = [request_map EXCEPT ![Entry(id[r])].req_id = id[r]]
        /\ rpc[r] = "hold" /\ rpc' = [rpc EXCEPT ![r] = "listening"]
    BY <1>3 DEF Hold, FilledInv, Filled
  <2>1. r \in Outstanding /\ rpc[r] # "answered" /\ Outstanding' = Outstanding
    BY <2>0 DEF Outstanding
  <2>2. \A s \in Requests \ {r} : rpc'[s] = rpc[s]
    BY <2>0
  <2>3. \A e \in 0..(max_hold_req_num - 1) \ {Entry(id[r])} : request_map'[e] = request_map[e]
    BY <2>0
  <2>4. UNCHANGED <<id, channel, dpc, recv_msg, crashed, delivered>>
    BY <1>3 DEF Hold
  <2>5. Filled(r)'
    BY <2>0, <2>4, EntryInTable DEF Filled
  <2> QED
    BY <1>0, <2>1, <2>2, <2>3, <2>4, <2>5, FillStep
<1>4. ASSUME NEW r \in Requests, HoldListening(r) PROVE MapInv'
  <2>1. r \in Outstanding /\ rpc[r] # "answered" /\ Outstanding' = Outstanding
    BY <1>4 DEF HoldListening, Outstanding
  <2>2. \A s \in Requests \ {r} : rpc'[s] = rpc[s]
    BY <1>4 DEF HoldListening
  <2>3. \A e \in 0..(max_hold_req_num - 1) \ {Entry(id[r])} : request_map'[e] = request_map[e]
    BY <1>4 DEF HoldListening
  <2>4. UNCHANGED <<id, channel, dpc, recv_msg, crashed, delivered>>
    BY <1>4 DEF HoldListening
  <2>5. Filled(r)'
    BY <1>4, EntryInTable DEF HoldListening, FilledInv, Filled
  <2> QED
    BY <1>0, <2>1, <2>2, <2>3, <2>4, <2>5, FillStep
<1>5. ASSUME NEW r \in Requests, HoldArg(r) PROVE MapInv'
  <2>1. r \in Outstanding /\ rpc[r] # "answered" /\ Outstanding' = Outstanding
    BY <1>5 DEF HoldArg, Outstanding
  <2>2. \A s \in Requests \ {r} : rpc'[s] = rpc[s]
    BY <1>5 DEF HoldArg
  <2>3. \A e \in 0..(max_hold_req_num - 1) \ {Entry(id[r])} : request_map'[e] = request_map[e]
    BY <1>5 DEF HoldArg
  <2>4. UNCHANGED <<id, channel, dpc, recv_msg, crashed, delivered>>
    BY <1>5 DEF HoldArg
  <2>5. Filled(r)'
    BY <1>5, EntryInTable DEF HoldArg, FilledInv, Filled
  <2> QED
    BY <1>0, <2>1, <2>2, <2>3, <2>4, <2>5, FillStep
<1>6. ASSUME NEW r \in Requests, Send(r) PROVE MapInv'
  <2>1. r \in Outstanding /\ rpc[r] # "answered" /\ Outstanding' = Outstanding
    BY <1>6 DEF Send, Outstanding
  <2>2. \A s \in Requests \ {r} : rpc'[s] = rpc[s]
    BY <1>6 DEF Send
  <2>3. \A e \in 0..(max_hold_req_num - 1) \ {Entry(id[r])} : request_map'[e] = request_map[e]
    BY <1>6 DEF Send
  <2>4. UNCHANGED <<id, channel, dpc, recv_msg, crashed, delivered>>
    BY <1>6 DEF Send
  <2>5. Filled(r)'
    BY <1>6, EntryInTable DEF Send, FilledInv, Filled
  <2> QED
    BY <1>0, <2>1, <2>2, <2>3, <2>4, <2>5, FillStep
<1>7. ASSUME NEW r \in Requests, NEW c \in Channels, Receive(c, r) PROVE MapInv'
  <2>0. /\ rpc[r] = "sent" /\ channel[r] = c /\ rpc' = [rpc EXCEPT ![r] = "answered"]
        /\ recv_msg' = [recv_msg EXCEPT ![c] = r] /\ dpc' = [dpc EXCEPT ![c] = "call"]
        /\ UNCHANGED <<id, channel, request_map, crashed, delivered>>
    BY <1>7 DEF Receive
  <2>1. Outstanding' = Outstanding
    BY <2>0 DEF Outstanding
  <2>2. ApartInv' /\ FreeInv'
    BY <2>0, <2>1 DEF ApartInv, FreeInv
  <2>3. FilledInv'
    BY <2>0 DEF FilledInv, Filled
  <2>4. ReaderInv'
    <3> SUFFICES ASSUME NEW d \in Channels, dpc'[d] # "idle" PROVE ReaderInv!(d)!2'
      BY DEF ReaderInv
    <3>1. CASE d = c
      BY <2>0, <3>1 DEF FilledInv, Filled
    <3>2. CASE d # c
      <4>1. dpc'[d] = dpc[d] /\ recv_msg'[d] = recv_msg[d]
        BY <2>0, <3>2
      <4>2. ReaderInv!(d)!2
        BY <4>1 DEF ReaderInv
      <4>3. rpc'[recv_msg[d]] = "answered"
        BY <2>0, <4>2
      <4> QED
        BY <2>0, <4>1, <4>2, <4>3
    <3> QED
      BY <3>1, <3>2
  <2>5. RightDelivery'
    BY <1>0, <2>0 DEF RightDelivery
  <2> QED
    BY <1>0, <2>2, <2>3, <2>4, <2>5
<1>8. ASSUME NEW c \in Channels, CallListening(c) PROVE MapInv'
  <2> DEFINE r == recv_msg[c]
  <2>1. r \in Requests /\ request_map[Entry(id[r])].listening = TRUE /\ request_map[Entry(id[r])].arg = r
    BY <1>8 DEF CallListening, ReaderInv
  <2>2. crashed' = FALSE /\ delivered' = [delivered EXCEPT ![r] = @ \cup {r}]
    BY <1>8, <2>1 DEF CallListening, EntryOf
  <2>3. UNCHANGED <<id, channel, rpc, request_map, recv_msg>> /\ dpc' = [dpc EXCEPT ![c] = "clear"] /\ dpc[c] = "call"
    BY <1>8 DEF CallListening
  <2> HIDE DEF r
  <2>4. Outstanding' = Outstanding
    BY <2>3 DEF Outstanding
  <2>5. ApartInv' /\ FreeInv'
    BY <2>3, <2>4 DEF ApartInv, FreeInv
  <2>6. FilledInv'
    BY <2>3 DEF FilledInv, Filled
  <2>7. ReaderInv'
    <3> SUFFICES ASSUME NEW d \in Channels, dpc'[d] # "idle" PROVE ReaderInv!(d)!2'
      BY DEF ReaderInv
    <3>1. dpc[d] # "idle" /\ (dpc'[d] = "call" => dpc[d] = "call")
      BY <2>3
    <3> QED
      BY <2>3, <3>1 DEF ReaderInv
  <2>8. RightDelivery'
    BY <1>0, <2>1, <2>2 DEF RightDelivery
  <2> QED
    BY <1>0, <2>5, <2>6, <2>7, <2>8
<1>9. ASSUME NEW c \in Channels, ClearListening(c) PROVE MapInv'
  <2> DEFINE r == recv_msg[c]
  <2>1. r \in Requests /\ r \in Outstanding /\ rpc[r] = "answered" /\ channel[r] = c
    BY <1>9 DEF ClearListening, ReaderInv, Outstanding
  <2>2. request_map' = [request_map EXCEPT ![Entry(id[r])].listening = FALSE]
    BY <1>9 DEF ClearListening, EntryOf
  <2>3. UNCHANGED <<id, channel, rpc, recv_msg, crashed, delivered>> /\ dpc' = [dpc EXCEPT ![c] = "free"] /\ dpc[c] = "clear"
    BY <1>9 DEF ClearListening
  <2> HIDE DEF r
  <2>4. Outstanding' = Outstanding
    BY <2>3 DEF Outstanding
  <2>5. \A s \in Requests : Entry(id[s]) \in 0..(max_hold_req_num - 1)
    BY EntryInTable
  <2>6. \A s \in Requests \ {r} : s \in Outstanding => request_map'[Entry(id[s])] = request_map[Entry(id[s])]
    BY <2>1, <2>2, <2>5, OthersApart
  <2>7. ApartInv'
    BY <2>3, <2>4 DEF ApartInv
  <2>8. FilledInv'
    <3> SUFFICES ASSUME NEW s \in Requests PROVE Filled(s)'
      BY DEF FilledInv
    <3>1. CASE s = r \/ s \notin Outstanding
      BY <2>1, <2>3, <3>1 DEF Outstanding, Filled
    <3>2. CASE s # r /\ s \in Outstanding
      <4>1. rpc'[s] = rpc[s] /\ id'[s] = id[s] /\ request_map'[Entry(id[s])] = request_map[Entry(id[s])]
        BY <2>3, <2>6, <3>2
      <4> QED
        BY <4>1 DEF FilledInv, Filled
    <3> QED
      BY <3>1, <3>2
  <2>9. ReaderInv'
    <3> SUFFICES ASSUME NEW d \in Channels, dpc'[d] # "idle" PROVE ReaderInv!(d)!2'
      BY DEF ReaderInv
    <3>1. CASE d = c
      BY <2>1, <2>3, <3>1 DEF ReaderInv
    <3>2. CASE d # c
      <4>1. recv_msg[d] \in Requests /\ recv_msg[d] # r /\ recv_msg[d] \in Outstanding /\ dpc[d] # "idle"
        BY <2>1, <2>3, <3>2 DEF ReaderInv, Outstanding
      <4> QED
        BY <2>3, <2>6, <3>2, <4>1 DEF ReaderInv
    <3> QED
      BY <3>1, <3>2
  <2>10. FreeInv'
    BY <2>1, <2>2, <2>3, <2>4, <2>5 DEF FreeInv
  <2>11. RightDelivery'
    BY <1>0, <2>3 DEF RightDelivery
  <2> QED
    BY <1>0, <2>7, <2>8, <2>9, <2>10, <2>11
<1>10. ASSUME NEW c \in Channels, ClearId(c) PROVE MapInv'
  <2> DEFINE r == recv_msg[c]
  <2>1. r \in Requests /\ r \in Outstanding /\ rpc[r] = "answered" /\ channel[r] = c
    BY <1>10 DEF ClearId, ReaderInv, Outstanding
  <2>2. request_map' = [request_map EXCEPT ![Entry(id[r])].req_id = 0]
    BY <1>10 DEF ClearId, EntryOf
  <2>3. /\ UNCHANGED <<id, channel, crashed, delivered>> /\ dpc' = [dpc EXCEPT ![c] = "idle"]
        /\ rpc' = [rpc EXCEPT ![r] = "done"] /\ recv_msg' = [recv_msg EXCEPT ![c] = NULL]
    BY <1>10 DEF ClearId
  <2> HIDE DEF r
  <2>4. Outstanding' = Outstanding \ {r}
    BY <2>1, <2>3 DEF Outstanding
  <2>5. \A s \in Requests : Entry(id[s]) \in 0..(max_hold_req_num - 1)
    BY EntryInTable
  <2>6. \A s \in Requests \ {r} : s \in Outstanding => request_map'[Entry(id[s])] = request_map[Entry(id[s])]
    BY <2>1, <2>2, <2>5, OthersApart
  <2>7. ApartInv'
    BY <2>3, <2>4 DEF ApartInv
  <2>8. FilledInv'
    <3> SUFFICES ASSUME NEW s \in Requests PROVE Filled(s)'
      BY DEF FilledInv
    <3>1. CASE s = r \/ s \notin Outstanding
      BY <2>1, <2>3, <3>1 DEF Outstanding, Filled
    <3>2. CASE s # r /\ s \in Outstanding
      <4>1. rpc'[s] = rpc[s] /\ id'[s] = id[s] /\ request_map'[Entry(id[s])] = request_map[Entry(id[s])]
        BY <2>3, <2>6, <3>2
      <4> QED
        BY <4>1 DEF FilledInv, Filled
    <3> QED
      BY <3>1, <3>2
  <2>9. ReaderInv'
    <3> SUFFICES ASSUME NEW d \in Channels, dpc'[d] # "idle" PROVE ReaderInv!(d)!2'
      BY DEF ReaderInv
    <3>1. d # c
      BY <2>3
    <3>2. recv_msg[d] \in Requests /\ recv_msg[d] # r /\ recv_msg[d] \in Outstanding /\ dpc[d] # "idle"
      BY <2>1, <2>3, <3>1 DEF ReaderInv, Outstanding
    <3>3. /\ recv_msg'[d] = recv_msg[d] /\ rpc'[recv_msg[d]] = rpc[recv_msg[d]] /\ dpc'[d] = dpc[d]
          /\ request_map'[Entry(id[recv_msg[d]])] = request_map[Entry(id[recv_msg[d]])]
      BY <2>3, <2>6, <3>1, <3>2
    <3>4. id'[recv_msg[d]] = id[recv_msg[d]] /\ channel'[recv_msg[d]] = channel[recv_msg[d]]
      BY <2>3
    <3>5. ReaderInv!(d)!2
      BY <3>2 DEF ReaderInv
    <3> QED
      BY <3>3, <3>4, <3>5
  <2>10. FreeInv'
    <3> SUFFICES ASSUME NEW e \in 0..(max_hold_req_num - 1),
                        \A s \in Requests : s \in Outstanding' => Entry(id'[s]) # e
                 PROVE  request_map'[e].req_id = 0
      BY DEF FreeInv
    <3>1. CASE e = Entry(id[r])
      BY <2>2, <3>1
    <3>2. CASE e # Entry(id[r])
      BY <2>2, <2>3, <2>4, <3>2 DEF FreeInv
    <3> QED
      BY <3>1, <3>2
  <2>11. RightDelivery'
    BY <1>0, <2>3 DEF RightDelivery
  <2> QED
    BY <1>0, <2>7, <2>8, <2>9, <2>10, <2>11
<1> QED
  BY <1>1, <1>2, <1>3, <1>4, <1>5, <1>6, <1>7, <1>8, <1>9, <1>10
     DEF Next, RequestStepOf, ReadStepOf
-----------------------------------------------------------------------------
\* The invariant behind the delivery of responses (acm_hold_request and
\* acm_io_read_thread) holds in every state, as long as the ids of outstanding
\* requests fall on different entries of request_map.
THEOREM MapInvariant ==
    ASSUME Load = "apart"
    PROVE  Spec => []MapInv
<1>1. Init => MapInv
  BY MapInit
<1>2. MapInv /\ [Next]_vars => MapInv'
  BY MapStep
<1> QED
  BY <1>1, <1>2, PTL DEF Spec

\* Every response that acm_io_read_thread hands out goes to the connection whose
\* request it answers, and the thread calls no null listener, whatever the
\* number of requests, channels and entries and the order of their steps.
THEOREM RightDeliveryHolds ==
    ASSUME Load = "apart"
    PROVE  Spec => []RightDelivery
<1>1. MapInv => RightDelivery
  BY DEF MapInv
<1> QED
  BY <1>1, MapInvariant, PTL

\* The entry that acm_hold_request filled is intact from before the request is
\* queued until its response is received: no other request, and no read thread
\* that clears an entry of its own, touches it.
THEOREM EntryKeptHolds ==
    ASSUME Load = "apart"
    PROVE  Spec => []EntryKept
<1>1. MapInv => EntryKept
  <2> SUFFICES ASSUME MapInv, NEW r \in Requests, rpc[r] \in {"send", "sent"}
               PROVE  request_map[Entry(id[r])] = [req_id |-> id[r], listening |-> TRUE, arg |-> r]
    BY DEF EntryKept
  <2>1. request_map[Entry(id[r])] \in [req_id : Nat, listening : BOOLEAN, arg : Requests \cup {NULL}]
    BY EntryInTable DEF MapInv, TypeOK
  <2>2. /\ request_map[Entry(id[r])].req_id = id[r]
        /\ request_map[Entry(id[r])].listening = TRUE
        /\ request_map[Entry(id[r])].arg = r
    BY DEF MapInv, FilledInv, Filled
  <2> QED
    BY <2>1, <2>2
<1> QED
  BY <1>1, MapInvariant, PTL
=============================================================================
