---------------------------- MODULE ServerLemmas ----------------------------
(***************************************************************************)
(* The inductive invariant of the server, and proofs that the operations   *)
(* its handlers are built from, and the outside world, preserve it.        *)
(***************************************************************************)
EXTENDS Server, FiniteSetTheorems, TLAPS

(* The type invariant by groups of variables. *)
HeapOK  == heap \in [Addr -> Xfer \cup {NoXfer}]
XfersOK == xfers \in [elems : [Slot -> Addr \cup {NULL}], size : Int]
TimersOK == /\ xfer_timers \in [elems : [Slot -> Req \cup {NULL}], size : Int]
            /\ timers \in [Req -> Addr \cup {NULL}] /\ armed \subseteq Req
ListOK == deferred \in Seq(Addr) /\ di \in Nat \ {0}
PollOK == reg \subseteq Resrc /\ ready \subseteq Events /\ batch \subseteq Events
ChanOK == full \subseteq Chan /\ closed \subseteq Chan
RespOK == /\ fds \subseteq Fd /\ pending \in [Req -> {"none"} \cup Terminal]
          /\ client \in [Req -> ClientRec]
Request == [cmd : AllCmds, r : Req, pid : Client, txnid : 0 .. MaxReq]
ReqOK == /\ next_txnid \in 1 .. MaxReq + 1 /\ reqs \in Seq(Request)
         /\ nreq \in 0 .. MaxReq /\ astray \in BOOLEAN
PcOK == pc \in {"poll", "events", "reqfd", "deferred", "exited", "abort", "uaf"}

LiveSet == {a \in Addr : Live(a)}

(* Every request received uses up at most one transaction ID. *)
Reserve == next_txnid + Len(reqs) <= nreq + 1

(* process_deferred is always at an element of the list. *)
Cursor == pc = "deferred" => di <= Len(deferred)

TableInv == HeapOK /\ XfersOK /\ TableExact /\ IsFiniteSet(LiveSet)
RestInv == TimersOK /\ ListOK /\ PollOK /\ ChanOK /\ RespOK /\ ReqOK /\ PcOK /\ Reserve /\ Cursor

(* What every step preserves. *)
IndInv == TableInv /\ RestInv
-----------------------------------------------------------------------------
(* The groups together are the type invariant. *)
LEMMA TypeParts == TypeOK <=> HeapOK /\ XfersOK /\ TimersOK /\ ListOK /\ PollOK /\ ChanOK
                              /\ RespOK /\ ReqOK /\ PcOK
BY DEF TypeOK, HeapOK, XfersOK, TimersOK, ListOK, PollOK, ChanOK, RespOK, ReqOK, PcOK, Request

(* indexof yields a slot of the table. *)
LEMMA IndexInSlot == \A h \in Nat : indexof(h) \in Slot
BY CapacityAssumption DEF indexof, Slot

(* Transaction IDs start at 1, so that 0 marks free memory. *)
LEMMA NoXferFree == NoXfer.txnid = 0 /\ \A x \in Xfer : x.txnid \in Req /\ x.txnid # 0
BY ServerAssumption DEF NoXfer, Xfer, Req

(* Memory in use holds a transfer, whose ID has a slot. *)
LEMMA LiveXfer == ASSUME HeapOK, NEW a \in Addr, Live(a)
                  PROVE heap[a] \in Xfer /\ heap[a].txnid \in Nat /\ indexof(heap[a].txnid) \in Slot
BY IndexInSlot, NoXferFree, ServerAssumption DEF HeapOK, Live, Req

(* Freeing a transfer that exists keeps the table exact. *)
LEMMA FreeKeepsTable ==
  ASSUME TableInv, NEW a \in Addr, Live(a), FreeXfer(a)
  PROVE  TableInv'
<1> DEFINE k == indexof(heap[a].txnid)
<1>1. k \in Slot /\ xfers.elems[k] = a
  BY LiveXfer DEF TableInv, TableExact, xfer_table_find
<1>2. /\ heap' = [heap EXCEPT ![a] = NoXfer]
      /\ xfers' = [elems |-> [xfers.elems EXCEPT ![k] = NULL], size |-> xfers.size - 1]
  BY DEF FreeXfer, xfer_table_erase
<1>3. HeapOK' /\ XfersOK'
  BY <1>1, <1>2 DEF TableInv, HeapOK, XfersOK
<1>4. \A b \in Addr : Live(b)' <=> Live(b) /\ b # a
  BY <1>2, NoXferFree DEF Live, TableInv, HeapOK
<1>5. LiveSet' = LiveSet \ {a} /\ a \in LiveSet
  BY <1>4 DEF LiveSet
<1>6. IsFiniteSet(LiveSet') /\ Cardinality(LiveSet') = Cardinality(LiveSet) - 1
  BY <1>5, FS_RemoveElement DEF TableInv
<1>7. xfers'.size = Cardinality(LiveSet')
  BY <1>2, <1>6 DEF TableInv, TableExact, LiveSet
<1>8. ASSUME NEW i \in Slot, xfers'.elems[i] # NULL
      PROVE  Live(xfers.elems[i])' /\ indexof(heap'[xfers'.elems[i]].txnid) = i
  <2> DEFINE b == xfers.elems[i]
  <2>1. i # k /\ xfers'.elems[i] = b /\ b # NULL
    BY <1>1, <1>2, <1>8 DEF TableInv, XfersOK
  <2>2. b \in Addr /\ Live(b) /\ indexof(heap[b].txnid) = i
    BY <2>1 DEF TableInv, TableExact, XfersOK
  <2>3. b # a
    BY <2>1, <2>2
  <2> QED BY <1>2, <1>4, <2>1, <2>2, <2>3 DEF TableInv, HeapOK
<1>9. ASSUME NEW b \in Addr, Live(b)'
      PROVE  xfers'.elems[indexof(heap'[b].txnid)] = b
  <2>1. Live(b) /\ b # a /\ heap'[b] = heap[b]
    BY <1>2, <1>4, <1>9 DEF TableInv, HeapOK
  <2>2. indexof(heap[b].txnid) \in Slot /\ xfers.elems[indexof(heap[b].txnid)] = b
    BY <2>1, LiveXfer DEF TableInv, TableExact, xfer_table_find
  <2>3. indexof(heap[b].txnid) # k
    BY <1>1, <2>1, <2>2
  <2> QED BY <1>2, <2>1, <2>2, <2>3 DEF TableInv, XfersOK
<1> QED
  BY <1>3, <1>6, <1>7, <1>8, <1>9 DEF TableInv, TableExact, xfer_table_find, LiveSet, Live

(* So does adding one, in a free slot and at a free address. *)
LEMMA AddKeepsTable ==
  ASSUME TableInv, ReqOK, NEW q \in Request, NEW a \in Addr, NEW dest \in Chan \cup {NoFd},
         q.cmd \in {"OPEN", "READ", "SEND"}, q.cmd = "OPEN" <=> dest = NoFd,
         next_txnid \in Req, add_xfer(q, a, dest)
  PROVE  TableInv'
<1> DEFINE k == indexof(next_txnid)
           x == xfer_new(q, dest)
<1>1. k \in Slot /\ xfers.elems[k] = NULL /\ heap[a] = NoXfer
  BY IndexInSlot DEF add_xfer, SlotFree, ReqOK
<1>2. /\ heap' = [heap EXCEPT ![a] = x]
      /\ xfers' = [elems |-> [xfers.elems EXCEPT ![k] = a], size |-> xfers.size + 1]
  BY DEF add_xfer, xfer_table_insert
<1>3. x \in Xfer
  BY ServerAssumption DEF xfer_new, Xfer, Request, Defer
<1> HIDE DEF x
<1>4. HeapOK' /\ XfersOK'
  BY <1>1, <1>2, <1>3 DEF TableInv, HeapOK, XfersOK
<1>5. \A b \in Addr : Live(b)' <=> Live(b) \/ b = a
  BY <1>2, <1>3, NoXferFree DEF Live, TableInv, HeapOK
<1>6. ~Live(a)
  BY <1>1, NoXferFree DEF Live
<1>7. LiveSet' = LiveSet \cup {a} /\ a \notin LiveSet
  BY <1>5, <1>6 DEF LiveSet
<1>8. IsFiniteSet(LiveSet') /\ Cardinality(LiveSet') = Cardinality(LiveSet) + 1
  BY <1>7, FS_AddElement DEF TableInv
<1>9. xfers'.size = Cardinality(LiveSet')
  BY <1>2, <1>8 DEF TableInv, TableExact, LiveSet
<1>10. heap'[a].txnid = next_txnid
  BY <1>2 DEF x, xfer_new, TableInv, HeapOK
<1>11. ASSUME NEW i \in Slot, xfers'.elems[i] # NULL
       PROVE  Live(xfers.elems[i])' /\ indexof(heap'[xfers'.elems[i]].txnid) = i
  <2>1. CASE i = k
    BY <1>1, <1>2, <1>5, <1>10, <2>1 DEF TableInv, XfersOK
  <2>2. CASE i # k
    <3> DEFINE b == xfers.elems[i]
    <3>1. xfers'.elems[i] = b /\ b # NULL
      BY <1>2, <1>11, <2>2 DEF TableInv, XfersOK
    <3>2. b \in Addr /\ Live(b) /\ indexof(heap[b].txnid) = i
      BY <3>1 DEF TableInv, TableExact, XfersOK
    <3>3. b # a
      BY <1>6, <3>2
    <3> QED BY <1>2, <1>5, <3>1, <3>2, <3>3 DEF TableInv, HeapOK
  <2> QED BY <2>1, <2>2
<1>12. ASSUME NEW b \in Addr, Live(b)'
       PROVE  xfers'.elems[indexof(heap'[b].txnid)] = b
  <2>1. CASE b = a
    BY <1>1, <1>2, <1>10, <2>1 DEF TableInv, XfersOK
  <2>2. CASE b # a
    <3>1. Live(b) /\ heap'[b] = heap[b]
      BY <1>2, <1>5, <1>12, <2>2 DEF TableInv, HeapOK
    <3>2. indexof(heap[b].txnid) \in Slot /\ xfers.elems[indexof(heap[b].txnid)] = b
      BY <3>1, LiveXfer DEF TableInv, TableExact, xfer_table_find
    <3>3. indexof(heap[b].txnid) # k
      BY <1>1, <3>2, ServerAssumption
    <3> QED BY <1>2, <3>1, <3>2, <3>3 DEF TableInv, XfersOK
  <2> QED BY <2>1, <2>2
<1> QED
  BY <1>4, <1>8, <1>9, <1>11, <1>12 DEF TableInv, TableExact, xfer_table_find, LiveSet, Live

(* So does any change to transfers that leaves their IDs alone. *)
LEMMA SameIdsKeepTable ==
  ASSUME TableInv, HeapOK', UNCHANGED xfers, \A a \in Addr : heap'[a].txnid = heap[a].txnid
  PROVE  TableInv'
<1>1. \A a \in Addr : Live(a)' <=> Live(a)
  BY DEF Live
<1>2. LiveSet' = LiveSet
  BY <1>1 DEF LiveSet
<1>3. XfersOK' /\ IsFiniteSet(LiveSet') /\ xfers'.size = Cardinality(LiveSet')
  BY <1>2 DEF TableInv, TableExact, LiveSet, XfersOK
<1>4. \A i \in Slot : xfers'.elems[i] # NULL =>
        Live(xfers.elems[i])' /\ indexof(heap'[xfers'.elems[i]].txnid) = i
  BY <1>1 DEF TableInv, TableExact, XfersOK
<1>5. \A a \in Addr : Live(a)' => xfers'.elems[indexof(heap'[a].txnid)] = a
  BY <1>1 DEF TableInv, TableExact, xfer_table_find
<1> QED
  BY <1>3, <1>4, <1>5 DEF TableInv, TableExact, xfer_table_find, LiveSet, Live

(* What touches neither heap nor table keeps the table exact. *)
LEMMA StutterKeepsTable == ASSUME TableInv, UNCHANGED <<heap, xfers>> PROVE TableInv'
BY SameIdsKeepTable DEF TableInv, HeapOK
-----------------------------------------------------------------------------
(* What events are made of. *)
LEMMA EventsMade ==
  /\ \A g \in Resrc, err \in BOOLEAN : Event(g, err) \in Events
  /\ \A t \in Req : SourceEvent("timer", t) \in Events
  /\ ReqEvent \in Events /\ TermEvent \in Events
BY DEF Events

(* What an event refers to, by its kind. *)
LEMMA EventsUsed ==
  ASSUME NEW e \in Events
  PROVE  /\ e.kind = "timer" => e.id \in Req
         /\ e.kind = "resp" => e.id \in Req
         /\ e.kind = "xfer" => e.id \in Addr
         /\ e.err \in BOOLEAN
<1>1. CASE \E g \in Resrc, err \in BOOLEAN : e = Event(g, err)
  <2>1. PICK g \in Resrc, err \in BOOLEAN : e = Event(g, err)
    BY <1>1
  <2>2. e.kind = g.kind /\ e.id = g.id /\ e.err = err
    BY <2>1 DEF Event
  <2>3. (g.kind = "xfer" /\ g.id \in Addr) \/ (g.kind = "resp" /\ g.id \in Req)
    BY DEF Resrc
  <2> QED BY <2>2, <2>3
<1>2. CASE \E t \in Req : e = SourceEvent("timer", t)
  BY <1>2 DEF SourceEvent
<1>3. CASE e \in {ReqEvent, TermEvent}
  <2>1. e.kind \in {"req", "term"}
    BY <1>3 DEF SourceEvent, ReqEvent, TermEvent
  <2>2. e.err = FALSE
    BY <1>3 DEF SourceEvent, ReqEvent, TermEvent
  <2> QED BY <2>1, <2>2
<1> QED BY <1>1, <1>2, <1>3 DEF Events

(* Receiving a datagram leaves an ID in reserve for each of the others. *)
LEMMA ReceivedKeepsReserve ==
  ASSUME ReqOK, Reserve, reqs # <<>>, Received, next_txnid' \in {next_txnid, next_txnid + 1}
  PROVE  ReqOK' /\ Reserve' /\ Head(reqs) \in Request /\ next_txnid \in Req
<1>1. Head(reqs) \in Request /\ Tail(reqs) \in Seq(Request) /\ Len(Tail(reqs)) = Len(reqs) - 1
      /\ Len(reqs) \in Nat \ {0}
  BY DEF ReqOK
<1>2. reqs' = Tail(reqs) /\ nreq' = nreq /\ astray' \in BOOLEAN
  BY DEF Received, ReqOK, GoesAstray
<1> QED BY <1>1, <1>2, ServerAssumption DEF ReqOK, Reserve, Req

(* Sending one adds a request and takes its number. *)
LEMMA DeliverKeepsReserve ==
  ASSUME ReqOK, Reserve, PollOK, nreq < MaxReq, UNCHANGED next_txnid,
         NEW m \in Request, m.r = nreq + 1, Deliver(m)
  PROVE  ReqOK' /\ Reserve' /\ ready' \subseteq Events
<1>1. Len(reqs') = Len(reqs) + 1 /\ reqs' \in Seq(Request) /\ Len(reqs) \in Nat
  BY DEF Deliver, ReqOK
<1> QED BY <1>1, EventsMade, ServerAssumption DEF ReqOK, Reserve, PollOK, Deliver

(* A client supplies channels only. *)
LEMMA SupplyKeepsChannels ==
  ASSUME ChanOK, UNCHANGED closed, NEW r \in Req, NEW b, Supply(r, b)
  PROVE  ChanOK'
BY DEF ChanOK, Supply, Chan

(* undefer_xfer yields a list of addresses, shorter by one. *)
LEMMA UndeferKeepsList ==
  ASSUME deferred \in Seq(Addr), NEW i \in 1 .. Len(deferred)
  PROVE  undefer_xfer(i) \in Seq(Addr) /\ Len(undefer_xfer(i)) = Len(deferred) - 1
<1> DEFINE n == Len(deferred) - 1
           f == [j \in 1 .. n |-> IF j = i THEN deferred[Len(deferred)] ELSE deferred[j]]
<1>1. n \in Nat /\ n + 1 = Len(deferred) /\ \A j \in 1 .. n + 1 : deferred[j] \in Addr
  OBVIOUS
<1>2. f \in [1 .. n -> Addr]
  BY <1>1
<1>3. f \in Seq(Addr) /\ Len(f) = n
  BY <1>1, <1>2
<1> QED BY <1>3 DEF undefer_xfer

(* Updates of a client's record and of a transfer's, field by field. *)
LEMMA ClientRecUpdates ==
  ASSUME NEW x \in ClientRec
  PROVE  /\ \A o \in {"none"} \cup Nack \cup Terminal : [x EXCEPT !.outcome = o] \in ClientRec
         /\ \A n \in Nat : [x EXCEPT !.bytes = @ + n] \in ClientRec
         /\ \A t \in 0 .. MaxReq : [x EXCEPT !.txn = t] \in ClientRec
         /\ \A f \in {"SEND_OPEN", "CANCEL"} : [x EXCEPT !.asked = @ \cup {f}] \in ClientRec
         /\ \A c \in Client : [x EXCEPT !.pid = c] \in ClientRec
         /\ \A k \in AllCmds : [x EXCEPT !.cmd = k] \in ClientRec
<1>1. ASSUME NEW o \in {"none"} \cup Nack \cup Terminal PROVE [x EXCEPT !.outcome = o] \in ClientRec
  BY DEF ClientRec
<1>2. ASSUME NEW n \in Nat PROVE [x EXCEPT !.bytes = @ + n] \in ClientRec
  BY DEF ClientRec
<1>3. ASSUME NEW t \in 0 .. MaxReq PROVE [x EXCEPT !.txn = t] \in ClientRec
  BY DEF ClientRec
<1>4. ASSUME NEW f \in {"SEND_OPEN", "CANCEL"} PROVE [x EXCEPT !.asked = @ \cup {f}] \in ClientRec
  BY DEF ClientRec
<1>5. ASSUME NEW c \in Client PROVE [x EXCEPT !.pid = c] \in ClientRec
  BY DEF ClientRec
<1>6. ASSUME NEW k \in AllCmds PROVE [x EXCEPT !.cmd = k] \in ClientRec
  BY DEF ClientRec
<1> QED BY <1>1, <1>2, <1>3, <1>4, <1>5, <1>6

(* Telling a client something keeps the type of what it was told. *)
LEMMA ClientUpdates ==
  ASSUME client \in [Req -> ClientRec], NEW r
  PROVE  /\ \A o \in {"none"} \cup Nack \cup Terminal :
              [client EXCEPT ![r].outcome = o] \in [Req -> ClientRec]
         /\ \A n \in Nat : [client EXCEPT ![r].bytes = @ + n] \in [Req -> ClientRec]
         /\ \A t \in 0 .. MaxReq : [client EXCEPT ![r].txn = t] \in [Req -> ClientRec]
         /\ \A f \in {"SEND_OPEN", "CANCEL"} :
              [client EXCEPT ![r].asked = @ \cup {f}] \in [Req -> ClientRec]
BY ClientRecUpdates

(* A turn, a deferral and a SEND_OPEN keep the type of a transfer. *)
LEMMA XferUpdates ==
  ASSUME NEW x \in Xfer
  PROVE  /\ \A d \in Defer : [x EXCEPT !.defer = d] \in Xfer /\ [x EXCEPT !.defer = d].txnid = x.txnid
         /\ \A n \in 1 .. Size : [x EXCEPT !.left = n] \in Xfer /\ [x EXCEPT !.left = n].txnid = x.txnid
         /\ \A ch \in Chan : /\ [x EXCEPT !.cmd = "SEND", !.dest = ch] \in Xfer
                            /\ [x EXCEPT !.cmd = "SEND", !.dest = ch].txnid = x.txnid
<1>1. ASSUME NEW d \in Defer
      PROVE  [x EXCEPT !.defer = d] \in Xfer /\ [x EXCEPT !.defer = d].txnid = x.txnid
  BY DEF Xfer
<1>2. ASSUME NEW n \in 1 .. Size
      PROVE  [x EXCEPT !.left = n] \in Xfer /\ [x EXCEPT !.left = n].txnid = x.txnid
  BY DEF Xfer
<1>3. ASSUME NEW ch \in Chan
      PROVE  /\ [x EXCEPT !.cmd = "SEND", !.dest = ch] \in Xfer
             /\ [x EXCEPT !.cmd = "SEND", !.dest = ch].txnid = x.txnid
  <2> DEFINE y == [txnid |-> x.txnid, cmd |-> "SEND", stat |-> x.stat, dest |-> ch,
                   left |-> x.left, pid |-> x.pid, defer |-> x.defer]
             z == [txnid |-> x.txnid, cmd |-> "SEND", stat |-> x.stat, dest |-> x.dest,
                   left |-> x.left, pid |-> x.pid, defer |-> x.defer]
  <2>1. [x EXCEPT !.cmd = "SEND"] = z
    BY DEF Xfer
  <2>2. [z EXCEPT !.dest = ch] = y
    OBVIOUS
  <2>3. [x EXCEPT !.cmd = "SEND", !.dest = ch] = y
    BY <2>1, <2>2, Zenon
  <2>4. ch # NoFd
    BY DEF Chan, NoFd
  <2>5. y \in Xfer
    BY <2>4 DEF Xfer
  <2> QED BY <2>3, <2>5
<1> QED BY <1>1, <1>2, <1>3

(* An update of one transfer leaves the heap well-typed and all IDs alone. *)
LEMMA HeapUpdate ==
  ASSUME NEW h \in [Addr -> Xfer \cup {NoXfer}], NEW a \in Addr, NEW x \in Xfer,
         x.txnid = h[a].txnid
  PROVE  /\ [h EXCEPT ![a] = x] \in [Addr -> Xfer \cup {NoXfer}]
         /\ [h EXCEPT ![a] = x][a] = x
         /\ \A b \in Addr : [h EXCEPT ![a] = x][b].txnid = h[b].txnid
OBVIOUS
-----------------------------------------------------------------------------
(* The outside world, one action at a time. *)

(* Sending a first request: one more request, one more datagram. *)
LEMMA RequestKeeps ==
  ASSUME IndInv, NEW c \in Client, NEW cmd \in Cmds, sfd_request(c, cmd)
  PROVE  IndInv'
<1> DEFINE r == nreq + 1
           m == [cmd |-> cmd, r |-> r, pid |-> c, txnid |-> 0]
<1>1. r \in Req /\ m \in Request /\ m.r = nreq + 1 /\ nreq < MaxReq
  BY ServerAssumption DEF IndInv, RestInv, ReqOK, Req, Request, sfd_request
<1>2. ReqOK' /\ Reserve' /\ ready' \subseteq Events
  BY <1>1, DeliverKeepsReserve DEF IndInv, RestInv, sfd_request, tableVars
<1>3. ChanOK'
  BY <1>1, SupplyKeepsChannels DEF IndInv, RestInv, sfd_request
<1>4. [NoClient EXCEPT !.pid = c, !.cmd = cmd] \in ClientRec
  <2>1. NoClient \in ClientRec
    BY ServerAssumption DEF NoClient, ClientRec
  <2> QED BY <2>1, ClientRecUpdates, ServerAssumption
<1>5. RespOK'
  BY <1>1, <1>4 DEF IndInv, RestInv, RespOK, sfd_request
<1>6. TableInv' /\ TimersOK' /\ ListOK' /\ PcOK' /\ Cursor'
  BY StutterKeepsTable DEF IndInv, RestInv, TimersOK, ListOK, PcOK, Cursor, sfd_request,
     tableVars, timerVars, listVars
<1>7. PollOK'
  BY <1>2 DEF IndInv, RestInv, PollOK, sfd_request
<1> QED BY <1>2, <1>3, <1>5, <1>6, <1>7 DEF IndInv, RestInv

(* Sending a follow-up request. *)
LEMMA FollowUpKeeps ==
  ASSUME IndInv, NEW c \in Client, NEW cmd \in {"SEND_OPEN", "CANCEL"}, NEW q \in Req,
         sfd_follow_up(c, cmd, q)
  PROVE  IndInv'
<1> DEFINE m == [cmd |-> cmd, r |-> nreq + 1, pid |-> c, txnid |-> client[q].txn]
<1>1. client[q].txn \in 0 .. MaxReq
  BY DEF IndInv, RestInv, RespOK, ClientRec
<1>2. nreq + 1 \in Req /\ m \in Request /\ m.r = nreq + 1 /\ nreq < MaxReq
  BY <1>1, ServerAssumption DEF IndInv, RestInv, ReqOK, Req, Request, AllCmds, sfd_follow_up
<1>3. ReqOK' /\ Reserve' /\ ready' \subseteq Events
  BY <1>2, DeliverKeepsReserve DEF IndInv, RestInv, sfd_follow_up, tableVars
<1>4. ChanOK'
  BY <1>2, SupplyKeepsChannels DEF IndInv, RestInv, sfd_follow_up
<1>5. RespOK'
  <2>1. client' \in {client, [client EXCEPT ![q].asked = @ \cup {cmd}]}
    BY DEF sfd_follow_up
  <2>2. client \in [Req -> ClientRec]
    BY DEF IndInv, RestInv, RespOK
  <2>3. [client EXCEPT ![q].asked = @ \cup {cmd}] \in [Req -> ClientRec]
    BY <2>2, ClientUpdates
  <2>4. client' \in [Req -> ClientRec]
    BY <2>1, <2>2, <2>3
  <2> QED BY <2>4 DEF IndInv, RestInv, RespOK, sfd_follow_up
<1>6. TableInv' /\ TimersOK' /\ ListOK' /\ PcOK' /\ Cursor'
  BY StutterKeepsTable DEF IndInv, RestInv, TimersOK, ListOK, PcOK, Cursor, sfd_follow_up,
     tableVars, timerVars, listVars
<1>7. PollOK'
  BY <1>3 DEF IndInv, RestInv, PollOK, sfd_follow_up
<1> QED BY <1>3, <1>4, <1>5, <1>6, <1>7 DEF IndInv, RestInv

(* The other events of the outside world change channels, timers and what   *)
(* the kernel would report.                                                 *)
LEMMA EnvironmentKeeps ==
  ASSUME IndInv,
         \/ \E ch \in Chan : ReadChannel(ch) \/ CloseChannel(ch)
         \/ \E t \in Req : TimerExpires(t)
         \/ Signal
  PROVE  IndInv'
<1>1. UNCHANGED <<tableVars, xfer_timers, timers, listVars, pc, reg, batch, respVars, reqVars>>
  BY DEF ReadChannel, CloseChannel, TimerExpires, Signal, timerVars
<1>2. TableInv' /\ ListOK' /\ PcOK' /\ Cursor' /\ RespOK' /\ ReqOK' /\ Reserve'
  BY <1>1, StutterKeepsTable DEF IndInv, RestInv, ListOK, PcOK, Cursor, RespOK, ReqOK, Reserve,
     tableVars, listVars, respVars, reqVars
<1>3. ChanOK' /\ armed' \subseteq armed
  BY DEF IndInv, RestInv, ChanOK, ReadChannel, CloseChannel, TimerExpires, Signal, chanVars, timerVars
<1>4. TimersOK'
  BY <1>1, <1>3 DEF IndInv, RestInv, TimersOK
<1>5. ready' \subseteq Events
  <2>1. \A ch : {Event(g, FALSE) : g \in {h \in reg : h.chan = ch}} \subseteq Events
               /\ {Event(g, TRUE) : g \in {h \in reg : h.chan = ch}} \subseteq Events
    BY EventsMade DEF IndInv, RestInv, PollOK
  <2>2. ready \subseteq Events
    BY DEF IndInv, RestInv, PollOK
  <2>3. CASE \E ch \in Chan : ReadChannel(ch)
    BY <2>1, <2>2, <2>3 DEF ReadChannel
  <2>4. CASE \E ch \in Chan : CloseChannel(ch)
    BY <2>1, <2>2, <2>4 DEF CloseChannel
  <2>5. CASE \E t \in Req : TimerExpires(t)
    BY <2>2, <2>5, EventsMade DEF TimerExpires
  <2>6. CASE Signal
    BY <2>2, <2>6, EventsMade DEF Signal
  <2> QED BY <2>3, <2>4, <2>5, <2>6
<1>6. PollOK'
  BY <1>1, <1>5 DEF IndInv, RestInv, PollOK
<1> QED BY <1>2, <1>3, <1>4, <1>6 DEF IndInv, RestInv

(* Whatever happens outside the server keeps the invariant. *)
LEMMA WorldKeeps == ASSUME IndInv, World PROVE IndInv'
BY RequestKeeps, FollowUpKeeps, EnvironmentKeeps DEF World
-----------------------------------------------------------------------------
(* Building blocks of the server's steps. *)

(* Going on to the next event, the deferred list or the next poll. *)
LEMMA ResumeKeeps ==
  ASSUME NEW b \in SUBSET Events, NEW d \in Seq(Addr), Resume(b, d), deferred' = d
  PROVE  batch' \subseteq Events /\ ListOK' /\ PcOK' /\ Cursor'
<1>1. d # <<>> => 1 <= Len(d)
  OBVIOUS
<1> QED BY <1>1 DEF Resume, ListOK, PcOK, Cursor

(* Deregistering a channel, possibly for another registration. *)
LEMMA DeregisterKeeps ==
  ASSUME PollOK, NEW ch, NEW new \in SUBSET Resrc, Deregister(ch, new)
  PROVE  reg' \subseteq Resrc /\ ready' \subseteq Events
BY DEF PollOK, Deregister

(* A turn of a transfer updates it or frees it, and tells its client. *)
LEMMA TransferKeeps ==
  ASSUME IndInv, NEW a \in Addr, Live(a), NEW o \in Turns(heap[a]),
         NEW s \in StatusWrites(heap[a], o), NEW keep \in BOOLEAN,
         transfer_file(a, o, s, keep), UNCHANGED closed
  PROVE  TableInv' /\ ChanOK' /\ RespOK' /\ reg' \subseteq Resrc /\ ready' \subseteq Events
<1> DEFINE x == heap[a]
           r == x.stat[2]
           resp == [chan |-> x.stat, kind |-> "resp", id |-> r]
           D == IF o.end = "cap" THEN "READY" ELSE "NONE"
<1>1. x \in Xfer
  BY LiveXfer DEF IndInv, TableInv
<1>2. x.stat \in {"stat"} \X Req /\ r \in Req /\ x.left \in 1 .. Size
      /\ (x.cmd # "OPEN" => x.dest \in Chan)
  BY <1>1 DEF Xfer
<1>3. o.n \in Nat /\ (o.end = "again" => x.cmd # "OPEN")
      /\ (o.end \in {"cap", "again", "soft"} => x.left - o.n \in 1 .. Size)
  BY <1>2, ServerAssumption, SMTT(120) DEF Turns
<1>4. ChanOK'
  <2>1. x.stat \in Chan
    BY <1>2 DEF Chan
  <2>2. full' \subseteq full \cup (IF o.end = "again" THEN {x.dest} ELSE {}) \cup {x.stat}
    BY DEF transfer_file
  <2> QED BY <1>2, <1>3, <2>1, <2>2 DEF IndInv, RestInv, ChanOK
<1>5. client' \in [Req -> ClientRec]
  <2>1. Outcome(o) \in Nack \cup Terminal
    BY SMTT(30) DEF Outcome, Terminal
  <2>2. \/ client' = client
        \/ client' = [client EXCEPT ![r].outcome = Outcome(o)]
        \/ client' = [client EXCEPT ![r].bytes = @ + o.n]
    BY DEF transfer_file
  <2>3. client \in [Req -> ClientRec]
    BY DEF IndInv, RestInv, RespOK
  <2>4. [client EXCEPT ![r].outcome = Outcome(o)] \in [Req -> ClientRec]
    BY <2>1, <2>3, ClientUpdates
  <2>5. [client EXCEPT ![r].bytes = @ + o.n] \in [Req -> ClientRec]
    BY <1>3, <2>3, ClientUpdates, ZenonT(30)
  <2> QED BY <2>2, <2>3, <2>4, <2>5
<1>6. CASE Continues(o, s)
  <2> DEFINE y == [x EXCEPT !.left = x.left - o.n]
             z == [y EXCEPT !.defer = D]
             g == [heap EXCEPT ![a] = y]
  <2>1. D \in Defer /\ x.left - o.n \in 1 .. Size
    BY <1>3, <1>6 DEF Defer, Continues
  <2>2. y \in Xfer /\ y.txnid = x.txnid
    BY <1>1, <2>1, XferUpdates, ZenonT(30)
  <2>3. z \in Xfer /\ z.txnid = x.txnid
    BY <2>1, <2>2, XferUpdates, ZenonT(30)
  <2>4. heap' = [g EXCEPT ![a] = [g[a] EXCEPT !.defer = D]]
    BY <1>6 DEF transfer_file
  <2> HIDE DEF y
  <2>5. heap \in [Addr -> Xfer \cup {NoXfer}] /\ g[a] = y
    BY <2>2, HeapUpdate DEF IndInv, TableInv, HeapOK
  <2>6. heap' = [heap EXCEPT ![a] = z]
    BY <2>4, <2>5, ZenonT(30)
  <2> HIDE DEF z
  <2>7. HeapOK' /\ \A b \in Addr : heap'[b].txnid = heap[b].txnid
    BY <2>3, <2>5, <2>6, HeapUpdate DEF HeapOK
  <2>8. UNCHANGED <<xfers, reg, ready, fds, pending>>
    BY <1>6 DEF transfer_file
  <2>9. TableInv'
    BY <2>7, <2>8, SameIdsKeepTable, ZenonT(60) DEF IndInv
  <2> QED BY <1>4, <1>5, <2>8, <2>9 DEF IndInv, RestInv, RespOK, PollOK
<1>7. CASE ~Continues(o, s)
  <2>1. FreeXfer(a) /\ Deregister(x.dest, IF keep THEN {resp} ELSE {})
    BY <1>7, ZenonT(60) DEF transfer_file
  <2>2. TableInv'
    BY <2>1, FreeKeepsTable, ZenonT(60) DEF IndInv
  <2>3. (IF keep THEN {resp} ELSE {}) \in SUBSET Resrc
    <3>1. resp \in [chan : {"stat"} \X Req, kind : {"resp"}, id : Req]
      BY <1>2
    <3>2. resp \in Resrc
      BY <3>1, Zenon DEF Resrc
    <3> HIDE DEF resp
    <3> QED BY <3>2
  <2>4. reg' \subseteq Resrc /\ ready' \subseteq Events
    <3>1. PollOK
      BY DEF IndInv, RestInv
    <3> HIDE DEF resp
    <3> QED BY <2>1, <2>3, <3>1, DeregisterKeeps
  <2>5. <<"dup", r>> \in Fd /\ Outcome(o) \in Terminal
    BY <1>2, SMTT(30) DEF Fd, Outcome, Terminal
  <2>6. fds' \subseteq fds \cup {<<"dup", r>>}
        /\ (pending' = pending \/ pending' = [pending EXCEPT ![r] = Outcome(o)])
    BY <1>7 DEF transfer_file
  <2> QED BY <1>4, <1>5, <2>2, <2>4, <2>5, <2>6, ZenonT(60) DEF IndInv, RestInv, RespOK
<1> QED BY <1>6, <1>7

(* A cancelled transfer stays where it is until the deferred list is served. *)
LEMMA CancelKeeps ==
  ASSUME TableInv, ListOK, NEW a \in Addr, Live(a), defer_cancel(a), UNCHANGED xfers
  PROVE  TableInv' /\ deferred' \in Seq(Addr)
<1> DEFINE y == [heap[a] EXCEPT !.defer = "CANCEL"]
<1>1. y \in Xfer /\ y.txnid = heap[a].txnid
  BY LiveXfer, XferUpdates DEF TableInv, Defer
<1>2. heap' = [heap EXCEPT ![a] = y] /\ heap \in [Addr -> Xfer \cup {NoXfer}]
  BY DEF defer_cancel, TableInv, HeapOK
<1> HIDE DEF y
<1>3. HeapOK' /\ \A b \in Addr : heap'[b].txnid = heap[b].txnid
  BY <1>1, <1>2, HeapUpdate DEF HeapOK
<1>4. TableInv'
  BY <1>3, SameIdsKeepTable
<1>5. deferred' \in Seq(Addr)
  BY DEF defer_cancel, ListOK
<1> QED BY <1>4, <1>5, SMTT(30)

(* An error written tells the client the outcome and may fill the channel. *)
LEMMA SendErrKeeps ==
  ASSUME RespOK, ChanOK, NEW ch \in Chan, UNCHANGED <<fds, pending, closed>>, send_xfer_err(ch)
  PROVE  RespOK' /\ ChanOK'
<1>1. "error" \in Nack \cup Terminal
  BY DEF Terminal
<1>2. client \in [Req -> ClientRec] /\ [client EXCEPT ![ch[2]].outcome = "error"] \in [Req -> ClientRec]
  BY <1>1, ClientUpdates DEF RespOK
<1>3. client' \in [Req -> ClientRec]
  BY <1>2 DEF send_xfer_err
<1>4. full' \subseteq full \cup {ch}
  BY DEF send_xfer_err
<1> QED BY <1>3, <1>4 DEF RespOK, ChanOK

(* The status descriptor of a transfer is a channel. *)
LEMMA StatIsChan == ASSUME HeapOK, NEW a \in Addr, Live(a) PROVE heap[a].stat \in Chan
BY LiveXfer DEF Xfer, Chan

(* delete_registered_xfer keeps the invariant. *)
LEMMA DeleteKeeps ==
  ASSUME IndInv, NEW a \in Addr, Live(a), delete_registered_xfer(a), UNCHANGED <<pending, client>>
  PROVE  TableInv' /\ RespOK' /\ reg' \subseteq Resrc /\ ready' \subseteq Events
<1>1. TableInv'
  BY FreeKeepsTable DEF IndInv, delete_registered_xfer
<1>2. reg' \subseteq Resrc /\ ready' \subseteq Events
  BY DeregisterKeeps, SMTT(30) DEF IndInv, RestInv, delete_registered_xfer
<1>3. RespOK'
  BY DEF IndInv, RestInv, RespOK, delete_registered_xfer
<1> QED BY <1>1, <1>2, <1>3

(* A crash leaves everything as it was; deletion leaves nothing. *)
LEMMA CrashKeeps == ASSUME IndInv, NEW how \in {"abort", "uaf"}, Crash(how) PROVE IndInv'
<1>1. TableInv'
  BY StutterKeepsTable DEF IndInv, Crash, tableVars
<1> QED BY <1>1 DEF IndInv, RestInv, TimersOK, ListOK, PollOK, ChanOK, RespOK, ReqOK, PcOK, Reserve,
        Cursor, Crash, timerVars, listVars, pollVars, chanVars, respVars, reqVars, tableVars

(* A table with no transfer left is exact. *)
LEMMA EmptyTable ==
  heap = [a \in Addr |-> NoXfer] /\ xfers = xfer_table_new => TableInv
<1> SUFFICES ASSUME heap = [a \in Addr |-> NoXfer], xfers = xfer_table_new
             PROVE  TableInv
  OBVIOUS
<1>1. HeapOK /\ XfersOK
  BY DEF HeapOK, XfersOK, xfer_table_new
<1>2. \A a \in Addr : ~Live(a)
  BY NoXferFree DEF Live
<1>3. LiveSet = {}
  BY <1>2 DEF LiveSet
<1>4. IsFiniteSet(LiveSet) /\ Cardinality(LiveSet) = 0
  BY <1>3, FS_EmptySet
<1> QED BY <1>1, <1>2, <1>4 DEF TableInv, TableExact, LiveSet, xfer_table_new

(* srv_delete frees every transfer and empties the table. *)
LEMMA DeleteServerKeeps == ASSUME IndInv, srv_delete PROVE IndInv'
<1>1. (heap = [a \in Addr |-> NoXfer] /\ xfers = xfer_table_new)' => TableInv'
  BY EmptyTable, PTL
<1>2. TableInv'
  BY <1>1 DEF srv_delete
<1>3. TimersOK' /\ ListOK' /\ PollOK' /\ PcOK' /\ Cursor'
  BY DEF srv_delete, TimersOK, ListOK, PollOK, PcOK, Cursor, xfer_table_new
<1>4. ChanOK' /\ RespOK' /\ ReqOK' /\ Reserve'
  BY DEF srv_delete, IndInv, RestInv, ChanOK, RespOK, ReqOK, Reserve, chanVars, reqVars
<1> QED BY <1>2, <1>3, <1>4 DEF IndInv, RestInv
=============================================================================
