---------------------------- MODULE ServerProofs ----------------------------
(***************************************************************************)
(* Proofs, for every number of clients, addresses, slots and requests and  *)
(* whatever the outside world does, that the server's state has its type   *)
(* and that the transfer table is exact.                                   *)
(***************************************************************************)
EXTENDS ServerLemmas
-----------------------------------------------------------------------------
(* The steps of the event loop, one handler at a time. *)

(* A poll moves events into the batch. *)
LEMMA PollKeeps == ASSUME IndInv, Poll PROVE IndInv'
<1>1. PICK b \in SUBSET ready : ready' = ready \ b /\ Resume(b, deferred)
  BY DEF Poll
<1>2. UNCHANGED <<tableVars, timerVars, deferred, reg, chanVars, respVars, reqVars>>
  BY DEF Poll
<1>3. batch' \subseteq Events /\ ListOK' /\ PcOK' /\ Cursor'
  BY <1>1, <1>2, ResumeKeeps DEF IndInv, RestInv, PollOK, ListOK
<1>4. PollOK'
  BY <1>1, <1>2, <1>3 DEF IndInv, RestInv, PollOK
<1>5. TableInv' /\ TimersOK' /\ ChanOK' /\ RespOK' /\ ReqOK' /\ Reserve'
  BY <1>2, StutterKeepsTable DEF IndInv, RestInv, TimersOK, ChanOK, RespOK, ReqOK, Reserve,
     tableVars, timerVars, chanVars, respVars, reqVars
<1> QED BY <1>3, <1>4, <1>5 DEF IndInv, RestInv

(* An event on the request socket. *)
LEMMA HandleReqKeeps == ASSUME IndInv, NEW e \in batch, HandleReq(e) PROVE IndInv'
<1>1. TableInv'
  BY StutterKeepsTable DEF IndInv, HandleReq, tableVars
<1>2. PcOK' /\ Cursor' /\ PollOK'
  BY DEF IndInv, RestInv, PollOK, PcOK, Cursor, HandleReq
<1>3. TimersOK' /\ ListOK' /\ ChanOK' /\ RespOK' /\ ReqOK' /\ Reserve'
  BY DEF IndInv, RestInv, TimersOK, ListOK, ChanOK, RespOK, ReqOK, Reserve, HandleReq,
     tableVars, timerVars, listVars, chanVars, respVars, reqVars
<1> QED BY <1>1, <1>2, <1>3 DEF IndInv, RestInv

(* Only a transfer in the table is cancelled. *)
LEMMA FoundIsLive ==
  ASSUME TableInv, NEW t \in Nat, xfer_table_find(xfers, t) # NULL
  PROVE  xfer_table_find(xfers, t) \in Addr /\ Live(xfer_table_find(xfers, t))
BY IndexInSlot DEF TableInv, TableExact, XfersOK, xfer_table_find

(* The expiry of a timer, its own transfer gone or not. *)
LEMMA HandleTimerKeeps == ASSUME IndInv, NEW e \in batch, HandleTimer(e) PROVE IndInv'
<1> DEFINE t == e.id
           a == xfer_table_find(xfers, t)
<1>1. t \in Req /\ t \in Nat
  <2>1. e.kind = "timer" /\ e \in Events
    BY DEF HandleTimer, IndInv, RestInv, PollOK
  <2> QED BY <2>1, EventsUsed, ServerAssumption DEF Req
<1>2. CASE Expired(t) /\ ~CanCancel(a)
  BY <1>2, CrashKeeps DEF HandleTimer
<1>3. CASE ~(Expired(t) /\ ~CanCancel(a))
  <2>1. /\ xfer_timers' = xfer_table_erase(xfer_timers, t)
        /\ timers' = [timers EXCEPT ![t] = NULL]
        /\ Resume(batch \ {e}, deferred')
        /\ UNCHANGED <<xfers, next_txnid, armed, reg, ready, closed, fds, pending, reqVars>>
    BY <1>3 DEF HandleTimer
  <2>2. TableInv' /\ deferred' \in Seq(Addr) /\ RespOK' /\ ChanOK'
    <3>1. CASE Expired(t)
      <4>1. a \in Addr /\ Live(a)
        BY <1>1, <3>1, FoundIsLive DEF Expired, IndInv
      <4>2. send_xfer_err(heap[a].stat) /\ defer_cancel(a)
        BY <1>3, <3>1 DEF HandleTimer
      <4>3. heap[a].stat \in Chan
        BY <4>1, StatIsChan DEF IndInv, TableInv
      <4>4. RespOK' /\ ChanOK'
        BY <2>1, <4>2, <4>3, SendErrKeeps DEF IndInv, RestInv
      <4>5. TableInv' /\ deferred' \in Seq(Addr)
        BY <2>1, <4>1, <4>2, CancelKeeps DEF IndInv, RestInv
      <4> QED BY <4>4, <4>5
    <3>2. CASE ~Expired(t)
      <4>1. UNCHANGED <<client, full, heap, deferred>>
        BY <1>3, <3>2 DEF HandleTimer
      <4> QED BY <2>1, <4>1, StutterKeepsTable DEF IndInv, RestInv, ListOK, RespOK, ChanOK
    <3> QED BY <3>1, <3>2
  <2>3. batch' \subseteq Events /\ ListOK' /\ PcOK' /\ Cursor'
    BY <2>1, <2>2, ResumeKeeps DEF IndInv, RestInv, PollOK
  <2>4. TimersOK'
    BY <1>1, <2>1, IndexInSlot DEF IndInv, RestInv, TimersOK, xfer_table_erase
  <2>5. PollOK' /\ ReqOK' /\ Reserve'
    BY <2>1, <2>3 DEF IndInv, RestInv, PollOK, ReqOK, Reserve, reqVars
  <2> QED BY <2>2, <2>3, <2>4, <2>5 DEF IndInv, RestInv
<1> QED BY <1>2, <1>3

(* The retry of a terminal response. *)
LEMMA HandleRespKeeps == ASSUME IndInv, NEW e \in batch, HandleResp(e) PROVE IndInv'
<1> DEFINE r == e.id
           ch == <<"stat", r>>
<1>1. r \in Req
  <2>1. e.kind = "resp" /\ e \in Events
    BY DEF HandleResp, IndInv, RestInv, PollOK
  <2> QED BY <2>1, EventsUsed
<1>2. PICK s \in Retry(ch, e.err) :
        /\ client' = IF s = "ok" THEN [client EXCEPT ![r].outcome = pending[r]] ELSE client
        /\ IF s = "again" THEN UNCHANGED <<fds, pending, reg, ready>>
           ELSE /\ fds' = fds \ {<<"dup", r>>}
                /\ pending' = [pending EXCEPT ![r] = "none"]
                /\ Deregister(ch, {})
  BY DEF HandleResp
<1>3. Resume(batch \ {e}, deferred) /\ UNCHANGED <<tableVars, timerVars, deferred, chanVars, reqVars>>
  BY DEF HandleResp
<1>4. client' \in [Req -> ClientRec]
  BY <1>1, <1>2, ClientUpdates DEF IndInv, RestInv, RespOK
<1>5. reg' \subseteq Resrc /\ ready' \subseteq Events
  BY <1>2, DeregisterKeeps DEF IndInv, RestInv, PollOK
<1>6. fds' \subseteq Fd /\ pending' \in [Req -> {"none"} \cup Terminal]
  BY <1>2 DEF IndInv, RestInv, RespOK
<1>7. batch' \subseteq Events /\ ListOK' /\ PcOK' /\ Cursor'
  BY <1>3, ResumeKeeps DEF IndInv, RestInv, PollOK, ListOK
<1>8. TableInv' /\ TimersOK' /\ ChanOK' /\ ReqOK' /\ Reserve'
  BY <1>3, StutterKeepsTable DEF IndInv, RestInv, TimersOK, ChanOK, ReqOK, Reserve,
     tableVars, timerVars, chanVars, reqVars
<1> QED BY <1>4, <1>5, <1>6, <1>7, <1>8 DEF IndInv, RestInv, RespOK, PollOK

(* An event on a destination: a turn, its end or a hang-up. *)
LEMMA HandleXferKeeps == ASSUME IndInv, NEW e \in batch, HandleXfer(e) PROVE IndInv'
<1> DEFINE a == e.id
           rest == batch \ {e}
           Moves(o, s, keep) ==
             /\ transfer_file(a, o, s, keep)
             /\ deferred' = IF o.end = "cap" THEN Append(deferred, a) ELSE deferred
             /\ Resume(rest, deferred')
             /\ UNCHANGED <<next_txnid, timerVars, closed, reqVars>>
           Turn(o, s, keep) ==
             IF o.end = "cap" /\ ~(Len(deferred) < xfers.size) THEN Crash("abort")
             ELSE Moves(o, s, keep)
<1>1. a \in Addr /\ rest \in SUBSET Events /\ deferred \in Seq(Addr)
  <2>1. e.kind = "xfer" /\ e \in Events
    BY DEF HandleXfer, IndInv, RestInv, PollOK
  <2> QED BY <2>1, EventsUsed DEF IndInv, RestInv, PollOK, ListOK
<1>2. CASE ~Live(a)
  BY <1>2, CrashKeeps DEF HandleXfer
<1>3. CASE Live(a) /\ Resume(rest, deferred)
           /\ UNCHANGED <<tableVars, timerVars, deferred, reg, ready, chanVars, respVars, reqVars>>
  <2>1. batch' \subseteq Events /\ ListOK' /\ PcOK' /\ Cursor'
    BY <1>1, <1>3, ResumeKeeps
  <2>2. TableInv' /\ TimersOK' /\ PollOK' /\ ChanOK' /\ RespOK' /\ ReqOK' /\ Reserve'
    BY <1>3, <2>1, StutterKeepsTable DEF IndInv, RestInv, TimersOK, PollOK, ChanOK, RespOK, ReqOK,
       Reserve, tableVars, timerVars, chanVars, respVars, reqVars
  <2> QED BY <2>1, <2>2 DEF IndInv, RestInv
<1>4. CASE Live(a) /\ delete_registered_xfer(a) /\ Resume(rest, deferred)
           /\ UNCHANGED <<next_txnid, timerVars, deferred, chanVars, pending, client, reqVars>>
  <2>1. batch' \subseteq Events /\ ListOK' /\ PcOK' /\ Cursor'
    BY <1>1, <1>4, ResumeKeeps
  <2>2. TableInv' /\ RespOK' /\ PollOK'
    BY <1>1, <1>4, <2>1, DeleteKeeps DEF PollOK
  <2>3. TimersOK' /\ ChanOK' /\ ReqOK' /\ Reserve'
    BY <1>4 DEF IndInv, RestInv, TimersOK, ChanOK, ReqOK, Reserve, timerVars, chanVars, reqVars
  <2> QED BY <2>1, <2>2, <2>3 DEF IndInv, RestInv
<1>5. CASE Live(a) /\ \E o \in Turns(heap[a]) : \E s \in StatusWrites(heap[a], o) :
             \E keep \in Keeps(o, s) : Turn(o, s, keep)
  <2> HIDE DEF Turn
  <2>1. PICK o \in Turns(heap[a]) : \E s \in StatusWrites(heap[a], o) :
               \E keep \in Keeps(o, s) : Turn(o, s, keep)
    BY <1>5
  <2>2. PICK s \in StatusWrites(heap[a], o) : \E keep \in Keeps(o, s) : Turn(o, s, keep)
    BY <2>1
  <2>3. PICK keep \in Keeps(o, s) : Turn(o, s, keep)
    BY <2>2
  <2>4. CASE Crash("abort")
    BY <2>4, CrashKeeps
  <2>5. CASE Moves(o, s, keep)
    <3>1. Moves(o, s, keep)
      BY <2>5
    <3>2. keep \in BOOLEAN
      BY DEF Keeps
    <3>3. TableInv' /\ ChanOK' /\ RespOK' /\ reg' \subseteq Resrc /\ ready' \subseteq Events
      BY <1>1, <1>5, <3>1, <3>2, TransferKeeps, ZenonT(30)
    <3>4. deferred' \in Seq(Addr)
      <4>1. deferred' = Append(deferred, a) \/ deferred' = deferred
        BY <3>1
      <4> HIDE DEF a
      <4> QED BY <1>1, <4>1
    <3>5. batch' \subseteq Events /\ ListOK' /\ PcOK' /\ Cursor'
      BY <1>1, <3>1, <3>4, ResumeKeeps
    <3>6. TimersOK' /\ ReqOK' /\ Reserve'
      BY <3>1 DEF IndInv, RestInv, TimersOK, ReqOK, Reserve, timerVars, reqVars
    <3> QED BY <3>3, <3>5, <3>6, SMTT(30) DEF IndInv, RestInv, PollOK
  <2> QED BY <2>3, <2>4, <2>5 DEF Turn
<1> QED BY <1>2, <1>3, <1>4, <1>5, ZenonT(30) DEF HandleXfer

(* The next event of the batch, of whatever kind. *)
LEMMA EventsKeep == ASSUME IndInv, process_events PROVE IndInv'
BY DeleteServerKeeps, HandleReqKeeps, HandleTimerKeeps, HandleRespKeeps, HandleXferKeeps
   DEF process_events, HandleTerm

(* Going on to the next deferred transfer stays inside the list. *)
LEMMA ResumeDeferredKeeps ==
  ASSUME NEW d \in Seq(Addr), NEW i \in Nat \ {0}, pc = "deferred", ResumeDeferred(d, i)
  PROVE  ListOK' /\ PcOK' /\ Cursor'
BY DEF ResumeDeferred, ListOK, PcOK, Cursor

(* The next deferred transfer: deleted, or given another turn. *)
LEMMA DeferredKeeps == ASSUME IndInv, process_deferred PROVE IndInv'
<1> DEFINE a == deferred[di]
<1>1. pc = "deferred" /\ deferred \in Seq(Addr) /\ di \in 1 .. Len(deferred) /\ a \in Addr
  BY DEF IndInv, RestInv, ListOK, Cursor, process_deferred
<1>2. undefer_xfer(di) \in Seq(Addr) /\ di \in Nat \ {0} /\ di + 1 \in Nat \ {0}
  BY <1>1, UndeferKeepsList
<1> HIDE DEF a
<1>3. CASE Crash("uaf") \/ Crash("abort")
  BY <1>3, CrashKeeps
<1>4. CASE Live(a) /\ DeferredCancel(a)
  <2>1. TableInv' /\ RespOK' /\ reg' \subseteq Resrc /\ ready' \subseteq Events
    BY <1>1, <1>4, DeleteKeeps DEF DeferredCancel
  <2>2. ListOK' /\ PcOK' /\ Cursor'
    BY <1>1, <1>2, <1>4, ResumeDeferredKeeps DEF DeferredCancel
  <2>3. PollOK' /\ TimersOK' /\ ChanOK' /\ ReqOK' /\ Reserve'
    BY <1>4, <2>1 DEF IndInv, RestInv, PollOK, TimersOK, ChanOK, ReqOK, Reserve, DeferredCancel,
       timerVars, chanVars, reqVars
  <2> QED BY <2>1, <2>2, <2>3 DEF IndInv, RestInv
<1>5. CASE Live(a) /\ DeferredReady(a)
  <2> DEFINE Turn(o, s, keep) ==
               /\ transfer_file(a, o, s, keep)
               /\ IF o.end = "cap" THEN ResumeDeferred(deferred, di + 1)
                  ELSE ResumeDeferred(undefer_xfer(di), di)
  <2>1. \E o \in Turns(heap[a]) : \E s \in StatusWrites(heap[a], o) : \E keep \in BOOLEAN :
          Turn(o, s, keep)
    BY <1>5 DEF DeferredReady, Keeps
  <2> HIDE DEF Turn
  <2>2. PICK o \in Turns(heap[a]) : \E s \in StatusWrites(heap[a], o) : \E keep \in BOOLEAN :
          Turn(o, s, keep)
    BY <2>1
  <2>3. PICK s \in StatusWrites(heap[a], o), keep \in BOOLEAN : Turn(o, s, keep)
    BY <2>2
  <2>4. /\ transfer_file(a, o, s, keep)
        /\ IF o.end = "cap" THEN ResumeDeferred(deferred, di + 1)
           ELSE ResumeDeferred(undefer_xfer(di), di)
    BY <2>3 DEF Turn
  <2>5. UNCHANGED <<next_txnid, timerVars, batch, closed, reqVars>>
    BY <1>5 DEF DeferredReady
  <2>6. TableInv' /\ ChanOK' /\ RespOK' /\ reg' \subseteq Resrc /\ ready' \subseteq Events
    BY <1>1, <1>5, <2>4, <2>5, TransferKeeps
  <2>7. ListOK' /\ PcOK' /\ Cursor'
    BY <1>1, <1>2, <2>4, ResumeDeferredKeeps
  <2>8. PollOK' /\ TimersOK' /\ ReqOK' /\ Reserve'
    BY <2>5, <2>6 DEF IndInv, RestInv, PollOK, TimersOK, ReqOK, Reserve, timerVars, reqVars
  <2> QED BY <2>6, <2>7, <2>8, SMTT(30) DEF IndInv, RestInv
<1> QED BY <1>3, <1>4, <1>5 DEF process_deferred, a
-----------------------------------------------------------------------------
(* handle_reqfd, one kind of request at a time. *)

(* What handling any datagram leaves alone, and what it does to the queue. *)
LEMMA ReceivedKeeps ==
  ASSUME IndInv, pc = "reqfd", reqs # <<>>, Received, UNCHANGED deferred,
         next_txnid' \in {next_txnid, next_txnid + 1}
  PROVE  /\ ReqOK' /\ Reserve' /\ ListOK' /\ PcOK' /\ Cursor' /\ batch' \subseteq Events
         /\ closed' \subseteq Chan /\ pending' \in [Req -> {"none"} \cup Terminal]
BY ReceivedKeepsReserve
   DEF IndInv, RestInv, ListOK, PcOK, Cursor, PollOK, ChanOK, RespOK, Received

(* The request socket is empty. *)
LEMMA ReqsDoneKeeps == ASSUME IndInv, ReqsDone PROVE IndInv'
<1>1. batch' \subseteq Events /\ ListOK' /\ PcOK' /\ Cursor'
  BY ResumeKeeps DEF ReqsDone, IndInv, RestInv, PollOK, ListOK
<1>2. TableInv' /\ TimersOK' /\ PollOK' /\ ChanOK' /\ RespOK' /\ ReqOK' /\ Reserve'
  BY <1>1, StutterKeepsTable DEF ReqsDone, IndInv, RestInv, TimersOK, PollOK, ChanOK, RespOK, ReqOK,
     Reserve, tableVars, timerVars, chanVars, respVars, reqVars
<1> QED BY <1>1, <1>2 DEF IndInv, RestInv

(* A request that is dropped without an answer. *)
LEMMA IgnoreKeeps ==
  ASSUME IndInv, pc = "reqfd", reqs # <<>>, NEW q \in Request, IgnoreRequest(q)
  PROVE  IndInv'
<1>1. Received /\ UNCHANGED <<tableVars, timerVars, deferred, reg, ready, full, fds>>
  BY DEF IgnoreRequest
<1>2. client' \in [Req -> ClientRec]
  <2>1. client \in [Req -> ClientRec] /\ "error" \in {"none"} \cup Nack \cup Terminal
    BY DEF IndInv, RestInv, RespOK, Terminal
  <2>2. client' = client \/ client' = [client EXCEPT ![q.r].outcome = "error"]
    BY DEF IgnoreRequest
  <2>3. [client EXCEPT ![q.r].outcome = "error"] \in [Req -> ClientRec]
    BY <2>1, ClientUpdates
  <2> QED BY <2>1, <2>2, <2>3
<1>3. /\ ReqOK' /\ Reserve' /\ ListOK' /\ PcOK' /\ Cursor' /\ batch' \subseteq Events
      /\ closed' \subseteq Chan /\ pending' \in [Req -> {"none"} \cup Terminal]
  BY <1>1, ReceivedKeeps DEF tableVars
<1>4. TableInv' /\ TimersOK' /\ PollOK' /\ ChanOK' /\ RespOK'
  BY <1>1, <1>2, <1>3, StutterKeepsTable DEF IndInv, RestInv, TimersOK, PollOK, ChanOK, RespOK,
     tableVars, timerVars
<1> QED BY <1>3, <1>4 DEF IndInv, RestInv

(* A request that is refused. *)
LEMMA RejectKeeps ==
  ASSUME IndInv, pc = "reqfd", reqs # <<>>, NEW q \in Request, RejectRequest(q)
  PROVE  IndInv'
<1>1. Received /\ UNCHANGED <<heap, xfers, timerVars, deferred, reg, ready, full, fds>>
  BY DEF RejectRequest
<1>2. PICK why \in Nack, n \in {0, 1} : /\ client' = [client EXCEPT ![q.r].outcome = why]
                                       /\ next_txnid' = next_txnid + n
  <2>1. "EMFILE" \in Nack /\ "errno" \in Nack /\ "stale" \in Nack
    BY DEF Nack
  <2> QED BY <2>1 DEF RejectRequest
<1>3. client' \in [Req -> ClientRec]
  <2>1. client \in [Req -> ClientRec]
    BY DEF IndInv, RestInv, RespOK
  <2> QED BY <1>2, <2>1, ClientUpdates
<1>4. next_txnid' \in {next_txnid, next_txnid + 1}
  BY <1>2 DEF IndInv, RestInv, ReqOK
<1>5. /\ ReqOK' /\ Reserve' /\ ListOK' /\ PcOK' /\ Cursor' /\ batch' \subseteq Events
      /\ closed' \subseteq Chan /\ pending' \in [Req -> {"none"} \cup Terminal]
  BY <1>1, <1>4, ReceivedKeeps
<1>6. TableInv' /\ TimersOK' /\ PollOK' /\ ChanOK' /\ RespOK'
  BY <1>1, <1>3, <1>5, StutterKeepsTable DEF IndInv, RestInv, TimersOK, PollOK, ChanOK, RespOK, timerVars
<1> QED BY <1>5, <1>6 DEF IndInv, RestInv

(* What add_xfer does besides adding to the table. *)
LEMMA AddTells ==
  ASSUME IndInv, NEW q \in Request, NEW a \in Addr, NEW dest \in Chan \cup {NoFd},
         next_txnid \in Req, add_xfer(q, a, dest)
  PROVE  fds' \subseteq Fd /\ client' \in [Req -> ClientRec] /\ next_txnid' = next_txnid + 1
<1>1. <<"stat", q.r>> \in Fd /\ Chan \subseteq Fd
  BY DEF Request, Fd, Chan
<1>2. fds' \subseteq Fd
  BY <1>1 DEF add_xfer, IndInv, RestInv, RespOK
<1>3. client \in [Req -> ClientRec] /\ next_txnid \in 0 .. MaxReq
  BY ServerAssumption DEF IndInv, RestInv, RespOK, Req
<1>4. client' \in [Req -> ClientRec]
  BY <1>3, ClientUpdates, ZenonT(30) DEF add_xfer
<1> QED BY <1>2, <1>4 DEF add_xfer

(* Inserting a timer keeps the type of the table of timers. *)
LEMMA InsertKeepsTimers ==
  ASSUME NEW t \in [elems : [Slot -> Req \cup {NULL}], size : Int],
         NEW h, indexof(h) \in Slot, NEW e \in Req
  PROVE  xfer_table_insert(t, h, e) \in [elems : [Slot -> Req \cup {NULL}], size : Int]
<1>1. [t.elems EXCEPT ![indexof(h)] = e] \in [Slot -> Req \cup {NULL}] /\ t.size + 1 \in Int
  OBVIOUS
<1> QED BY <1>1 DEF xfer_table_insert

(* An accepted OPEN: a transfer, a timer and an acknowledgement. *)
LEMMA AcceptOpenKeeps ==
  ASSUME IndInv, pc = "reqfd", reqs # <<>>, NEW q \in Request, NEW a \in Addr, AcceptOpen(q, a)
  PROVE  IndInv'
<1>1. /\ q.cmd = "OPEN" /\ add_xfer(q, a, NoFd) /\ Received
      /\ xfer_timers' = xfer_table_insert(xfer_timers, next_txnid, next_txnid)
      /\ timers' = [timers EXCEPT ![next_txnid] = a] /\ armed' \subseteq armed \cup {next_txnid}
      /\ UNCHANGED <<deferred, reg, ready, full>>
  BY DEF AcceptOpen, syspoll_timer
<1>2. next_txnid' \in {next_txnid, next_txnid + 1}
  BY <1>1 DEF add_xfer
<1>3. next_txnid \in Req
  BY <1>1, <1>2, ReceivedKeepsReserve DEF IndInv, RestInv
<1>4. /\ ReqOK' /\ Reserve' /\ ListOK' /\ PcOK' /\ Cursor' /\ batch' \subseteq Events
      /\ closed' \subseteq Chan /\ pending' \in [Req -> {"none"} \cup Terminal]
  BY <1>1, <1>2, ReceivedKeeps
<1>5. TableInv'
  BY <1>1, <1>3, AddKeepsTable DEF IndInv, RestInv
<1>6. RespOK'
  BY <1>1, <1>3, <1>4, AddTells DEF RespOK
<1>7. TimersOK'
  <2>1. indexof(next_txnid) \in Slot
    BY <1>3, IndexInSlot, ServerAssumption DEF Req
  <2>2. TimersOK
    BY DEF IndInv, RestInv
  <2>3. xfer_timers' \in [elems : [Slot -> Req \cup {NULL}], size : Int]
    <3>1. xfer_timers \in [elems : [Slot -> Req \cup {NULL}], size : Int]
      BY <2>2 DEF TimersOK
    <3>2. xfer_timers' = xfer_table_insert(xfer_timers, next_txnid, next_txnid)
      BY <1>1
    <3> QED BY <1>3, <2>1, <3>1, <3>2, InsertKeepsTimers
  <2> QED BY <1>1, <1>3, <2>2, <2>3 DEF TimersOK
<1>8. PollOK' /\ ChanOK'
  BY <1>1, <1>4 DEF IndInv, RestInv, PollOK, ChanOK
<1> QED BY <1>4, <1>5, <1>6, <1>7, <1>8 DEF IndInv, RestInv

(* Registering a descriptor adds a registration and an event. *)
LEMMA RegisterKeeps ==
  ASSUME NEW g \in Resrc PROVE syspoll_register(g) \subseteq Events
BY EventsMade DEF syspoll_register

(* An accepted READ or SEND. *)
LEMMA AcceptXferKeeps ==
  ASSUME IndInv, pc = "reqfd", reqs # <<>>, NEW q \in Request, NEW a \in Addr, AcceptXfer(q, a)
  PROVE  IndInv'
<1> DEFINE dest == <<IF q.cmd = "SEND" THEN "dest" ELSE "stat", q.r>>
           resrc == [chan |-> dest, kind |-> "xfer", id |-> a]
<1>1. /\ q.cmd \in {"READ", "SEND"} /\ add_xfer(q, a, dest) /\ Received
      /\ reg' = reg \cup {resrc} /\ ready' = ready \cup syspoll_register(resrc)
      /\ UNCHANGED <<timerVars, deferred, full>>
  BY DEF AcceptXfer
<1>2. dest \in Chan /\ dest # NoFd /\ resrc \in Resrc
  BY DEF Request, Chan, NoFd, Resrc
<1> HIDE DEF dest, resrc
<1>3. next_txnid' \in {next_txnid, next_txnid + 1}
  BY <1>1 DEF add_xfer
<1>4. next_txnid \in Req
  BY <1>1, <1>3, ReceivedKeepsReserve, SMTT(30) DEF IndInv, RestInv
<1>5. /\ ReqOK' /\ Reserve' /\ ListOK' /\ PcOK' /\ Cursor' /\ batch' \subseteq Events
      /\ closed' \subseteq Chan /\ pending' \in [Req -> {"none"} \cup Terminal]
  BY <1>1, <1>3, ReceivedKeeps
<1>6. TableInv'
  BY <1>1, <1>2, <1>4, AddKeepsTable, SMTT(30) DEF IndInv, RestInv
<1>7. RespOK'
  BY <1>1, <1>2, <1>4, <1>5, AddTells, SMTT(30) DEF RespOK
<1>8. PollOK'
  BY <1>1, <1>2, <1>5, RegisterKeeps DEF IndInv, RestInv, PollOK
<1>9. TimersOK' /\ ChanOK'
  BY <1>1, <1>5 DEF IndInv, RestInv, TimersOK, ChanOK, timerVars
<1> QED BY <1>5, <1>6, <1>7, <1>8, <1>9 DEF IndInv, RestInv

(* The transfer that a follow-up request finds exists. *)
LEMMA OpenFileIsLive ==
  ASSUME TableInv, NEW q \in Request, get_open_file(q.pid, q.txnid) # NULL
  PROVE  /\ get_open_file(q.pid, q.txnid) \in Addr
         /\ Live(get_open_file(q.pid, q.txnid))
<1>1. q.txnid \in Nat
  BY ServerAssumption, SMTT(30) DEF Request
<1>2. /\ xfer_table_find(xfers, q.txnid) # NULL
      /\ get_open_file(q.pid, q.txnid) = xfer_table_find(xfers, q.txnid)
  BY DEF get_open_file
<1> QED BY <1>1, <1>2, FoundIsLive

(* An accepted SEND_OPEN, registered or refused by the poller. *)
LEMMA AcceptSendOpenKeeps ==
  ASSUME IndInv, pc = "reqfd", reqs # <<>>, NEW q \in Request, AcceptSendOpen(q)
  PROVE  IndInv'
<1> DEFINE a == get_open_file(q.pid, q.txnid)
           dest == <<"dest", q.r>>
           resrc == [chan |-> dest, kind |-> "xfer", id |-> a]
<1>1. Received /\ UNCHANGED <<next_txnid, timerVars, deferred>>
  BY DEF AcceptSendOpen
<1>2. /\ ReqOK' /\ Reserve' /\ ListOK' /\ PcOK' /\ Cursor' /\ batch' \subseteq Events
      /\ closed' \subseteq Chan /\ pending' \in [Req -> {"none"} \cup Terminal]
  BY <1>1, ReceivedKeeps
<1>3. TimersOK' /\ UNCHANGED <<closed, pending>>
  BY <1>1 DEF IndInv, RestInv, TimersOK, timerVars, Received
<1>4. CanSend(a) => a \in Addr /\ Live(a)
  BY OpenFileIsLive, SMTT(30) DEF CanSend, IndInv
<1>5. dest \in Chan /\ dest \in Fd /\ (CanSend(a) => resrc \in Resrc)
  BY <1>4 DEF Request, Chan, Fd, Resrc
<1>6. \/ UNCHANGED <<heap, xfers, reg, ready, fds, client, full>>
      \/ /\ CanSend(a)
         /\ heap' = [heap EXCEPT ![a].cmd = "SEND", ![a].dest = dest]
         /\ reg' = reg \cup {resrc} /\ ready' = ready \cup syspoll_register(resrc)
         /\ fds' = fds \cup {dest}
         /\ UNCHANGED <<xfers, client, full>>
      \/ /\ CanSend(a)
         /\ send_xfer_err(heap[a].stat)
         /\ FreeXfer(a)
         /\ UNCHANGED <<reg, ready, fds>>
  BY DEF AcceptSendOpen
<1> HIDE DEF a, dest, resrc
<1>7. CASE UNCHANGED <<heap, xfers, reg, ready, fds, client, full>>
  <2>1. TableInv' /\ PollOK' /\ ChanOK' /\ RespOK'
    BY <1>2, <1>7, StutterKeepsTable DEF IndInv, RestInv, PollOK, ChanOK, RespOK
  <2> QED BY <1>2, <1>3, <2>1 DEF IndInv, RestInv
<1>8. CASE /\ CanSend(a)
           /\ heap' = [heap EXCEPT ![a].cmd = "SEND", ![a].dest = dest]
           /\ reg' = reg \cup {resrc} /\ ready' = ready \cup syspoll_register(resrc)
           /\ fds' = fds \cup {dest}
           /\ UNCHANGED <<xfers, client, full>>
  <2> DEFINE y == [heap[a] EXCEPT !.cmd = "SEND"]
             z == [heap[a] EXCEPT !.cmd = "SEND", !.dest = dest]
             g == [heap EXCEPT ![a] = y]
  <2>1. heap[a] \in Xfer /\ heap \in [Addr -> Xfer \cup {NoXfer}] /\ a \in Addr
    BY <1>4, <1>8, LiveXfer, SMTT(30) DEF IndInv, TableInv, HeapOK
  <2>2. z \in Xfer /\ z.txnid = heap[a].txnid
    BY <1>5, <2>1, XferUpdates
  <2>3. heap' = [g EXCEPT ![a] = [g[a] EXCEPT !.dest = dest]]
    BY <1>8
  <2>4. z = [y EXCEPT !.dest = dest]
    BY Zenon
  <2> HIDE DEF y, z
  <2>5. heap' = [heap EXCEPT ![a] = z]
    BY <2>1, <2>3, <2>4
  <2>6. HeapOK' /\ \A b \in Addr : heap'[b].txnid = heap[b].txnid
    BY <2>1, <2>2, <2>5, HeapUpdate DEF HeapOK
  <2>7. TableInv'
    BY <1>8, <2>6, SameIdsKeepTable DEF IndInv
  <2>8. PollOK' /\ ChanOK' /\ RespOK'
    BY <1>2, <1>5, <1>8, RegisterKeeps DEF IndInv, RestInv, PollOK, ChanOK, RespOK
  <2> QED BY <1>2, <1>3, <2>7, <2>8 DEF IndInv, RestInv
<1>9. CASE /\ CanSend(a)
           /\ send_xfer_err(heap[a].stat)
           /\ FreeXfer(a)
           /\ UNCHANGED <<reg, ready, fds>>
  <2>1. TableInv'
    BY <1>4, <1>9, FreeKeepsTable DEF IndInv
  <2>2. RespOK' /\ ChanOK'
    BY <1>3, <1>4, <1>9, StatIsChan, SendErrKeeps, SMTT(30) DEF IndInv, RestInv, TableInv
  <2>3. PollOK'
    BY <1>2, <1>9 DEF IndInv, RestInv, PollOK
  <2> QED BY <1>2, <1>3, <2>1, <2>2, <2>3 DEF IndInv, RestInv
<1> QED BY <1>6, <1>7, <1>8, <1>9

(* An accepted CANCEL. *)
LEMMA AcceptCancelKeeps ==
  ASSUME IndInv, pc = "reqfd", reqs # <<>>, NEW q \in Request, AcceptCancel(q)
  PROVE  IndInv'
<1> DEFINE a == get_open_file(q.pid, q.txnid)
<1>1. CASE Crash("abort")
  BY <1>1, CrashKeeps
<1>2. CASE /\ IF a # NULL THEN defer_cancel(a) ELSE UNCHANGED <<heap, deferred>>
           /\ Received
           /\ UNCHANGED <<xfers, next_txnid, timerVars, reg, ready, full, fds, client>>
  <2>1. TableInv' /\ deferred' \in Seq(Addr)
    <3>1. CASE a # NULL
      BY <1>2, <3>1, OpenFileIsLive, CancelKeeps DEF IndInv, RestInv
    <3>2. CASE a = NULL
      BY <1>2, <3>2, StutterKeepsTable DEF IndInv, RestInv, ListOK
    <3> QED BY <3>1, <3>2
  <2>2. ReqOK' /\ Reserve'
    BY <1>2, ReceivedKeepsReserve DEF IndInv, RestInv
  <2>3. ListOK' /\ PcOK' /\ Cursor' /\ TimersOK'
    BY <1>2, <2>1 DEF IndInv, RestInv, ListOK, PcOK, Cursor, TimersOK, timerVars, Received
  <2>4. PollOK' /\ ChanOK' /\ RespOK'
    BY <1>2 DEF IndInv, RestInv, PollOK, ChanOK, RespOK, Received
  <2> QED BY <2>1, <2>2, <2>3, <2>4 DEF IndInv, RestInv
<1> QED BY <1>1, <1>2 DEF AcceptCancel

(* The next request, whatever becomes of it. *)
LEMMA RequestsKeep == ASSUME IndInv, handle_reqfd PROVE IndInv'
<1>1. CASE ReqsDone
  BY <1>1, ReqsDoneKeeps
<1>2. CASE srv_delete
  BY <1>2, DeleteServerKeeps
<1>3. CASE reqs # <<>>
  <2>1. Head(reqs) \in Request /\ pc = "reqfd"
    BY <1>3 DEF IndInv, RestInv, ReqOK, handle_reqfd
  <2> QED BY <1>1, <1>2, <1>3, <2>1, IgnoreKeeps, RejectKeeps, AcceptSendOpenKeeps,
             AcceptCancelKeeps, AcceptOpenKeeps, AcceptXferKeeps DEF handle_reqfd
<1> QED BY <1>1, <1>2, <1>3 DEF handle_reqfd
-----------------------------------------------------------------------------
(* A new server satisfies the invariant. *)
LEMMA InitEstablishes == Init => IndInv
<1> SUFFICES ASSUME Init PROVE IndInv
  OBVIOUS
<1>1. TableInv
  BY EmptyTable, SMTT(30) DEF Init
<1>2. TimersOK /\ ListOK /\ PollOK /\ ChanOK /\ PcOK /\ Cursor
  BY DEF Init, TimersOK, ListOK, PollOK, ChanOK, PcOK, Cursor, xfer_table_new
<1>3. RespOK
  <2>1. NoClient \in ClientRec
    BY ServerAssumption, SMTT(30) DEF NoClient, ClientRec
  <2> QED BY <2>1, SMTT(30) DEF Init, RespOK
<1>4. ReqOK /\ Reserve
  <2>1. next_txnid = 1 /\ reqs = <<>> /\ nreq = 0
    BY DEF Init
  <2>2. astray \in BOOLEAN
    BY Zenon DEF Init
  <2>3. reqs \in Seq(Request) /\ Len(reqs) = 0
    BY <2>1
  <2>4. next_txnid \in 1 .. MaxReq + 1 /\ nreq \in 0 .. MaxReq
    BY <2>1, ServerAssumption, SMTT(30)
  <2> QED BY <2>1, <2>2, <2>3, <2>4, SMTT(30) DEF ReqOK, Reserve
<1> QED BY <1>1, <1>2, <1>3, <1>4 DEF IndInv, RestInv

(* A step that changes nothing keeps the invariant. *)
LEMMA StutterKeeps == ASSUME IndInv, UNCHANGED vars PROVE IndInv'
<1>1. TableInv'
  BY StutterKeepsTable DEF IndInv, vars, tableVars
<1> QED BY <1>1 DEF IndInv, RestInv, TimersOK, ListOK, PollOK, ChanOK, RespOK, ReqOK, PcOK, Reserve,
        Cursor, vars, timerVars, listVars, pollVars, chanVars, respVars, reqVars, tableVars

(* Every step keeps the invariant. *)
LEMMA NextKeeps == IndInv /\ [Next]_vars => IndInv'
BY WorldKeeps, PollKeeps, EventsKeep, RequestsKeep, DeferredKeeps, StutterKeeps DEF Next, srv_run

(* IndInv holds of every state the server can reach. *)
THEOREM Inductive == Spec => []IndInv
BY InitEstablishes, NextKeeps, PTL DEF Spec

(* Whatever clients and the kernel do, every variable of the server keeps   *)
(* its type: addresses stored in tables, lists, timers and events are       *)
(* addresses, no transfer exists with nothing left to move, none but an     *)
(* open file lacks a destination, and there is an ID for every request.     *)
THEOREM TypeCorrect == Spec => []TypeOK
<1>1. IndInv => TypeOK
  BY TypeParts DEF IndInv, RestInv, TableInv
<1> QED BY <1>1, Inductive, PTL

(* The table searched by slot alone in process_request, handle_reqfd and    *)
(* process_events is exact in every reachable state: it points to no freed  *)
(* transfer, loses none, and its size is the number of transfers.           *)
THEOREM TableIsExact == Spec => []TableExact
<1>1. IndInv => TableExact
  BY DEF IndInv, TableInv
<1> QED BY <1>1, Inductive, PTL
=============================================================================
