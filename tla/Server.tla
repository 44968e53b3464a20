------------------------------- MODULE Server -------------------------------
(***************************************************************************)
(* The event loop of the server process: src/impl/server.c with the        *)
(* resources it manages (server_resources.c), the responses it writes      *)
(* (server_responses.c) and the poller it waits on (syspoll_linux.c).      *)
(*                                                                         *)
(* One step of the server is the handling of one polled event, of one      *)
(* request datagram, or of one element of the deferred list.  The code is  *)
(* single-threaded, so nothing but the outside world moves inside a step;  *)
(* between steps clients submit requests, read from or close their ends of *)
(* the channels, and timers expire.                                        *)
(*                                                                         *)
(* Requests are numbered in the order they are sent, and number r names    *)
(* the descriptors sent along with it: <<"stat", r>> is the write end of   *)
(* the pipe the client library creates, <<"dest", r>> the descriptor the   *)
(* client supplies.  <<"dup", r>> is the server's dup(2) of the former.    *)
(***************************************************************************)
EXTENDS XferTable, Sequences

CONSTANTS Client,     \* client processes (their process IDs)
          Addr,       \* heap addresses malloc can return for a transfer
          MaxReq,     \* bound on the number of requests sent
          Size,       \* bytes in a transfer
          PipeCap,    \* pipe_capacity(): most bytes moved in one turn
          Cmds,       \* the requests that clients send
          Troubles    \* what the outside world does wrong

AllCmds == {"OPEN", "READ", "SEND", "SEND_OPEN", "CANCEL", "FOREIGN", "MALFORMED"}

(***************************************************************************)
(* close     a client closes its end of a channel                          *)
(* repeat    a client sends the same follow-up request twice               *)
(* wrong     a client sends a follow-up request for another's transaction  *)
(* open      the file cannot be opened or transferred as requested         *)
(* register  epoll_ctl(2) refuses a descriptor                             *)
(* timer     a timer cannot be armed; timerfd: it cannot even be created   *)
(* io        reading the file or writing the data fails for good           *)
(* soft      the write fails for now, yet not for want of space            *)
(* retry     the retry of a terminal response cannot be set up             *)
(* term      the process receives SIGTERM or SIGINT                        *)
(* recv      receiving a request fails for good                            *)
(***************************************************************************)
AllTroubles == {"close", "repeat", "wrong", "open", "register", "timer", "timerfd", "io",
                "soft", "retry", "term", "recv"}

ASSUME ServerAssumption ==
  /\ MaxReq \in Nat
  /\ Size \in Nat \ {0}
  /\ PipeCap \in Nat \ {0}
  /\ Cmds \subseteq AllCmds
  /\ Troubles \subseteq AllTroubles
  /\ NULL \notin Addr

VARIABLES
  heap,         \* the transfer at each address, NoXfer where memory is free
  xfers,        \* srv->xfers: the table of running transfers
  next_txnid,   \* srv->next_txnid
  xfer_timers,  \* srv->xfer_timers: the table of open-file timers
  timers,       \* the xfer_addr of the timer of each transaction, or NULL
  deferred,     \* srv->deferred_xfers[0 .. ndeferred_xfers - 1]
  di,           \* process_deferred's position in it, counted from 1
  pc,           \* where srv_run is
  reg,          \* descriptors registered with the poller
  ready,        \* events the kernel would report now
  batch,        \* events reported by the last poll and not handled yet
  armed,        \* timers set and not yet expired
  full,         \* channels with no space left
  closed,       \* channels whose reading end has been closed
  fds,          \* the descriptors of clients that the server holds open
  pending,      \* the response waiting on each status channel (resrc_resp)
  client,       \* what each request was and what its client has been told
  reqs,         \* datagrams in the request socket
  nreq,         \* number of requests sent
  astray        \* a SEND_OPEN has reached a transfer that was already under way

tableVars == <<heap, xfers, next_txnid>>
timerVars == <<xfer_timers, timers, armed>>
listVars  == <<deferred, di>>
pollVars  == <<reg, ready, batch>>
chanVars  == <<full, closed>>
respVars  == <<fds, pending, client>>
reqVars   == <<reqs, nreq, astray>>
vars == <<tableVars, timerVars, listVars, pollVars, chanVars, respVars, reqVars, pc>>
-----------------------------------------------------------------------------
Req == 1 .. MaxReq
NoFd == <<"none", 0>>
Chan == {"stat", "dest"} \X Req
Fd == {"stat", "dest", "dup"} \X Req

Defer == {"NONE", "CANCEL", "READY"}

(* struct resrc_xfer, with something left to move for as long as it exists  *)
(* and somewhere to move it to unless it is only open.  The descriptor of   *)
(* the file itself is opened before the structure is allocated and closed   *)
(* whenever it is freed.                                                    *)
Xfer ==
  { x \in [txnid : Req, cmd : {"OPEN", "READ", "SEND"}, stat : {"stat"} \X Req,
           dest : Chan \cup {NoFd}, left : 1 .. Size, pid : Client, defer : Defer] :
      x.cmd = "OPEN" <=> x.dest = NoFd }

NoXfer == [txnid |-> 0, cmd |-> "none", stat |-> NoFd, dest |-> NoFd, left |-> 0,
           pid |-> NULL, defer |-> "NONE"]

Live(a) == heap[a].txnid # 0

Terminal == {"complete", "error"}
Nack == {"EMFILE", "errno", "stale"}

(* The client's side of a request: the follow-ups it has asked for, the     *)
(* transaction ID it was given, the progress and the outcome it was told.   *)
ClientRec == [pid : Client \cup {NULL}, cmd : AllCmds \cup {"none"},
              asked : SUBSET {"SEND_OPEN", "CANCEL"}, txn : 0 .. MaxReq,
              bytes : Nat, outcome : {"none"} \cup Nack \cup Terminal]

NoClient == [pid |-> NULL, cmd |-> "none", asked |-> {}, txn |-> 0, bytes |-> 0,
             outcome |-> "none"]

(* What is registered with the poller besides the request socket. *)
Resrc == [chan : Chan, kind : {"xfer"}, id : Addr]
         \cup [chan : {"stat"} \X Req, kind : {"resp"}, id : Req]

Event(g, err) == [chan |-> g.chan, kind |-> g.kind, id |-> g.id, err |-> err]
SourceEvent(kind, id) == [chan |-> NoFd, kind |-> kind, id |-> id, err |-> FALSE]
ReqEvent  == SourceEvent("req", 0)
TermEvent == SourceEvent("term", 0)
Events == {Event(g, err) : g \in Resrc, err \in BOOLEAN}
          \cup {SourceEvent("timer", t) : t \in Req} \cup {ReqEvent, TermEvent}

Running == pc \in {"poll", "events", "reqfd", "deferred"}
Intact == Running /\ ~astray

Init ==
  /\ heap = [a \in Addr |-> NoXfer] /\ xfers = xfer_table_new /\ next_txnid = 1
  /\ xfer_timers = xfer_table_new /\ timers = [t \in Req |-> NULL] /\ armed = {}
  /\ deferred = <<>> /\ di = 1
  /\ reg = {} /\ ready = {} /\ batch = {}
  /\ full = {} /\ closed = {}
  /\ fds = {} /\ pending = [r \in Req |-> "none"] /\ client = [r \in Req |-> NoClient]
  /\ reqs = <<>> /\ nreq = 0 /\ astray = FALSE
  /\ pc = "poll"
-----------------------------------------------------------------------------
(* The outside world. *)

Deliver(m) ==
  /\ reqs' = Append(reqs, m) /\ nreq' = m.r
  /\ ready' = ready \cup {ReqEvent}
  /\ UNCHANGED astray

(* The descriptor a client supplies may have no space to start with. *)
Supply(r, supplied) ==
  \/ UNCHANGED full
  \/ supplied /\ full' = full \cup {<<"dest", r>>}

(* sfd_open, sfd_read, sfd_send, or a datagram the server will not accept. *)
sfd_request(c, cmd) ==
  LET r == nreq + 1 IN
  /\ Running /\ nreq < MaxReq
  /\ Deliver([cmd |-> cmd, r |-> r, pid |-> c, txnid |-> 0])
  /\ client' = [client EXCEPT ![r] = [NoClient EXCEPT !.pid = c, !.cmd = cmd]]
  /\ Supply(r, cmd = "SEND")
  /\ UNCHANGED <<tableVars, timerVars, listVars, pc, reg, batch, closed, fds, pending>>

(* sfd_send_open and sfd_cancel, for a transaction the client was told of. *)
sfd_follow_up(c, cmd, q) ==
  /\ Running /\ nreq < MaxReq
  /\ client[q].txn # 0
  /\ cmd = "SEND_OPEN" => client[q].cmd = "OPEN"
  /\ \/ client[q].pid = c /\ (cmd \notin client[q].asked \/ "repeat" \in Troubles)
     \/ client[q].pid # c /\ "wrong" \in Troubles
  /\ Deliver([cmd |-> cmd, r |-> nreq + 1, pid |-> c, txnid |-> client[q].txn])
  /\ client' = IF client[q].pid # c THEN client ELSE [client EXCEPT ![q].asked = @ \cup {cmd}]
  /\ Supply(nreq + 1, cmd = "SEND_OPEN")
  /\ UNCHANGED <<tableVars, timerVars, listVars, pc, reg, batch, closed, fds, pending>>

(* Space freed in a channel is an edge for every registration on it. *)
ReadChannel(ch) ==
  /\ Running /\ ch \notin closed
  /\ ch \in full \/ \E g \in reg : g.chan = ch
  /\ full' = full \ {ch}
  /\ ready' = ready \cup {Event(g, FALSE) : g \in {h \in reg : h.chan = ch}}
  /\ UNCHANGED <<tableVars, timerVars, listVars, pc, reg, batch, closed, respVars, reqVars>>

(* The channels whose descriptors travel with a request. *)
Carried(q) == (IF q.cmd \in {"OPEN", "READ", "SEND"} THEN {<<"stat", q.r>>} ELSE {})
              \cup (IF q.cmd \in {"SEND", "SEND_OPEN"} THEN {<<"dest", q.r>>} ELSE {})

(* A client may close its end of a channel before the server has received   *)
(* the other end, or while it holds it.  The kernel reports one event per   *)
(* registration; EPOLLERR supersedes.                                       *)
CloseChannel(ch) ==
  /\ Running /\ ch \notin closed
  /\ \/ \E i \in 1 .. Len(reqs) : ch \in Carried(reqs[i])
     \/ ch \in fds
     \/ ch[1] = "stat" /\ <<"dup", ch[2]>> \in fds
  /\ closed' = closed \cup {ch} /\ full' = full \ {ch}
  /\ ready' = {e \in ready : e.chan # ch}
              \cup {Event(g, TRUE) : g \in {h \in reg : h.chan = ch}}
  /\ UNCHANGED <<tableVars, timerVars, listVars, pc, reg, batch, respVars, reqVars>>

TimerExpires(t) ==
  /\ Running /\ t \in armed
  /\ armed' = armed \ {t}
  /\ ready' = ready \cup {SourceEvent("timer", t)}
  /\ UNCHANGED <<tableVars, xfer_timers, timers, listVars, pc, reg, batch, chanVars,
                 respVars, reqVars>>

Signal ==
  /\ Running
  /\ ready' = ready \cup {TermEvent}
  /\ UNCHANGED <<tableVars, timerVars, listVars, pc, reg, batch, chanVars, respVars, reqVars>>

World ==
  \/ \E c \in Client, cmd \in Cmds \ {"SEND_OPEN", "CANCEL"} : sfd_request(c, cmd)
  \/ \E c \in Client, cmd \in Cmds \cap {"SEND_OPEN", "CANCEL"}, q \in Req :
        sfd_follow_up(c, cmd, q)
  \/ \E ch \in Chan : ReadChannel(ch)
  \/ "close" \in Troubles /\ \E ch \in Chan : CloseChannel(ch)
  \/ \E t \in Req : TimerExpires(t)
  \/ "term" \in Troubles /\ Signal
-----------------------------------------------------------------------------
(* Building blocks of the handlers. *)

(* An assertion that fails aborts the process; a read through a pointer to *)
(* freed memory may do anything.                                           *)
Crash(how) ==
  /\ pc' = how
  /\ UNCHANGED <<tableVars, timerVars, listVars, pollVars, chanVars, respVars, reqVars>>

(* srv_delete and the exit of the process: nothing is left open. *)
srv_delete ==
  /\ pc' = "exited"
  /\ heap' = [a \in Addr |-> NoXfer] /\ xfers' = xfer_table_new
  /\ xfer_timers' = xfer_table_new /\ timers' = [t \in Req |-> NULL] /\ armed' = {}
  /\ deferred' = <<>> /\ di' = 1
  /\ reg' = {} /\ ready' = {} /\ batch' = {}
  /\ fds' = {} /\ pending' = [r \in Req |-> "none"]
  /\ UNCHANGED <<next_txnid, chanVars, client, reqVars>>

(* After an event: the rest of the batch b, then the deferred list d. *)
Resume(b, d) ==
  /\ batch' = b
  /\ pc' = IF b # {} THEN "events" ELSE IF d # <<>> THEN "deferred" ELSE "poll"
  /\ di' = 1

(* Mutant: a descriptor that is writable already raises no event. *)
syspoll_register_no_edge(g) ==
  IF g.chan \in closed THEN {Event(g, TRUE)} ELSE {}

(* The event a registration raises at once, edge-triggered or not. *)
syspoll_register(g) ==
  IF g.chan \in closed THEN {Event(g, TRUE)}
  ELSE IF g.chan \in full THEN {} ELSE {Event(g, FALSE)}

(* What write(2) to a status channel can return.  The pipe is created for   *)
(* the request, so that a first attempt can find it full only once progress *)
(* has been written; nobody else writes to it once space has been made.     *)
Rewrite(ch) ==
  IF ch \in closed THEN {"fatal"} ELSE IF ch \in full THEN {"again"} ELSE {"ok"}

send_pdu(ch) ==
  Rewrite(ch) \cup {w \in {"again"} : ch \notin closed /\ client[ch[2]].bytes > 0}

(* An attempt that is not repeated when it fails. *)
send_xfer_err(ch) ==
  \E s \in send_pdu(ch) :
    /\ client' = IF s = "ok" THEN [client EXCEPT ![ch[2]].outcome = "error"] ELSE client
    /\ full' = IF s = "again" THEN full \cup {ch} ELSE full

(* The assertion in defer_xfer, and its effect, for a cancellation. *)
CanCancel(a) == heap[a].defer = "READY" \/ Len(deferred) < xfers.size

defer_cancel(a) ==
  /\ heap' = [heap EXCEPT ![a].defer = "CANCEL"]
  /\ deferred' = IF heap[a].defer = "NONE" THEN Append(deferred, a) ELSE deferred

(* Mutant: the last element does not take the place of the removed one. *)
undefer_xfer_drops_last(i) == [j \in 1 .. Len(deferred) - 1 |-> deferred[j]]

(* The list without its i-th element: the last one takes its place. *)
undefer_xfer(i) ==
  [j \in 1 .. Len(deferred) - 1 |->
     IF j = i THEN deferred[Len(deferred)] ELSE deferred[j]]

(* Out of the table and freed; the file is closed. *)
FreeXfer(a) ==
  /\ heap' = [heap EXCEPT ![a] = NoXfer]
  /\ xfers' = xfer_table_erase(xfers, heap[a].txnid)

(* Mutant: closing the descriptor is relied on to deregister it. *)
Deregister_skipped(ch, new) == reg' = reg \cup new /\ UNCHANGED ready

(* Deregistration takes a descriptor's events away from the kernel's list   *)
(* but not from the batch already copied out.                               *)
Deregister(ch, new) ==
  /\ reg' = {g \in reg : g.chan # ch} \cup new
  /\ ready' = {e \in ready : e.chan # ch \/ ch = NoFd}

(* Mutant: the destination is not closed. *)
delete_registered_xfer_leaks(a) ==
  /\ FreeXfer(a)
  /\ Deregister(heap[a].dest, {})
  /\ fds' = fds \ {heap[a].stat}

delete_registered_xfer(a) ==
  /\ FreeXfer(a)
  /\ Deregister(heap[a].dest, {})
  /\ fds' = fds \ {heap[a].stat, heap[a].dest}

(* Mutant: any client's transfer will do. *)
get_open_file_of_any(pid, txnid) == xfer_table_find(xfers, txnid)

(* The transfer of that transaction, if it is the client's own. *)
get_open_file(pid, txnid) ==
  LET a == xfer_table_find(xfers, txnid)
  IN  IF a # NULL /\ heap[a].pid = pid THEN a ELSE NULL

(* Mutant: a transfer about to be deleted can still be started. *)
CanSend_cancelled(a) == a # NULL

CanSend(a) == a # NULL /\ heap[a].defer # "CANCEL"
-----------------------------------------------------------------------------
(* transfer_file: one turn of a transfer. *)

has_stat_channel(x) == x.stat # x.dest

(***************************************************************************)
(* How a turn can go: n bytes are moved, then it ends because nothing is   *)
(* left ("done"), the turn's share is used up ("cap"), the destination is  *)
(* full ("again"), the write failed for now ("soft") or for good ("fatal") *)
(* or the file is only open ("invalid").  A destination that is not full   *)
(* takes at least one byte.                                                *)
(***************************************************************************)
Turns(x) ==
  { o \in [n : 0 .. PipeCap, end : {"done", "cap", "again", "soft", "fatal", "invalid"}] :
      /\ o.end = "invalid" <=> x.cmd = "OPEN"
      /\ o.end = "invalid" => o.n = 0
      /\ o.n <= x.left
      /\ (o.end = "done") <=> (o.n = x.left)
      /\ o.end = "cap" => o.n = PipeCap
      /\ o.end \in {"again", "soft", "fatal"} => o.n < PipeCap
      /\ o.end = "again" => o.n > 0 \/ x.dest \in full
      /\ o.end = "soft" => "soft" \in Troubles
      /\ o.end = "fatal" => "io" \in Troubles \/ x.dest \in closed
      /\ x.dest \in full => o.n = 0
      /\ x.dest \in closed => o.n = 0 /\ o.end = "fatal" }

(* The status write a turn ends in, if any: progress or the outcome. *)
StatusWrites(x, o) ==
  IF o.end \in {"cap", "invalid"} \/ ~has_stat_channel(x) THEN {"none"} ELSE send_pdu(x.stat)

(* Mutant: an error is reported and the transfer goes on. *)
Continues_after_error(o, s) == o.end \in {"cap", "again", "soft", "fatal"}

(* transfer_file returns true. *)
Continues(o, s) == \/ o.end = "cap"
                   \/ o.end \in {"again", "soft"} /\ s # "fatal"

Outcome(o) == IF o.end = "done" THEN "complete" ELSE "error"

(* Mutant: only errors are kept, as if completion were not terminal. *)
Kept_errors_only(o, s) == o.end = "fatal" /\ s = "again"

(* send_terminal_resp keeps a response that cannot be written yet. *)
Kept(o, s) == o.end \in {"done", "fatal"} /\ s = "again"

transfer_file(a, o, s, keep) ==
  LET x == heap[a]
      r == x.stat[2]
      resp == [chan |-> x.stat, kind |-> "resp", id |-> r]
  IN
  /\ full' = full \cup (IF o.end = "again" THEN {x.dest} ELSE {})
                  \cup (IF s = "again" THEN {x.stat} ELSE {})
  /\ client' = IF s # "ok" THEN client
               ELSE IF o.end \in {"done", "fatal"}
                    THEN [client EXCEPT ![r].outcome = Outcome(o)]
                    ELSE [client EXCEPT ![r].bytes = @ + o.n]
  /\ IF Continues(o, s)
     THEN /\ heap' = [heap EXCEPT ![a].left = @ - o.n,
                                  ![a].defer = IF o.end = "cap" THEN "READY" ELSE "NONE"]
          /\ UNCHANGED <<xfers, reg, ready, fds, pending>>
     ELSE /\ FreeXfer(a)
          /\ Deregister(x.dest, IF keep THEN {resp} ELSE {})
          /\ fds' = (fds \ {x.stat, x.dest}) \cup (IF keep THEN {<<"dup", r>>} ELSE {})
          /\ pending' = IF keep THEN [pending EXCEPT ![r] = Outcome(o)] ELSE pending

(* Whether the retry can be set up: dup(2) and epoll_ctl(2) may refuse. *)
Keeps(o, s) ==
  IF ~Kept(o, s) THEN {FALSE} ELSE IF "retry" \in Troubles THEN BOOLEAN ELSE {TRUE}
-----------------------------------------------------------------------------
(* process_events *)

(* What one call reports: there is room for as many events as transfers.    *)
Reported(b) == /\ b = ready \/ Cardinality(b) = MaxFiles
               /\ Cardinality(b) <= MaxFiles

(* syspoll_wait blocks unless there are deferred transfers.                 *)
Poll ==
  /\ pc = "poll"
  /\ ready # {} \/ deferred # <<>>
  /\ \E b \in SUBSET ready :
       /\ Reported(b)
       /\ ready' = ready \ b
       /\ Resume(b, deferred)
  /\ UNCHANGED <<tableVars, timerVars, deferred, reg, chanVars, respVars, reqVars>>

HandleTerm(e) ==
  /\ e.kind = "term"
  /\ srv_delete

HandleReq(e) ==
  /\ e.kind = "req"
  /\ batch' = batch \ {e} /\ pc' = "reqfd"
  /\ UNCHANGED <<tableVars, timerVars, listVars, reg, ready, chanVars, respVars, reqVars>>

(* Mutant: the test for progress is inverted. *)
Expired_inverted(t) ==
  LET a == xfer_table_find(xfers, t)
  IN  a # NULL /\ a = timers[t] /\ heap[a].left # Size

(* The transfer that an expired timer is to cancel: the one in its slot,    *)
(* if it is at the same address and nothing of it has been moved.           *)
Expired(t) ==
  LET a == xfer_table_find(xfers, t)
  IN  a # NULL /\ a = timers[t] /\ heap[a].left = Size

HandleTimer(e) ==
  LET t == e.id
      a == xfer_table_find(xfers, t)
  IN
  /\ e.kind = "timer"
  /\ IF Expired(t) /\ ~CanCancel(a) THEN Crash("abort")
     ELSE /\ IF Expired(t) THEN send_xfer_err(heap[a].stat) /\ defer_cancel(a)
             ELSE UNCHANGED <<client, full, heap, deferred>>
          /\ xfer_timers' = xfer_table_erase(xfer_timers, t)
          /\ timers' = [timers EXCEPT ![t] = NULL]
          /\ Resume(batch \ {e}, deferred')
          /\ UNCHANGED <<xfers, next_txnid, armed, reg, ready, closed, fds, pending, reqVars>>

(* Mutant: the result of the write is taken the wrong way round. *)
Retry_inverted(ch, err) == {"fatal"}

Retry(ch, err) == IF err THEN {"fatal"} ELSE Rewrite(ch)

HandleResp(e) ==
  LET r == e.id
      ch == <<"stat", r>>
  IN
  /\ e.kind = "resp"
  /\ \E s \in Retry(ch, e.err) :
       /\ client' = IF s = "ok" THEN [client EXCEPT ![r].outcome = pending[r]] ELSE client
       /\ IF s = "again" THEN UNCHANGED <<fds, pending, reg, ready>>
          ELSE /\ fds' = fds \ {<<"dup", r>>}
               /\ pending' = [pending EXCEPT ![r] = "none"]
               /\ Deregister(ch, {})
  /\ Resume(batch \ {e}, deferred)
  /\ UNCHANGED <<tableVars, timerVars, deferred, chanVars, reqVars>>

(* Mutant: an event serves a transfer that the deferred list serves too. *)
Ignores_not_ready(x, err) == x.defer = "CANCEL"

(* Events that a transfer pays no heed to: any if it is cancelled, and if   *)
(* the deferred list is to serve it those that are not errors.              *)
Ignores(x, err) == x.defer = "CANCEL" \/ (x.defer = "READY" /\ ~err)

(* An event on a transfer's destination. *)
HandleXfer(e) ==
  LET a == e.id
      x == heap[a]
      rest == batch \ {e}
  IN
  /\ e.kind = "xfer"
  /\ IF ~Live(a) THEN Crash("uaf")
     ELSE
     \/ /\ Ignores(x, e.err)
        /\ Resume(rest, deferred)
        /\ UNCHANGED <<tableVars, timerVars, deferred, reg, ready, chanVars, respVars, reqVars>>
     \/ /\ ~Ignores(x, e.err) /\ e.err
        /\ delete_registered_xfer(a)
        /\ Resume(rest, deferred)
        /\ UNCHANGED <<next_txnid, timerVars, deferred, chanVars, pending, client, reqVars>>
     \/ /\ ~Ignores(x, e.err) /\ ~e.err
        /\ \E o \in Turns(x) : \E s \in StatusWrites(x, o) : \E keep \in Keeps(o, s) :
             IF o.end = "cap" /\ ~(Len(deferred) < xfers.size) THEN Crash("abort")
             ELSE /\ transfer_file(a, o, s, keep)
                  /\ deferred' = IF o.end = "cap" THEN Append(deferred, a) ELSE deferred
                  /\ Resume(rest, deferred')
                  /\ UNCHANGED <<next_txnid, timerVars, closed, reqVars>>

process_events ==
  /\ pc = "events"
  /\ \E e \in batch : \/ HandleTerm(e) \/ HandleReq(e) \/ HandleTimer(e)
                      \/ HandleResp(e) \/ HandleXfer(e)
-----------------------------------------------------------------------------
(* process_deferred: the element at di. *)

ResumeDeferred(d, i) ==
  /\ deferred' = d
  /\ IF i <= Len(d) THEN di' = i /\ UNCHANGED pc ELSE di' = 1 /\ pc' = "poll"

DeferredCancel(a) ==
  /\ heap[a].defer = "CANCEL"
  /\ delete_registered_xfer(a)
  /\ ResumeDeferred(undefer_xfer(di), di)
  /\ UNCHANGED <<next_txnid, timerVars, batch, chanVars, pending, client, reqVars>>

DeferredReady(a) ==
  /\ heap[a].defer = "READY"
  /\ \E o \in Turns(heap[a]) : \E s \in StatusWrites(heap[a], o) : \E keep \in Keeps(o, s) :
       /\ transfer_file(a, o, s, keep)
       /\ IF o.end = "cap" THEN ResumeDeferred(deferred, di + 1)
          ELSE ResumeDeferred(undefer_xfer(di), di)
  /\ UNCHANGED <<next_txnid, timerVars, batch, closed, reqVars>>

process_deferred ==
  LET a == deferred[di] IN
  /\ pc = "deferred"
  /\ IF ~Live(a) THEN Crash("uaf")
     ELSE \/ DeferredCancel(a)
          \/ DeferredReady(a)
          \/ heap[a].defer = "NONE" /\ Crash("abort")
-----------------------------------------------------------------------------
(* handle_reqfd: the first datagram in the request socket. *)

ReqsDone ==
  /\ reqs = <<>>
  /\ Resume(batch, deferred)
  /\ UNCHANGED <<tableVars, timerVars, deferred, reg, ready, chanVars, respVars, reqVars>>

(* Two requests for one transfer, or a late one for a slot that has a new   *)
(* occupant, can make SEND_OPEN replace the destination of a running one.   *)
GoesAstray(q) ==
  LET a == get_open_file(q.pid, q.txnid)
  IN  q.cmd = "SEND_OPEN" /\ CanSend(a) /\ heap[a].cmd # "OPEN"

(* Mutant: one datagram is received for each event. *)
Received_once ==
  /\ reqs' = Tail(reqs)
  /\ Resume(batch, deferred)
  /\ UNCHANGED <<astray, nreq, closed, pending>>

Received ==
  /\ reqs' = Tail(reqs)
  /\ astray' = (astray \/ GoesAstray(Head(reqs)))
  /\ UNCHANGED <<pc, di, batch, nreq, closed, pending>>

(* Wrong number of descriptors, malformed, or sent by another user. *)
IgnoreRequest(q) ==
  /\ q.cmd \in {"FOREIGN", "MALFORMED"}
  /\ client' = IF q.cmd = "FOREIGN" THEN [client EXCEPT ![q.r].outcome = "error"] ELSE client
  /\ Received
  /\ UNCHANGED <<tableVars, timerVars, deferred, reg, ready, full, fds>>

TableFull == xfers.size = Capacity

(* add_xfer, add_open_file or register_xfer fails: whatever had been set up *)
(* is undone, the client is told why and its descriptors are closed.        *)
RejectRequest(q) ==
  LET free == SlotFree(xfers, next_txnid)
      timerFree == SlotFree(xfer_timers, next_txnid)
      Nacked(why, n) == /\ client' = [client EXCEPT ![q.r].outcome = why]
                        /\ next_txnid' = next_txnid + n
  IN
  /\ q.cmd \in {"OPEN", "READ", "SEND"}
  /\ \/ TableFull /\ Nacked("EMFILE", 0)
     \/ ~TableFull /\ "open" \in Troubles /\ Nacked("errno", 0)
     \/ ~TableFull /\ ~free /\ Nacked("stale", 1)
     \/ ~TableFull /\ free /\ q.cmd = "OPEN" /\ ~timerFree /\ Nacked("stale", 1)
     \/ ~TableFull /\ free /\ q.cmd = "OPEN" /\ "timer" \in Troubles /\ Nacked("errno", 1)
     \/ ~TableFull /\ free /\ q.cmd # "OPEN" /\ "register" \in Troubles /\ Nacked("errno", 1)
  /\ Received
  /\ UNCHANGED <<heap, xfers, timerVars, deferred, reg, ready, full, fds>>

xfer_new(q, dest) ==
  [txnid |-> next_txnid, cmd |-> q.cmd, stat |-> <<"stat", q.r>>, dest |-> dest,
   left |-> Size, pid |-> q.pid, defer |-> "NONE"]

(* Mutant: the client is told the ID that the next transfer will have. *)
add_xfer_tells_next(q, a, dest) ==
  /\ ~TableFull /\ SlotFree(xfers, next_txnid)
  /\ heap[a] = NoXfer
  /\ heap' = [heap EXCEPT ![a] = xfer_new(q, dest)]
  /\ xfers' = xfer_table_insert(xfers, next_txnid, a)
  /\ next_txnid' = next_txnid + 1
  /\ fds' = fds \cup ({<<"stat", q.r>>, dest} \ {NoFd})
  /\ client' = [client EXCEPT ![q.r].txn = next_txnid']

(* add_xfer succeeds; the client is told the transaction ID. *)
add_xfer(q, a, dest) ==
  /\ ~TableFull /\ SlotFree(xfers, next_txnid)
  /\ heap[a] = NoXfer
  /\ heap' = [heap EXCEPT ![a] = xfer_new(q, dest)]
  /\ xfers' = xfer_table_insert(xfers, next_txnid, a)
  /\ next_txnid' = next_txnid + 1
  /\ fds' = fds \cup ({<<"stat", q.r>>, dest} \ {NoFd})
  /\ client' = [client EXCEPT ![q.r].txn = next_txnid]

(* When timerfd_create fails this reports success all the same. *)
syspoll_timer(t) ==
  \/ armed' = armed \cup {t}
  \/ "timerfd" \in Troubles /\ UNCHANGED armed

AcceptOpen(q, a) ==
  /\ q.cmd = "OPEN"
  /\ SlotFree(xfer_timers, next_txnid)
  /\ add_xfer(q, a, NoFd)
  /\ xfer_timers' = xfer_table_insert(xfer_timers, next_txnid, next_txnid)
  /\ timers' = [timers EXCEPT ![next_txnid] = a]
  /\ syspoll_timer(next_txnid)
  /\ Received
  /\ UNCHANGED <<deferred, reg, ready, full>>

AcceptXfer(q, a) ==
  LET dest == <<IF q.cmd = "SEND" THEN "dest" ELSE "stat", q.r>>
      resrc == [chan |-> dest, kind |-> "xfer", id |-> a]
  IN
  /\ q.cmd \in {"READ", "SEND"}
  /\ add_xfer(q, a, dest)
  /\ reg' = reg \cup {resrc} /\ ready' = ready \cup syspoll_register(resrc)
  /\ Received
  /\ UNCHANGED <<timerVars, deferred, full>>

AcceptSendOpen(q) ==
  LET a == get_open_file(q.pid, q.txnid)
      dest == <<"dest", q.r>>
      resrc == [chan |-> dest, kind |-> "xfer", id |-> a]
  IN
  /\ q.cmd = "SEND_OPEN"
  /\ \/ /\ ~CanSend(a)
        /\ UNCHANGED <<heap, xfers, reg, ready, fds, client, full>>
     \/ /\ CanSend(a)
        /\ heap' = [heap EXCEPT ![a].cmd = "SEND", ![a].dest = dest]
        /\ reg' = reg \cup {resrc} /\ ready' = ready \cup syspoll_register(resrc)
        /\ fds' = fds \cup {dest}
        /\ UNCHANGED <<xfers, client, full>>
     \/ /\ CanSend(a)
        /\ "register" \in Troubles
        /\ send_xfer_err(heap[a].stat)
        /\ FreeXfer(a)
        /\ UNCHANGED <<reg, ready, fds>>
  /\ Received
  /\ UNCHANGED <<next_txnid, timerVars, deferred>>

AcceptCancel(q) ==
  LET a == get_open_file(q.pid, q.txnid) IN
  /\ q.cmd = "CANCEL"
  /\ IF a # NULL /\ ~CanCancel(a) THEN Crash("abort")
     ELSE /\ IF a # NULL THEN defer_cancel(a) ELSE UNCHANGED <<heap, deferred>>
          /\ Received
          /\ UNCHANGED <<xfers, next_txnid, timerVars, reg, ready, full, fds, client>>

handle_reqfd ==
  /\ pc = "reqfd"
  /\ \/ ReqsDone
     \/ "recv" \in Troubles /\ srv_delete
     \/ /\ reqs # <<>>
        /\ LET q == Head(reqs) IN
           \/ IgnoreRequest(q) \/ RejectRequest(q) \/ AcceptSendOpen(q) \/ AcceptCancel(q)
           \/ \E a \in Addr : AcceptOpen(q, a) \/ AcceptXfer(q, a)

srv_run == Poll \/ process_events \/ handle_reqfd \/ process_deferred

Next == World \/ srv_run

Spec == Init /\ [][Next]_vars

(***************************************************************************)
(* The single-threaded loop keeps running, armed timers expire, and the    *)
(* readers of channels keep reading; nothing is assumed of requests.       *)
(***************************************************************************)
Fairness ==
  /\ WF_vars(srv_run)
  /\ \A ch \in Chan : WF_vars(ch \in full /\ ReadChannel(ch))
  /\ \A t \in Req : WF_vars(TimerExpires(t))

FairSpec == Spec /\ Fairness
-----------------------------------------------------------------------------
(* Invariants. *)

(* Every variable of the server and of its surroundings has its type. *)
TypeOK ==
  /\ heap \in [Addr -> Xfer \cup {NoXfer}]
  /\ xfers \in [elems : [Slot -> Addr \cup {NULL}], size : Int]
  /\ next_txnid \in 1 .. MaxReq + 1
  /\ xfer_timers \in [elems : [Slot -> Req \cup {NULL}], size : Int]
  /\ timers \in [Req -> Addr \cup {NULL}] /\ armed \subseteq Req
  /\ deferred \in Seq(Addr) /\ di \in Nat \ {0}
  /\ reg \subseteq Resrc /\ ready \subseteq Events /\ batch \subseteq Events
  /\ full \subseteq Chan /\ closed \subseteq Chan
  /\ fds \subseteq Fd /\ pending \in [Req -> {"none"} \cup Terminal]
  /\ client \in [Req -> ClientRec]
  /\ reqs \in Seq([cmd : AllCmds, r : Req, pid : Client, txnid : 0 .. MaxReq])
  /\ nreq \in 0 .. MaxReq /\ astray \in BOOLEAN
  /\ pc \in {"poll", "events", "reqfd", "deferred", "exited", "abort", "uaf"}

(* The table of transfers, searched by slot alone, is exact: what a slot    *)
(* points to is allocated and belongs there, every transfer can be found,   *)
(* and the size that limits new requests and deferrals is their number.     *)
TableExact ==
  /\ \A i \in Slot : xfers.elems[i] # NULL =>
       Live(xfers.elems[i]) /\ indexof(heap[xfers.elems[i]].txnid) = i
  /\ \A a \in Addr : Live(a) => xfer_table_find(xfers, heap[a].txnid) = a
  /\ xfers.size = Cardinality({a \in Addr : Live(a)})

(* The deferred list is exactly the transfers marked as deferred, each once *)
(* (process_deferred asserts both on every element it takes).               *)
DeferredExact ==
  Intact =>
    /\ \A i, j \in 1 .. Len(deferred) : deferred[i] = deferred[j] => i = j
    /\ \A a \in Addr : heap[a].defer # "NONE" <=> \E i \in 1 .. Len(deferred) : deferred[i] = a

(* No registration or event, wherever it is held, points to a transfer that *)
(* has been freed, nor to one that now uses another descriptor.             *)
NoDanglingEvent ==
  Intact =>
    /\ \A g \in reg : g.kind = "xfer" => Live(g.id) /\ heap[g.id].dest = g.chan
    /\ \A e \in ready \cup batch : e.kind = "xfer" => Live(e.id)

(* Edge-triggered events are not lost: a registered descriptor with space   *)
(* in it has an event on its way unless the deferred list serves it.        *)
NoLostWakeup ==
  Intact => \A g \in reg :
    g.chan \notin full /\ (g.kind = "xfer" => heap[g.id].defer = "NONE")
      => \E e \in ready \cup batch : e.kind = g.kind /\ e.id = g.id

(* The server holds the descriptors of its transfers and of the responses   *)
(* it has kept, and no others: none leaks and none in use is closed.        *)
FdsExact ==
  Intact => fds = {heap[a].stat : a \in {b \in Addr : Live(b)}}
                   \cup {heap[a].dest : a \in {b \in Addr : heap[b].dest # NoFd}}
                   \cup {<<"dup", r>> : r \in {q \in Req : pending[q] # "none"}}

(* A file held open for a client that has not asked for its data yet always *)
(* has a timer that will expire or has expired and is about to be handled.  *)
OpenFileTimed ==
  Running => \A a \in Addr :
    heap[a].cmd = "OPEN" /\ heap[a].defer = "NONE" =>
      LET t == heap[a].txnid IN
      /\ timers[t] = a
      /\ t \in armed \/ SourceEvent("timer", t) \in ready \cup batch

(* A client is never told more than has happened: its transfer is the one   *)
(* whose ID it was given, reported progress is at most what has been moved, *)
(* and a transfer that is still going to move data has no outcome yet.      *)
StatusTruthful ==
  \A a \in Addr : Live(a) =>
    LET x == heap[a]
        told == client[x.stat[2]]
    IN  /\ told.txn = x.txnid /\ told.pid = x.pid
        /\ told.bytes <= Size - x.left
        /\ x.defer # "CANCEL" => told.outcome = "none"

(* A client that reads its status channel to the end finds an outcome in    *)
(* it: the server lets go of the channel of an accepted transfer that was   *)
(* not cancelled only after it has written how the transfer ended.          *)
ToldBeforeClose ==
  LET Accepted(r) == /\ client[r].txn # 0 /\ client[r].cmd \in {"SEND", "OPEN"}
                     /\ "CANCEL" \notin client[r].asked
      Released(r) == <<"stat", r>> \notin fds \cup closed /\ <<"dup", r>> \notin fds
  IN  Running => \A r \in Req : Accepted(r) /\ Released(r) => client[r].outcome \in Terminal

(* No assertion of the code fails and no freed transfer is accessed. *)
NeverCrashes == ~astray => pc \notin {"abort", "uaf"}
-----------------------------------------------------------------------------
(* Action properties. *)

(* A cancelled transfer is left alone until it is deleted: whatever else is *)
(* in the same batch of events, it moves no more data.                      *)
CancelledStays ==
  [][ \A a \in Addr : heap[a].defer = "CANCEL" => heap'[a] \in {heap[a], NoXfer} ]_heap

(* The outcome is the last thing written to a status channel. *)
OutcomeLast ==
  [][ \A r \in Req : client[r].outcome \in Terminal =>
        /\ client'[r].outcome = client[r].outcome
        /\ client'[r].bytes = client[r].bytes ]_client

(* A request changes no transfer of another client. *)
OwnTransfersOnly ==
  [][ \A a \in Addr :
        pc = "reqfd" /\ reqs # <<>> /\ Live(a) /\ heap[a].pid # Head(reqs).pid
          => heap'[a] \in {heap[a], NoXfer} /\ (pc' # "exited" => heap'[a] = heap[a]) ]_heap

(* A follow-up request changes no transfer but the one whose transaction ID *)
(* it carries (an ID that is no longer valid is to be ignored), and a timer *)
(* none but the one it was set for.                                         *)
NamedTransferOnly ==
  [][ /\ pc = "reqfd" /\ reqs # <<>> /\ Head(reqs).cmd \in {"SEND_OPEN", "CANCEL"} =>
           \A a \in Addr : heap[a].txnid \notin {0, Head(reqs).txnid} => heap'[a] = heap[a]
      /\ \A t \in Req : timers[t] # NULL /\ timers'[t] = NULL /\ Running' =>
           \A a \in Addr : heap[a].txnid # t => heap'[a] = heap[a] ]_<<heap, timers>>
-----------------------------------------------------------------------------
(* Liveness, under Fairness. *)

(* Every accepted request is eventually let go of: its data is moved, it    *)
(* fails, or it is an open file that is abandoned and expires.              *)
EventuallyReleased ==
  \A r \in Req : client[r].txn # 0 ~> <<"stat", r>> \notin fds

(* A well-formed request is eventually accepted or refused, and told so. *)
EventuallyAnswered ==
  \A r \in Req : client[r].cmd \in {"OPEN", "READ", "SEND"}
    ~> client[r].txn # 0 \/ client[r].outcome # "none"

(* A response that had to wait is eventually written. *)
EventuallyDelivered ==
  \A r \in Req : pending[r] # "none" ~> client[r].outcome \in Terminal
=============================================================================
