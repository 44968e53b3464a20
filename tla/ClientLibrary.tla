---------------------------- MODULE ClientLibrary ----------------------------
(***************************************************************************)
(* A request from the call of a library function to the last message of    *)
(* the server: sendfiled.c (sfd_connect and the requests), responses.c,    *)
(* protocol_client.c, protocol_server.c, the sockets that carry messages   *)
(* and descriptors (unix_socket*.c), and the part of server.c that         *)
(* receives them.  What the server does with a transfer is in Server.      *)
(*                                                                         *)
(* A message is a sequence of cells: one per field, one per character of a *)
(* file name.  Call c creates a pipe with ends <<"r", c>> and <<"w", c>>,  *)
(* and <<"d", c>> is the destination it supplies.  The ends stand for open *)
(* file descriptions, which descriptors in several processes share.        *)
(***************************************************************************)
EXTENDS Integers, Sequences, FiniteSets

CONSTANTS Call,      \* calls of library functions, each made once
          Args,      \* what each may be called with
          NameMax,   \* PROT_FILENAME_MAX
          QueueLen,  \* datagrams the request socket has room for
          MaxMessages, \* messages on a status channel that leave room for progress
          SunPath,   \* sizeof(sun_path)
          NonName,   \* length of the prefix and extension of a socket's name
          Paths,     \* socket directories and server names: <<dirlen, slash, namelen>>
          Troubles   \* what goes wrong

(***************************************************************************)
(* pipe      pipe(2) fails                                                 *)
(* fcntl     fcntl(2) fails in the client                                  *)
(* refuse    the server cannot open the file of a FILE_OPEN, READ or SEND, *)
(*           or cannot register the latter two with its poller             *)
(* register  it cannot register the destination of a SEND_OPEN             *)
(* exit      the server terminates                                         *)
(***************************************************************************)
AllTroubles == {"pipe", "fcntl", "refuse", "register", "exit"}

FileOps == {"FILE_OPEN", "READ", "SEND"}

(* The transfer that a follow-up is about is named by the call that began it. *)
Arg == [op : FileOps, name : Seq({1}), off : Int, len : Nat, nonblock : BOOLEAN,
        uid : {"own", "other"}]
       \cup [op : {"SEND_OPEN", "CANCEL"}, txnid : Call, uid : {"own", "other"}]

ASSUME ClientAssumption ==
  /\ NameMax \in Nat \ {0} /\ QueueLen \in Nat \ {0} /\ MaxMessages \in Nat
  /\ \A c \in Call : \A a \in Args[c] : a \in Arg
  /\ SunPath \in Nat /\ NonName \in 0 .. SunPath
  /\ Troubles \subseteq AllTroubles

VARIABLES
  call,      \* the arguments and the progress of each call, what it returned
  held,      \* ends of which the client's process has a descriptor
  nonblock,  \* open file descriptions in non-blocking mode
  sock,      \* datagrams in the request socket
  up,        \* the server is running
  recvd,     \* recvd_fds[0] while requests are received: Junk if not yet set
  srv,       \* the server's transfers: phase, status channel, destination
  leaked,    \* ends that are open in the server and belong to no transfer
  served,    \* the requests as the server understood them
  chan,      \* messages written to each end, and the requests they answer
  nread,     \* the number of them which the client has read
  eof        \* calls whose caller has read the end of the channel

clientVars == <<call, held>>
serverVars == <<up, recvd, srv, leaked, served>>
chanVars   == <<chan, nread, eof>>
vars == <<clientVars, nonblock, sock, serverVars, chanVars>>
-----------------------------------------------------------------------------
r(c) == <<"r", c>>
w(c) == <<"w", c>>
d(c) == <<"d", c>>
Ends == {"r", "w", "d"} \X Call
NoEnd == <<"none">>
Junk == <<"junk">>

NoArg == [op |-> "none", uid |-> "own"]
NoXfer == [phase |-> "none", stat |-> NoEnd, dest |-> NoEnd]

Init ==
  /\ call = [c \in Call |-> [pc |-> "idle", arg |-> NoArg, ret |-> "none"]] /\ held = {}
  /\ nonblock = {} /\ sock = <<>> /\ up = TRUE /\ recvd = NoEnd
  /\ srv = [c \in Call |-> NoXfer] /\ leaked = {} /\ served = [c \in Call |-> <<>>]
  /\ chan = [e \in Ends |-> <<>>] /\ nread = [c \in Call |-> 0] /\ eof = {}
-----------------------------------------------------------------------------
(* Messages *)

PROT_CMD == [FILE_OPEN |-> 1, READ |-> 2, SEND |-> 3, SEND_OPEN |-> 4, CANCEL |-> 5]
SFD_FILE_INFO == 129
SFD_XFER_STAT == 130
SFD_STAT_OK == 0
PROT_XFER_COMPLETE == -1
EPERM == 1
EIO == 5
EACCES == 13
ETIMEDOUT == 110
NUL == 0

PROT_REQ_BASE_SIZE == 4
PROT_REQ_MINSIZE == PROT_REQ_BASE_SIZE + 1 + 1
PROT_IS_REQUEST(cmd) == cmd < 128

(* Mutant: the terminating NUL is not sent. *)
marshal_req_unterminated(a) == <<PROT_CMD[a.op], SFD_STAT_OK, a.off, a.len>> \o a.name

(* The request and the name with its NUL, as REQ_IOVS gathers them; nothing *)
(* if the name is too long.                                                 *)
marshal_req(a) ==
  IF Len(a.name) > NameMax THEN <<>>
  ELSE <<PROT_CMD[a.op], SFD_STAT_OK, a.off, a.len>> \o a.name \o <<NUL>>

prot_marshal_follow_up(a) == <<PROT_CMD[a.op], SFD_STAT_OK, a.txnid>>

sfd_get_cmd(m) == m[1]
sfd_get_stat(m) == m[2]
HDR_OK(m, cmd) == sfd_get_cmd(m) = cmd /\ sfd_get_stat(m) = SFD_STAT_OK

Malformed == [cmd |-> 0]

(* Mutant: the name keeps its NUL. *)
prot_unmarshal_request_raw(m) ==
  [cmd |-> m[1], off |-> m[3], len |-> m[4], name |-> SubSeq(m, PROT_REQ_BASE_SIZE + 1, Len(m))]

prot_unmarshal_request(m) ==
  IF \/ Len(m) < PROT_REQ_MINSIZE
     \/ sfd_get_cmd(m) \notin {PROT_CMD[op] : op \in FileOps}
     \/ sfd_get_stat(m) # SFD_STAT_OK
     \/ m[Len(m)] # NUL
     \/ Len(m) - PROT_REQ_BASE_SIZE - 1 > NameMax
  THEN Malformed
  ELSE [cmd |-> m[1], off |-> m[3], len |-> m[4],
        name |-> SubSeq(m, PROT_REQ_BASE_SIZE + 1, Len(m) - 1)]

prot_unmarshal_follow_up(m, cmd) ==
  IF HDR_OK(m, cmd) THEN [cmd |-> m[1], txnid |-> m[3]] ELSE Malformed

prot_marshal_file_info(size, txnid) == <<SFD_FILE_INFO, SFD_STAT_OK, size, txnid>>
prot_marshal_xfer_stat(size) == <<SFD_XFER_STAT, SFD_STAT_OK, size>>
req_err(stat) == <<SFD_FILE_INFO, stat % 256>>
xfer_err(stat) == <<SFD_XFER_STAT, stat % 256>>

(* What a client makes of a message: sfd_unmarshal_file_info, then          *)
(* sfd_unmarshal_xfer_stat and sfd_xfer_complete.                           *)
sfd_unmarshal(m) ==
  IF HDR_OK(m, SFD_FILE_INFO) THEN [is |-> "file_info", txnid |-> m[4]]
  ELSE IF HDR_OK(m, SFD_XFER_STAT)
       THEN [is |-> IF m[3] = PROT_XFER_COMPLETE THEN "complete" ELSE "progress"]
       ELSE [is |-> "error", cmd |-> sfd_get_cmd(m), stat |-> sfd_get_stat(m)]
-----------------------------------------------------------------------------
(* The path of a server's socket, by lengths: 0 if it is refused. *)

us_make_sockpath(dirlen, slash, namelen) ==
  IF dirlen >= SunPath - NonName \/ namelen >= SunPath - NonName - dirlen THEN 0
  ELSE NonName + dirlen + (IF slash THEN 1 ELSE 0) + namelen
-----------------------------------------------------------------------------
(* The client.  Between any two steps of a call other processes run. *)

At(c, pc) == call[c].pc = pc
Returns(c, ret) == call' = [call EXCEPT ![c].pc = "done", ![c].ret = ret]

(* The label fail: both ends of the pipe are closed. *)
Fail(c) ==
  /\ Returns(c, "-1")
  /\ held' = held \ {r(c), w(c)}

(* sfd_connect: a socket that could not be connected is closed again. *)
sfd_connect(c, p) ==
  LET path == us_make_sockpath(p[1], p[2], p[3]) IN
  /\ At(c, "idle")
  /\ IF path # 0 /\ up THEN Returns(c, "fd") /\ held' = held \cup {<<"s", c>>}
     ELSE Returns(c, "-1") /\ UNCHANGED held
  /\ UNCHANGED <<nonblock, sock, serverVars, chanVars>>

(* sfd_pipe, the first step of sfd_read, sfd_open and sfd_send.  If a flag  *)
(* cannot be set it closes both ends.                                       *)
sfd_pipe(c, a) ==
  /\ At(c, "idle") /\ a.op \in FileOps
  /\ \/ /\ call' = [call EXCEPT ![c].pc = "pipe", ![c].arg = a]
        /\ held' = held \cup {r(c), w(c)} /\ nonblock' = nonblock \cup {r(c), w(c)}
     \/ /\ "pipe" \in Troubles
        /\ call' = [call EXCEPT ![c] = [pc |-> "done", arg |-> a, ret |-> "-1"]]
        /\ UNCHANGED <<held, nonblock>>
  /\ UNCHANGED <<sock, serverVars, chanVars>>

(* The end that is returned blocks if the caller has asked for that. *)
set_nonblock(c) ==
  /\ At(c, "pipe")
  /\ \/ /\ nonblock' = IF call[c].arg.nonblock THEN nonblock ELSE nonblock \ {r(c)}
        /\ call' = [call EXCEPT ![c].pc = "send"] /\ UNCHANGED held
     \/ /\ "fcntl" \in Troubles /\ ~call[c].arg.nonblock
        /\ Fail(c) /\ UNCHANGED nonblock
  /\ UNCHANGED <<sock, serverVars, chanVars>>

(* Mutant: a datagram is accepted by a socket that is full. *)
CanSend_unbounded == up

CanSend == up /\ Len(sock) < QueueLen

Datagram(c, a, msg, fds) == [msg |-> msg, fds |-> fds, uid |-> a.uid, from |-> c]

(* us_sendv with the write end, and the destination if there is one. *)
us_sendv(c) ==
  LET a   == call[c].arg
      msg == marshal_req(a)
      fds == IF a.op = "SEND" THEN <<w(c), d(c)>> ELSE <<w(c)>>
  IN
  /\ At(c, "send")
  /\ IF msg = <<>> \/ ~CanSend THEN Fail(c) /\ UNCHANGED sock
     ELSE /\ sock' = Append(sock, Datagram(c, a, msg, fds))
          /\ call' = [call EXCEPT ![c].pc = "close"] /\ UNCHANGED held
  /\ UNCHANGED <<nonblock, serverVars, chanVars>>

(* Mutant: the client keeps the write end. *)
close_write_end_kept(c) ==
  /\ At(c, "close")
  /\ Returns(c, "fd")
  /\ UNCHANGED <<held, nonblock, sock, serverVars, chanVars>>

(* "No use for the write end of the pipe in this process" *)
close_write_end(c) ==
  /\ At(c, "close")
  /\ Returns(c, "fd") /\ held' = held \ {w(c)}
  /\ UNCHANGED <<nonblock, sock, serverVars, chanVars>>

(* The transaction ID that the answer to call q contained. *)
Knows(q) == \E n \in 1 .. nread[q] : sfd_unmarshal(chan[w(q)][n].msg).is = "file_info"

(* sfd_send_open and sfd_cancel; another user can only guess. *)
sfd_follow_up(c, a) ==
  /\ At(c, "idle") /\ a.op \notin FileOps
  /\ a.uid = "own" => Knows(a.txnid)
  /\ LET fds == IF a.op = "SEND_OPEN" THEN <<d(c)>> ELSE <<>> IN
     IF CanSend THEN sock' = Append(sock, Datagram(c, a, prot_marshal_follow_up(a), fds))
     ELSE UNCHANGED sock
  /\ call' = [call EXCEPT ![c] = [pc |-> "done", arg |-> a,
                                  ret |-> IF CanSend THEN "true" ELSE "false"]]
  /\ UNCHANGED <<held, nonblock, serverVars, chanVars>>

(* The caller reads a message, or finds that no descriptor of the write end *)
(* is left: in its process, in the socket or in the server.                 *)
WriteEnds(c) ==
  held \cup leaked
       \cup (UNION {{x.stat, x.dest} : x \in {srv[q] : q \in Call}})
       \cup (UNION {{sock[n].fds[m] : m \in 1 .. Len(sock[n].fds)} : n \in 1 .. Len(sock)})

ReadMessage(c) ==
  /\ call[c].ret = "fd" /\ r(c) \in held
  /\ \/ /\ nread[c] < Len(chan[w(c)])
        /\ nread' = [nread EXCEPT ![c] = @ + 1] /\ UNCHANGED eof
     \/ /\ nread[c] = Len(chan[w(c)]) /\ w(c) \notin WriteEnds(c) /\ c \notin eof
        /\ eof' = eof \cup {c} /\ UNCHANGED nread
  /\ UNCHANGED <<clientVars, nonblock, sock, serverVars, chan>>
-----------------------------------------------------------------------------
(* The server *)

(* send_pdu, if that descriptor is open in the server. *)
send_pdu(e, msg, for) ==
  IF e \in Ends THEN chan' = [chan EXCEPT ![e] = Append(@, [msg |-> msg, for |-> for])]
  ELSE UNCHANGED chan

(* Mutant: descriptors keep the mode that they arrive with. *)
us_recv_modes_kept(g) ==
  /\ sock' = Tail(sock) /\ UNCHANGED nonblock
  /\ recvd' = IF g.fds # <<>> THEN g.fds[1] ELSE IF recvd = NoEnd THEN Junk ELSE recvd

(* The datagram g is received.  One without descriptors leaves recvd_fds as *)
(* it is.                                                                   *)
us_recv(g) ==
  /\ sock' = Tail(sock)
  /\ nonblock' = nonblock \cup {g.fds[n] : n \in 1 .. Len(g.fds)}
  /\ recvd' = IF g.fds # <<>> THEN g.fds[1] ELSE IF recvd = NoEnd THEN Junk ELSE recvd

(* Descriptors open in the server, and those that recvd_fds[0] may denote. *)
OpenEnds == leaked \cup ((UNION {{srv[c].stat, srv[c].dest} : c \in Call}) \ {NoEnd})
Recvd(g) == IF g.fds # <<>> THEN {g.fds[1]}
            ELSE IF recvd \in {NoEnd, Junk} THEN OpenEnds \cup {NoEnd}
            ELSE IF recvd \in OpenEnds THEN {recvd} ELSE {NoEnd}

(* send_req_err and close_fds *)
Refuse(g) ==
  /\ "refuse" \in Troubles
  /\ send_pdu(g.fds[1], req_err(EACCES), g.from)
  /\ UNCHANGED <<srv, leaked, served>>

(* Mutant: the messages of an open file go to the destination. *)
Accept_swapped(g, q) ==
  /\ srv' = [srv EXCEPT ![g.from] =
               [phase |-> IF q.cmd = PROT_CMD.FILE_OPEN THEN "open" ELSE "moving",
                stat |-> IF q.cmd = PROT_CMD.SEND THEN g.fds[2] ELSE g.fds[1],
                dest |-> IF q.cmd = PROT_CMD.FILE_OPEN THEN NoEnd ELSE g.fds[1]]]
  /\ served' = [served EXCEPT ![g.from] = <<q>>] /\ UNCHANGED leaked
  /\ send_pdu(g.fds[1], prot_marshal_file_info(q.len, g.from), g.from)

(* READ, SEND, FILE_OPEN: the descriptors are kept. *)
Accept(g, q) ==
  /\ srv' = [srv EXCEPT ![g.from] =
               [phase |-> IF q.cmd = PROT_CMD.FILE_OPEN THEN "open" ELSE "moving",
                stat |-> g.fds[1],
                dest |-> IF q.cmd = PROT_CMD.FILE_OPEN THEN NoEnd ELSE g.fds[Len(g.fds)]]]
  /\ served' = [served EXCEPT ![g.from] = <<q>>] /\ UNCHANGED leaked
  /\ send_pdu(g.fds[1], prot_marshal_file_info(q.len, g.from), g.from)

(* SEND_OPEN to the transfer t: the destination is replaced, and an earlier *)
(* one stays open unless it is the status channel too.  If the new one      *)
(* cannot be registered the client is told and the transfer deleted, and    *)
(* neither its status channel nor an earlier destination is closed.         *)
SendOpen(t, dest) ==
  \/ /\ srv' = [srv EXCEPT ![t].phase = "moving", ![t].dest = dest]
     /\ leaked' = leaked \cup ({srv[t].dest} \ {NoEnd, srv[t].stat})
     /\ UNCHANGED chan
  \/ /\ "register" \in Troubles
     /\ send_pdu(srv[t].stat, xfer_err(EPERM), t)
     /\ srv' = [srv EXCEPT ![t] = NoXfer]
     /\ leaked' = leaked \cup ({srv[t].stat, srv[t].dest} \ {NoEnd})

(* CANCEL marks whatever transfer it finds.  A follow-up for one that is    *)
(* not known is ignored, and so is a SEND_OPEN for one that is cancelled.   *)
FollowUp(g, q) ==
  LET t == q.txnid IN
  /\ IF q.cmd = PROT_CMD.SEND_OPEN /\ srv[t].phase \in {"open", "moving"}
     THEN SendOpen(t, g.fds[1])
     ELSE /\ srv' = IF q.cmd = PROT_CMD.CANCEL /\ srv[t].phase # "none"
                    THEN [srv EXCEPT ![t].phase = "cancelled"] ELSE srv
          /\ UNCHANGED <<chan, leaked>>
  /\ UNCHANGED served

process_request(g) ==
  LET cmd == sfd_get_cmd(g.msg)
      q   == IF cmd \in {PROT_CMD.SEND_OPEN, PROT_CMD.CANCEL}
             THEN prot_unmarshal_follow_up(g.msg, cmd) ELSE prot_unmarshal_request(g.msg)
  IN
  IF sfd_get_stat(g.msg) # SFD_STAT_OK \/ ~PROT_IS_REQUEST(cmd) \/ q = Malformed
  THEN UNCHANGED <<srv, leaked, served, chan>>
  ELSE IF cmd \in {PROT_CMD.SEND_OPEN, PROT_CMD.CANCEL} THEN FollowUp(g, q)
  ELSE Accept(g, q) \/ Refuse(g)

(* handle_reqfd, one datagram.  What process_request does not keep is       *)
(* closed.                                                                  *)
handle_reqfd ==
  /\ up /\ sock # <<>>
  /\ LET g == Head(sock) IN
     /\ us_recv(g)
     /\ IF sfd_get_cmd(g.msg) # PROT_CMD.CANCEL /\ g.fds = <<>>
        THEN UNCHANGED <<srv, leaked, served, chan>>
        ELSE IF g.uid # "own"
        THEN /\ \E e \in Recvd(g) : send_pdu(e, xfer_err(EACCES), g.from)
             /\ UNCHANGED <<srv, leaked, served>>
        ELSE process_request(g)
  /\ UNCHANGED <<clientVars, up, nread, eof>>

(* There is nothing more to receive: handle_reqfd returns. *)
ReqsDone ==
  /\ up /\ sock = <<>> /\ recvd # NoEnd
  /\ recvd' = NoEnd
  /\ UNCHANGED <<clientVars, nonblock, sock, up, srv, leaked, served, chanVars>>

has_stat_channel(c) == srv[c].stat # srv[c].dest

(* A destination is full: the client is told of the progress made. *)
Progress(c) ==
  /\ up /\ recvd = NoEnd /\ srv[c].phase = "moving" /\ has_stat_channel(c)
  /\ Len(chan[srv[c].stat]) < MaxMessages
  /\ send_pdu(srv[c].stat, prot_marshal_xfer_stat(1), c)
  /\ UNCHANGED <<clientVars, nonblock, sock, serverVars, nread, eof>>

(* Mutant: the transfer is not deleted. *)
EndTransfer_kept(c) ==
  /\ up /\ recvd = NoEnd /\ srv[c].phase = "moving" /\ has_stat_channel(c)
  /\ Len(chan[srv[c].stat]) < MaxMessages
  /\ send_pdu(srv[c].stat, prot_marshal_xfer_stat(PROT_XFER_COMPLETE), c)
  /\ UNCHANGED <<clientVars, nonblock, sock, serverVars, nread, eof>>

(* A transfer completes or fails, an open file expires, or what has been    *)
(* cancelled is deleted; the descriptors are closed.                        *)
EndTransfer(c) ==
  /\ up /\ recvd = NoEnd /\ srv[c].phase # "none"
  /\ \/ /\ srv[c].phase = "moving" /\ has_stat_channel(c)
        /\ \E msg \in {prot_marshal_xfer_stat(PROT_XFER_COMPLETE), xfer_err(EIO)} :
             send_pdu(srv[c].stat, msg, c)
     \/ srv[c].phase = "open" /\ send_pdu(srv[c].stat, xfer_err(ETIMEDOUT), c)
     \/ /\ srv[c].phase = "cancelled" \/ ~has_stat_channel(c)
        /\ UNCHANGED chan
  /\ srv' = [srv EXCEPT ![c] = NoXfer]
  /\ UNCHANGED <<clientVars, nonblock, sock, up, recvd, leaked, served, nread, eof>>

(* The server terminates; what is in its socket is lost. *)
Exit ==
  /\ "exit" \in Troubles /\ up
  /\ up' = FALSE /\ sock' = <<>> /\ srv' = [c \in Call |-> NoXfer] /\ leaked' = {}
  /\ UNCHANGED <<clientVars, nonblock, recvd, served, chanVars>>

Client(c) ==
  \/ \E p \in Paths : sfd_connect(c, p)
  \/ \E a \in Args[c] : sfd_pipe(c, a) \/ sfd_follow_up(c, a)
  \/ set_nonblock(c) \/ us_sendv(c) \/ close_write_end(c)
  \/ ReadMessage(c)

Server == handle_reqfd \/ ReqsDone \/ \E c \in Call : Progress(c) \/ EndTransfer(c)

Next == Server \/ Exit \/ \E c \in Call : Client(c)

Spec == Init /\ [][Next]_vars

(* Calls that have begun are carried through, callers read what they are    *)
(* sent, the server receives requests, and transfers end.                   *)
Fairness ==
  /\ WF_vars(handle_reqfd \/ ReqsDone)
  /\ \A c \in Call : /\ WF_vars(set_nonblock(c) \/ us_sendv(c) \/ close_write_end(c))
                      /\ WF_vars(ReadMessage(c)) /\ WF_vars(EndTransfer(c))

FairSpec == Spec /\ Fairness
-----------------------------------------------------------------------------
(* Properties *)

(* Calls return what their kind returns, the socket is never overfull, and  *)
(* the server's transfers hold only ends that it was sent.                  *)
TypeOK ==
  /\ \A c \in Call :
       /\ call[c].pc \in {"idle", "pipe", "send", "close", "done"}
       /\ call[c].arg \in Args[c] \cup {NoArg}
       /\ call[c].ret \in {"none", "fd", "-1", "true", "false"}
       /\ nread[c] \in 0 .. Len(chan[w(c)])
       /\ srv[c].phase \in {"none", "open", "moving", "cancelled"}
       /\ {srv[c].stat, srv[c].dest} \subseteq {NoEnd} \cup (Ends \ {r(q) : q \in Call})
  /\ Len(sock) <= QueueLen /\ eof \subseteq Call /\ up \in BOOLEAN
  /\ leaked \subseteq Ends \ {r(q) : q \in Call}
  /\ recvd \in Ends \cup {NoEnd, Junk} /\ nonblock \subseteq Ends
  /\ held \subseteq {"r", "w", "s"} \X Call

(* A call leaves no descriptor behind: while it runs the ends of its pipe   *)
(* are open, when it has failed neither is, and when it has succeeded only  *)
(* the one that it returned.                                                *)
NoClientLeak ==
  \A c \in Call :
    held \cap {r(c), w(c), <<"s", c>>} =
      CASE call[c].pc \in {"pipe", "send", "close"} -> {r(c), w(c)}
        [] call[c].ret = "fd" -> {IF call[c].arg = NoArg THEN <<"s", c>> ELSE r(c)}
        [] OTHER -> {}

(* The server understands what the client asked for, field by field.        *)
Understood ==
  \A c \in Call : served[c] # <<>> =>
    LET a == call[c].arg
    IN  served[c] = <<[cmd |-> PROT_CMD[a.op], off |-> a.off, len |-> a.len, name |-> a.name]>>

(* Every message that the server writes goes to the status channel of the  *)
(* request it answers, never to a destination and never to another client.  *)
(* The exception is the refusal of a follow-up from another user, which has *)
(* no status channel: it goes to whatever recvd_fds[0] denotes.             *)
AnsweredOwn ==
  \A e \in Ends : \A n \in 1 .. Len(chan[e]) :
    LET m == chan[e][n]
    IN  \/ e = w(m.for)
        \/ /\ call[m.for].arg.op \notin FileOps /\ call[m.for].arg.uid = "other"
           /\ m.msg = xfer_err(EACCES)

(* What a client is told about its request is one conversation: the details *)
(* of the file or an error first, then progress, and at most one outcome,   *)
(* which is the last and after which the server has let go of the channel.  *)
Conversation ==
  \A c \in Call :
    LET ms == SelectSeq(chan[w(c)], LAMBDA m : m.for = c)
        is(n) == sfd_unmarshal(ms[n].msg).is
    IN  \A n \in 1 .. Len(ms) :
          /\ n = 1 <=> sfd_get_cmd(ms[n].msg) = SFD_FILE_INFO \/ call[c].arg.uid = "other"
          /\ is(n) \in {"complete", "error"} => n = Len(ms) /\ srv[c].phase = "none"

(* A caller reads an answer before the end of its channel, as long as the   *)
(* server runs; only a request with an empty name is dropped without one,   *)
(* after the user has been checked.                                         *)
AnswerBeforeEnd ==
  \A c \in eof : up => (nread[c] > 0 <=> call[c].arg.name # <<>> \/ call[c].arg.uid = "other")

(* Both sides have the mode that they rely on: the caller's end is as it    *)
(* asked, and a descriptor that the server writes to does not block it.     *)
ModesKept ==
  /\ \A c \in Call : r(c) \in held /\ call[c].ret = "fd" =>
       (r(c) \in nonblock <=> call[c].arg.nonblock)
  /\ OpenEnds \subseteq nonblock

(* The last that the caller has read is an error. *)
Failed(c) == nread[c] > 0 /\ sfd_unmarshal(chan[w(c)][nread[c]].msg).is = "error"

(* Whoever reads the descriptor that a call has returned comes to its end:  *)
(* neither process keeps a write end that it has no use for.  The exception *)
(* is the status channel of an open file, or of another transfer, to which  *)
(* a SEND_OPEN was sent whose destination the poller refused: the server    *)
(* never closes it, and the end that the reader comes to is an error.       *)
EveryReadEnds ==
  \A c \in Call : r(c) \in held /\ call[c].ret = "fd" ~>
                  c \in eof \/ (w(c) \in leaked /\ Failed(c))
=============================================================================
