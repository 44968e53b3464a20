---------------------------- MODULE SyspollKqueue ----------------------------
(***************************************************************************)
(* The poller of the FreeBSD build (syspoll_kqueue.c) under the event loop *)
(* of server.c.  One array holds both the changes that wait for the next   *)
(* kevent(2) and the events which the last one reported: handlers write    *)
(* changes from its beginning while the loop is still reading events.      *)
(*                                                                         *)
(* A resource is what a registration points to: a transfer, a response to  *)
(* be retried, the timer of an open file, or the request socket.  Each is  *)
(* used once, so that a pointer to one that has been freed can be told.    *)
(***************************************************************************)
EXTENDS Integers, FiniteSets

CONSTANTS Xfer,       \* transfers
          Timer,      \* timers of open files
          Fd,         \* descriptors, which are numbers and are used again
          MaxEvents,  \* maxevents
          NULL        \* no user data, no descriptor

ASSUME KqueueAssumption ==
  /\ MaxEvents \in Nat \ {0} /\ IsFiniteSet(Fd)
  /\ Fd \cap Int = {} /\ NULL \notin Fd

VARIABLES
  events,    \* struct syspoll: the array
  size,      \* the changes in it
  nevents,   \* what kevent(2) returned
  i,         \* the position of the loop of process_events in it
  reported,  \* the events as the kernel reported them
  knotes,    \* the kernel's registrations
  status,    \* resources: unused, live or freed
  fd,        \* their descriptors
  stat,      \* the status channel of a READ, which is its first destination too
  leaked,    \* descriptors that are open and belong to no resource
  open,      \* timers whose files are open and have not been asked for
  expired,   \* those which process_deferred has to delete
  latest,    \* the timer set last
  pc,        \* where srv_run is
  clobbered, \* an event was read from where a change may have been written
  hasty,     \* a transfer was deleted before the kernel knew of it
  twice,     \* transfers that were registered a second time
  extra      \* changes of this batch that no event has made room for

arrayVars  == <<events, size, nevents, i, reported>>
fdVars     == <<status, fd, stat, leaked>>
resrcVars  == <<fdVars, open, expired, latest>>
ghostVars  == <<clobbered, hasty, twice, extra>>
vars == <<arrayVars, knotes, resrcVars, ghostVars, pc>>
-----------------------------------------------------------------------------
capacity == 2 * MaxEvents

Reqfd == <<"req", NULL>>
X(x) == <<"xfer", x>>
R(x) == <<"resp", x>>
T(t) == <<"timer", t>>
Resource == {Reqfd} \cup {X(x) : x \in Xfer} \cup {R(x) : x \in Xfer} \cup {T(t) : t \in Timer}

SIGTERM == 15
TimerIdent == -1

Entry == [ident : Fd \cup {NULL, SIGTERM, TimerIdent},
          filter : {"none", "signal", "read", "write", "timer"},
          flags : {"add", "delete", "error"}, udata : Resource \cup {NULL}]

NoEntry == [ident |-> NULL, filter |-> "none", flags |-> "add", udata |-> NULL]

EV_SET(ident, filter, flags, udata) ==
  [ident |-> ident, filter |-> filter, flags |-> flags, udata |-> udata]

(* The array and the changes in it; size is above capacity when an          *)
(* assertion that there is room has failed.                                 *)
Queue == [events |-> events, size |-> size]

HasRoom(q) == q.size < capacity

(* Mutant: the room is not checked. *)
kq_add_unchecked(q, e) ==
  [events |-> [j \in 0 .. capacity - 1 |-> IF j = q.size THEN e ELSE q.events[j]],
   size |-> q.size + 1]

(* Mutant: the changes are not counted. *)
kq_add_uncounted(q, e) == [q EXCEPT !.events[0] = e, !.size = 1]

(* A change is written behind those already there. *)
kq_add(q, e) ==
  IF HasRoom(q) THEN [events |-> [q.events EXCEPT ![q.size] = e], size |-> q.size + 1]
  ELSE [q EXCEPT !.size = capacity + 1]

assert_room(q) == IF HasRoom(q) THEN q ELSE [q EXCEPT !.size = capacity + 1]

(* There must be room for a change in each of the loop's two rounds, READ   *)
(* and then WRITE, whether it makes one or not.                             *)
syspoll_register(q, ident, filter, r) ==
  LET e == EV_SET(ident, filter, "add", r)
  IN  IF filter = "read" THEN assert_room(kq_add(q, e)) ELSE kq_add(assert_room(q), e)

(* A one-shot timer.  The identifier is the one add_open_file has set. *)
syspoll_timer(q, r) == kq_add(q, EV_SET(TimerIdent, "timer", "add", r))

(* Mutant: a change in each of two rounds, as in syspoll_register. *)
syspoll_deregister_twice(q, ident) ==
  LET e == EV_SET(ident, "none", "delete", NULL) IN kq_add(kq_add(q, e), e)

(* The filter of the change is 0. *)
syspoll_deregister(q, ident) == kq_add(q, EV_SET(ident, "none", "delete", NULL))

(* SIGTERM is registered twice, SIGINT never. *)
syspoll_new ==
  LET sig == EV_SET(SIGTERM, "signal", "add", NULL)
  IN  kq_add(kq_add([events |-> [j \in 0 .. capacity - 1 |-> NoEntry], size |-> 0], sig), sig)

(* The handler has made its changes; it goes on at l. *)
Queued(q, l) ==
  /\ events' = q.events /\ size' = q.size
  /\ pc' = IF q.size > capacity THEN "abort" ELSE l

Init ==
  /\ events = syspoll_new.events /\ size = syspoll_new.size
  /\ nevents = 0 /\ i = 0 /\ reported = [j \in 0 .. capacity - 1 |-> NoEntry]
  /\ knotes = {}
  /\ status = [r \in Resource |-> "unused"] /\ fd = [r \in Resource |-> NULL]
  /\ stat = [x \in Xfer |-> NULL] /\ leaked = {}
  /\ open = {} /\ expired = {} /\ latest = NULL /\ pc = "start"
  /\ clobbered = FALSE /\ hasty = FALSE /\ twice = {} /\ extra = 0
-----------------------------------------------------------------------------
(* Descriptors and the kernel *)

InUse == {fd[r] : r \in {s \in Resource : status[s] = "live"}} \cup {stat[x] : x \in Xfer} \cup leaked

(* A registration is known by its identifier and filter. *)
Key(e) == <<e.ident, e.filter>>

(* The changes that are made: one with filter 0 is passed over.             *)
Made == {j \in 0 .. size - 1 : /\ events[j].filter # "none"
                               /\ events[j].ident \notin Fd \ InUse}

(* The registrations after them: a second change makes one anew.            *)
Applied ==
  {k \in knotes : \A j \in Made : Key(events[j]) # Key(k)}
  \cup {events[j] : j \in {m \in Made : \A n \in Made : n > m => Key(events[n]) # Key(events[m])}}

(* Changes for a descriptor that is not open. *)
Refused == {j \in 0 .. size - 1 : /\ events[j].filter # "none"
                                  /\ events[j].ident \in Fd \ InUse}

(* The events in set s, in any order, at the beginning of the array; what   *)
(* is behind them is not looked at before it is written again.              *)
Placed(s) ==
  { b \in [0 .. capacity - 1 -> s \cup {NoEntry}] :
      /\ {b[j] : j \in 0 .. Cardinality(s) - 1} = s
      /\ \A j \in Cardinality(s) .. capacity - 1 : b[j] = NoEntry }

(* kevent(2) has taken the changes and reports the events in s. *)
Report(s) ==
  /\ \E b \in Placed(s) : events' = b /\ reported' = b
  /\ size' = 0 /\ nevents' = Cardinality(s) /\ i' = 0 /\ extra' = 0

(* The first half of kevent(2): the changes.  Those that are refused are    *)
(* reported at once.                                                        *)
Submit ==
  LET errors == {[events[j] EXCEPT !.flags = "error"] : j \in Refused} IN
  /\ pc = "kevent"
  /\ knotes' = Applied
  /\ Report(errors) /\ pc' = IF errors = {} THEN "waiting" ELSE "events"
  /\ UNCHANGED <<resrcVars, clobbered, hasty, twice>>

(* The second half: events, of any registrations.  A one-shot one goes with *)
(* its event.  Without any it returns if interrupted or not to block.       *)
Return ==
  /\ pc = "waiting"
  /\ \E s \in SUBSET knotes :
       /\ IsFiniteSet(s) /\ Cardinality(s) <= capacity
       /\ Report(s) /\ pc' = IF s = {} THEN "deferred" ELSE "events"
       /\ knotes' = knotes \ {k \in s : k.filter = "timer"}
  /\ UNCHANGED <<resrcVars, clobbered, hasty, twice>>

(* A new resource is given a descriptor. *)
Create(r, f) ==
  /\ status[r] = "unused" /\ f \notin InUse
  /\ status' = [status EXCEPT ![r] = "live"] /\ fd' = [fd EXCEPT ![r] = f]

(* close(2) takes the registrations of the descriptors away. *)
CloseFds(fs) == knotes' = {k \in knotes : k.ident \notin fs}
-----------------------------------------------------------------------------
(* The event loop *)

srv_run ==
  /\ pc = "start"
  /\ \E f \in Fd :
       /\ Create(Reqfd, f)
       /\ Queued(syspoll_register(Queue, f, "read", Reqfd), "kevent")
  /\ UNCHANGED <<nevents, i, reported, knotes, stat, leaked, open, expired, latest, ghostVars>>

(* What a handler works on: the event at i. *)
Current == events[i]

(* After an event. *)
After == IF i + 1 < nevents THEN "events" ELSE "deferred"

(* syspoll_get: what it takes the entry at i for. *)
syspoll_get ==
  IF Current.filter = "signal" THEN "TERM"
  ELSE IF Current.flags = "error" THEN "ERROR"
  ELSE IF Current.filter = "none" THEN "abort"
  ELSE IF Current.filter = "write" THEN "WRITE" ELSE "READ"

(* An event that ends the process: a signal, an entry that is no event, one *)
(* whose resource has been freed, or an error of the request socket.        *)
Fatal ==
  /\ pc = "events"
  /\ \/ syspoll_get = "TERM" /\ pc' = "exited"
     \/ syspoll_get = "abort" /\ pc' = "abort"
     \/ /\ syspoll_get \notin {"TERM", "abort"}
        /\ status[Current.udata] # "live"
        /\ pc' = "uaf"
     \/ syspoll_get = "ERROR" /\ Current.udata = Reqfd /\ pc' = "exited"
  /\ clobbered' = (clobbered \/ size > i)
  /\ UNCHANGED <<arrayVars, knotes, resrcVars, hasty, twice, extra>>

(* An event that is handled: the resource exists. *)
Handling(kind) ==
  /\ pc = "events" /\ syspoll_get \notin {"TERM", "abort"}
  /\ Current.udata[1] = kind /\ status[Current.udata] = "live"
  /\ clobbered' = (clobbered \/ size > i)

(* handle_reqfd: it receives requests for as long as there are any. *)
HandleReq ==
  /\ Handling("req") /\ syspoll_get # "ERROR"
  /\ pc' = "reqfd"
  /\ UNCHANGED <<arrayVars, knotes, resrcVars, hasty, twice, extra>>

(* The table of transfers has room for one more. *)
TableRoom == Cardinality({x \in Xfer : status[X(x)] = "live"} \cup open) < MaxEvents

(* register_xfer, for READ and SEND or for the open file of a SEND_OPEN. *)
AddXfer(x) ==
  /\ pc = "reqfd"
  /\ \E f \in Fd :
       /\ Create(X(x), f)
       /\ Queued(syspoll_register(Queue, f, "write", X(x)), "reqfd")
       /\ \/ TableRoom /\ stat' \in {stat, [stat EXCEPT ![x] = f]} /\ UNCHANGED open
          \/ \E t \in open \ expired : open' = open \ {t} /\ UNCHANGED stat
  /\ extra' = extra + 1
  /\ UNCHANGED <<nevents, i, reported, knotes, leaked, expired, latest, clobbered, hasty, twice>>

(* register_xfer, for a SEND_OPEN to a transfer that is under way: it gets  *)
(* another destination, and the one it had stays open and registered.       *)
RegisterAgain(x) ==
  /\ pc = "reqfd" /\ status[X(x)] = "live"
  /\ \E f \in Fd \ InUse :
       /\ fd' = [fd EXCEPT ![X(x)] = f]
       /\ Queued(syspoll_register(Queue, f, "write", X(x)), "reqfd")
  /\ leaked' = leaked \cup ({fd[X(x)]} \ {stat[x]})
  /\ twice' = twice \cup {x} /\ extra' = extra + 1
  /\ UNCHANGED <<nevents, i, reported, knotes, status, stat, open, expired, latest, clobbered, hasty>>

(* add_open_file *)
AddTimer(t) ==
  /\ pc = "reqfd" /\ TableRoom
  /\ status[T(t)] = "unused" /\ status' = [status EXCEPT ![T(t)] = "live"]
  /\ Queued(syspoll_timer(Queue, T(t)), "reqfd")
  /\ latest' = t /\ open' = open \cup {t} /\ extra' = extra + 1
  /\ UNCHANGED <<nevents, i, reported, knotes, fd, stat, leaked, expired, clobbered, hasty, twice>>

ReqsDone ==
  /\ pc = "reqfd"
  /\ i' = i + 1 /\ pc' = After
  /\ UNCHANGED <<events, size, nevents, reported, knotes, resrcVars, ghostVars>>

(* delete_registered_xfer.  If the terminal response could not be written,  *)
(* a duplicate of the status descriptor has been registered before.         *)
DeleteXfer(x, q, keep, l) ==
  /\ status' = [status EXCEPT ![X(x)] = "freed", ![R(x)] = IF keep # NULL THEN "live" ELSE @]
  /\ fd' = [fd EXCEPT ![X(x)] = NULL, ![R(x)] = IF keep # NULL THEN keep ELSE @]
  /\ Queued(syspoll_deregister(
              IF keep # NULL THEN syspoll_register(q, keep, "write", R(x)) ELSE q, fd[X(x)]), l)
  /\ CloseFds({fd[X(x)], stat[x]}) /\ stat' = [stat EXCEPT ![x] = NULL]
  /\ extra' = IF keep # NULL THEN extra + 1 ELSE extra
  /\ hasty' = (hasty \/ \E j \in 0 .. size - 1 : events[j].udata = X(x) /\ events[j].flags = "add")

(* An event for a transfer: it goes on, or it ends. *)
HandleXfer ==
  LET x == Current.udata[2] IN
  /\ Handling("xfer")
  /\ i' = i + 1
  /\ \/ syspoll_get # "ERROR" /\ pc' = After /\ UNCHANGED <<events, size, knotes, status, fd, stat, hasty, extra>>
     \/ \E keep \in {NULL} \cup {f \in Fd \ InUse : syspoll_get # "ERROR"} :
          DeleteXfer(x, Queue, keep, After)
  /\ UNCHANGED <<nevents, reported, leaked, open, expired, latest, twice>>

(* Mutant: the timer is not deleted. *)
HandleTimer_keeps ==
  /\ Handling("timer")
  /\ expired' = expired \cup ({Current.udata[2]} \cap open)
  /\ i' = i + 1 /\ pc' = After
  /\ UNCHANGED <<events, size, nevents, reported, knotes, fdVars, open, latest, hasty, twice, extra>>

(* A timer: if its file is still open it is to be closed, and the timer is  *)
(* freed.  Its registration, if there still is one, is not withdrawn.       *)
HandleTimer ==
  /\ Handling("timer")
  /\ status' = [status EXCEPT ![Current.udata] = "freed"]
  /\ expired' = expired \cup ({Current.udata[2]} \cap open)
  /\ i' = i + 1 /\ pc' = After
  /\ UNCHANGED <<events, size, nevents, reported, knotes, fd, stat, leaked, open, latest, hasty, twice, extra>>

(* Mutant: the descriptor stays open. *)
HandleResp_leaks ==
  /\ Handling("resp")
  /\ i' = i + 1 /\ pc' = After
  /\ status' = [status EXCEPT ![Current.udata] = "freed"]
  /\ UNCHANGED <<events, size, nevents, reported, knotes, fd, stat, leaked, open, expired, latest, hasty,
                 twice, extra>>

(* A response: written or given up, or still to be retried. *)
HandleResp ==
  LET r == Current.udata IN
  /\ Handling("resp")
  /\ i' = i + 1 /\ pc' = After
  /\ \/ syspoll_get # "ERROR" /\ UNCHANGED <<knotes, status, fd>>
     \/ /\ status' = [status EXCEPT ![r] = "freed"] /\ fd' = [fd EXCEPT ![r] = NULL]
        /\ CloseFds({fd[r]})
  /\ UNCHANGED <<events, size, nevents, reported, stat, leaked, open, expired, latest, hasty, twice, extra>>

(* process_deferred: transfers that end there, and open files that expired  *)
(* or were cancelled, which have no descriptor to deregister.               *)
DeferredXfer(x) ==
  /\ pc = "deferred" /\ status[X(x)] = "live"
  /\ \E keep \in {NULL} \cup (Fd \ InUse) : DeleteXfer(x, Queue, keep, "deferred")
  /\ UNCHANGED <<nevents, i, reported, leaked, open, expired, latest, clobbered, twice>>

DeferredOpen(t) ==
  /\ pc = "deferred" /\ t \in open
  /\ open' = open \ {t} /\ expired' = expired \ {t}
  /\ Queued(syspoll_deregister(Queue, NULL), "deferred")
  /\ UNCHANGED <<nevents, i, reported, knotes, fdVars, latest, ghostVars>>

DeferredDone ==
  /\ pc = "deferred" /\ expired = {}
  /\ pc' = "kevent"
  /\ UNCHANGED <<arrayVars, knotes, resrcVars, ghostVars>>

Next ==
  \/ srv_run \/ Submit \/ Return \/ Fatal \/ HandleReq \/ ReqsDone \/ HandleXfer \/ HandleTimer \/ HandleResp
  \/ \E x \in Xfer : AddXfer(x) \/ RegisterAgain(x) \/ DeferredXfer(x)
  \/ \E t \in Timer : AddTimer(t) \/ DeferredOpen(t)
  \/ DeferredDone

Spec == Init /\ [][Next]_vars
-----------------------------------------------------------------------------
(* Properties *)

(* Every variable has its type: no change is ever written outside the       *)
(* array (the assertions of kq_add and syspoll_deregister).                 *)
TypeOK ==
  /\ events \in [0 .. capacity - 1 -> Entry] /\ reported \in [0 .. capacity - 1 -> Entry]
  /\ size \in 0 .. capacity + 1 /\ (size > capacity => pc = "abort")
  /\ nevents \in 0 .. capacity /\ i \in 0 .. nevents
  /\ knotes \subseteq Entry
  /\ status \in [Resource -> {"unused", "live", "freed"}] /\ fd \in [Resource -> Fd \cup {NULL}]
  /\ stat \in [Xfer -> Fd \cup {NULL}] /\ leaked \subseteq Fd
  /\ expired \subseteq open /\ open \subseteq Timer /\ latest \in Timer \cup {NULL}
  /\ pc \in {"start", "kevent", "waiting", "events", "reqfd", "deferred", "exited", "abort", "uaf"}
  /\ clobbered \in BOOLEAN /\ hasty \in BOOLEAN /\ twice \subseteq Xfer /\ extra \in Nat

(* Where a resource's registration is: with the kernel, or among changes. *)
Registered(r, filter) ==
  \/ \E k \in knotes : k.ident = fd[r] /\ k.filter = filter /\ k.udata = r
  \/ \E j \in 0 .. size - 1 : /\ events[j].ident = fd[r] /\ events[j].filter = filter
                              /\ events[j].udata = r /\ events[j].flags = "add"

(* No registration is lost, though changes and events share an array and    *)
(* descriptors are used again: the kernel knows of every transfer and of    *)
(* every response to be retried, or will at the next kevent(2).             *)
NoRegistrationLost ==
  pc \notin {"abort", "uaf"} =>
    \A x \in Xfer : \A r \in {X(x), R(x)} : status[r] = "live" => Registered(r, "write")

(* Changes are written over events that have not been handled yet, but at   *)
(* most one event is lost for every request that was accepted and every     *)
(* response that was kept in the same batch: any other handler makes at     *)
(* most the one change for which its own event has made room.               *)
LossBounded ==
  pc \in {"events", "reqfd"} => \A j \in i + extra .. nevents - 1 : events[j] = reported[j]

(* The loop fails an assertion only if the array is full or a change was    *)
(* written over an event.  It reads a transfer, response or timer that was  *)
(* freed only then, or if a transfer was deleted before it was registered,  *)
(* or if it is a transfer to which a second SEND_OPEN was sent.             *)
CrashExplained ==
  /\ pc = "abort" => size > capacity \/ clobbered
  /\ pc = "uaf" => clobbered \/ hasty \/ \E x \in twice : Current.udata = X(x)

(* The timer set last is going to expire, or has expired and is about to be *)
(* handled (earlier ones have the same identifier and are replaced).        *)
LatestTimerKept ==
  latest # NULL /\ status[T(latest)] = "live" /\ pc \notin {"abort", "uaf"} /\ ~clobbered =>
    \/ \E k \in knotes : k.udata = T(latest)
    \/ \E j \in 0 .. size - 1 : events[j].udata = T(latest)
    \/ \E j \in i .. nevents - 1 : reported[j].udata = T(latest)
=============================================================================
