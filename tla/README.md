# A verification development for sendfiled

sendfiled is a daemon that reads files on behalf of its clients. A client asks
it, over a UNIX datagram socket, to read a file into a pipe or to send it to a
descriptor that travels with the request; the server moves the data without
blocking and reports over a status channel. This directory holds TLA+ modules
that model the server, the life cycle of server processes, the files it reads,
the client library with the wire protocol, and the FreeBSD poller; TLC
configurations that check them on small instances; and TLAPS proofs of what
holds for every instance.

Paths such as `server.c` below are those under `src/src/impl/`, unless given in full.

## 1. The system

| Part | Source | State | Operations |
|---|---|---|---|
| Transfer table | `server_xfer_table.c` | array of pointers, size, capacity | new, find, insert, erase |
| Server | `server.c`, `server_resources.*`, `server_responses.c` | transfers, open-file timers, kept responses, deferred list, next ID | poll, one event, one request, one deferred transfer |
| Poller | `syspoll_linux.c`, `syspoll_kqueue.c` | registrations, pending events, timers, signals | register, deregister, timer, wait, poll |
| Client library | `src/src/sendfiled.c` | status channel of each request | read, open, send, send_open, cancel; spawn, connect, shutdown |
| Process life cycle | `src/src/main.c`, `process.c` | pipe to the parent, socket file | start, synchronise, serve, stop |
| Sockets | `unix_socket*.c` | request queue with descriptors and credentials | serve, receive, send, stop |
| Protocol | `protocol_*.c`, `src/src/responses.c` | none | marshal, unmarshal |
| File access | `file_io*.c` | file offset, locks, splice buffer | open and lock, splice, sendfile |

The server is one thread. What makes it hard is everything around it: requests
of several clients queue up while a batch of events is handled; timers, hang-ups
and cancellations arrive for a transfer in any order and often in the same
batch; events are edge-triggered, so that one which is not used up is lost;
follow-up requests carry an ID whose transfer may have gone; memory of a freed
transfer is handed out again; the status channel may be full when the outcome is
known. `PROJECT.json` lists these hazards with the line where each one bites.

What ought to hold: the table, the deferred list and the poller's registrations
describe the same transfers; no descriptor leaks; no freed transfer is used; no
assertion fails; a cancelled transfer moves no more data; clients do not affect
one another; a client learns the truth, learns the outcome last and before the
channel closes; every request is answered and every transfer ends; a server that
says it runs is reachable, and one that has stopped has freed its name. A
transfer writes the bytes that were asked for, in order and from one state of
the file; the library leaks no descriptor and its messages are understood.

## 2. The modules

* `XferTable`: the table as a function from slots; `xfer_table_find` looks at
  the slot and nothing else, as in the code.
* `Server`: the server, the Linux poller, and the clients' side of the protocol.
* `MCServer` and its configurations: instances for TLC.
* `ServerLemmas`, `ServerProofs`: proofs about `Server` and `XferTable`.
* `Lifecycle`, `MCLifecycle`, `LifecycleProofs`: starting and stopping servers
  of one name.
* `FileTransfer`, `MCFileTransfer`: files, locks, and the bytes that are moved,
  on Linux and on FreeBSD. `Stream` is the abstract specification of what a
  client may count on. `FileTransferProofs`, `FileLockProofs` and `StreamProofs`
  build on one another.
* `ClientLibrary`, `MCClientLibrary`: a request from the call of a library
  function to the last message, with the sockets and the wire protocol.
* `SyspollKqueue`, `MCSyspollKqueue`, `KqueueProofs`: the FreeBSD poller under
  the event loop.

The modules overlap at the event loop and divide the detail. `Server` has all of
its control and counts bytes; `FileTransfer` has the bytes and keeps of the loop
only that one transfer moves at a time; `ClientLibrary` has descriptors and
messages and lets transfers end at any time; `SyspollKqueue` has the array and
lets handlers make any sequence of changes that `server.c` can make. The four
are not composed formally.

### Server

The variables `heap` (transfers by address), `xfers`, `xfer_timers`, `timers`,
`deferred`, `di` and `next_txnid` are the fields of `struct server` and what
they point to. `pc` says where `srv_run` is: waiting (`poll`), handling a batch
(`events`), draining the request socket (`reqfd`), working through the deferred
list (`deferred`), or ended by a shutdown, a failed assertion (`abort`) or an
access to freed memory (`uaf`). `reg`, `ready` and `batch` are the poller's
registrations, the events the kernel holds, and those of the current batch.
`fds` is the set of clients' descriptors that the server has open, `full` and
`closed` the state of the channels, `pending` the terminal responses that wait
for space, and `client` what each client asked and was told.

| Code | Action |
|---|---|
| `syspoll_wait`, `syspoll_poll` in `srv_run` | `Poll`: a batch of at most `MaxFiles` events, not waiting while transfers are deferred |
| `process_events`, by kind of resource | `HandleTerm`, `HandleReq`, `HandleTimer`, `HandleResp`, `HandleXfer` |
| `handle_reqfd`, `process_request` | one datagram: `IgnoreRequest`, `RejectRequest`, `AcceptOpen`, `AcceptXfer`, `AcceptSendOpen`, `AcceptCancel`; `ReqsDone` |
| `process_deferred` | one element: `DeferredCancel`, `DeferredReady` |
| `transfer_file`, `send_terminal_resp` | `transfer_file`, with `Turns` (what splice or sendfile achieve) and `StatusWrites` (what becomes of the report) |
| `delete_registered_xfer`, `delete_unregistered_xfer` | `delete_registered_xfer`, `FreeXfer` |
| `sfd_read`, `sfd_open`, `sfd_send`; `sfd_send_open`, `sfd_cancel` | `sfd_request`; `sfd_follow_up` |
| the surroundings | `ReadChannel`, `CloseChannel`, `TimerExpires`, `Signal` |

Events of a batch are handled in any order, since the kernel promises none.
Data is abstracted to the number of bytes left; messages to what they tell; a
malformed request, and one from another user, are requests of their own kind.
The constant `Troubles` selects what goes wrong. Assertions are part of the
code: `NDEBUG` only changes the optimisation level in `GNUmakefile`, it is not passed
to the compiler.

A SEND_OPEN can reach a transfer that is already under way, by being repeated or
through a reused slot. It overwrites the destination, and from then on the
first descriptor is lost to the server. `astray` records this, and the
invariants that it ends (`FdsExact`, `DeferredExact`, `NoDanglingEvent`,
`NoLostWakeup`, `NeverCrashes`) are claimed until it happens.

### Lifecycle

Each member of `Spawns` is a call of `sfd_spawn` by a thread of one process, and
the server process it forks. `caller` and `child` say where the two are,
`pipe`, `writers` and `readers` are the synchronisation pipe and the holders of
its two ends (a fork hands on those of other calls in progress), and `path` is the server whose
socket file exists. `Main` is `main` up to the bound socket, `SyncParent`,
`SetUp`, `srv_run` and `us_stop_serving` the rest; `Fail` is the label `fail1`
and the like in the child of `sfd_spawn`. A SIGTERM kills a server that is not
yet `running`, because only `srv_run` blocks the signal. `ReadInterrupted` and
`WaitInterrupted` are the failures of `read` and `waitpid` in the caller when one
of its signal handlers runs (trouble `signal`): `sfd_spawn` then returns without
stopping the child or waiting for it.

### FileTransfer and Stream

`size`, `version` and `wlock` are the files as another process sees and changes
them; it respects locks, and may act between any two system calls of the server.
`rlock` is what the server has locked: a set of bytes per file and not per
transfer, because record locks belong to the process. `Open` is `open` and
`fstat`; `add_xfer` is the rest of `file_open_read` and of `add_xfer` in
`server.c`, with sums of `size_t` modulo `SizeMod` and the conversion of a length
to `off_t` (`signed`). `transfer_file` is one round of the loop, with
`linux_splice`, `userspace_splice` (the buffer of `file_splice`) or
`freebsd_sendfile` as the set of results of one call. `CloseFile` drops every
lock of the file and puts its other transfers into `bare`. A failed assertion
sets `aborted`, which ends the behaviour.

`Stream` says: refused, or accepted with a range whose bytes arrive in order,
complete exactly when the last has arrived, or stopped short. `FileTransfer`
implements it with `phase`, `from`, `want` and `got` read off the transfer's
record and the positions of the bytes written. Nothing is claimed of FreeBSD,
where `sendfile` is given the offset 0 on every call.

### ClientLibrary

A call goes through `sfd_pipe`, `set_nonblock`, `us_sendv` and `close_write_end`,
one action per system call; what fails goes to `Fail`, the label `fail` of the
library functions. `held` and `nonblock` are the descriptors of the caller and the modes of
open file descriptions, which both processes share. A message is a sequence of
cells; `marshal_req`, `prot_unmarshal_request` and the others are operators on
them. `handle_reqfd` receives one datagram, checks descriptors and user, and
answers; `recvd` is `recvd_fds[0]`, which keeps its value, or has none yet, when
a datagram carries no descriptor. `SendOpen` replaces the destination of a
transfer, or fails to register it; `leaked` are the descriptors which the server
then keeps open and no longer knows. `Progress` and `EndTransfer` stand for the
rest of the server.

### SyspollKqueue

`events` and `size` are the array and the changes in it, `reported` a copy of
what the kernel put there, `i` the position of the loop in `process_events`.
`kevent` is two steps: `Submit` applies the changes and reports those refused,
`Return` reports events. Resources are used once, so that an event for a freed
one can be told; descriptors are numbers and used again. `AddXfer` registers a
transfer, `RegisterAgain` one that is under way, which a repeated SEND_OPEN
does: the destination it had goes to `leaked` and stays registered, unless it is
the status channel (`stat`), which is closed with the transfer. `clobbered`,
`hasty` and `twice` record causes of a crash, and `extra` counts the changes of
a batch beyond the one that each handled event has made room for.

## 3. What the runs check

Runs that pass:

| Run | Instance | Shows |
|---|---|---|
| `core` | all five requests, 2 slots, 3 requests, 3 bytes moved 2 at a time | `TableExact`, `OpenFileTimed`, `DeferredExact`, `NoLostWakeup` |
| `clients` | two clients, 3 requests over 2 slots, one byte a turn, so that transfers are deferred over and over; I/O errors, refused registrations, follow-ups for the other client's transfers; no CANCEL | `NeverCrashes`, `OutcomeLast`, `OwnTransfersOnly` |
| `faults` | 2 requests, malformed and foreign ones included, and every other trouble: clients close any channel at any time, also while it travels with a request | `StatusTruthful`, `FdsExact`, `NoDanglingEvent`, `CancelledStays` |
| `release` | 2 requests, I/O errors, fair, no CANCEL | `ToldBeforeClose`, `EventuallyReleased`, `EventuallyAnswered`, `EventuallyDelivered` |
| `spawn` | 3 calls of `sfd_spawn`, every failure after which the socket file is still removed | `Reachable`, `ShutdownFreesName`, `FailedSpawnReaps`, `StatusAfterBind` |
| `spawn_returns` | 2 calls, every failure, fair | `SpawnReturns`, `ShutdownReturns` |
| `transfer` | 2 transfers of a file of up to 3 bytes, which is changed once; five ranges, among them an empty rest, one whose end wraps around and a negative offset; both platforms | `TypeOK`, `RangeLocked`, `OneVersion`, `InOrder`, `AssertionsHold`, `ImplementsStream` |
| `request` | 3 calls, names that are empty, as long as allowed or longer, a socket for one datagram, another user, a server that refuses, cannot register a destination or ends; fair | `TypeOK`, `NoClientLeak`, `Understood`, `AnsweredOwn`, `Conversation`, `AnswerBeforeEnd`, `ModesKept`, `EveryReadEnds` |
| `kqueue` | 2 transfers, 2 timers, 3 descriptors, `maxevents` 2, which is an array of 4 | `TypeOK`, `NoRegistrationLost`, `LossBounded`, `CrashExplained`, `LatestTimerKept` |

Each property is checked in the run that gets furthest with it. The types of
`Server` and `Lifecycle`, and `AlreadyRunning` without the failures that break
it, are proved (section 4) and are not part of a passing run.

`MCFileTransfer` also compares the range check of `add_xfer`, and
`MCClientLibrary` the length check of `us_make_sockpath`, with a definition of
what they should be, for every small input (`RangeCheckExact`, `PathCheckExact`):
the first is exact as long as the sum does not wrap around, the second lets a
path pass that is one character too long when a slash has to be added.

Runs in which the code does other than a document, a comment or an assertion of
the repository says; `PROJECT.json` quotes the lines:

| Run | Shows |
|---|---|
| `hangup_deferred` | an error event frees a transfer that the deferred list still holds; `process_deferred` then uses it |
| `late_follow_up` | a follow-up for a transfer that has gone acts on the one that has taken its slot, because the ID is not compared |
| `hasty_shutdown` | `sfd_shutdown` right after `sfd_spawn` kills the server before it can remove its socket file; the next `sfd_spawn` says that one is running |

The passing runs leave out what their properties are known to fail under. Put
into the constants, it shows that:

* CANCEL among `Cmds` breaks `NeverCrashes`: a transfer cancelled twice before it
  is deleted fails the assertion at the top of `defer_xfer`, which is meant for
  an append that would not take place;
* `timerfd` breaks `OpenFileTimed` and `EventuallyReleased`: a failing `timerfd_create` counts as
  success (`return -1` in a function of type bool), so the open file never expires;
* `register` breaks `FdsExact`: when the poller refuses the destination of a
  SEND_OPEN, the status channel stays open;
* `close` breaks `ToldBeforeClose`: a destination that hangs up ends the transfer
  without a word on the status channel;
* `args` breaks `StatusAfterBind`: a number rejected by `main` may be reported to
  the parent as status 0;
* `signal` and `kill` break `FailedSpawnReaps`: when `read` is interrupted or meets
  the end of file (`src/src/sendfiled.c:87`), or `waitpid` is interrupted (line 384),
  `sfd_spawn` returns 0 or -1 with the child unreaped, and in the first case
  possibly running.

Other properties hold with an exception that they name. The assertions of
`transfer_file` fail for an empty range, a sum that wraps around, a file that
changed between `fstat` and the lock, and an unknown pipe capacity
(`AssertionsHold`). A transfer whose lock went with another descriptor of its
file is not protected (`RangeLocked`, `OneVersion`). A follow-up from another
user is refused on a descriptor that is not a status channel (`AnsweredOwn`). An
empty name gets no answer (`AnswerBeforeEnd`). After a SEND_OPEN whose
destination could not be registered the reader of the status channel waits until
the server ends (`EveryReadEnds`). The FreeBSD poller crashes when
its array is full, when a change has been written over an event, when a
transfer is deleted before the kernel has heard of it, or when a second
SEND_OPEN has left a destination registered for a transfer that is then freed
(`CrashExplained`); it loses events, though no more than one for every request
accepted and every response kept in the batch (`LossBounded`); and of
several open files only the latest one's timer runs (`LatestTimerKept`).

Three more facts that the model has and no run is about: a request is refused
below the limit when the slot of its ID is taken, the limit in force is
`maxfiles` rounded up to a power of two, and a timer left behind may cancel a
later transfer at the same address and in the same slot, since only these are compared
(`server.c:234`).

**Bounds.** `Size` 3 with `PipeCap` 1 or 2 gives transfers of several turns,
with the last one shorter; the property that a transfer is deferred needs a turn
that moves `PipeCap` bytes and leaves some. Two slots and three requests make
IDs wrap around the table while an earlier transfer runs; one slot does so with
every request. One or two addresses make malloc reuse an address at once. Timers expire at any moment
after they are set. In the life cycle three calls are one server, one that finds the name
taken, and one after the first has stopped. In `transfer` a block of 2 and a
pipe of 3 bytes give turns of one and of two rounds and a buffer that is partly
written; `SizeMod` 8 is enough for a sum to wrap around, and one change of the
file separates two states of it. In `request` three calls are an open file and
two follow-ups, or a follow-up and a request in between, and a second datagram
finds the socket full. In `kqueue` four places hold the batch and the changes,
so that changes overtake events and the array fills up. Addresses and calls are
symmetric in the safety runs, and so are clients; the runs of liveness use no symmetry.
An idle server waits for ever, and the life cycle ends when every call has
returned: deadlock is not checked.

**Fairness.** `srv_run` is one thread in a loop that the operating system
schedules (`WF_vars(srv_run)`); an armed timer expires; a client with a full
channel reads it, without which the server rightly waits for ever. Nothing is
assumed of requests, of the order of events, or of how much a turn moves beyond
one byte. In `Lifecycle` each thread of the caller and each process goes on when
it can; nobody has to call anything, and no signal has to arrive. In `ClientLibrary` a call that has begun
goes on, the server receives datagrams, transfers end, which is what
`EventuallyReleased` shows of `Server`, and a caller reads what it is sent.

**Mutants.** Operators with a suffix (`undefer_xfer_drops_last`,
`us_serve_unlinks`, ...) stand before the definition they distort. Each one is a
plausible mistake in the code, and each property of a passing run has one that
breaks it.

## 4. What is proved

`ServerProofs`, on the lemmas of `ServerLemmas`, from `CapacityAssumption`
and `ServerAssumption` (the capacity is positive, constants have their types,
NULL is no address), for any number of clients, slots, addresses and requests
and any `Troubles`:

* `TypeCorrect`: `Spec => []TypeOK`. It says more than its name: a transfer
  that starts with something to move (`FileTransfer` has empty ranges) always has between 1 and
  `Size` bytes left, so that the assertion `write_size > 0` in `transfer_file`
  holds on every later turn, and it has a destination if and only if it is not
  merely open.
* `TableIsExact`: `Spec => []TableExact`. The table never points to freed
  memory, never loses a transfer and never miscounts them, although erasing
  looks at the slot only.

Neither is inductive alone. `IndInv` joins them with three facts.
`Reserve` bounds the next ID by the requests still queued, which is why there
is always an ID in range; `Cursor` keeps the position of `process_deferred`
inside the list; and the set of live transfers is finite, without which the
size, a cardinality, could not be updated. There is one lemma for each action;
the ones on `FreeXfer` and `add_xfer` carry the argument: freeing
clears the one slot that points to the transfer because a live transfer is
found under its own ID, and adding requires that slot to be empty.

`LifecycleProofs`, from `SpawnsAssumption`, for any number of calls and any
`Troubles`:

* `ServerReachable`: `Spec => []Reachable`. With the types of the variables it is
  inductive because `closing`, the state between closing the socket and
  unlinking its file, is part of `Bound`: nobody can bind in between.
* `ShutdownFrees`, `FailureReaps`, `StatusMeansBound` and `NameTakenByServer`:
  `ShutdownFreesName` without the trouble `memory`, `FailedSpawnReaps` without
  `kill` and `signal`, `StatusAfterBind` without `args`, and `AlreadyRunning` without `kill`,
  `mode`, `memory` and `hasty`; each with all other failures. They rest on
  `CallInv`, which follows a status from the server that writes it over the pipe
  to what the caller concludes (`Report`): while the caller can read its pipe no server
  ends without a status, so that the caller does not meet the end of file and
  leave the process unreaped (`Reaped`); a server that exits with its file in place has
  reported an error (`Freed`); and the file belongs to a server that has not
  ended (`Owned`). The run `hasty_shutdown` shows that `AlreadyRunning` needs its
  condition on `hasty`.

`FileTransferProofs`, `FileLockProofs` and `StreamProofs`, from `FileAssumption`
(sizes are numbers, files fit into `off_t`, requests into their types), for any
files, transfers, ranges, block sizes and pipe capacities, both platforms and
any `Troubles`:

* `TypeCorrect`: `Spec => []TypeOK`. The invariant `TypeInv` adds that the buffer
  never holds more than lies below its write position, that what is being opened
  or moved has a file, and that a turn ends before the pipe's capacity is
  exceeded.
* `RangesStayLocked`, `TransfersOneVersion`: `RangeLocked` and `OneVersion`.
  `LockInv` says that a transfer which moves, and is not `bare`, holds the lock it
  asked for; that a writer's lock excludes all of the server's; and that what
  it has written and buffered is of the file's present state. The last is
  needed because a change is only harmless if nobody relies on its lock, which
  follows from the lock not being empty (`LockNotEmpty`). That the lock covers
  the range (`RangeCovered`) is where the sum must not wrap around.
* `TransfersInOrder`: `Spec => []InOrder`, of every transfer but a SEND on FreeBSD. `OrderInv` ties the file offset to what
  was written and what is still in the buffer.
* `LinuxImplementsStream`: `Spec => S!Spec`. `Counted` (bytes left and bytes
  written add up to the range) makes the call that leaves nothing to write the
  `Arrive` that completes the stream. Every step maps to a step of `Stream` or a
  stutter.

`KqueueProofs`, from `KqueueAssumption`, for arrays of any size:

* `LossIsBounded`: `Spec => []LossBounded`. `Adds` says by how much each function of
  the poller extends the changes, and that it writes nowhere else. `BatchInv`
  compares two positions: the changes have not got further than the loop has,
  but for those counted in `extra`, and behind them the events are as reported.
  Deleting a transfer is the critical step (`DeleteKeeps`): its change takes the
  place of its own event, and only a response that is kept needs one more. No
  more changes are refused than there are (`ErrorsFit`), so that the errors fit
  into the array.

Liveness is only model-checked, since it rests on fairness. So are the
properties of the deferred list, of registrations and of descriptors in
`Server`, the rest of `SyspollKqueue`, and `ClientLibrary`, where messages are
put together and taken apart.

## 5. What is not modelled

* `main` as a daemon without a parent (`proc_daemonise`), and its options beyond
  the numbers it rejects.
* The layout of messages and control messages: fields are cells, and a name is
  as many cells as it has characters.
* The FreeBSD variants of the socket code. They differ in that no process ID
  is received, and in that `us_recv` sets the mode of `recvd_fds[0]` also when no
  descriptor has come.
* Failing allocations and failing `set_nonblock` in the server where the code
  ignores them.
* Clients that fork or hand on descriptors, so that a registration outlives the
  server's own descriptor.
* Truncated datagrams beyond the trouble `recv` of `Server`.
* In `SyspollKqueue`, when an event occurs: a registration may be reported at any
  time. SIGINT is absent because the code registers SIGTERM twice and SIGINT never.
* A null pointer registered when the response to be retried cannot be allocated,
  which is a crash in any model.
* Logging, `set_cloexec`, and the interposition of system calls for tests.

## 6. What could follow

* `TransferSpec`: what one request promises its client (accepted or refused,
  progress, one outcome), implemented by `Server` without the troubles that
  section 3 shows to break it, with `Stream` as the part about the data.
* Proofs of `DeferredExact`, `NoDanglingEvent` and `CancelledStays` with their
  joint strengthening.
