---------------------------- MODULE FileTransfer ----------------------------
(***************************************************************************)
(* Files and the bytes of them that are moved: file_io.c (opening, locks), *)
(* the range check of add_xfer and the loop of transfer_file in server.c,  *)
(* and the two ways of moving data: splice(2) and sendfile(2) on Linux     *)
(* (file_io_linux.c), a buffer in user space and FreeBSD's sendfile(2)     *)
(* (file_io_userspace_splice.c, file_io_freebsd.c).                        *)
(*                                                                         *)
(* The server is one thread: while it opens a file or is in the loop of    *)
(* one transfer (busy) no other transfer moves.  Another process, which    *)
(* respects locks, may change files between any two system calls.          *)
(***************************************************************************)
EXTENDS Integers, Sequences, FiniteSets

CONSTANTS Xfer,       \* transfers, one per request
          File,       \* files
          None,       \* no transfer, no file
          Platforms,  \* the platforms considered: "linux", "freebsd"
          Requests,   \* the ranges asked for: <<offset, len>>
          MaxSize,    \* bound on the size of a file
          MaxWrites,  \* bound on the number of changes to a file
          MaxOut,     \* bound on the bytes written to a destination
          SizeMod,    \* 2^w where w is the width of size_t and of off_t
          BlkSize,    \* st_blksize, the unit of a write and size of the buffer
          PipeCap,    \* the capacity of a pipe
          Troubles    \* what goes wrong

(***************************************************************************)
(* open    open(2), fstat(2) or lseek(2) fails, or it is no regular file   *)
(* add     no memory, or no place in the table of transfers                *)
(* write   another process changes files                                   *)
(* pipe    pipe_capacity cannot create its pipe                            *)
(* io      reading or writing fails for good                               *)
(***************************************************************************)
AllTroubles == {"open", "add", "write", "pipe", "io"}

ASSUME FileAssumption ==
  /\ None \notin Xfer /\ None \notin File
  /\ Platforms \subseteq {"linux", "freebsd"}
  /\ MaxSize \in Nat /\ MaxWrites \in Nat /\ MaxOut \in Nat
  /\ BlkSize \in Nat \ {0} /\ PipeCap \in Nat \ {0}
  /\ SizeMod \in Nat \ {0} /\ SizeMod % 2 = 0 /\ MaxSize < SizeMod \div 2
  /\ \A r \in Requests : /\ r = <<r[1], r[2]>> /\ r[1] \in Int /\ r[2] \in 0 .. SizeMod - 1
                         /\ r[1] < SizeMod \div 2 /\ r[1] >= -(SizeMod \div 2)
  /\ Troubles \subseteq AllTroubles

VARIABLES
  platform,  \* the platform the server was built for
  size,      \* the size of each file
  version,   \* the number of times it has been changed
  wlock,     \* the files which the other process has locked for writing
  rlock,     \* the bytes of each file which the server has locked for reading
  busy,      \* the transfer which the server is working on
  xfer,      \* struct resrc_xfer, or how far its creation has come
  total,     \* total_nwritten in transfer_file
  capacity,  \* the static variable c of pipe_capacity
  out,       \* the bytes each transfer has written: position and version
  bare,      \* transfers whose lock went with another descriptor of the file
  aborted    \* an assertion has failed

fileVars == <<size, version, wlock>>
vars == <<platform, fileVars, rlock, busy, xfer, total, capacity, out, bare, aborted>>
-----------------------------------------------------------------------------
MinOf(a, b) == IF a <= b THEN a ELSE b

MaxOff == SizeMod \div 2 - 1
Pos == 0 .. MaxOff

(* Conversion of a size_t to off_t. *)
signed(n) == IF n > MaxOff THEN n - SizeMod ELSE n

NoXfer == [st |-> "idle", file |-> None, cmd |-> "none", off |-> 0, len |-> 0, fsize |-> 0,
           seen |-> 0, left |-> 0, pos |-> 0, buf |-> <<>>, wp |-> 0]

Byte == [pos : Pos, ver : 0 .. MaxWrites]

(* The record of a transfer: its request, what fstat(2) told of the file,   *)
(* nbytes_left, the file offset, and the buffer in user space (what is      *)
(* between rp and wp, and the position of wp).                              *)
XferRec ==
  [st : {"idle", "opened", "refused", "moving", "complete", "stopped"},
   file : File \cup {None}, cmd : {"none", "READ", "SEND"},
   off : -(SizeMod \div 2) .. MaxOff, len : 0 .. SizeMod - 1, fsize : 0 .. MaxSize,
   seen : 0 .. MaxWrites, left : 0 .. SizeMod - 1, pos : Pos, buf : Seq(Byte),
   wp : 0 .. BlkSize]

Init ==
  /\ platform \in Platforms
  /\ size \in [File -> 0 .. MaxSize] /\ version = [f \in File |-> 0]
  /\ wlock = {} /\ rlock = [f \in File |-> {}]
  /\ busy = None /\ xfer = [t \in Xfer |-> NoXfer] /\ total = 0 /\ capacity = 0
  /\ out = [t \in Xfer |-> <<>>] /\ bare = {} /\ aborted = FALSE
-----------------------------------------------------------------------------
(* The other process *)

(* Its lock covers the whole file, so that any lock of the server is in     *)
(* conflict with it.                                                        *)
TakeWriteLock(f) ==
  /\ f \notin wlock /\ rlock[f] = {}
  /\ wlock' = wlock \cup {f}
  /\ UNCHANGED <<size, version>>

Change(f) ==
  /\ f \in wlock /\ version[f] < MaxWrites
  /\ version' = [version EXCEPT ![f] = @ + 1]
  /\ \E n \in 0 .. MaxSize : size' = [size EXCEPT ![f] = n]
  /\ UNCHANGED wlock

DropWriteLock(f) ==
  /\ wlock' = wlock \ {f} /\ f \in wlock
  /\ UNCHANGED <<size, version>>

Writer ==
  /\ "write" \in Troubles
  /\ \E f \in File : TakeWriteLock(f) \/ Change(f) \/ DropWriteLock(f)
  /\ UNCHANGED <<platform, rlock, busy, xfer, total, capacity, out, bare, aborted>>
-----------------------------------------------------------------------------
(* Opening a file *)

Moving(t) == xfer[t].st = "moving"

(* close(2) of a descriptor of file f, that of transfer t: every lock that  *)
(* the process holds on the file goes with it.                              *)
CloseFile(t, f) ==
  /\ rlock' = [rlock EXCEPT ![f] = {}]
  /\ bare' = bare \cup {u \in Xfer \ {t} : Moving(u) /\ xfer[u].file = f}

(* open(2) and stat_file. *)
Open(t, f, cmd, r) ==
  LET x == [NoXfer EXCEPT !.file = f, !.cmd = cmd, !.off = r[1], !.len = r[2]] IN
  /\ busy = None /\ xfer[t].st = "idle"
  /\ \/ /\ xfer' = [xfer EXCEPT ![t] = [x EXCEPT !.st = "opened", !.fsize = size[f],
                                                 !.seen = version[f]]]
        /\ busy' = t
        /\ UNCHANGED <<rlock, bare>>
     \/ /\ "open" \in Troubles
        /\ xfer' = [xfer EXCEPT ![t] = [x EXCEPT !.st = "refused"]]
        /\ CloseFile(t, f) \/ UNCHANGED <<rlock, bare>>
        /\ UNCHANGED busy
  /\ UNCHANGED <<platform, fileVars, total, capacity, out, aborted>>

(* The bytes that fcntl(2) locks.  Without a length it is the rest of the   *)
(* file; a negative one extends backwards.                                  *)
LockRange(off, len) ==
  LET n == signed(len)
  IN  {p \in Pos : IF n < 0 THEN off + n <= p /\ p < off ELSE off <= p /\ (n = 0 \/ p < off + n)}

(* Mutant: a length of zero locks nothing. *)
lock_file_empty(x) ==
  /\ x.file \notin wlock
  /\ rlock' = [rlock EXCEPT ![x.file] = @ \cup {p \in LockRange(x.off, x.len) : x.len > 0}]

(* lock_file, when it succeeds. *)
lock_file(x) ==
  /\ x.file \notin wlock
  /\ rlock' = [rlock EXCEPT ![x.file] = @ \cup LockRange(x.off, x.len)]

(* What makes fcntl(2) refuse the range: EINVAL, EOVERFLOW. *)
BadLock(off, len) ==
  LET n == signed(len) IN off < 0 \/ off + n < 0 \/ (n > 0 /\ off + n - 1 > MaxOff)

(* The checks of add_xfer: the sum is one of size_t. *)
RangeOK(off, len, fsize) == fsize # 0 /\ (off + len) % SizeMod <= fsize

(* xfer_nbytes *)
XferBytes(off, len, fsize) == IF len > 0 THEN len ELSE (fsize - off) % SizeMod

(* lock_file and lseek(2), then the rest of add_xfer; whatever fails once   *)
(* the file is open closes it.                                              *)
add_xfer(t) ==
  LET x == xfer[t]
      bad == BadLock(x.off, x.len)
      accepted == ~bad /\ RangeOK(x.off, x.len, x.fsize)
  IN
  /\ busy = t /\ x.st = "opened"
  /\ busy' = None
  /\ \/ /\ accepted
        /\ lock_file(x)
        /\ xfer' = [xfer EXCEPT ![t].st = "moving", ![t].pos = x.off,
                                ![t].left = XferBytes(x.off, x.len, x.fsize)]
        /\ UNCHANGED bare
     \/ /\ x.file \in wlock \/ ~accepted \/ "open" \in Troubles \/ "add" \in Troubles
        /\ CloseFile(t, x.file)
        /\ xfer' = [xfer EXCEPT ![t].st = "refused"]
  /\ UNCHANGED <<platform, fileVars, total, capacity, out, aborted>>
-----------------------------------------------------------------------------
(* Moving data.  Each way of doing so is the set of results of one call:    *)
(* what is returned (-1 is an error), the bytes that were written, and the  *)
(* file offset and buffer after it.                                         *)

Bytes(f, p, n) == [i \in 1 .. n |-> [pos |-> p + i - 1, ver |-> version[f]]]

Result(x, ret, sent, n) ==
  [ret |-> ret, sent |-> sent, pos |-> x.pos + n, buf |-> x.buf, wp |-> x.wp]

Left(x) == IF x.pos < size[x.file] THEN size[x.file] - x.pos ELSE 0

(* splice(2) and sendfile(2) start at the file offset and advance it. *)
linux_splice(x, nbytes) ==
  {Result(x, -1, <<>>, 0)} \cup
  IF Left(x) = 0 THEN {Result(x, 0, <<>>, 0)}
  ELSE {Result(x, n, Bytes(x.file, x.pos, n), n) : n \in 1 .. MinOf(nbytes, Left(x))}

(* Mutant: the room in the buffer is not looked at. *)
userspace_splice_no_room(x, nbytes) ==
  LET n == MinOf(nbytes, Left(x))
      buf == x.buf \o Bytes(x.file, x.pos, n)
  IN  {[ret |-> -1, sent |-> <<>>, pos |-> x.pos + n, buf |-> buf, wp |-> x.wp + n]}

(* Mutant: the positions return to the start after every write. *)
userspace_splice_drops(x, nbytes) ==
  LET n == MinOf(MinOf(nbytes, BlkSize), Left(x))
      buf == Bytes(x.file, x.pos, n)
  IN  {[ret |-> k, sent |-> SubSeq(buf, 1, k), pos |-> x.pos + n, buf |-> <<>>, wp |-> 0]
         : k \in 0 .. n}

(* file_splice in user space: read as much as there is room for, write what *)
(* is in the buffer; the positions return to its start once it is empty.    *)
userspace_splice(x, nbytes) ==
  LET n == MinOf(MinOf(nbytes, BlkSize - x.wp), Left(x))
      buf == x.buf \o Bytes(x.file, x.pos, n)
      Wrote(k) ==
        [ret |-> k, sent |-> SubSeq(buf, 1, k), pos |-> x.pos + n,
         buf |-> SubSeq(buf, k + 1, Len(buf)), wp |-> IF k = Len(buf) THEN 0 ELSE x.wp + n]
  IN  IF BlkSize > x.wp /\ n = 0 THEN {Result(x, 0, <<>>, 0)}
      ELSE {Wrote(k) : k \in 1 .. Len(buf)} \cup {[Wrote(0) EXCEPT !.ret = -1, !.wp = x.wp + n]}

(* FreeBSD's sendfile(2) starts at the offset it is given, here 0; bytes    *)
(* sent before it had to stop are not in what file_sendfile returns.        *)
freebsd_sendfile(x, nbytes) ==
  LET n == MinOf(nbytes, size[x.file])
  IN  {Result(x, IF k = n THEN k ELSE -1, Bytes(x.file, 0, k), 0) : k \in 0 .. n}

(* file_splice for READ, file_sendfile for SEND. *)
file_move(x, nbytes) ==
  IF platform = "linux" THEN linux_splice(x, nbytes)
  ELSE IF x.cmd = "READ" THEN userspace_splice(x, nbytes) ELSE freebsd_sendfile(x, nbytes)
-----------------------------------------------------------------------------
(* transfer_file *)

(* pipe_capacity is found out by the first call that can create a pipe. *)
pipe_capacity ==
  IF capacity # 0 THEN {capacity} ELSE {PipeCap} \cup {c \in {0} : "pipe" \in Troubles}

(* The transfer is deleted and its file closed. *)
Finish(t, how) ==
  /\ xfer' = [xfer EXCEPT ![t].st = how, ![t].left = 0, ![t].pos = 0, ![t].seen = 0,
                          ![t].buf = <<>>, ![t].wp = 0]
  /\ CloseFile(t, xfer[t].file)
  /\ busy' = None /\ total' = 0

assert(cond) == aborted' = ~cond

(* Mutant: what has been written is not counted. *)
nbytes_left_uncounted(x, ret) == x.left

(* Unsigned: more than there was to write makes it wrap around. *)
nbytes_left(x, ret) == IF ret > 0 THEN (x.left - ret) % SizeMod ELSE x.left

(* The call returned res: nothing is left, it has to wait, the turn's share *)
(* is used up (deferral), or the loop goes on.                              *)
Proceed(t, res, cap) ==
  LET left == nbytes_left(xfer[t], res.ret)
      sum  == IF res.ret > 0 THEN total + res.ret ELSE total
      loop == res.ret > 0 /\ sum < cap
  IN
  /\ Len(out[t]) + Len(res.sent) <= MaxOut
  /\ out' = [out EXCEPT ![t] = @ \o res.sent]
  /\ assert(res.ret # 0)
  /\ IF left = 0 THEN Finish(t, "complete")
     ELSE /\ xfer' = [xfer EXCEPT ![t].left = left, ![t].pos = res.pos,
                                  ![t].buf = res.buf, ![t].wp = res.wp]
          /\ busy' = IF loop \/ res.ret = 0 THEN t ELSE None
          /\ total' = IF loop THEN sum ELSE 0
          /\ UNCHANGED <<rlock, bare>>

(* Mutant: a turn writes whole blocks. *)
write_size_block(x, cap) == MinOf(BlkSize, cap - total)

write_size(x, cap) == MinOf(BlkSize, MinOf(x.left, cap - total))

(* One round of the loop, the first one on an event or for a deferred       *)
(* transfer.                                                                *)
transfer_file(t) ==
  /\ busy = t \/ busy = None
  /\ Moving(t)
  /\ \E cap \in pipe_capacity :
       LET n == write_size(xfer[t], cap) IN
       /\ capacity' = cap
       /\ \/ /\ n = 0
             /\ assert(FALSE) /\ busy' = t
             /\ UNCHANGED <<xfer, total, out, rlock, bare>>
          \/ /\ n > 0
             /\ \E res \in file_move(xfer[t], n) : Proceed(t, res, cap)
          \/ /\ n > 0 /\ "io" \in Troubles
             /\ Finish(t, "stopped")
             /\ UNCHANGED <<out, aborted>>
  /\ UNCHANGED <<platform, fileVars>>

(* A cancellation, a time-out or a hang-up: delete_registered_xfer. *)
delete_registered_xfer(t) ==
  /\ busy = None /\ Moving(t)
  /\ Finish(t, "stopped")
  /\ UNCHANGED <<platform, fileVars, capacity, out, aborted>>

Server ==
  \E t \in Xfer :
    \/ \E f \in File, cmd \in {"READ", "SEND"}, r \in Requests : Open(t, f, cmd, r)
    \/ add_xfer(t) \/ transfer_file(t) \/ delete_registered_xfer(t)

Next == ~aborted /\ (Writer \/ Server)

Spec == Init /\ [][Next]_vars
-----------------------------------------------------------------------------
(* Properties *)

(* Every variable has its type; in particular the buffer in user space      *)
(* never holds more than its capacity (wp in file_splice).                  *)
TypeOK ==
  /\ platform \in Platforms
  /\ size \in [File -> 0 .. MaxSize] /\ version \in [File -> 0 .. MaxWrites]
  /\ wlock \subseteq File /\ rlock \in [File -> SUBSET Pos]
  /\ busy \in Xfer \cup {None} /\ xfer \in [Xfer -> XferRec]
  /\ total \in 0 .. PipeCap /\ capacity \in {0, PipeCap}
  /\ out \in [Xfer -> Seq(Byte)] /\ bare \subseteq Xfer /\ aborted \in BOOLEAN

(* The sum offset + len does not wrap around in size_t. *)
Representable(x) == x.off + x.len < SizeMod

(* A transfer has read-locked the whole range it is going to read, from the *)
(* moment it is accepted until it ends, unless another descriptor of the    *)
(* same file has been closed meanwhile (lock_file, close in the process).   *)
RangeLocked ==
  \A t \in Xfer \ bare : Moving(t) /\ Representable(xfer[t]) /\ ~aborted =>
    xfer[t].off .. (xfer[t].off + XferBytes(xfer[t].off, xfer[t].len, xfer[t].fsize) - 1)
      \subseteq rlock[xfer[t].file]

(* "a read lock which prevents the file from being modified while it is     *)
(* being transferred": all bytes that a transfer has written come from one  *)
(* and the same state of its file, with the same exception.                 *)
OneVersion ==
  \A t \in Xfer \ bare : Representable(xfer[t]) =>
    \A i, j \in 1 .. Len(out[t]) : out[t][i].ver = out[t][j].ver

(* What a transfer writes are the bytes from the requested offset on, each  *)
(* of them once and in order, also when they pass through the buffer in     *)
(* user space.  FreeBSD's sendfile(2) is not told the offset.               *)
InOrder ==
  \A t \in Xfer : platform = "linux" \/ xfer[t].cmd = "READ" =>
    \A i \in 1 .. Len(out[t]) : out[t][i].pos = xfer[t].off + i - 1

(* "EOF could not have been seen by the read": on Linux the assertions of   *)
(* transfer_file fail only when there was nothing to transfer, when the sum *)
(* of the range check wrapped around, when the file has changed since       *)
(* fstat(2), or when the capacity of pipes could not be found out.          *)
AssertionsHold ==
  aborted /\ platform = "linux" =>
    LET x == xfer[busy]
    IN  capacity = 0 \/ x.left = 0 \/ ~Representable(x) \/ version[x.file] # x.seen

(* The abstract specification: a Linux server implements Stream.  Nothing   *)
(* is claimed of FreeBSD, where the mapped state stays the initial one.     *)
Claimed(t) == platform = "linux" /\ xfer[t].st \notin {"idle", "opened"}

Phase(t) == IF Claimed(t) THEN xfer[t].st ELSE "idle"
Asked(t) == IF Phase(t) \in {"moving", "complete", "stopped"}
            THEN [from |-> xfer[t].off,
                  want |-> XferBytes(xfer[t].off, xfer[t].len, xfer[t].fsize)]
            ELSE [from |-> -1, want |-> 0]

S == INSTANCE Stream WITH
       NoFrom <- -1,
       phase  <- [t \in Xfer |-> Phase(t)],
       from   <- [t \in Xfer |-> Asked(t).from],
       want   <- [t \in Xfer |-> Asked(t).want],
       got    <- [t \in Xfer |-> IF Claimed(t) THEN [i \in 1 .. Len(out[t]) |-> out[t][i].pos]
                                 ELSE <<>>]

(* Every step of a Linux server is one that Stream allows: the client gets  *)
(* the bytes of its range and no others, in order, and the transfer counts  *)
(* as complete exactly when all have been written.                          *)
ImplementsStream == S!Spec
=============================================================================
