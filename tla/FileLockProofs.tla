--------------------------- MODULE FileLockProofs ---------------------------
(***************************************************************************)
(* What the read locks of FileTransfer protect, for any number of          *)
(* transfers and files and for every range.                                *)
(***************************************************************************)
EXTENDS FileTransferProofs

-----------------------------------------------------------------------------
(* Ranges *)

(* A range that fcntl(2) accepts is never empty. *)
LEMMA LockNotEmpty ==
  ASSUME NEW off \in -(SizeMod \div 2) .. MaxOff, NEW len \in 0 .. SizeMod - 1, ~BadLock(off, len)
  PROVE  LockRange(off, len) # {}
<1> DEFINE n == signed(len)
<1>1. n \in Int /\ off \in Int /\ off <= MaxOff /\ MaxOff \in Nat
  BY Offsets DEF signed
<1>2. off >= 0 /\ off + n >= 0
  BY <1>1 DEF BadLock
<1>3. LockRange(off, len) =
        {p \in Pos : IF n < 0 THEN off + n <= p /\ p < off ELSE off <= p /\ (n = 0 \/ p < off + n)}
  BY DEF LockRange
<1> HIDE DEF n
<1>4. CASE n < 0
  <2>1. off + n \in Pos /\ off + n <= off + n /\ off + n < off
    BY <1>1, <1>2, <1>4 DEF Pos
  <2> QED BY <1>3, <1>4, <2>1
<1>5. CASE ~(n < 0)
  <2>1. off \in Pos /\ off <= off /\ (n = 0 \/ off < off + n)
    BY <1>1, <1>2, <1>5 DEF Pos
  <2> QED BY <1>3, <1>5, <2>1
<1> QED BY <1>4, <1>5

(* What add_xfer lets through lies in what it has locked, provided that the *)
(* sum of its check does not wrap around.                                   *)
LEMMA RangeCovered ==
  ASSUME NEW off \in -(SizeMod \div 2) .. MaxOff, NEW len \in 0 .. SizeMod - 1,
         NEW fsize \in 0 .. MaxSize,
         ~BadLock(off, len), RangeOK(off, len, fsize), off + len < SizeMod
  PROVE  off .. (off + XferBytes(off, len, fsize) - 1) \subseteq LockRange(off, len)
<1>1. /\ off \in Int /\ len \in Nat /\ fsize \in Nat /\ fsize <= MaxOff /\ MaxOff \in Nat
      /\ off <= MaxOff /\ SizeMod \in Nat \ {0} /\ MaxOff < SizeMod
  BY Offsets
<1>2. off >= 0
  BY <1>1 DEF BadLock
<1>3. (off + len) % SizeMod = off + len
  BY <1>1, <1>2, RemainderOfSmall
<1>4. off + len <= fsize
  BY <1>3 DEF RangeOK
<1>5. len <= MaxOff /\ signed(len) = len
  BY <1>1, <1>2, <1>4 DEF signed
<1>6. off + XferBytes(off, len, fsize) = IF len > 0 THEN off + len ELSE fsize
  <2>1. CASE len > 0
    BY <2>1 DEF XferBytes
  <2>2. CASE len = 0
    <3>1. fsize - off \in Int /\ 0 <= fsize - off /\ fsize - off < SizeMod
      BY <1>1, <1>2, <1>4, <2>2
    <3>2. (fsize - off) % SizeMod = fsize - off
      BY <1>1, <3>1, RemainderOfSmall
    <3>3. off + (fsize - off) = fsize
      BY <1>1
    <3> QED BY <2>2, <3>2, <3>3 DEF XferBytes
  <2> QED BY <1>1, <2>1, <2>2
<1>7. XferBytes(off, len, fsize) \in Int
  BY <1>1, Offsets, Sizes
<1> SUFFICES ASSUME NEW p \in off .. (off + XferBytes(off, len, fsize) - 1)
             PROVE  p \in LockRange(off, len)
  OBVIOUS
<1>8. p \in Int /\ off <= p /\ p < off + XferBytes(off, len, fsize)
  BY <1>1, <1>7
<1>9. p \in Pos /\ (len = 0 \/ p < off + len)
  BY <1>1, <1>2, <1>4, <1>6, <1>8 DEF Pos
<1> QED BY <1>1, <1>5, <1>8, <1>9 DEF LockRange
-----------------------------------------------------------------------------
(* The inductive invariant *)

(* A transfer that moves holds the lock it asked for. *)
Guarded(u) ==
  Moving(u) =>
    /\ ~BadLock(xfer[u].off, xfer[u].len)
    /\ RangeOK(xfer[u].off, xfer[u].len, xfer[u].fsize)
    /\ LockRange(xfer[u].off, xfer[u].len) \subseteq rlock[xfer[u].file]

Fresh(s, f) == \A i \in 1 .. Len(s) : s[i].ver = version[f]

(* What it has written and what it has buffered are of the present state of *)
(* the file, and stay of one state once it has ended.                       *)
Uniform(u) ==
  /\ \A i, j \in 1 .. Len(out[u]) : out[u][i].ver = out[u][j].ver
  /\ Moving(u) => Fresh(out[u], xfer[u].file) /\ Fresh(xfer[u].buf, xfer[u].file)

(* A writer's lock excludes every lock of the server.                       *)
LockInv ==
  /\ \A u \in Xfer \ bare : Guarded(u) /\ Uniform(u)
  /\ \A f \in wlock : rlock[f] = {}
  /\ \A u \in Xfer : xfer[u].st = "opened" => xfer[u].buf = <<>>

(* While a file is locked for writing no transfer of it relies on its lock. *)
LEMMA WriterExcluded ==
  ASSUME TypeInv, LockInv, NEW f \in wlock, NEW u \in Xfer \ bare, Moving(u)
  PROVE  xfer[u].file # f
<1>1. xfer[u] \in XferRec
  BY DEF TypeInv, TypeOK
<1>2. xfer[u].off \in -(SizeMod \div 2) .. MaxOff /\ xfer[u].len \in 0 .. SizeMod - 1
  BY <1>1 DEF XferRec
<1>3. LockRange(xfer[u].off, xfer[u].len) # {}
  BY <1>2, LockNotEmpty DEF LockInv, Guarded
<1>4. LockRange(xfer[u].off, xfer[u].len) \subseteq rlock[xfer[u].file] /\ rlock[f] = {}
  BY DEF LockInv, Guarded
<1> QED BY <1>3, <1>4

(* The other process keeps the invariant: it changes a file only if the     *)
(* server has no lock on it.                                                *)
LEMMA WriterKeepsLocks ==
  ASSUME TypeInv, LockInv, Writer
  PROVE  LockInv'
<1>1. PICK f \in File : TakeWriteLock(f) \/ Change(f) \/ DropWriteLock(f)
  BY DEF Writer
<1>2. UNCHANGED <<xfer, out, rlock, bare>>
  BY DEF Writer
<1>3. \A g \in wlock' : rlock'[g] = {}
  BY <1>1, <1>2 DEF LockInv, TakeWriteLock, Change, DropWriteLock
<1>4. ASSUME NEW u \in Xfer \ bare, Moving(u) PROVE version'[xfer[u].file] = version[xfer[u].file]
  <2>1. CASE Change(f)
    <3>1. xfer[u].file # f
      BY <1>4, <2>1, WriterExcluded DEF Change
    <3>2. xfer[u].file \in File /\ version \in [File -> 0 .. MaxWrites]
      BY <1>4 DEF TypeInv, TypeOK, Shape, Moving
    <3> QED BY <2>1, <3>1, <3>2 DEF Change
  <2> QED BY <1>1, <2>1 DEF TakeWriteLock, DropWriteLock
<1>5. ASSUME NEW u \in Xfer \ bare PROVE Guarded(u)' /\ Uniform(u)'
  <2>1. Guarded(u) /\ Uniform(u) /\ Moving(u)' = Moving(u)
    BY <1>2 DEF LockInv, Moving
  <2>2. Guarded(u)'
    BY <1>2, <2>1 DEF Guarded, Moving
  <2>3. Uniform(u)'
    BY <1>2, <1>4, <2>1 DEF Uniform, Moving, Fresh
  <2> QED BY <2>2, <2>3
<1> QED BY <1>2, <1>3, <1>5 DEF LockInv

(* A step of transfer t leaves the others theirs, except those whose file   *)
(* it closes.                                                               *)
LEMMA OthersKeep ==
  ASSUME TypeInv, LockInv, NEW t \in Xfer, NEW x, xfer' = [xfer EXCEPT ![t] = x],
         \A u \in Xfer \ {t} : out'[u] = out[u], UNCHANGED fileVars,
         \/ \E f : CloseFile(t, f)
         \/ UNCHANGED <<rlock, bare>>
         \/ UNCHANGED bare /\ lock_file(xfer[t]),
         x.st = "opened" => x.buf = <<>>,
         t \notin bare' => Guarded(t)' /\ Uniform(t)'
  PROVE  LockInv'
<1>1. xfer \in [Xfer -> XferRec] /\ rlock \in [File -> SUBSET Pos]
  BY DEF TypeInv, TypeOK
<1>2. ASSUME NEW g \in wlock' PROVE rlock'[g] = {}
  <2>1. g \in wlock /\ rlock[g] = {} /\ g \in File
    BY DEF LockInv, TypeInv, TypeOK, fileVars
  <2>2. CASE \E f : CloseFile(t, f)
    BY <1>1, <2>1, <2>2 DEF CloseFile
  <2>3. CASE lock_file(xfer[t])
    BY <1>1, <2>1, <2>3 DEF lock_file
  <2> QED BY <2>1, <2>2, <2>3
<1>3. \A u \in Xfer : xfer'[u].st = "opened" => xfer'[u].buf = <<>>
  BY <1>1 DEF LockInv
<1>4. ASSUME NEW u \in Xfer \ {t}, u \notin bare' PROVE Guarded(u)' /\ Uniform(u)'
  <2>1. xfer'[u] = xfer[u] /\ out'[u] = out[u] /\ version' = version /\ u \notin bare
    BY <1>1, <1>4 DEF fileVars, CloseFile
  <2>2. Guarded(u) /\ Uniform(u) /\ Moving(u)' = Moving(u)
    BY <2>1 DEF LockInv, Moving
  <2>3. ASSUME Moving(u) PROVE rlock[xfer[u].file] \subseteq rlock'[xfer[u].file]
    <3>1. xfer[u].file \in File
      BY <2>3 DEF TypeInv, Shape, Moving
    <3>2. CASE \E f : CloseFile(t, f)
      BY <1>1, <1>4, <2>3, <3>1, <3>2 DEF CloseFile
    <3>3. CASE lock_file(xfer[t])
      BY <1>1, <3>1, <3>3 DEF lock_file
    <3> QED BY <3>2, <3>3
  <2>4. Guarded(u)'
    BY <2>1, <2>2, <2>3 DEF Guarded, Moving
  <2>5. Uniform(u)'
    BY <2>1, <2>2 DEF Uniform, Moving, Fresh
  <2> QED BY <2>4, <2>5
<1> QED BY <1>2, <1>3, <1>4 DEF LockInv

(* open(2) and stat_file keep the invariant; if they fail, closing the file *)
(* makes its other transfers bare.                                          *)
LEMMA OpenKeepsLocks ==
  ASSUME TypeInv, LockInv, NEW t \in Xfer, NEW f \in File, NEW cmd \in {"READ", "SEND"},
         NEW r \in Requests, Open(t, f, cmd, r)
  PROVE  LockInv'
<1> DEFINE x == [NoXfer EXCEPT !.file = f, !.cmd = cmd, !.off = r[1], !.len = r[2]]
           opened == [x EXCEPT !.st = "opened", !.fsize = size[f], !.seen = version[f]]
           refused == [x EXCEPT !.st = "refused"]
<1>1. PICK y \in {opened, refused} : xfer' = [xfer EXCEPT ![t] = y]
  BY DEF Open
<1>2. y.st \in {"opened", "refused"} /\ y.buf = <<>>
  BY DEF NoXfer
<1> HIDE DEF opened, refused
<1>3. /\ UNCHANGED <<fileVars, out>> /\ out[t] = <<>>
      /\ (\E g : CloseFile(t, g)) \/ UNCHANGED <<rlock, bare>>
  BY DEF Open, TypeInv, Shape
<1>4. Guarded(t)' /\ Uniform(t)'
  <2>1. xfer'[t] = y
    BY <1>1 DEF TypeInv, TypeOK
  <2>2. ~Moving(t)'
    BY <1>2, <2>1 DEF Moving
  <2> QED BY <1>3, <2>2, EmptySeq DEF Guarded, Uniform
<1> QED BY <1>1, <1>2, <1>3, <1>4, OthersKeep

(* add_xfer keeps the invariant: the new transfer has its lock before it    *)
(* moves.                                                                   *)
LEMMA AddXferKeepsLocks ==
  ASSUME TypeInv, LockInv, NEW t \in Xfer, add_xfer(t)
  PROVE  LockInv'
<1> DEFINE x == xfer[t]
<1>1. x \in XferRec /\ x.st = "opened" /\ x.buf = <<>> /\ out[t] = <<>> /\ x.file \in File
  BY DEF TypeInv, TypeOK, Shape, LockInv, add_xfer
<1>2. UNCHANGED <<fileVars, out>> /\ rlock \in [File -> SUBSET Pos] /\ xfer \in [Xfer -> XferRec]
  BY DEF add_xfer, TypeInv, TypeOK
<1>3. CASE CloseFile(t, x.file) /\ xfer' = [xfer EXCEPT ![t] = [x EXCEPT !.st = "refused"]]
  <2> DEFINE y == [x EXCEPT !.st = "refused"]
  <2>1. y.st = "refused"
    BY <1>1 DEF XferRec
  <2>2. xfer' = [xfer EXCEPT ![t] = y]
    BY <1>3
  <2> HIDE DEF y
  <2>3. ~Moving(t)'
    BY <1>2, <2>1, <2>2 DEF Moving
  <2>4. Guarded(t)' /\ Uniform(t)'
    BY <1>1, <1>2, <2>3, EmptySeq DEF Guarded, Uniform
  <2> QED BY <1>2, <1>3, <2>1, <2>2, <2>4, OthersKeep
<1>4. CASE /\ ~BadLock(x.off, x.len) /\ RangeOK(x.off, x.len, x.fsize) /\ lock_file(x)
           /\ UNCHANGED bare /\ xfer' = [xfer EXCEPT ![t] = Accepted(x)]
  <2>1. /\ Accepted(x).st = "moving" /\ Accepted(x).buf = <<>> /\ Accepted(x).off = x.off
        /\ Accepted(x).len = x.len /\ Accepted(x).fsize = x.fsize /\ Accepted(x).file = x.file
    BY <1>1 DEF XferRec, Accepted
  <2>2. xfer'[t] = Accepted(x)
    BY <1>2, <1>4
  <2>3. LockRange(x.off, x.len) \subseteq rlock'[x.file]
    BY <1>1, <1>2, <1>4 DEF lock_file
  <2>4. Guarded(t)'
    BY <1>4, <2>1, <2>2, <2>3 DEF Guarded
  <2>5. Uniform(t)'
    BY <1>1, <1>2, <2>1, <2>2, EmptySeq DEF Uniform, Fresh
  <2> QED BY <1>2, <1>4, <2>1, <2>4, <2>5, OthersKeep
<1> QED BY <1>3, <1>4, AddXferCases

(* A transfer ends; what it wrote last is of one state with the rest. *)
LEMMA FinishKeepsLocks ==
  ASSUME TypeInv, LockInv, NEW t \in Xfer, NEW how \in {"complete", "stopped"}, Finish(t, how),
         UNCHANGED fileVars, \A u \in Xfer \ {t} : out'[u] = out[u],
         t \notin bare => \A i, j \in 1 .. Len(out'[t]) : out'[t][i].ver = out'[t][j].ver
  PROVE  LockInv'
<1>1. xfer[t] \in XferRec /\ xfer \in [Xfer -> XferRec]
  BY DEF TypeInv, TypeOK
<1>2. xfer' = [xfer EXCEPT ![t] = Ended(xfer[t], how)]
  BY FinishEnds
<1>3. Ended(xfer[t], how).st = how
  BY <1>1, EndedType
<1>4. ~Moving(t)' /\ CloseFile(t, xfer[t].file)
  BY <1>1, <1>2, <1>3 DEF Moving, Finish
<1>5. t \notin bare' => Guarded(t)' /\ Uniform(t)'
  BY <1>4 DEF Guarded, Uniform, CloseFile
<1> QED BY <1>2, <1>3, <1>4, <1>5, OthersKeep

(* Two sequences of bytes of the file's present state make one. *)
LEMMA FreshConcat ==
  ASSUME NEW s \in Seq(Byte), NEW b \in Seq(Byte), NEW f, Fresh(s, f), Fresh(b, f)
  PROVE  Fresh(s \o b, f) /\ Len(s \o b) = Len(s) + Len(b)
<1>1. /\ Len(s) \in Nat /\ Len(b) \in Nat /\ Len(s \o b) = Len(s) + Len(b)
      /\ \A i \in 1 .. Len(s) + Len(b) :
           (s \o b)[i] = IF i <= Len(s) THEN s[i] ELSE b[i - Len(s)]
  BY LenProperties, ConcatProperties
<1>2. ASSUME NEW i \in 1 .. Len(s) + Len(b) PROVE (s \o b)[i].ver = version[f]
  <2>1. CASE i <= Len(s)
    <3>1. i \in 1 .. Len(s) /\ (s \o b)[i] = s[i]
      BY <1>1, <2>1
    <3> QED BY <3>1 DEF Fresh
  <2>2. CASE ~(i <= Len(s))
    <3>1. i - Len(s) \in 1 .. Len(b)
      BY <1>1, <2>2
    <3>2. (s \o b)[i] = b[i - Len(s)]
      BY <1>1, <2>2
    <3> QED BY <3>1, <3>2 DEF Fresh
  <2> QED BY <2>1, <2>2
<1> QED BY <1>1, <1>2 DEF Fresh

(* What one call writes, and leaves in the buffer, is of the present state  *)
(* of the file if what was in the buffer was.                               *)
LEMMA MoveFresh ==
  ASSUME NEW x, NEW nbytes, AtWork(x, nbytes), NEW res \in file_move(x, nbytes),
         Len(x.buf) <= x.wp, Fresh(x.buf, x.file)
  PROVE  Fresh(res.sent, x.file) /\ Fresh(res.buf, x.file)
<1>1. CASE res \in linux_splice(x, nbytes)
  <2>1. /\ res.buf = x.buf
        /\ \A i \in 1 .. Len(res.sent) :
             res.sent[i] = [pos |-> x.pos + i - 1, ver |-> version[x.file]]
    BY <1>1, LinuxMoves
  <2>2. ASSUME NEW i \in 1 .. Len(res.sent) PROVE res.sent[i].ver = version[x.file]
    <3>1. res.sent[i] = [pos |-> x.pos + i - 1, ver |-> version[x.file]]
      BY <2>1
    <3> QED BY ONLY <3>1
  <2> QED BY <2>1, <2>2 DEF Fresh
<1>2. CASE res \in freebsd_sendfile(x, nbytes)
  BY <1>2, FreeBSDSends DEF Fresh
<1>3. CASE res \in userspace_splice(x, nbytes)
  <2> DEFINE all(n) == x.buf \o Bytes(x.file, x.pos, n)
  <2>1. PICK n \in Nat :
          /\ x.pos + n <= MaxSize \/ n = 0
          /\ Len(res.sent) + Len(res.buf) = Len(x.buf) + n
          /\ \A i \in 1 .. Len(res.sent) : res.sent[i] = all(n)[i]
          /\ \A i \in 1 .. Len(res.buf) : res.buf[i] = all(n)[Len(res.sent) + i]
    <3>1. Buffered(x, res)
      BY <1>3, UserspaceMoves
    <3> QED BY <3>1, Zenon DEF Buffered
  <2>2. /\ Bytes(x.file, x.pos, n) \in Seq(Byte) /\ Len(Bytes(x.file, x.pos, n)) = n
        /\ \A i \in 1 .. n : Bytes(x.file, x.pos, n)[i] = [pos |-> x.pos + i - 1, ver |-> version[x.file]]
    BY <2>1, ReadBytes
  <2>3. x.buf \in Seq(Byte) /\ res.sent \in Seq(Byte) /\ res.buf \in Seq(Byte)
    BY <1>3, UserspaceMoves DEF AtWork, XferRec, ResultOK
  <2>4. Fresh(Bytes(x.file, x.pos, n), x.file)
    <3> SUFFICES ASSUME NEW i \in 1 .. n PROVE Bytes(x.file, x.pos, n)[i].ver = version[x.file]
      BY <2>2 DEF Fresh
    <3>1. Bytes(x.file, x.pos, n)[i] = [pos |-> x.pos + i - 1, ver |-> version[x.file]]
      BY <2>2
    <3> QED BY ONLY <3>1
  <2> DEFINE whole == all(n)
             p == Len(res.sent)
             q == Len(res.buf)
  <2>5. Fresh(whole, x.file) /\ Len(whole) = p + q /\ p \in Nat /\ q \in Nat
    <3>1. Fresh(whole, x.file) /\ Len(whole) = Len(x.buf) + Len(Bytes(x.file, x.pos, n))
      BY <2>2, <2>3, <2>4, FreshConcat
    <3> QED BY <2>1, <2>2, <2>3, <3>1, LenProperties
  <2>6. \A i \in 1 .. p : res.sent[i] = whole[i]
    BY <2>1
  <2>7. \A i \in 1 .. q : res.buf[i] = whole[p + i]
    BY <2>1
  <2> HIDE DEF whole, p, q
  <2>8. \A i \in 1 .. p : i \in 1 .. Len(whole)
    BY <2>5
  <2>9. \A i \in 1 .. q : p + i \in 1 .. Len(whole)
    BY <2>5
  <2>10. Fresh(res.sent, x.file)
    BY <2>5, <2>6, <2>8 DEF Fresh, p
  <2>11. Fresh(res.buf, x.file)
    BY <2>5, <2>7, <2>9 DEF Fresh, q
  <2> QED BY <2>10, <2>11
<1> QED BY <1>1, <1>2, <1>3 DEF file_move

(* A round of the loop of transfer_file keeps the invariant. *)
LEMMA TransferKeepsLocks ==
  ASSUME TypeInv, LockInv, NEW t \in Xfer, transfer_file(t)
  PROVE  LockInv'
<1> DEFINE x == xfer[t]
<1>1. /\ Moving(t) /\ UNCHANGED fileVars /\ x \in XferRec /\ x.file \in File /\ x.st = "moving"
      /\ xfer \in [Xfer -> XferRec] /\ out \in [Xfer -> Seq(Byte)] /\ out[t] \in Seq(Byte)
      /\ version' = version
  <2>1. Moving(t) /\ UNCHANGED fileVars
    BY DEF transfer_file
  <2> QED BY <2>1 DEF TypeInv, TypeOK, Shape, Moving, fileVars
<1>2. CASE UNCHANGED <<xfer, out, rlock, bare>>
  <2>1. UNCHANGED <<xfer, out, rlock, bare, version, wlock>>
    BY <1>1, <1>2 DEF fileVars
  <2>2. \A u \in Xfer \ bare : Guarded(u) => Guarded(u)'
    BY <2>1 DEF Guarded, Moving
  <2>3. \A u \in Xfer \ bare : Uniform(u) => Uniform(u)'
    BY <2>1 DEF Uniform, Fresh, Moving
  <2> QED BY <2>1, <2>2, <2>3 DEF LockInv
<1>3. CASE Finish(t, "stopped") /\ UNCHANGED out
  <2>1. t \notin bare => \A i, j \in 1 .. Len(out[t]) : out[t][i].ver = out[t][j].ver
    BY DEF LockInv, Uniform
  <2> QED BY <1>1, <1>3, <2>1, FinishKeepsLocks
<1>4. ASSUME NEW n \in Nat \ {0}, NEW res \in file_move(x, n), ResultOK(res),
             out' = [out EXCEPT ![t] = out[t] \o res.sent],
             \/ Finish(t, "complete")
             \/ /\ xfer' = [xfer EXCEPT ![t] = Moved(x, res)]
                /\ UNCHANGED <<rlock, bare>>
      PROVE  LockInv'
  <2>1. AtWork(x, n) /\ Len(x.buf) <= x.wp
    BY <1>1, AtWorkNow
  <2>2. out'[t] = out[t] \o res.sent /\ \A u \in Xfer \ {t} : out'[u] = out[u]
    BY <1>1, <1>4
  <2>3. t \notin bare => Fresh(out'[t], x.file) /\ Fresh(res.buf, x.file)
    <3> SUFFICES ASSUME t \notin bare PROVE Fresh(out'[t], x.file) /\ Fresh(res.buf, x.file)
      OBVIOUS
    <3>1. Fresh(out[t], x.file) /\ Fresh(x.buf, x.file)
      BY <1>1 DEF LockInv, Uniform
    <3>2. Fresh(res.sent, x.file) /\ Fresh(res.buf, x.file)
      BY <1>4, <2>1, <3>1, MoveFresh
    <3>3. res.sent \in Seq(Byte)
      BY <1>4 DEF ResultOK
    <3> QED BY <1>1, <2>2, <3>1, <3>2, <3>3, FreshConcat
  <2>4. t \notin bare => \A i, j \in 1 .. Len(out'[t]) : out'[t][i].ver = out'[t][j].ver
    BY <2>3 DEF Fresh
  <2>5. CASE Finish(t, "complete")
    BY <1>1, <2>2, <2>4, <2>5, FinishKeepsLocks
  <2>6. CASE xfer' = [xfer EXCEPT ![t] = Moved(x, res)] /\ UNCHANGED <<rlock, bare>>
    <3>1. /\ Moved(x, res).st = "moving" /\ Moved(x, res).buf = res.buf /\ Moved(x, res).off = x.off
          /\ Moved(x, res).len = x.len /\ Moved(x, res).fsize = x.fsize
          /\ Moved(x, res).file = x.file
      BY <1>1, <1>4, MovedType, ZenonT(60)
    <3>2. xfer'[t] = Moved(x, res)
      BY <1>1, <2>6
    <3>3. t \notin bare' => Guarded(t)'
      BY <1>1, <2>6, <3>1, <3>2 DEF LockInv, Guarded, Moving
    <3>4. t \notin bare' => Uniform(t)'
      <4>1. t \notin bare => Fresh(out[t], x.file)' /\ Fresh(xfer[t].buf, x.file)'
        BY <1>1, <2>3, <3>1, <3>2 DEF Fresh
      <4> QED BY <2>4, <2>6, <3>1, <3>2, <4>1 DEF Uniform, Fresh
    <3> QED BY <1>1, <2>2, <2>6, <3>1, <3>3, <3>4, OthersKeep
  <2> QED BY <1>4, <2>5, <2>6
<1> QED BY <1>2, <1>3, <1>4, TransferCases

(* The invariant about locks and file states holds in every reachable       *)
(* state.                                                                   *)
LEMMA LockInvariant == Spec => [](TypeInv /\ LockInv)
<1>1. Init => TypeInv /\ LockInv
  <2> SUFFICES ASSUME Init PROVE LockInv
    BY TypeInit
  <2>1. \A u \in Xfer : xfer[u].st = "idle" /\ out[u] = <<>>
    BY DEF Init, NoXfer
  <2> QED BY <2>1, EmptySeq DEF LockInv, Guarded, Uniform, Moving, Init
<1>2. TypeInv /\ LockInv /\ [Next]_vars => TypeInv' /\ LockInv'
  <2> SUFFICES ASSUME TypeInv, LockInv, [Next]_vars PROVE LockInv'
    BY TypeStep
  <2>1. CASE UNCHANGED vars
    <3>1. UNCHANGED <<xfer, rlock, bare, wlock, version, out>>
      BY <2>1 DEF vars, fileVars
    <3>2. \A u \in Xfer : Guarded(u) => Guarded(u)'
      BY <3>1 DEF Guarded, Moving
    <3>3. \A u \in Xfer : Uniform(u) => Uniform(u)'
      BY <3>1 DEF Uniform, Fresh, Moving
    <3> QED BY <3>1, <3>2, <3>3 DEF LockInv
  <2>2. CASE Writer
    BY <2>2, WriterKeepsLocks
  <2>3. ASSUME NEW t \in Xfer, NEW f \in File, NEW cmd \in {"READ", "SEND"}, NEW r \in Requests,
               Open(t, f, cmd, r)
        PROVE  LockInv'
    BY <2>3, OpenKeepsLocks
  <2>4. ASSUME NEW t \in Xfer, delete_registered_xfer(t) PROVE LockInv'
    <3>1. /\ Finish(t, "stopped") /\ UNCHANGED fileVars /\ UNCHANGED out
          /\ t \notin bare => \A i, j \in 1 .. Len(out[t]) : out[t][i].ver = out[t][j].ver
      BY <2>4 DEF delete_registered_xfer, LockInv, Uniform
    <3> QED BY <3>1, FinishKeepsLocks
  <2> QED BY <2>1, <2>2, <2>3, <2>4, AddXferKeepsLocks, TransferKeepsLocks DEF Next, Server
<1> QED BY <1>1, <1>2, PTL DEF Spec

(* The locks of add_xfer: for every range that can be represented, what a   *)
(* transfer is going to read stays locked while it moves, unless a close    *)
(* in the same process has dropped the lock.                                *)
THEOREM RangesStayLocked == Spec => []RangeLocked
<1>1. TypeInv /\ LockInv => RangeLocked
  <2> SUFFICES ASSUME TypeInv, LockInv, NEW t \in Xfer \ bare, Moving(t), Representable(xfer[t])
               PROVE  xfer[t].off .. (xfer[t].off + XferBytes(xfer[t].off, xfer[t].len, xfer[t].fsize) - 1)
                        \subseteq rlock[xfer[t].file]
    BY DEF RangeLocked
  <2> DEFINE x == xfer[t]
  <2>1. /\ x.off \in -(SizeMod \div 2) .. MaxOff /\ x.len \in 0 .. SizeMod - 1
        /\ x.fsize \in 0 .. MaxSize
    BY DEF TypeInv, TypeOK, XferRec
  <2>2. /\ ~BadLock(x.off, x.len) /\ RangeOK(x.off, x.len, x.fsize)
        /\ LockRange(x.off, x.len) \subseteq rlock[x.file]
    BY DEF LockInv, Guarded
  <2>3. x.off + x.len < SizeMod
    BY DEF Representable
  <2>4. x.off .. (x.off + XferBytes(x.off, x.len, x.fsize) - 1) \subseteq LockRange(x.off, x.len)
    BY <2>1, <2>2, <2>3, RangeCovered
  <2> QED BY <2>2, <2>4
<1> QED BY <1>1, LockInvariant, PTL

(* The promise of the read lock: however the other process interleaves its  *)
(* changes with the rounds of transfer_file, the bytes that a transfer      *)
(* writes are those of one state of its file, with the same exception.      *)
THEOREM TransfersOneVersion == Spec => []OneVersion
<1>1. LockInv => OneVersion
  BY DEF LockInv, Uniform, OneVersion
<1> QED BY <1>1, LockInvariant, PTL
=============================================================================
