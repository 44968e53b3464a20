---------------------------- MODULE StreamProofs ----------------------------
(***************************************************************************)
(* The bytes of FileTransfer arrive in order, and on Linux it implements   *)
(* Stream, for any number of transfers and files and for every range.      *)
(***************************************************************************)
EXTENDS FileLockProofs

-----------------------------------------------------------------------------
(* Positions *)

(* Sums of file positions may be taken in any order. *)
LEMMA Sums ==
  ASSUME NEW a \in Int, NEW b \in Int, NEW c \in Int
  PROVE  a + b + c = a + (b + c) /\ a + (b + c) = (a + c) + b
OBVIOUS

(* The bytes of s are those from position p on. *)
At(s, p) == \A i \in 1 .. Len(s) : s[i].pos = p + i - 1

(* Bytes from position p on and those that follow them are bytes from p on: *)
(* what transfer_file appends.                                              *)
LEMMA AtConcat ==
  ASSUME NEW s \in Seq(Byte), NEW b \in Seq(Byte), NEW p \in Int, At(s, p), At(b, p + Len(s))
  PROVE  At(s \o b, p) /\ Len(s \o b) = Len(s) + Len(b)
<1>1. /\ Len(s) \in Nat /\ Len(b) \in Nat /\ Len(s \o b) = Len(s) + Len(b)
      /\ \A i \in 1 .. Len(s) + Len(b) :
           (s \o b)[i] = IF i <= Len(s) THEN s[i] ELSE b[i - Len(s)]
  BY LenProperties, ConcatProperties
<1>2. ASSUME NEW i \in 1 .. Len(s) + Len(b) PROVE (s \o b)[i].pos = p + i - 1
  <2>1. CASE i <= Len(s)
    <3>1. i \in 1 .. Len(s) /\ (s \o b)[i] = s[i]
      BY <1>1, <2>1
    <3> QED BY <3>1 DEF At
  <2>2. CASE ~(i <= Len(s))
    <3>1. i - Len(s) \in 1 .. Len(b)
      BY <1>1, <2>2
    <3>2. (s \o b)[i] = b[i - Len(s)]
      BY <1>1, <2>2
    <3>3. b[i - Len(s)].pos = p + Len(s) + (i - Len(s)) - 1
      BY <3>1 DEF At
    <3>4. p + Len(s) + (i - Len(s)) - 1 = p + i - 1
      BY <1>1
    <3> QED BY <3>2, <3>3, <3>4
  <2> QED BY <2>1, <2>2
<1> QED BY <1>1, <1>2 DEF At

(* No bytes are bytes from any position on. *)
LEMMA EmptyAt == ASSUME NEW p PROVE At(<<>>, p) /\ Len(<<>>) = 0
BY EmptySeq DEF At

(* The file offset is behind what has been read, and what has been read     *)
(* follows on what has been written (p bytes into the file).                *)
Aligned(x, p) == At(x.buf, p) /\ x.pos = p + Len(x.buf)

(* On Linux one call writes the next bytes of the file. *)
LEMMA LinuxAligned ==
  ASSUME NEW x, NEW nbytes, AtWork(x, nbytes), NEW res \in linux_splice(x, nbytes),
         NEW p \in Int, Aligned(x, p), x.buf = <<>>
  PROVE  At(res.sent, p) /\ Aligned(res, p + Len(res.sent)) /\ res.buf = <<>>
<1>1. /\ ResultOK(res) /\ res.buf = x.buf /\ res.pos = x.pos + Len(res.sent)
      /\ \A i \in 1 .. Len(res.sent) :
           res.sent[i] = [pos |-> x.pos + i - 1, ver |-> version[x.file]]
  BY LinuxMoves
<1>2. x.pos = p
  <2>1. x.pos = p + 0
    BY EmptySeq DEF Aligned
  <2> QED BY <2>1
<1>3. Len(res.sent) \in Nat
  BY <1>1, LenProperties DEF ResultOK
<1>4. At(res.sent, p)
  <2> SUFFICES ASSUME NEW i \in 1 .. Len(res.sent) PROVE res.sent[i].pos = p + i - 1
    BY DEF At
  <2>1. res.sent[i] = [pos |-> p + i - 1, ver |-> version[x.file]]
    BY <1>1, <1>2
  <2> QED BY ONLY <2>1
<1>5. res.pos = p + Len(res.sent) + 0
  BY <1>1, <1>2, <1>3
<1> QED BY <1>1, <1>4, <1>5, EmptyAt DEF Aligned

(* So does the buffer in user space, whatever part of it is written. *)
LEMMA UserspaceAligned ==
  ASSUME NEW x, NEW nbytes, AtWork(x, nbytes), NEW res \in userspace_splice(x, nbytes),
         Len(x.buf) <= x.wp, NEW p \in Int, Aligned(x, p)
  PROVE  At(res.sent, p) /\ Aligned(res, p + Len(res.sent))
<1> DEFINE all(n) == x.buf \o Bytes(x.file, x.pos, n)
<1>1. PICK n \in Nat :
        /\ x.pos + n <= MaxSize \/ n = 0
        /\ res.pos = x.pos + n
        /\ Len(res.sent) + Len(res.buf) = Len(x.buf) + n
        /\ \A i \in 1 .. Len(res.sent) : res.sent[i] = all(n)[i]
        /\ \A i \in 1 .. Len(res.buf) : res.buf[i] = all(n)[Len(res.sent) + i]
  <2>1. Buffered(x, res)
    BY UserspaceMoves
  <2> QED BY <2>1, Zenon DEF Buffered
<1>2. /\ Bytes(x.file, x.pos, n) \in Seq(Byte) /\ Len(Bytes(x.file, x.pos, n)) = n
      /\ \A i \in 1 .. n : Bytes(x.file, x.pos, n)[i] = [pos |-> x.pos + i - 1, ver |-> version[x.file]]
  BY <1>1, ReadBytes
<1>3. x.buf \in Seq(Byte) /\ res.sent \in Seq(Byte) /\ res.buf \in Seq(Byte)
  BY UserspaceMoves DEF AtWork, XferRec, ResultOK
<1>4. At(Bytes(x.file, x.pos, n), p + Len(x.buf))
  <2> SUFFICES ASSUME NEW i \in 1 .. n PROVE Bytes(x.file, x.pos, n)[i].pos = p + Len(x.buf) + i - 1
    BY <1>2 DEF At
  <2>1. Bytes(x.file, x.pos, n)[i] = [pos |-> x.pos + i - 1, ver |-> version[x.file]]
    BY <1>2
  <2>2. x.pos = p + Len(x.buf)
    BY DEF Aligned
  <2> QED BY ONLY <2>1, <2>2
<1> DEFINE whole == all(n)
           k == Len(res.sent)
           q == Len(res.buf)
           m == Len(x.buf)
<1>5. At(whole, p) /\ Len(whole) = m + Len(Bytes(x.file, x.pos, n))
  BY <1>2, <1>3, <1>4, AtConcat DEF Aligned
<1>6. k \in Nat /\ q \in Nat /\ m \in Nat /\ k + q = m + n /\ Len(whole) = k + q
  BY <1>1, <1>2, <1>3, <1>5, LenProperties
<1>7. \A i \in 1 .. k : res.sent[i] = whole[i]
  BY <1>1
<1>8. \A i \in 1 .. q : res.buf[i] = whole[k + i]
  BY <1>1
<1>9. res.pos = p + m + n
  BY <1>1 DEF Aligned
<1> HIDE DEF whole, k, q, m
<1>10. At(res.sent, p)
  <2>1. \A i \in 1 .. k : i \in 1 .. Len(whole)
    BY <1>6
  <2> QED BY <1>5, <1>7, <2>1 DEF At, k
<1>11. At(res.buf, p + k)
  <2> SUFFICES ASSUME NEW i \in 1 .. q PROVE res.buf[i].pos = p + k + i - 1
    BY DEF At, q
  <2>1. k + i \in 1 .. Len(whole)
    BY <1>6
  <2>2. whole[k + i].pos = p + (k + i) - 1
    BY <1>5, <2>1 DEF At
  <2>3. p + (k + i) - 1 = p + k + i - 1
    BY <1>6
  <2> QED BY <1>8, <2>2, <2>3
<1>12. res.pos = p + k + q
  BY <1>6, <1>9
<1> QED BY <1>10, <1>11, <1>12 DEF Aligned, k, q
-----------------------------------------------------------------------------
(* The inductive invariant *)

Ordered(t) ==
  platform = "linux" \/ xfer[t].cmd = "READ" =>
    /\ At(out[t], xfer[t].off)
    /\ Moving(t) => Aligned(xfer[t], xfer[t].off + Len(out[t]))

(* What nbytes_left counts; the buffer is not used on Linux. *)
Counted(t) ==
  platform = "linux" =>
    /\ xfer[t].buf = <<>>
    /\ Moving(t) => xfer[t].left + Len(out[t])
                      = XferBytes(xfer[t].off, xfer[t].len, xfer[t].fsize)

OrderInv == \A t \in Xfer : Ordered(t) /\ Counted(t)

(* A step of one transfer keeps the invariant for the others. *)
LEMMA OthersOrdered ==
  ASSUME TypeInv, OrderInv, NEW t \in Xfer, NEW x, xfer' = [xfer EXCEPT ![t] = x],
         \A u \in Xfer \ {t} : out'[u] = out[u], UNCHANGED platform,
         Ordered(t)' /\ Counted(t)'
  PROVE  OrderInv'
<1> SUFFICES ASSUME NEW u \in Xfer \ {t} PROVE Ordered(u)' /\ Counted(u)'
  BY DEF OrderInv
<1>1. xfer'[u] = xfer[u] /\ out'[u] = out[u] /\ platform' = platform
  BY DEF TypeInv, TypeOK
<1>2. Ordered(u) /\ Counted(u)
  BY DEF OrderInv
<1> QED BY <1>1, <1>2 DEF Ordered, Counted, Moving, At, Aligned

(* open(2) and stat_file keep the invariant. *)
LEMMA OpenOrdered ==
  ASSUME TypeInv, OrderInv, NEW t \in Xfer, NEW f \in File, NEW cmd \in {"READ", "SEND"},
         NEW r \in Requests, Open(t, f, cmd, r)
  PROVE  OrderInv'
<1> DEFINE x == [NoXfer EXCEPT !.file = f, !.cmd = cmd, !.off = r[1], !.len = r[2]]
           opened == [x EXCEPT !.st = "opened", !.fsize = size[f], !.seen = version[f]]
           refused == [x EXCEPT !.st = "refused"]
<1>1. PICK y \in {opened, refused} : xfer' = [xfer EXCEPT ![t] = y]
  BY DEF Open
<1>2. y.st \in {"opened", "refused"} /\ y.buf = <<>>
  BY DEF NoXfer
<1> HIDE DEF opened, refused
<1>3. out' = out /\ out[t] = <<>> /\ platform' = platform /\ xfer'[t] = y
  BY <1>1 DEF Open, TypeInv, TypeOK, Shape
<1>4. ~Moving(t)' /\ xfer'[t].buf = <<>>
  BY <1>2, <1>3 DEF Moving
<1>5. Counted(t)'
  BY <1>4 DEF Counted
<1>6. Ordered(t)'
  <2>1. At(out'[t], xfer'[t].off)
    BY <1>3, EmptyAt
  <2>2. At(out[t], xfer[t].off)'
    BY <2>1 DEF At
  <2> QED BY <1>4, <2>2 DEF Ordered
<1> QED BY <1>1, <1>3, <1>5, <1>6, OthersOrdered

(* add_xfer keeps the invariant: it sets the file offset and the number of  *)
(* bytes to the range asked for.                                            *)
LEMMA AddXferOrdered ==
  ASSUME TypeInv, LockInv, OrderInv, NEW t \in Xfer, add_xfer(t)
  PROVE  OrderInv'
<1> DEFINE x == xfer[t]
<1>1. x \in XferRec /\ x.st = "opened" /\ x.buf = <<>> /\ out[t] = <<>>
  BY DEF TypeInv, TypeOK, Shape, LockInv, add_xfer
<1>2. UNCHANGED <<platform, out>> /\ xfer \in [Xfer -> XferRec]
  BY DEF add_xfer, TypeInv, TypeOK
<1>3. At(out'[t], xfer'[t].off) /\ Len(out'[t]) = 0
  BY <1>1, <1>2, EmptyAt
<1>4. At(out[t], xfer[t].off)'
  BY <1>3 DEF At
<1>5. CASE xfer' = [xfer EXCEPT ![t] = [x EXCEPT !.st = "refused"]]
  <2> DEFINE y == [x EXCEPT !.st = "refused"]
  <2>1. y.st = "refused" /\ y.buf = <<>>
    BY <1>1 DEF XferRec
  <2>2. xfer' = [xfer EXCEPT ![t] = y] /\ xfer'[t] = y
    BY <1>2, <1>5
  <2> HIDE DEF y
  <2>3. ~Moving(t)' /\ xfer'[t].buf = <<>>
    BY <2>1, <2>2 DEF Moving
  <2>4. Ordered(t)' /\ Counted(t)'
    BY <1>4, <2>3 DEF Ordered, Counted
  <2> QED BY <1>2, <2>2, <2>4, OthersOrdered
<1>6. CASE xfer' = [xfer EXCEPT ![t] = Accepted(x)]
  <2>1. /\ Accepted(x).buf = <<>> /\ Accepted(x).off = x.off /\ Accepted(x).len = x.len
        /\ Accepted(x).fsize = x.fsize /\ Accepted(x).pos = x.off
        /\ Accepted(x).left = XferBytes(x.off, x.len, x.fsize)
    BY <1>1 DEF XferRec, Accepted
  <2>2. xfer'[t] = Accepted(x)
    BY <1>2, <1>6
  <2>3. x.off \in Int /\ XferBytes(x.off, x.len, x.fsize) \in Int
    <3>1. /\ x.off \in -(SizeMod \div 2) .. MaxOff /\ x.len \in 0 .. SizeMod - 1
          /\ x.fsize \in 0 .. MaxSize
      BY <1>1 DEF XferRec
    <3>2. x.off \in Int
      BY <3>1, Offsets
    <3>3. XferBytes(x.off, x.len, x.fsize) \in 0 .. SizeMod - 1
      BY <3>1, <3>2, Sizes
    <3> QED BY <3>2, <3>3, Offsets
  <2>4. xfer'[t].left + Len(out'[t]) = XferBytes(xfer'[t].off, xfer'[t].len, xfer'[t].fsize)
    BY <1>3, <2>1, <2>2, <2>3
  <2>5. xfer'[t].pos = xfer'[t].off + Len(out'[t]) + Len(xfer'[t].buf)
    <3>1. Len(xfer'[t].buf) = 0
      BY <2>1, <2>2, EmptySeq
    <3> QED BY <1>3, <2>1, <2>2, <2>3, <3>1
  <2>6. Aligned(xfer[t], xfer[t].off + Len(out[t]))'
    <3>1. At(xfer'[t].buf, xfer'[t].off + Len(out'[t]))
      BY <2>1, <2>2, EmptyAt
    <3> QED BY <2>5, <3>1 DEF Aligned, At
  <2>7. Ordered(t)'
    BY <1>4, <2>6 DEF Ordered
  <2>8. Counted(t)'
    BY <2>1, <2>2, <2>4 DEF Counted
  <2> QED BY <1>2, <1>6, <2>7, <2>8, OthersOrdered
<1> QED BY <1>5, <1>6, AddXferCases

(* Deleting a transfer keeps the invariant. *)
LEMMA FinishOrdered ==
  ASSUME TypeInv, OrderInv, NEW t \in Xfer, NEW how \in {"complete", "stopped"}, Finish(t, how),
         UNCHANGED platform, \A u \in Xfer \ {t} : out'[u] = out[u],
         platform = "linux" \/ xfer[t].cmd = "READ" => At(out'[t], xfer[t].off)
  PROVE  OrderInv'
<1>1. xfer[t] \in XferRec /\ xfer \in [Xfer -> XferRec]
  BY DEF TypeInv, TypeOK
<1>2. xfer' = [xfer EXCEPT ![t] = Ended(xfer[t], how)]
  BY FinishEnds
<1>3. /\ Ended(xfer[t], how).st = how /\ Ended(xfer[t], how).buf = <<>>
      /\ Ended(xfer[t], how).cmd = xfer[t].cmd /\ Ended(xfer[t], how).off = xfer[t].off
  BY <1>1, EndedType
<1>4. xfer'[t] = Ended(xfer[t], how)
  BY <1>1, <1>2
<1>5. ~Moving(t)' /\ xfer'[t].buf = <<>>
  BY <1>3, <1>4 DEF Moving
<1>6. Counted(t)'
  BY <1>5 DEF Counted
<1>7. Ordered(t)'
  BY <1>3, <1>4, <1>5 DEF Ordered, At
<1> QED BY <1>2, <1>6, <1>7, OthersOrdered

(* On Linux nbytes_left goes down by what was written, without a wrap, and  *)
(* to nothing only by writing.                                              *)
LEMMA LinuxCount ==
  ASSUME NEW x, NEW nbytes, AtWork(x, nbytes), nbytes <= x.left, NEW res \in linux_splice(x, nbytes)
  PROVE  /\ nbytes_left(x, res.ret) + Len(res.sent) = x.left
         /\ nbytes_left(x, res.ret) \in Nat
         /\ nbytes_left(x, res.ret) = 0 => Len(res.sent) > 0
<1>1. x.left \in 0 .. SizeMod - 1 /\ nbytes \in Nat \ {0}
  BY DEF AtWork, XferRec
<1>2. /\ ResultOK(res) /\ Len(res.sent) <= nbytes
      /\ res.ret = Len(res.sent) \/ (res.ret = -1 /\ res.sent = <<>>)
  BY LinuxMoves
<1>3. Len(res.sent) \in Nat
  BY <1>2, LenProperties DEF ResultOK
<1> DEFINE k == Len(res.sent)
<1>4. CASE res.ret > 0
  <2>1. res.ret = k
    BY <1>2, <1>4
  <2>2. x.left \in Nat /\ x.left < SizeMod /\ SizeMod \in Nat \ {0}
    BY <1>1, Offsets
  <2> HIDE DEF k
  <2>3. k \in Nat /\ k <= nbytes /\ k > 0
    BY <1>2, <1>3, <1>4, <2>1 DEF k
  <2>4. x.left - k \in Int /\ 0 <= x.left - k /\ x.left - k < SizeMod
    BY <1>1, <2>2, <2>3
  <2>5. (x.left - k) % SizeMod = x.left - k
    BY <2>2, <2>4, RemainderOfSmall
  <2>6. nbytes_left(x, res.ret) = x.left - k
    BY <1>4, <2>1, <2>5 DEF nbytes_left
  <2>7. nbytes_left(x, res.ret) + k = x.left /\ nbytes_left(x, res.ret) \in Nat
    BY <2>2, <2>3, <2>4, <2>6
  <2> QED BY <2>3, <2>7 DEF k
<1>5. CASE ~(res.ret > 0)
  <2>1. k = 0
    BY <1>2, <1>3, <1>5, EmptySeq
  <2>2. nbytes_left(x, res.ret) = x.left
    BY <1>5 DEF nbytes_left
  <2> HIDE DEF k
  <2>3. x.left \in Nat /\ x.left > 0
    BY <1>1, Offsets
  <2>4. x.left + k = x.left
    BY <2>1, <2>3
  <2> QED BY <2>2, <2>3, <2>4 DEF k
<1> QED BY <1>4, <1>5

(* One call keeps what is written in order, and says how much is left. *)
LEMMA MoveOrdered ==
  ASSUME TypeInv, OrderInv, NEW t \in Xfer, Moving(t), NEW n \in Nat \ {0}, n <= xfer[t].left,
         NEW res \in file_move(xfer[t], n), ResultOK(res)
  PROVE  /\ Len(out[t] \o res.sent) = Len(out[t]) + Len(res.sent)
         /\ Len(out[t]) \in Nat /\ Len(res.sent) \in Nat
         /\ platform = "linux" \/ xfer[t].cmd = "READ" =>
              /\ At(out[t] \o res.sent, xfer[t].off)
              /\ Aligned(res, xfer[t].off + Len(out[t] \o res.sent))
         /\ platform = "linux" => res.buf = <<>>
<1> DEFINE x == xfer[t]
           p == x.off + Len(out[t])
<1>1. AtWork(x, n) /\ Len(x.buf) <= x.wp
  BY AtWorkNow
<1>2. out[t] \in Seq(Byte) /\ res.sent \in Seq(Byte) /\ x.off \in -(SizeMod \div 2) .. MaxOff
  BY DEF TypeInv, TypeOK, XferRec, ResultOK
<1>3. /\ Len(out[t]) \in Nat /\ Len(res.sent) \in Nat /\ x.off \in Int
      /\ Len(out[t] \o res.sent) = Len(out[t]) + Len(res.sent)
  BY <1>2, Offsets, LenProperties, ConcatProperties
<1>4. p \in Int
  BY <1>3
<1>5. ASSUME platform = "linux" \/ x.cmd = "READ"
      PROVE  /\ At(res.sent, p) /\ Aligned(res, p + Len(res.sent))
             /\ platform = "linux" => res.buf = <<>>
  <2>1. Aligned(x, p) /\ (platform = "linux" => x.buf = <<>>)
    BY <1>5 DEF OrderInv, Ordered, Counted
  <2> HIDE DEF p
  <2>2. CASE platform = "linux"
    <3>1. res \in linux_splice(x, n) /\ x.buf = <<>>
      BY <2>1, <2>2 DEF file_move
    <3> QED BY <1>1, <1>4, <2>1, <3>1, LinuxAligned
  <2>3. CASE platform # "linux"
    <3>1. res \in userspace_splice(x, n)
      BY <1>5, <2>3 DEF file_move
    <3> QED BY <1>1, <1>4, <2>1, <2>3, <3>1, UserspaceAligned
  <2> QED BY <2>2, <2>3
<1>6. ASSUME platform = "linux" \/ x.cmd = "READ"
      PROVE  /\ At(out[t] \o res.sent, x.off)
             /\ Aligned(res, x.off + Len(out[t] \o res.sent))
  <2>1. At(out[t], x.off)
    BY <1>6 DEF OrderInv, Ordered
  <2>2. At(out[t] \o res.sent, x.off)
    <3>1. At(res.sent, x.off + Len(out[t]))
      BY <1>5, <1>6
    <3> HIDE DEF x, p
    <3> QED BY <1>2, <1>3, <2>1, <3>1, AtConcat
  <2>3. p + Len(res.sent) = x.off + Len(out[t] \o res.sent)
    <3>0. x.off \in Int /\ Len(out[t]) \in Int /\ Len(res.sent) \in Int
      BY <1>3
    <3>1. p + Len(res.sent) = x.off + (Len(out[t]) + Len(res.sent))
      BY <3>0, Sums, ZenonT(60)
    <3> HIDE DEF x, p
    <3> QED BY <1>3, <3>1
  <2> QED BY <1>5, <1>6, <2>2, <2>3
<1> QED BY <1>3, <1>5, <1>6

(* A round of the loop of transfer_file keeps the invariant. *)
LEMMA TransferOrdered ==
  ASSUME TypeInv, OrderInv, NEW t \in Xfer, transfer_file(t)
  PROVE  OrderInv'
<1> DEFINE x == xfer[t]
<1>1. /\ Moving(t) /\ platform' = platform /\ x \in XferRec /\ x.st = "moving"
      /\ xfer \in [Xfer -> XferRec] /\ out \in [Xfer -> Seq(Byte)]
  BY DEF transfer_file, TypeInv, TypeOK, Moving
<1>2. CASE UNCHANGED <<xfer, out, rlock, bare>>
  BY <1>1, <1>2 DEF OrderInv, Ordered, Counted, Moving, At, Aligned
<1>3. CASE Finish(t, "stopped") /\ UNCHANGED out
  <2>1. platform = "linux" \/ x.cmd = "READ" => At(out[t], x.off)
    BY DEF OrderInv, Ordered
  <2> QED BY <1>1, <1>3, <2>1, FinishOrdered
<1>4. ASSUME NEW n \in Nat \ {0}, NEW res \in file_move(x, n), n <= x.left, ResultOK(res),
             out' = [out EXCEPT ![t] = out[t] \o res.sent],
             \/ Finish(t, "complete")
             \/ xfer' = [xfer EXCEPT ![t] = Moved(x, res)]
      PROVE  OrderInv'
  <2>1. out'[t] = out[t] \o res.sent /\ \A u \in Xfer \ {t} : out'[u] = out[u]
    BY <1>1, <1>4
  <2>2. /\ Len(out'[t]) = Len(out[t]) + Len(res.sent)
        /\ Len(out[t]) \in Nat /\ Len(res.sent) \in Nat
        /\ platform = "linux" \/ x.cmd = "READ" =>
             /\ At(out'[t], x.off) /\ Aligned(res, x.off + Len(out'[t]))
        /\ platform = "linux" => res.buf = <<>>
    BY <1>1, <1>4, <2>1, MoveOrdered
  <2>3. CASE Finish(t, "complete")
    BY <1>1, <2>1, <2>2, <2>3, FinishOrdered
  <2>4. CASE xfer' = [xfer EXCEPT ![t] = Moved(x, res)]
    <3>1. /\ Moved(x, res).buf = res.buf /\ Moved(x, res).off = x.off
          /\ Moved(x, res).len = x.len /\ Moved(x, res).fsize = x.fsize
          /\ Moved(x, res).cmd = x.cmd /\ Moved(x, res).pos = res.pos
          /\ Moved(x, res).left = nbytes_left(x, res.ret)
      BY <1>1, <1>4, MovedType, ZenonT(60)
    <3>2. xfer'[t] = Moved(x, res)
      BY <1>1, <2>4
    <3>3. Ordered(t)'
      <4>1. platform = "linux" \/ x.cmd = "READ" => Aligned(xfer'[t], x.off + Len(out'[t]))
        BY <2>2, <3>1, <3>2 DEF Aligned
      <4>2. xfer'[t].cmd = x.cmd /\ xfer'[t].off = x.off
        BY <3>1, <3>2
      <4>3. platform = "linux" \/ x.cmd = "READ" => At(out'[t], x.off)
        BY <2>2
      <4> HIDE DEF x
      <4> QED BY <1>1, <4>1, <4>2, <4>3 DEF Ordered, At, Aligned
    <3>4. Counted(t)'
      <4> SUFFICES ASSUME platform = "linux"
                   PROVE  nbytes_left(x, res.ret) + Len(out'[t]) = XferBytes(x.off, x.len, x.fsize)
        BY <1>1, <2>2, <3>1, <3>2 DEF Counted
      <4>1. nbytes_left(x, res.ret) + Len(res.sent) = x.left /\ nbytes_left(x, res.ret) \in Nat
        BY <1>1, <1>4, AtWorkNow, LinuxCount DEF file_move
      <4>2. x.left + Len(out[t]) = XferBytes(x.off, x.len, x.fsize)
        BY <1>1 DEF OrderInv, Counted
      <4>3. nbytes_left(x, res.ret) + (Len(out[t]) + Len(res.sent)) = x.left + Len(out[t])
        <5>1. nbytes_left(x, res.ret) \in Int /\ Len(out[t]) \in Int /\ Len(res.sent) \in Int
          BY <2>2, <4>1
        <5>2. nbytes_left(x, res.ret) + (Len(out[t]) + Len(res.sent))
                = (nbytes_left(x, res.ret) + Len(res.sent)) + Len(out[t])
          BY <5>1, Sums, ZenonT(60)
        <5> QED BY <4>1, <5>2, Zenon
      <4> HIDE DEF x
      <4> QED BY <2>2, <4>2, <4>3
    <3> QED BY <1>1, <2>1, <2>4, <3>3, <3>4, OthersOrdered
  <2> QED BY <1>4, <2>3, <2>4
<1> QED BY <1>2, <1>3, <1>4, TransferCases

StreamInv == TypeInv /\ LockInv /\ OrderInv

(* The joint invariant holds in every reachable state. *)
LEMMA StreamInvariant == Spec => []StreamInv
<1>1. Init => OrderInv
  <2> SUFFICES ASSUME Init, NEW t \in Xfer PROVE Ordered(t) /\ Counted(t)
    BY DEF OrderInv
  <2>1. xfer[t].st = "idle" /\ out[t] = <<>> /\ xfer[t].buf = <<>>
    BY DEF Init, NoXfer
  <2>2. At(out[t], xfer[t].off) /\ ~Moving(t)
    BY <2>1, EmptyAt DEF Moving
  <2> QED BY <2>1, <2>2 DEF Ordered, Counted
<1>2. TypeInv /\ LockInv /\ OrderInv /\ [Next]_vars => OrderInv'
  <2> SUFFICES ASSUME TypeInv, LockInv, OrderInv, [Next]_vars PROVE OrderInv'
    OBVIOUS
  <2>1. CASE UNCHANGED <<platform, xfer, out>>
    BY <2>1 DEF OrderInv, Ordered, Counted, Moving, At, Aligned
  <2>2. ASSUME NEW t \in Xfer, NEW f \in File, NEW cmd \in {"READ", "SEND"}, NEW r \in Requests,
               Open(t, f, cmd, r)
        PROVE  OrderInv'
    BY <2>2, OpenOrdered
  <2>3. ASSUME NEW t \in Xfer, delete_registered_xfer(t) PROVE OrderInv'
    <3>1. /\ Finish(t, "stopped") /\ UNCHANGED platform /\ UNCHANGED out
          /\ platform = "linux" \/ xfer[t].cmd = "READ" => At(out[t], xfer[t].off)
      BY <2>3 DEF delete_registered_xfer, OrderInv, Ordered
    <3> QED BY <3>1, FinishOrdered
  <2>4. UNCHANGED vars \/ Writer => UNCHANGED <<platform, xfer, out>>
    BY DEF vars, Writer
  <2> QED BY <2>1, <2>2, <2>3, <2>4, AddXferOrdered, TransferOrdered DEF Next, Server
<1> QED BY <1>1, <1>2, LockInvariant, PTL DEF Spec, StreamInv

(* Whatever short writes, short reads, errors and deferrals happen, the     *)
(* loop of transfer_file writes the bytes of the file from the requested    *)
(* offset on, each once and in order, through splice(2), sendfile(2) or the *)
(* buffer in user space.                                                    *)
THEOREM TransfersInOrder == Spec => []InOrder
<1>1. StreamInv => InOrder
  BY DEF StreamInv, OrderInv, Ordered, At, InOrder
<1> QED BY <1>1, StreamInvariant, PTL
-----------------------------------------------------------------------------
(* Refinement *)

Got(t) == IF Claimed(t) THEN [i \in 1 .. Len(out[t]) |-> out[t][i].pos] ELSE <<>>

(* Only transfer t looks different to its client. *)
Only(t) ==
  \A u \in Xfer \ {t} : Phase(u)' = Phase(u) /\ Asked(u)' = Asked(u) /\ Got(u)' = Got(u)

(* A step that changes nothing of what Stream sees is a stuttering step of  *)
(* it.                                                                      *)
LEMMA SameForAll ==
  ASSUME \A u \in Xfer : Phase(u)' = Phase(u) /\ Asked(u)' = Asked(u) /\ Got(u)' = Got(u)
  PROVE  UNCHANGED S!streamVars
BY DEF S!streamVars, Got

(* A request that is turned down is a step Refuse of Stream. *)
LEMMA RefuseStep ==
  ASSUME NEW t \in Xfer, Only(t), Phase(t) = "idle", Phase(t)' = "refused",
         Asked(t)' = Asked(t), Got(t)' = Got(t)
  PROVE  S!Refuse(t)
BY DEF S!Refuse, Got, Only

(* A transfer that ends early is a step Stop of Stream. *)
LEMMA StopStep ==
  ASSUME NEW t \in Xfer, Only(t), Phase(t) = "moving", Phase(t)' = "stopped",
         Asked(t)' = Asked(t), Got(t)' = Got(t)
  PROVE  S!Stop(t)
BY DEF S!Stop, Got, Only

(* A transfer that is added is a step Accept of Stream. *)
LEMMA AcceptStep ==
  ASSUME NEW t \in Xfer, Only(t), Phase(t) = "idle", Phase(t)' = "moving",
         Asked(t)'.from \in Nat, Asked(t)'.want \in Nat, Got(t)' = Got(t)
  PROVE  S!Accept(t)
BY DEF S!Accept, Got, Only

(* Bytes that are written at the place they belong are a step Arrive of     *)
(* Stream.                                                                  *)
LEMMA ArriveStep ==
  ASSUME NEW t \in Xfer, Only(t), Phase(t) = "moving", Asked(t)' = Asked(t),
         NEW m \in Nat, Len(Got(t)) = m, NEW n \in Nat, Len(Got(t)') = n, n > m, n <= Asked(t).want,
         Got(t)' = [i \in 1 .. n |-> Asked(t).from + i - 1],
         Phase(t)' = IF n = Asked(t).want THEN "complete" ELSE "moving"
  PROVE  S!Arrive(t)
<1> DEFINE got == [u \in Xfer |-> Got(u)]
           phase == [u \in Xfer |-> Phase(u)]
<1>1. m + (n - m) = n /\ n - m > 0
  OBVIOUS
<1>2. Len(got[t]) + (Len(got'[t]) - Len(got[t])) = n /\ Len(got'[t]) - Len(got[t]) > 0
  <2>1. Len(got[t]) = m /\ Len(got'[t]) = n
    OBVIOUS
  <2> HIDE DEF got
  <2> QED BY <1>1, <2>1
<1>3. got' = [got EXCEPT ![t] = [i \in 1 .. n |-> Asked(t).from + i - 1]]
  BY DEF Only
<1>4. phase' = [phase EXCEPT ![t] = IF n = Asked(t).want THEN "complete" ELSE "moving"]
  BY DEF Only
<1>5. UNCHANGED <<[u \in Xfer |-> Asked(u).from], [u \in Xfer |-> Asked(u).want]>>
  BY DEF Only
<1> QED BY <1>2, <1>3, <1>4, <1>5, ZenonT(60) DEF S!Arrive, Got

(* A step of one transfer leaves alone what Stream sees of the others. *)
LEMMA OthersLook ==
  ASSUME TypeInv, NEW t \in Xfer, NEW x, xfer' = [xfer EXCEPT ![t] = x],
         \A u \in Xfer \ {t} : out'[u] = out[u], UNCHANGED platform
  PROVE  Only(t)
<1> SUFFICES ASSUME NEW u \in Xfer \ {t}
             PROVE  Phase(u)' = Phase(u) /\ Asked(u)' = Asked(u) /\ Got(u)' = Got(u)
  BY DEF Only
<1>1. xfer'[u] = xfer[u] /\ out'[u] = out[u]
  BY DEF TypeInv, TypeOK
<1>2. Claimed(u)' = Claimed(u) /\ Phase(u)' = Phase(u)
  BY <1>1 DEF Phase, Claimed
<1>3. Asked(u)' = Asked(u)
  BY <1>1, <1>2 DEF Asked
<1>4. Got(u)' = Got(u)
  BY <1>1, <1>2 DEF Got
<1> QED BY <1>2, <1>3, <1>4

(* A transfer that has written nothing has delivered nothing. *)
LEMMA NothingGot ==
  ASSUME NEW t \in Xfer, out[t] = <<>>
  PROVE  Got(t) = <<>>
<1>1. [i \in 1 .. Len(out[t]) |-> out[t][i].pos] = <<>>
  BY EmptySeq
<1> QED BY <1>1 DEF Got

(* The positions of bytes from p on are the numbers from p on. *)
LEMMA PositionsInOrder ==
  ASSUME NEW s \in Seq(Byte), NEW p \in Int, At(s, p)
  PROVE  /\ Len(s) \in Nat /\ Len([i \in 1 .. Len(s) |-> s[i].pos]) = Len(s)
         /\ [i \in 1 .. Len(s) |-> s[i].pos] = [i \in 1 .. Len(s) |-> p + i - 1]
<1> DEFINE m == Len(s)
           g == [i \in 1 .. m |-> s[i].pos]
<1>1. m \in Nat
  BY LenProperties
<1>2. g = [i \in 1 .. m |-> p + i - 1]
  BY DEF At
<1> HIDE DEF m
<1>3. g \in [1 .. m -> Int]
  BY <1>1, <1>2
<1>4. g \in Seq(Int)
  BY <1>1, <1>3, SeqDef
<1>5. Len(g) = m
  BY <1>1, <1>3, <1>4, LenProperties
<1> QED BY <1>1, <1>2, <1>5 DEF m

(* open(2) and stat_file refuse a request or are not seen by Stream. *)
LEMMA OpenRefines ==
  ASSUME StreamInv, NEW t \in Xfer, NEW f \in File, NEW cmd \in {"READ", "SEND"},
         NEW r \in Requests, Open(t, f, cmd, r), platform = "linux"
  PROVE  S!Next \/ UNCHANGED S!streamVars
<1> DEFINE x == [NoXfer EXCEPT !.file = f, !.cmd = cmd, !.off = r[1], !.len = r[2]]
           opened == [x EXCEPT !.st = "opened", !.fsize = size[f], !.seen = version[f]]
           refused == [x EXCEPT !.st = "refused"]
<1>1. PICK y \in {opened, refused} : xfer' = [xfer EXCEPT ![t] = y]
  BY DEF Open
<1>2. y.st \in {"opened", "refused"}
  BY DEF NoXfer
<1> HIDE DEF opened, refused
<1>3. /\ out' = out /\ out[t] = <<>> /\ platform' = platform /\ xfer'[t] = y /\ xfer[t].st = "idle"
      /\ TypeInv
  BY <1>1 DEF Open, StreamInv, TypeInv, TypeOK, Shape
<1>4. Only(t)
  BY <1>1, <1>3, OthersLook
<1>5. Got(t) = <<>> /\ Got(t)' = <<>>
  <2>1. [i \in 1 .. Len(out'[t]) |-> out'[t][i].pos] = <<>>
    BY <1>3, EmptySeq
  <2> QED BY <1>3, <2>1, NothingGot DEF Got
<1>6. Phase(t) = "idle" /\ Asked(t)' = Asked(t)
  BY <1>2, <1>3 DEF Phase, Asked, Claimed
<1>7. CASE y.st = "opened"
  <2>1. Phase(t)' = "idle"
    BY <1>3, <1>7 DEF Phase, Claimed
  <2> QED BY <1>4, <1>5, <1>6, <2>1, SameForAll DEF Only
<1>8. CASE y.st = "refused"
  <2>1. Phase(t)' = "refused"
    BY <1>3, <1>8 DEF Phase, Claimed
  <2> QED BY <1>4, <1>5, <1>6, <2>1, RefuseStep DEF S!Next
<1> QED BY <1>2, <1>7, <1>8

(* add_xfer accepts or refuses a request. *)
LEMMA AddXferRefines ==
  ASSUME StreamInv, NEW t \in Xfer, add_xfer(t), platform = "linux"
  PROVE  S!Next
<1> DEFINE x == xfer[t]
<1>1. TypeInv /\ x \in XferRec /\ x.st = "opened" /\ out[t] = <<>> /\ xfer \in [Xfer -> XferRec]
  BY DEF StreamInv, TypeInv, TypeOK, Shape, add_xfer
<1>2. platform' = platform /\ out' = out
  BY DEF add_xfer
<1>3. Got(t) = <<>> /\ Got(t)' = <<>>
  <2>1. [i \in 1 .. Len(out'[t]) |-> out'[t][i].pos] = <<>>
    BY <1>1, <1>2, EmptySeq
  <2> QED BY <1>1, <2>1, NothingGot DEF Got
<1>4. Phase(t) = "idle"
  BY <1>1 DEF Phase, Claimed
<1>5. CASE xfer' = [xfer EXCEPT ![t] = [x EXCEPT !.st = "refused"]]
  <2> DEFINE y == [x EXCEPT !.st = "refused"]
  <2>1. y.st = "refused"
    BY <1>1 DEF XferRec
  <2>2. xfer' = [xfer EXCEPT ![t] = y] /\ xfer'[t] = y
    BY <1>1, <1>5
  <2> HIDE DEF y
  <2>3. Phase(t)' = "refused" /\ Asked(t)' = Asked(t)
    BY <1>2, <1>4, <2>1, <2>2 DEF Phase, Asked, Claimed
  <2>4. Only(t)
    BY <1>1, <1>2, <2>2, OthersLook
  <2> QED BY <1>3, <1>4, <2>3, <2>4, RefuseStep DEF S!Next
<1>6. CASE ~BadLock(x.off, x.len) /\ xfer' = [xfer EXCEPT ![t] = Accepted(x)]
  <2>1. /\ Accepted(x).st = "moving" /\ Accepted(x).off = x.off /\ Accepted(x).len = x.len
        /\ Accepted(x).fsize = x.fsize
    BY <1>1 DEF XferRec, Accepted
  <2>2. xfer'[t] = Accepted(x)
    BY <1>1, <1>6
  <2>3. x.off \in Nat /\ XferBytes(x.off, x.len, x.fsize) \in Nat
    <3>1. /\ x.off \in -(SizeMod \div 2) .. MaxOff /\ x.len \in 0 .. SizeMod - 1
          /\ x.fsize \in 0 .. MaxSize
      BY <1>1 DEF XferRec
    <3>2. x.off \in Int
      BY <3>1, Offsets
    <3>3. XferBytes(x.off, x.len, x.fsize) \in 0 .. SizeMod - 1
      BY <3>1, <3>2, Sizes
    <3>4. x.off >= 0
      BY <1>6, <3>2 DEF BadLock
    <3> QED BY <3>2, <3>3, <3>4, Offsets
  <2>4. Phase(t)' = "moving"
    BY <1>2, <2>1, <2>2 DEF Phase, Claimed
  <2>5. Asked(t)' = [from |-> x.off, want |-> XferBytes(x.off, x.len, x.fsize)]
    BY <2>1, <2>2, <2>4 DEF Asked
  <2>6. Asked(t)'.from \in Nat /\ Asked(t)'.want \in Nat
    BY <2>3, <2>5
  <2>7. Only(t)
    BY <1>1, <1>2, <1>6, OthersLook
  <2> QED BY <1>3, <1>4, <2>4, <2>6, <2>7, AcceptStep DEF S!Next
<1> QED BY <1>1, <1>5, <1>6, AddXferCases

(* delete_registered_xfer stops a transfer. *)
LEMMA StopRefines ==
  ASSUME StreamInv, NEW t \in Xfer, Moving(t), Finish(t, "stopped"), UNCHANGED <<platform, out>>,
         platform = "linux"
  PROVE  S!Next
<1> DEFINE x == xfer[t]
           y == Ended(x, "stopped")
<1>1. TypeInv /\ x \in XferRec /\ xfer \in [Xfer -> XferRec] /\ x.st = "moving"
  BY DEF StreamInv, TypeInv, TypeOK, Moving
<1>2. xfer' = [xfer EXCEPT ![t] = y] /\ xfer'[t] = y
  BY <1>1, FinishEnds
<1>3. y.st = "stopped" /\ y.off = x.off /\ y.len = x.len /\ y.fsize = x.fsize
  BY <1>1, EndedType
<1> HIDE DEF y
<1>4. Only(t)
  BY <1>1, <1>2, OthersLook
<1>5. Phase(t) = "moving" /\ Phase(t)' = "stopped"
  BY <1>1, <1>2, <1>3 DEF Phase, Claimed
<1>6. Asked(t)' = Asked(t)
  BY <1>2, <1>3, <1>5 DEF Asked
<1>7. Got(t)' = Got(t)
  BY <1>1, <1>2, <1>3 DEF Got, Claimed
<1> QED BY <1>4, <1>5, <1>6, <1>7, StopStep DEF S!Next

(* One call that moved data: the bytes arrive, and the transfer is complete *)
(* with the last of them.                                                   *)
LEMMA MoveRefines ==
  ASSUME StreamInv, NEW t \in Xfer, Moving(t), platform = "linux", UNCHANGED platform,
         NEW n \in Nat \ {0}, n <= xfer[t].left, NEW res \in file_move(xfer[t], n), ResultOK(res),
         out' = [out EXCEPT ![t] = out[t] \o res.sent],
         NEW y, xfer' = [xfer EXCEPT ![t] = y],
         y.off = xfer[t].off, y.len = xfer[t].len, y.fsize = xfer[t].fsize,
         y.st = IF nbytes_left(xfer[t], res.ret) = 0 THEN "complete" ELSE "moving"
  PROVE  S!Next \/ UNCHANGED S!streamVars
<1> DEFINE x == xfer[t]
           s == out[t] \o res.sent
           want == XferBytes(x.off, x.len, x.fsize)
           rest == nbytes_left(x, res.ret)
<1>1. /\ TypeInv /\ OrderInv /\ x.st = "moving" /\ x \in XferRec /\ xfer \in [Xfer -> XferRec]
      /\ out \in [Xfer -> Seq(Byte)] /\ out[t] \in Seq(Byte) /\ res.sent \in Seq(Byte)
  BY DEF StreamInv, TypeInv, TypeOK, Moving, ResultOK
<1>2. out'[t] = s /\ xfer'[t] = y /\ Only(t)
  BY <1>1, OthersLook
<1>3. s \in Seq(Byte) /\ x.off \in Int
  <2>1. x.off \in -(SizeMod \div 2) .. MaxOff
    BY <1>1 DEF XferRec
  <2>2. x.off \in Int
    BY <2>1, Offsets
  <2>3. s \in Seq(Byte)
    BY <1>1, ConcatProperties, Zenon
  <2> QED BY <2>2, <2>3
<1>4. At(s, x.off) /\ Len(s) = Len(out[t]) + Len(res.sent) /\ Len(out[t]) \in Nat /\ Len(res.sent) \in Nat
  BY <1>1, MoveOrdered
<1>5. At(out[t], x.off) /\ x.left + Len(out[t]) = want
  BY <1>1 DEF OrderInv, Ordered, Counted
<1>6. rest + Len(res.sent) = x.left /\ rest \in Nat /\ (rest = 0 => Len(res.sent) > 0)
  <2>1. AtWork(x, n)
    BY <1>1, AtWorkNow
  <2>2. res \in linux_splice(x, n)
    BY DEF file_move
  <2> QED BY <1>1, <2>1, <2>2, LinuxCount
<1>7. Phase(t) = "moving" /\ Phase(t)' = y.st /\ y.st \in {"moving", "complete"}
  BY <1>1, <1>2 DEF Phase, Claimed
<1>8. Asked(t) = [from |-> x.off, want |-> want] /\ Asked(t)' = Asked(t)
  BY <1>2, <1>7 DEF Asked
<1>9. /\ Got(t) = [i \in 1 .. Len(out[t]) |-> out[t][i].pos]
      /\ Got(t)' = [i \in 1 .. Len(s) |-> s[i].pos]
  BY <1>1, <1>2, <1>7 DEF Got, Claimed
<1>10. Len(Got(t)) = Len(out[t])
  BY <1>1, <1>3, <1>5, <1>9, PositionsInOrder
<1>11. Len(Got(t)') = Len(s) /\ Got(t)' = [i \in 1 .. Len(s) |-> x.off + i - 1]
  BY <1>3, <1>4, <1>9, PositionsInOrder
<1> DEFINE a == Len(out[t])
           k == Len(res.sent)
<1>12. rest + (a + k) = want
  <2>1. a \in Int /\ k \in Int /\ rest \in Int
    BY <1>4, <1>6
  <2>2. rest + (a + k) = (rest + k) + a
    <3> HIDE DEF rest, a, k
    <3> QED BY <2>1
  <2> QED BY <1>5, <1>6, <2>2, Zenon
<1>13. CASE k = 0
  <2>1. s = out[t]
    <3>1. res.sent = <<>>
      BY <1>1, <1>13, EmptySeq
    <3> QED BY <1>1, <3>1, ConcatEmptySeq
  <2>2. y.st = "moving"
    BY <1>6, <1>13
  <2> QED BY <1>2, <1>7, <1>8, <1>9, <2>1, <2>2, SameForAll DEF Only
<1>14. CASE k # 0
  <2>1. Len(s) = a + k /\ a \in Nat /\ k \in Nat /\ rest \in Nat
    BY <1>4, <1>6
  <2>2. Phase(t)' = IF rest = 0 THEN "complete" ELSE "moving"
    BY <1>7
  <2>3. Asked(t).want = want /\ Asked(t).from = x.off
    BY <1>8, SMTT(30)
  <2> HIDE DEF s, a, k, rest, want
  <2>4. /\ Len(s) \in Nat /\ Len(s) > a /\ Len(s) <= want
        /\ rest = 0 <=> Len(s) = want
    BY <1>12, <1>14, <2>1
  <2>5. Len(Got(t)) = a
    BY <1>10 DEF a
  <2>6. Phase(t)' = IF Len(s) = Asked(t).want THEN "complete" ELSE "moving"
    BY <2>2, <2>3, <2>4
  <2> QED BY <1>2, <1>7, <1>8, <1>11, <2>1, <2>3, <2>4, <2>5, <2>6, ArriveStep, ZenonT(60) DEF S!Next
<1> QED BY <1>13, <1>14

(* A round of the loop of transfer_file delivers bytes, stops the transfer  *)
(* or is not seen by Stream.                                                *)
LEMMA TransferRefines ==
  ASSUME StreamInv, NEW t \in Xfer, transfer_file(t), platform = "linux"
  PROVE  S!Next \/ UNCHANGED S!streamVars
<1> DEFINE x == xfer[t]
<1>1. TypeInv /\ x \in XferRec /\ x.st = "moving" /\ Moving(t) /\ platform' = platform
  BY DEF StreamInv, TypeInv, TypeOK, transfer_file, Moving
<1>2. CASE UNCHANGED <<xfer, out, rlock, bare>>
  BY <1>1, <1>2, SameForAll DEF Phase, Asked, Got, Claimed
<1>3. CASE Finish(t, "stopped") /\ UNCHANGED out
  BY <1>1, <1>3, StopRefines
<1>4. ASSUME NEW n \in Nat \ {0}, NEW res \in file_move(x, n), n <= x.left, ResultOK(res),
             out' = [out EXCEPT ![t] = out[t] \o res.sent],
             \/ Finish(t, "complete") /\ nbytes_left(x, res.ret) = 0
             \/ xfer' = [xfer EXCEPT ![t] = Moved(x, res)] /\ nbytes_left(x, res.ret) # 0
      PROVE  S!Next \/ UNCHANGED S!streamVars
  <2>1. CASE Finish(t, "complete") /\ nbytes_left(x, res.ret) = 0
    <3> DEFINE y == Ended(x, "complete")
    <3>1. xfer' = [xfer EXCEPT ![t] = y]
      BY <1>1, <2>1, FinishEnds
    <3>2. y.st = "complete" /\ y.off = x.off /\ y.len = x.len /\ y.fsize = x.fsize
      BY <1>1, EndedType
    <3> HIDE DEF y
    <3> QED BY <1>1, <1>4, <2>1, <3>1, <3>2, MoveRefines
  <2>2. CASE xfer' = [xfer EXCEPT ![t] = Moved(x, res)] /\ nbytes_left(x, res.ret) # 0
    <3> DEFINE y == Moved(x, res)
    <3>1. y.st = "moving" /\ y.off = x.off /\ y.len = x.len /\ y.fsize = x.fsize
      BY <1>1, <1>4, MovedType, ZenonT(60)
    <3>2. xfer' = [xfer EXCEPT ![t] = y]
      BY <2>2
    <3> HIDE DEF y
    <3> QED BY <1>1, <1>4, <2>2, <3>1, <3>2, MoveRefines
  <2> QED BY <1>4, <2>1, <2>2
<1> QED BY <1>1, <1>2, <1>3, <1>4, TransferCases

(* A Linux server implements Stream for every number of transfers, every    *)
(* range and every size of block and pipe: what add_xfer accepts is         *)
(* delivered byte by byte, and it is complete exactly when nbytes_left has  *)
(* come down to zero because the whole range has been written.              *)
THEOREM LinuxImplementsStream == Spec => ImplementsStream
<1>1. Init => S!Init
  <2> SUFFICES ASSUME Init PROVE S!Init
    OBVIOUS
  <2>1. \A t \in Xfer : xfer[t].st = "idle"
    BY DEF Init, NoXfer
  <2>2. \A t \in Xfer : ~Claimed(t) /\ Phase(t) = "idle" /\ Asked(t) = [from |-> -1, want |-> 0]
    BY <2>1 DEF Phase, Asked, Claimed
  <2>3. \A t \in Xfer : Asked(t).from = -1 /\ Asked(t).want = 0
    BY <2>2
  <2>4. /\ [t \in Xfer |-> Phase(t)] = [t \in Xfer |-> "idle"]
        /\ [t \in Xfer |-> Asked(t).from] = [t \in Xfer |-> -1]
        /\ [t \in Xfer |-> Asked(t).want] = [t \in Xfer |-> 0]
    BY <2>2, <2>3, Zenon
  <2>5. [t \in Xfer |-> IF Claimed(t) THEN [i \in 1 .. Len(out[t]) |-> out[t][i].pos] ELSE <<>>]
          = [t \in Xfer |-> <<>>]
    BY <2>2, Zenon
  <2> QED BY <2>4, <2>5, Zenon DEF S!Init
<1>2. StreamInv /\ [Next]_vars => [S!Next]_S!streamVars
  <2> SUFFICES ASSUME StreamInv, [Next]_vars PROVE S!Next \/ UNCHANGED S!streamVars
    OBVIOUS
  <2>1. CASE UNCHANGED <<platform, xfer, out>>
    BY <2>1, SameForAll DEF Phase, Asked, Got, Claimed
  <2>2. CASE platform # "linux" /\ UNCHANGED platform
    BY <2>2, SameForAll DEF Phase, Asked, Got, Claimed
  <2>3. UNCHANGED platform
    BY ZenonT(60) DEF Next, Server, Writer, Open, add_xfer, transfer_file, delete_registered_xfer, vars
  <2>4. ASSUME NEW t \in Xfer, NEW f \in File, NEW cmd \in {"READ", "SEND"}, NEW r \in Requests,
               Open(t, f, cmd, r), platform = "linux"
        PROVE  S!Next \/ UNCHANGED S!streamVars
    BY <2>4, OpenRefines
  <2>5. ASSUME NEW t \in Xfer, delete_registered_xfer(t), platform = "linux" PROVE S!Next
    BY <2>5, StopRefines DEF delete_registered_xfer
  <2>6. UNCHANGED vars \/ Writer => UNCHANGED <<platform, xfer, out>>
    BY DEF vars, Writer
  <2> QED BY <2>1, <2>2, <2>3, <2>4, <2>5, <2>6, AddXferRefines, TransferRefines DEF Next, Server
<1> QED BY <1>1, <1>2, StreamInvariant, PTL DEF Spec, ImplementsStream, S!Spec
=============================================================================
