------------------------- MODULE FileTransferProofs -------------------------
(***************************************************************************)
(* Proofs about FileTransfer, for any number of transfers and files.       *)
(***************************************************************************)
EXTENDS FileTransfer, SequenceTheorems, TLAPS

-----------------------------------------------------------------------------
(* Arithmetic *)

(* A number that can be represented is its own remainder. *)
LEMMA RemainderOfSmall ==
  ASSUME NEW a \in Int, NEW m \in Nat \ {0}, 0 <= a, a < m
  PROVE  a % m = a
OBVIOUS

(* A remainder lies below its modulus: sums of size_t stay in size_t. *)
LEMMA RemainderInRange ==
  ASSUME NEW a \in Int, NEW m \in Nat \ {0}
  PROVE  a % m \in 0 .. m - 1
OBVIOUS

(* What FileAssumption says of the widths of size_t and off_t, for          *)
(* arithmetic: files fit into off_t.                                        *)
LEMMA Offsets ==
  /\ SizeMod \in Nat \ {0} /\ MaxOff \in Nat /\ MaxOff < SizeMod
  /\ MaxSize \in Nat /\ MaxSize <= MaxOff /\ SizeMod \div 2 = MaxOff + 1
  /\ MaxWrites \in Nat /\ BlkSize \in Nat \ {0} /\ PipeCap \in Nat \ {0}
BY FileAssumption DEF MaxOff

(* xfer_nbytes returns a size_t. *)
LEMMA Sizes ==
  ASSUME NEW off \in Int, NEW len \in 0 .. SizeMod - 1, NEW fsize \in 0 .. MaxSize
  PROVE  XferBytes(off, len, fsize) \in 0 .. SizeMod - 1
BY RemainderInRange, FileAssumption DEF XferBytes
-----------------------------------------------------------------------------
(* One call that moves data *)

(* What is needed of a transfer that is at work, and of the files. *)
AtWork(x, nbytes) ==
  /\ x \in XferRec /\ x.file \in File /\ nbytes \in Nat \ {0}
  /\ size \in [File -> 0 .. MaxSize] /\ version \in [File -> 0 .. MaxWrites]

ResultOK(res) ==
  /\ res.ret \in Int /\ res.sent \in Seq(Byte) /\ res.pos \in Pos
  /\ res.buf \in Seq(Byte) /\ res.wp \in 0 .. BlkSize

(* n bytes of a file that has as many. *)
LEMMA BytesType ==
  ASSUME NEW f \in File, NEW p \in Nat, NEW n \in Nat, p + n <= MaxSize,
         version \in [File -> 0 .. MaxWrites]
  PROVE  /\ Bytes(f, p, n) \in Seq(Byte) /\ Len(Bytes(f, p, n)) = n
         /\ \A i \in 1 .. n : Bytes(f, p, n)[i] = [pos |-> p + i - 1, ver |-> version[f]]
<1>1. \A i \in 1 .. n : [pos |-> p + i - 1, ver |-> version[f]] \in Byte
  BY Offsets DEF Byte, Pos
<1>2. Bytes(f, p, n) \in [1 .. n -> Byte]
  BY <1>1 DEF Bytes
<1>3. Bytes(f, p, n) \in Seq(Byte)
  BY <1>2, SeqDef
<1>4. Len(Bytes(f, p, n)) = n
  BY <1>2, <1>3, LenProperties
<1> QED BY <1>3, <1>4 DEF Bytes

(* The same for a read that may find nothing. *)
LEMMA ReadBytes ==
  ASSUME NEW x, NEW nbytes, AtWork(x, nbytes), NEW n \in Nat, x.pos + n <= MaxSize \/ n = 0
  PROVE  /\ Bytes(x.file, x.pos, n) \in Seq(Byte) /\ Len(Bytes(x.file, x.pos, n)) = n
         /\ \A i \in 1 .. n :
              Bytes(x.file, x.pos, n)[i] = [pos |-> x.pos + i - 1, ver |-> version[x.file]]
<1>1. x.pos \in Nat
  BY Offsets DEF AtWork, XferRec, Pos
<1>2. CASE x.pos + n <= MaxSize
  BY <1>1, <1>2, BytesType DEF AtWork
<1>3. CASE n = 0
  <2>1. Bytes(x.file, x.pos, n) = <<>>
    BY <1>3 DEF Bytes
  <2>2. 1 .. n = {}
    BY <1>3
  <2> QED BY <1>3, <2>1, <2>2, EmptySeq
<1> QED BY <1>2, <1>3

(* What is left of a file, from the file offset of a transfer on, is a      *)
(* size.                                                                    *)
LEMMA LeftType ==
  ASSUME NEW x, NEW nbytes, AtWork(x, nbytes)
  PROVE  /\ Left(x) \in 0 .. MaxSize /\ x.pos \in Nat
         /\ Left(x) > 0 => x.pos + Left(x) <= MaxSize
<1>1. x.pos \in Nat /\ x.file \in File
  BY Offsets DEF AtWork, XferRec, Pos
<1>2. size[x.file] \in 0 .. MaxSize
  BY <1>1 DEF AtWork
<1> QED BY <1>1, <1>2, Offsets DEF Left

(* splice(2) and sendfile(2) on Linux write the bytes at the file offset. *)
LEMMA LinuxMoves ==
  ASSUME NEW x, NEW nbytes, AtWork(x, nbytes), NEW res \in linux_splice(x, nbytes)
  PROVE  /\ ResultOK(res) /\ res.buf = x.buf /\ res.pos = x.pos + Len(res.sent)
         /\ res.wp = x.wp /\ Len(res.sent) <= nbytes
         /\ res.ret = Len(res.sent) \/ (res.ret = -1 /\ res.sent = <<>>)
         /\ \A i \in 1 .. Len(res.sent) :
              res.sent[i] = [pos |-> x.pos + i - 1, ver |-> version[x.file]]
<1>1. x.pos \in Pos /\ x.buf \in Seq(Byte) /\ x.wp \in 0 .. BlkSize /\ nbytes \in Nat
  BY DEF AtWork, XferRec
<1>2. ASSUME NEW k \in {-1, 0}, res = Result(x, k, <<>>, 0)
      PROVE  /\ ResultOK(res) /\ res.buf = x.buf /\ res.pos = x.pos + Len(res.sent)
             /\ res.wp = x.wp /\ Len(res.sent) <= nbytes /\ res.sent = <<>>
             /\ res.ret = Len(res.sent) \/ res.ret = -1
  <2>1. x.pos + 0 = x.pos /\ Len(<<>>) = 0 /\ <<>> \in Seq(Byte)
    BY <1>1, Offsets DEF Pos
  <2> QED BY <1>1, <1>2, <2>1 DEF Result, ResultOK
<1>3. ASSUME NEW n \in 1 .. MinOf(nbytes, Left(x)), res = Result(x, n, Bytes(x.file, x.pos, n), n),
             Left(x) # 0
      PROVE  /\ ResultOK(res) /\ res.buf = x.buf /\ res.pos = x.pos + Len(res.sent)
             /\ res.wp = x.wp /\ Len(res.sent) <= nbytes /\ res.ret = Len(res.sent)
             /\ \A i \in 1 .. Len(res.sent) :
                  res.sent[i] = [pos |-> x.pos + i - 1, ver |-> version[x.file]]
  <2>1. n \in Nat /\ n <= nbytes /\ n <= Left(x) /\ x.pos \in Nat /\ x.pos + n <= MaxSize
    <3>1. /\ Left(x) \in 0 .. MaxSize /\ x.pos \in Nat
          /\ Left(x) > 0 => x.pos + Left(x) <= MaxSize
      BY LeftType
    <3>2. n <= nbytes /\ n <= Left(x) /\ n \in Nat
      BY <1>1, <3>1 DEF MinOf
    <3> QED BY <1>3, <3>1, <3>2, Offsets
  <2>2. /\ Bytes(x.file, x.pos, n) \in Seq(Byte) /\ Len(Bytes(x.file, x.pos, n)) = n
        /\ \A i \in 1 .. n : Bytes(x.file, x.pos, n)[i] = [pos |-> x.pos + i - 1, ver |-> version[x.file]]
    BY <2>1, BytesType DEF AtWork
  <2>3. x.pos + n \in Pos
    BY <2>1, Offsets DEF Pos
  <2> DEFINE sent == Bytes(x.file, x.pos, n)
  <2>4. /\ res.ret = n /\ res.sent = sent /\ res.pos = x.pos + n
        /\ res.buf = x.buf /\ res.wp = x.wp
    BY <1>3, Zenon DEF Result
  <2>5. sent \in Seq(Byte) /\ Len(sent) = n
        /\ \A i \in 1 .. n : sent[i] = [pos |-> x.pos + i - 1, ver |-> version[x.file]]
    BY <2>2
  <2> HIDE DEF sent
  <2>6. ResultOK(res)
    BY <1>1, <2>1, <2>3, <2>4, <2>5 DEF ResultOK
  <2> QED BY <2>1, <2>4, <2>5, <2>6
<1> QED BY <1>2, <1>3 DEF linux_splice

(* Some n bytes are read behind those that are in the buffer, and of all    *)
(* these the first are written and the others remain.                       *)
Buffered(x, res) ==
  \E n \in Nat :
    /\ x.pos + n <= MaxSize \/ n = 0
    /\ res.pos = x.pos + n
    /\ Len(res.sent) + Len(res.buf) = Len(x.buf) + n
    /\ \A i \in 1 .. Len(res.sent) : res.sent[i] = (x.buf \o Bytes(x.file, x.pos, n))[i]
    /\ \A i \in 1 .. Len(res.buf) :
         res.buf[i] = (x.buf \o Bytes(x.file, x.pos, n))[Len(res.sent) + i]

(* file_splice in user space returns a result of the right type, and never  *)
(* fills its buffer beyond the write position.                              *)
LEMMA UserspaceMoves ==
  ASSUME NEW x, NEW nbytes, AtWork(x, nbytes), NEW res \in userspace_splice(x, nbytes),
         Len(x.buf) <= x.wp
  PROVE  ResultOK(res) /\ Len(res.buf) <= res.wp /\ Buffered(x, res)
<1> DEFINE n == MinOf(MinOf(nbytes, BlkSize - x.wp), Left(x))
           buf == x.buf \o Bytes(x.file, x.pos, n)
           Wrote(k) ==
             [ret |-> k, sent |-> SubSeq(buf, 1, k), pos |-> x.pos + n,
              buf |-> SubSeq(buf, k + 1, Len(buf)), wp |-> IF k = Len(buf) THEN 0 ELSE x.wp + n]
<1>1. x.pos \in Pos /\ x.pos \in Nat /\ x.buf \in Seq(Byte) /\ x.wp \in 0 .. BlkSize
  BY Offsets DEF AtWork, XferRec, Pos
<1>2. n \in Nat /\ x.wp + n <= BlkSize /\ (n > 0 => x.pos + n <= MaxSize)
  <2>1. Left(x) \in 0 .. MaxSize /\ (Left(x) > 0 => x.pos + Left(x) <= MaxSize)
    BY LeftType
  <2>2. nbytes \in Nat /\ BlkSize - x.wp \in Nat /\ MaxSize \in Nat /\ BlkSize \in Nat /\ x.wp \in Nat
    BY <1>1, Offsets DEF AtWork
  <2>3. n \in Int /\ n <= Left(x) /\ n <= BlkSize - x.wp /\ n \in {nbytes, BlkSize - x.wp, Left(x)}
    <3> DEFINE m == MinOf(nbytes, BlkSize - x.wp)
    <3>1. m \in Int /\ m <= BlkSize - x.wp /\ m \in {nbytes, BlkSize - x.wp}
      BY <2>2 DEF MinOf
    <3> HIDE DEF m
    <3>2. MinOf(m, Left(x)) \in Int /\ MinOf(m, Left(x)) <= m /\ MinOf(m, Left(x)) <= Left(x)
          /\ MinOf(m, Left(x)) \in {m, Left(x)}
      BY <2>1, <3>1 DEF MinOf
    <3>3. n = MinOf(m, Left(x))
      BY DEF m
    <3> HIDE DEF n
    <3> QED BY <2>1, <2>2, <3>1, <3>2, <3>3
  <2> HIDE DEF n
  <2> QED BY <1>1, <2>1, <2>2, <2>3, SMTT(30)
<1> HIDE DEF n
<1>3. x.pos + n \in Pos
  BY <1>1, <1>2, Offsets DEF Pos
<1>4. Bytes(x.file, x.pos, n) \in Seq(Byte) /\ Len(Bytes(x.file, x.pos, n)) = n
  <2>1. x.pos + n <= MaxSize \/ n = 0
    BY <1>2
  <2> QED BY <1>2, <2>1, ReadBytes
<1>5. buf \in Seq(Byte) /\ Len(buf) = Len(x.buf) + n /\ Len(buf) \in Nat /\ Len(buf) <= x.wp + n
  <2>1. buf \in Seq(Byte) /\ Len(buf) = Len(x.buf) + Len(Bytes(x.file, x.pos, n))
    BY <1>1, <1>4, ConcatProperties
  <2>2. Len(x.buf) \in Nat
    BY <1>1, LenProperties
  <2> HIDE DEF buf
  <2> QED BY <1>1, <1>2, <1>4, <2>1, <2>2
<1> HIDE DEF buf
<1>6. ASSUME NEW k \in 0 .. Len(buf)
      PROVE  /\ SubSeq(buf, 1, k) \in Seq(Byte) /\ Len(SubSeq(buf, 1, k)) = k
             /\ \A i \in 1 .. k : SubSeq(buf, 1, k)[i] = buf[i]
             /\ SubSeq(buf, k + 1, Len(buf)) \in Seq(Byte)
             /\ Len(SubSeq(buf, k + 1, Len(buf))) = Len(buf) - k
             /\ \A i \in 1 .. Len(buf) - k : SubSeq(buf, k + 1, Len(buf))[i] = buf[k + i]
  BY <1>5
<1>7. ASSUME NEW k \in 1 .. Len(buf), res = Wrote(k)
      PROVE  /\ ResultOK(res) /\ Len(res.buf) <= res.wp
             /\ res.pos = x.pos + n /\ Len(res.sent) + Len(res.buf) = Len(x.buf) + n
             /\ \A i \in 1 .. Len(res.sent) : res.sent[i] = buf[i]
             /\ \A i \in 1 .. Len(res.buf) : res.buf[i] = buf[Len(res.sent) + i]
  <2>1. /\ res.ret = k /\ res.sent = SubSeq(buf, 1, k) /\ res.pos = x.pos + n
        /\ res.buf = SubSeq(buf, k + 1, Len(buf))
        /\ res.wp = IF k = Len(buf) THEN 0 ELSE x.wp + n
    BY <1>7
  <2>2. k \in 0 .. Len(buf) /\ k \in Int
    BY <1>5
  <2>3. Len(res.sent) = k /\ Len(res.buf) = Len(buf) - k
    BY <1>6, <2>1, <2>2
  <2>4. res.sent \in Seq(Byte) /\ res.buf \in Seq(Byte)
    BY <1>6, <2>1, <2>2
  <2>5. res.wp \in 0 .. BlkSize /\ Len(res.buf) <= res.wp
    <3>1. CASE k = Len(buf)
      BY <1>5, <2>1, <2>2, <2>3, <3>1, Offsets
    <3>2. CASE k # Len(buf)
      <4>1. res.wp = x.wp + n
        BY <2>1, <3>2
      <4>2. x.wp \in Nat /\ BlkSize \in Nat
        BY <1>1, Offsets
      <4> QED BY <1>2, <1>5, <2>2, <2>3, <4>1, <4>2, SMTT(30)
    <3> QED BY <3>1, <3>2
  <2>6. \A i \in 1 .. Len(res.sent) : res.sent[i] = buf[i]
    BY <1>6, <2>1, <2>2, <2>3
  <2>7. \A i \in 1 .. Len(res.buf) : res.buf[i] = buf[Len(res.sent) + i]
    BY <1>6, <2>1, <2>2, <2>3
  <2>8. Len(res.sent) + Len(res.buf) = Len(x.buf) + n
    BY <1>5, <2>2, <2>3
  <2> QED BY <1>3, <2>1, <2>2, <2>4, <2>5, <2>6, <2>7, <2>8 DEF ResultOK
<1>8. ASSUME res = [Wrote(0) EXCEPT !.ret = -1, !.wp = x.wp + n]
      PROVE  /\ ResultOK(res) /\ Len(res.buf) <= res.wp
             /\ res.pos = x.pos + n /\ Len(res.sent) + Len(res.buf) = Len(x.buf) + n
             /\ \A i \in 1 .. Len(res.sent) : res.sent[i] = buf[i]
             /\ \A i \in 1 .. Len(res.buf) : res.buf[i] = buf[Len(res.sent) + i]
  <2>1. /\ res.ret = -1 /\ res.sent = SubSeq(buf, 1, 0) /\ res.pos = x.pos + n
        /\ res.buf = SubSeq(buf, 0 + 1, Len(buf)) /\ res.wp = x.wp + n
    BY <1>8
  <2>2. 0 \in 0 .. Len(buf)
    BY <1>5
  <2>3. Len(res.sent) = 0 /\ Len(res.buf) = Len(buf) - 0
    BY <1>6, <2>1, <2>2
  <2>4. res.sent \in Seq(Byte) /\ res.buf \in Seq(Byte)
    BY <1>6, <2>1, <2>2
  <2>5. res.wp \in 0 .. BlkSize /\ Len(res.buf) <= res.wp
    BY <1>1, <1>2, <1>5, <2>1, <2>3, Offsets
  <2>6. \A i \in 1 .. Len(res.buf) : res.buf[i] = buf[Len(res.sent) + i]
    BY <1>6, <2>1, <2>2, <2>3
  <2> QED BY <1>3, <1>5, <2>1, <2>3, <2>4, <2>5, <2>6 DEF ResultOK
<1>9. ASSUME n = 0, res = Result(x, 0, <<>>, 0)
      PROVE  /\ ResultOK(res) /\ Len(res.buf) <= res.wp
             /\ res.pos = x.pos + n /\ Len(res.sent) + Len(res.buf) = Len(x.buf) + n
             /\ \A i \in 1 .. Len(res.sent) : res.sent[i] = buf[i]
             /\ \A i \in 1 .. Len(res.buf) : res.buf[i] = buf[Len(res.sent) + i]
  <2>1. res.ret = 0 /\ res.sent = <<>> /\ res.pos = x.pos + 0 /\ res.buf = x.buf /\ res.wp = x.wp
    BY <1>9 DEF Result
  <2>2. Bytes(x.file, x.pos, n) = <<>>
    BY <1>9 DEF Bytes
  <2>3. buf = x.buf
    BY <1>1, <2>2, ConcatEmptySeq DEF buf
  <2>4. Len(res.sent) = 0 /\ <<>> \in Seq(Byte)
    BY <2>1, EmptySeq
  <2>5. x.pos + 0 = x.pos + n /\ Len(x.buf) \in Nat
    BY <1>1, <1>9, LenProperties
  <2>6. /\ Len(res.sent) + Len(res.buf) = Len(x.buf) + n
        /\ \A i \in 1 .. Len(res.buf) : Len(res.sent) + i = i
    <3>1. Len(res.buf) = Len(x.buf) /\ Len(res.buf) \in Nat /\ n = 0 /\ Len(res.sent) = 0
      BY <1>9, <2>1, <2>4, <2>5
    <3> QED BY <3>1
  <2> QED BY <1>1, <1>3, <1>5, <2>1, <2>3, <2>4, <2>5, <2>6 DEF ResultOK
<1>10. \/ \E k \in 1 .. Len(buf) : res = Wrote(k)
       \/ res = [Wrote(0) EXCEPT !.ret = -1, !.wp = x.wp + n]
       \/ n = 0 /\ res = Result(x, 0, <<>>, 0)
  BY DEF userspace_splice, n, buf
<1>11. /\ ResultOK(res) /\ Len(res.buf) <= res.wp
       /\ res.pos = x.pos + n /\ Len(res.sent) + Len(res.buf) = Len(x.buf) + n
       /\ \A i \in 1 .. Len(res.sent) : res.sent[i] = buf[i]
       /\ \A i \in 1 .. Len(res.buf) : res.buf[i] = buf[Len(res.sent) + i]
  BY <1>7, <1>8, <1>9, <1>10
<1>12. n \in Nat /\ (x.pos + n <= MaxSize \/ n = 0)
  BY <1>2
<1> QED BY <1>11, <1>12 DEF buf, Buffered

(* file_sendfile on FreeBSD leaves the buffer alone and sends bytes of the  *)
(* file's present state.                                                    *)
LEMMA FreeBSDSends ==
  ASSUME NEW x, NEW nbytes, AtWork(x, nbytes), NEW res \in freebsd_sendfile(x, nbytes)
  PROVE  /\ ResultOK(res) /\ res.buf = x.buf /\ res.wp = x.wp
         /\ \A i \in 1 .. Len(res.sent) : res.sent[i].ver = version[x.file]
<1>1. x.pos \in Pos /\ x.pos \in Nat /\ x.buf \in Seq(Byte) /\ x.wp \in 0 .. BlkSize
  BY Offsets DEF AtWork, XferRec, Pos
<1>2. size[x.file] \in 0 .. MaxSize /\ nbytes \in Nat /\ x.file \in File
  BY DEF AtWork
<1>3. MinOf(nbytes, size[x.file]) \in 0 .. MaxSize
  BY <1>2, Offsets DEF MinOf
<1>4. PICK k \in 0 .. MinOf(nbytes, size[x.file]) :
        res = Result(x, IF k = MinOf(nbytes, size[x.file]) THEN k ELSE -1, Bytes(x.file, 0, k), 0)
  BY DEF freebsd_sendfile
<1>5. k \in Nat /\ 0 + k <= MaxSize
  BY <1>3, Offsets
<1>6. /\ Bytes(x.file, 0, k) \in Seq(Byte) /\ Len(Bytes(x.file, 0, k)) = k
      /\ \A i \in 1 .. k : Bytes(x.file, 0, k)[i] = [pos |-> 0 + i - 1, ver |-> version[x.file]]
  BY <1>2, <1>5, BytesType DEF AtWork
<1>7. /\ res.sent = Bytes(x.file, 0, k) /\ res.pos = x.pos + 0 /\ res.buf = x.buf /\ res.wp = x.wp
      /\ res.ret \in Int
  BY <1>4, <1>5 DEF Result
<1>8. x.pos + 0 = x.pos
  BY <1>1
<1>9. ResultOK(res)
  BY <1>1, <1>6, <1>7, <1>8 DEF ResultOK
<1>10. \A i \in 1 .. Len(res.sent) : res.sent[i].ver = version[x.file]
  <2>1. \A i \in 1 .. k : Bytes(x.file, 0, k)[i].ver = version[x.file]
    <3> SUFFICES ASSUME NEW i \in 1 .. k PROVE Bytes(x.file, 0, k)[i].ver = version[x.file]
      OBVIOUS
    <3>1. Bytes(x.file, 0, k)[i] = [pos |-> 0 + i - 1, ver |-> version[x.file]]
      BY <1>6
    <3> QED BY ONLY <3>1
  <2>2. Len(res.sent) = k /\ res.sent = Bytes(x.file, 0, k)
    BY <1>6, <1>7
  <2> QED BY ONLY <2>1, <2>2
<1> QED BY <1>7, <1>9, <1>10

(* Whatever transfer_file uses to move data returns a result of the right   *)
(* type.                                                                    *)
LEMMA MoveOK ==
  ASSUME NEW x, NEW nbytes, AtWork(x, nbytes), NEW res \in file_move(x, nbytes), Len(x.buf) <= x.wp
  PROVE  ResultOK(res) /\ Len(res.buf) <= res.wp
<1>1. CASE res \in linux_splice(x, nbytes)
  <2>1. ResultOK(res) /\ res.buf = x.buf /\ res.wp = x.wp
    BY <1>1, LinuxMoves
  <2> QED BY <2>1
<1>2. CASE res \in userspace_splice(x, nbytes)
  BY <1>2, UserspaceMoves
<1>3. CASE res \in freebsd_sendfile(x, nbytes)
  <2>1. ResultOK(res) /\ res.buf = x.buf /\ res.wp = x.wp
    BY <1>3, FreeBSDSends
  <2> QED BY <2>1
<1> QED BY <1>1, <1>2, <1>3 DEF file_move
-----------------------------------------------------------------------------
(* Types *)

(* With the types, the facts about transfers that they depend on. *)
Shape ==
  /\ \A t \in Xfer : xfer[t].st \in {"opened", "moving"} => xfer[t].file \in File
  /\ \A t \in Xfer : Len(xfer[t].buf) <= xfer[t].wp
  /\ \A t \in Xfer : xfer[t].st \in {"idle", "opened", "refused"} => out[t] = <<>>
  /\ total < PipeCap

TypeInv == TypeOK /\ Shape

(* The invariant holds when the server starts. *)
LEMMA TypeInit == Init => TypeInv
<1> SUFFICES ASSUME Init PROVE TypeInv
  OBVIOUS
<1>1. NoXfer \in XferRec /\ NoXfer.st = "idle" /\ Len(NoXfer.buf) <= NoXfer.wp
  <2>1. <<>> \in Seq(Byte) /\ Len(<<>>) = 0
    BY EmptySeq
  <2> QED BY <2>1, Offsets DEF NoXfer, XferRec, Pos
<1>2. xfer \in [Xfer -> XferRec] /\ out \in [Xfer -> Seq(Byte)]
  BY <1>1, EmptySeq DEF Init
<1>3. TypeOK
  <2>1. rlock \in [File -> SUBSET Pos] /\ version \in [File -> 0 .. MaxWrites]
    BY Offsets DEF Init
  <2>2. total \in 0 .. PipeCap /\ capacity \in {0, PipeCap}
    BY Offsets DEF Init
  <2> QED BY <1>2, <2>1, <2>2 DEF Init, TypeOK
<1>4. Shape
  BY <1>1, Offsets DEF Init, Shape
<1> QED BY <1>3, <1>4 DEF TypeInv

(* The other process keeps the invariant. *)
LEMMA WriterKeepsTypes == TypeInv /\ Writer => TypeInv'
<1> SUFFICES ASSUME TypeInv, Writer PROVE TypeInv'
  OBVIOUS
<1>1. /\ size' \in [File -> 0 .. MaxSize] /\ version' \in [File -> 0 .. MaxWrites]
      /\ wlock' \subseteq File
  <2> USE DEF TypeInv, TypeOK
  <2>1. PICK f \in File : TakeWriteLock(f) \/ Change(f) \/ DropWriteLock(f)
    BY DEF Writer
  <2>2. CASE TakeWriteLock(f)
    BY <2>2 DEF TakeWriteLock
  <2>3. CASE Change(f)
    <3>1. version[f] + 1 \in 0 .. MaxWrites
      BY <2>3, Offsets DEF Change
    <3> QED BY <2>3, <3>1 DEF Change
  <2>4. CASE DropWriteLock(f)
    BY <2>4 DEF DropWriteLock
  <2> QED BY <2>1, <2>2, <2>3, <2>4
<1> QED BY <1>1 DEF TypeInv, TypeOK, Shape, Writer

(* One transfer changes; the rest follows from the types of what is new. *)
LEMMA TypesAfter ==
  ASSUME TypeInv, NEW t \in Xfer, NEW x \in XferRec, xfer' = [xfer EXCEPT ![t] = x],
         x.st \in {"opened", "moving"} => x.file \in File,
         Len(x.buf) <= x.wp,
         x.st \in {"idle", "opened", "refused"} => out'[t] = <<>>,
         out' \in [Xfer -> Seq(Byte)], \A u \in Xfer \ {t} : out'[u] = out[u],
         busy' \in Xfer \cup {None}, rlock' \in [File -> SUBSET Pos],
         total' \in 0 .. PipeCap, total' < PipeCap,
         capacity' \in {0, PipeCap}, bare' \subseteq Xfer, aborted' \in BOOLEAN,
         UNCHANGED <<platform, fileVars>>
  PROVE  TypeInv'
<1>1. TypeOK'
  BY DEF TypeInv, TypeOK, fileVars
<1>2. Shape'
  BY DEF TypeInv, TypeOK, Shape
<1> QED BY <1>1, <1>2 DEF TypeInv

(* Closing a file keeps the types of the locks. *)
LEMMA ClosingTypes ==
  ASSUME TypeInv, NEW t \in Xfer, NEW f, CloseFile(t, f)
  PROVE  rlock' \in [File -> SUBSET Pos] /\ bare' \subseteq Xfer
<1>1. bare' \subseteq Xfer
  BY DEF TypeInv, TypeOK, CloseFile
<1>2. rlock' \in [File -> SUBSET Pos]
  BY DEF TypeInv, TypeOK, CloseFile
<1> QED BY <1>1, <1>2

(* open(2) and stat_file keep the invariant. *)
LEMMA OpenKeepsTypes ==
  ASSUME TypeInv, NEW t \in Xfer, NEW f \in File, NEW cmd \in {"READ", "SEND"}, NEW r \in Requests,
         Open(t, f, cmd, r)
  PROVE  TypeInv'
<1> DEFINE x == [NoXfer EXCEPT !.file = f, !.cmd = cmd, !.off = r[1], !.len = r[2]]
           opened == [x EXCEPT !.st = "opened", !.fsize = size[f], !.seen = version[f]]
           refused == [x EXCEPT !.st = "refused"]
<1>1. r[1] \in -(SizeMod \div 2) .. MaxOff /\ r[2] \in 0 .. SizeMod - 1
  <2>1. /\ r[1] \in Int /\ r[2] \in 0 .. SizeMod - 1
        /\ r[1] < SizeMod \div 2 /\ r[1] >= -(SizeMod \div 2)
    BY FileAssumption
  <2> QED BY <2>1, Offsets
<1>2. size[f] \in 0 .. MaxSize /\ version[f] \in 0 .. MaxWrites /\ 0 \in 0 .. SizeMod - 1
      /\ 0 \in 0 .. BlkSize /\ 0 \in Pos /\ <<>> \in Seq(Byte) /\ Len(<<>>) = 0
      /\ 0 \in 0 .. MaxSize /\ 0 \in 0 .. MaxWrites
  BY Offsets, EmptySeq DEF TypeInv, TypeOK, Pos
<1>3. opened \in XferRec /\ opened.st = "opened" /\ opened.file = f /\ opened.buf = <<>> /\ opened.wp = 0
  BY <1>1, <1>2 DEF NoXfer, XferRec
<1>4. refused \in XferRec /\ refused.st = "refused" /\ refused.buf = <<>> /\ refused.wp = 0
  BY <1>1, <1>2 DEF NoXfer, XferRec
<1>5. PICK y \in {opened, refused} : xfer' = [xfer EXCEPT ![t] = y]
  BY DEF Open
<1> HIDE DEF opened, refused
<1>6. y \in XferRec /\ (y.st \in {"opened", "moving"} => y.file \in File) /\ Len(y.buf) <= y.wp
  BY <1>2, <1>3, <1>4
<1>7. out' = out /\ out[t] = <<>> /\ out \in [Xfer -> Seq(Byte)]
  BY DEF Open, TypeInv, TypeOK, Shape
<1>8. busy' \in Xfer \cup {None}
  BY DEF Open, TypeInv, TypeOK
<1>9. rlock' \in [File -> SUBSET Pos] /\ bare' \subseteq Xfer
  <2>1. CloseFile(t, f) \/ UNCHANGED <<rlock, bare>>
    BY DEF Open
  <2> QED BY <2>1, ClosingTypes DEF TypeInv, TypeOK
<1>10. /\ UNCHANGED <<platform, fileVars, total, capacity, aborted>>
       /\ total \in 0 .. PipeCap /\ total < PipeCap /\ capacity \in {0, PipeCap} /\ aborted \in BOOLEAN
  BY DEF Open, TypeInv, TypeOK, Shape
<1> QED BY <1>5, <1>6, <1>7, <1>8, <1>9, <1>10, TypesAfter

(* The record of a transfer once it has been accepted. *)
Accepted(x) ==
  [x EXCEPT !.st = "moving", !.pos = x.off, !.left = XferBytes(x.off, x.len, x.fsize)]

(* The two outcomes of add_xfer. *)
LEMMA AddXferCases ==
  ASSUME TypeInv, NEW t \in Xfer, add_xfer(t)
  PROVE  \/ /\ ~BadLock(xfer[t].off, xfer[t].len)
            /\ RangeOK(xfer[t].off, xfer[t].len, xfer[t].fsize)
            /\ lock_file(xfer[t])
            /\ xfer' = [xfer EXCEPT ![t] = Accepted(xfer[t])]
            /\ UNCHANGED bare
         \/ /\ CloseFile(t, xfer[t].file)
            /\ xfer' = [xfer EXCEPT ![t] = [xfer[t] EXCEPT !.st = "refused"]]
<1>1. xfer \in [Xfer -> XferRec] /\ xfer[t] \in XferRec
  BY DEF TypeInv, TypeOK
<1>2. CASE xfer' = [xfer EXCEPT ![t].st = "refused"]
  BY <1>1 DEF add_xfer, Accepted
<1>3. CASE xfer' = [xfer EXCEPT ![t].st = "moving", ![t].pos = xfer[t].off,
                       ![t].left = XferBytes(xfer[t].off, xfer[t].len, xfer[t].fsize)]
  <2>1. xfer' = [xfer EXCEPT ![t] = Accepted(xfer[t])]
    BY <1>1, <1>3 DEF Accepted, XferRec
  <2> QED BY <2>1 DEF add_xfer
<1> QED BY <1>2, <1>3 DEF add_xfer

(* add_xfer keeps the invariant. *)
LEMMA AddXferKeepsTypes ==
  ASSUME TypeInv, NEW t \in Xfer, add_xfer(t)
  PROVE  TypeInv'
<1> DEFINE x == xfer[t]
<1>1. x \in XferRec /\ x.st = "opened" /\ x.file \in File /\ Len(x.buf) <= x.wp /\ out[t] = <<>>
  BY DEF TypeInv, TypeOK, Shape, add_xfer
<1>2. /\ UNCHANGED <<platform, fileVars, total, capacity, out, aborted>> /\ busy' = None
      /\ total \in 0 .. PipeCap /\ total < PipeCap /\ capacity \in {0, PipeCap} /\ aborted \in BOOLEAN
      /\ out \in [Xfer -> Seq(Byte)]
  BY DEF add_xfer, TypeInv, TypeOK, Shape
<1>3. CASE CloseFile(t, x.file) /\ xfer' = [xfer EXCEPT ![t] = [x EXCEPT !.st = "refused"]]
  <2> DEFINE y == [x EXCEPT !.st = "refused"]
  <2>1. y \in XferRec /\ y.st = "refused" /\ y.buf = x.buf /\ y.wp = x.wp
    BY <1>1 DEF XferRec
  <2>2. rlock' \in [File -> SUBSET Pos] /\ bare' \subseteq Xfer
    BY <1>3, ClosingTypes
  <2>3. xfer' = [xfer EXCEPT ![t] = y]
    BY <1>3
  <2> HIDE DEF y
  <2> QED BY <1>1, <1>2, <2>1, <2>2, <2>3, TypesAfter
<1>4. CASE /\ ~BadLock(x.off, x.len) /\ lock_file(x) /\ UNCHANGED bare
           /\ xfer' = [xfer EXCEPT ![t] = Accepted(x)]
  <2>1. x.off \in Pos /\ XferBytes(x.off, x.len, x.fsize) \in 0 .. SizeMod - 1
    <3>1. /\ x.off \in -(SizeMod \div 2) .. MaxOff /\ x.len \in 0 .. SizeMod - 1
          /\ x.fsize \in 0 .. MaxSize
      BY <1>1 DEF XferRec
    <3>2. x.off \in Int /\ x.off <= MaxOff
      BY <3>1, Offsets
    <3>3. x.off >= 0
      BY <1>4, <3>2 DEF BadLock
    <3>4. x.off \in Pos
      BY <3>2, <3>3, Offsets DEF Pos
    <3>5. XferBytes(x.off, x.len, x.fsize) \in 0 .. SizeMod - 1
      BY <3>1, <3>2, Sizes
    <3> QED BY <3>4, <3>5
  <2>2. /\ Accepted(x) \in XferRec /\ Accepted(x).st = "moving" /\ Accepted(x).buf = x.buf
        /\ Accepted(x).wp = x.wp /\ Accepted(x).file = x.file
    BY <1>1, <2>1 DEF XferRec, Accepted
  <2>3. rlock' \in [File -> SUBSET Pos] /\ bare' \subseteq Xfer
    <3>1. LockRange(x.off, x.len) \subseteq Pos
      BY DEF LockRange
    <3> QED BY <1>4, <3>1 DEF TypeInv, TypeOK, lock_file
  <2> QED BY <1>1, <1>2, <1>4, <2>2, <2>3, TypesAfter
<1> QED BY <1>3, <1>4, AddXferCases

(* The record of a transfer that has ended. *)
Ended(x, how) ==
  [x EXCEPT !.st = how, !.left = 0, !.pos = 0, !.seen = 0, !.buf = <<>>, !.wp = 0]

(* The record of a transfer that has been deleted is of the right type and  *)
(* keeps its request.                                                       *)
LEMMA EndedType ==
  ASSUME NEW x \in XferRec, NEW how \in {"complete", "stopped"}
  PROVE  /\ Ended(x, how) \in XferRec /\ Ended(x, how).st = how /\ Ended(x, how).buf = <<>>
         /\ Ended(x, how).wp = 0 /\ Ended(x, how).off = x.off /\ Ended(x, how).len = x.len
         /\ Ended(x, how).fsize = x.fsize /\ Ended(x, how).cmd = x.cmd /\ Ended(x, how).file = x.file
<1>1. /\ <<>> \in Seq(Byte) /\ 0 \in Pos /\ 0 \in 0 .. SizeMod - 1 /\ 0 \in 0 .. BlkSize
      /\ 0 \in 0 .. MaxWrites
  BY EmptySeq, Offsets DEF Pos
<1> QED BY <1>1 DEF Ended, XferRec

(* delete_registered_xfer leaves such a record behind. *)
LEMMA FinishEnds ==
  ASSUME TypeInv, NEW t \in Xfer, NEW how, Finish(t, how)
  PROVE  xfer' = [xfer EXCEPT ![t] = Ended(xfer[t], how)]
<1>1. xfer \in [Xfer -> XferRec] /\ xfer[t] \in XferRec
  BY DEF TypeInv, TypeOK
<1> QED BY <1>1 DEF Finish, Ended, XferRec

(* Deleting a transfer keeps the invariant. *)
LEMMA FinishKeepsTypes ==
  ASSUME TypeInv, NEW t \in Xfer, NEW how \in {"complete", "stopped"}, Finish(t, how),
         out' \in [Xfer -> Seq(Byte)], \A u \in Xfer \ {t} : out'[u] = out[u],
         capacity' \in {0, PipeCap}, aborted' \in BOOLEAN, UNCHANGED <<platform, fileVars>>
  PROVE  TypeInv'
<1>1. xfer[t] \in XferRec
  BY DEF TypeInv, TypeOK
<1>2. /\ Ended(xfer[t], how) \in XferRec /\ Ended(xfer[t], how).st = how
      /\ Ended(xfer[t], how).buf = <<>> /\ Ended(xfer[t], how).wp = 0
  BY <1>1, EndedType
<1>3. Len(Ended(xfer[t], how).buf) <= Ended(xfer[t], how).wp
  BY <1>2, EmptySeq
<1>4. xfer' = [xfer EXCEPT ![t] = Ended(xfer[t], how)]
  BY FinishEnds
<1>5. rlock' \in [File -> SUBSET Pos] /\ bare' \subseteq Xfer
  BY ClosingTypes DEF Finish
<1>6. busy' = None /\ total' \in 0 .. PipeCap /\ total' < PipeCap
  BY Offsets DEF Finish
<1> QED BY <1>2, <1>3, <1>4, <1>5, <1>6, TypesAfter

(* A call is asked for no more than is left, and no more than the turn's    *)
(* share.                                                                   *)
LEMMA WriteSize ==
  ASSUME TypeInv, NEW t \in Xfer, NEW cap \in {0, PipeCap}
  PROVE  /\ write_size(xfer[t], cap) \in Int /\ write_size(xfer[t], cap) <= xfer[t].left
         /\ write_size(xfer[t], cap) <= cap - total
<1>1. xfer[t].left \in 0 .. SizeMod - 1 /\ total \in 0 .. PipeCap
  BY DEF TypeInv, TypeOK, XferRec
<1>2. xfer[t].left \in Int /\ cap - total \in Int /\ BlkSize \in Int
  BY <1>1, Offsets
<1> DEFINE left == xfer[t].left
           room == cap - total
           m == MinOf(left, room)
<1> HIDE DEF left, room
<1>3. m \in Int /\ m <= left /\ m <= room
  BY <1>2 DEF MinOf, left, room
<1> HIDE DEF m
<1>4. MinOf(BlkSize, m) \in Int /\ MinOf(BlkSize, m) <= left /\ MinOf(BlkSize, m) <= room
  BY <1>2, <1>3 DEF MinOf, left, room
<1> QED BY <1>4 DEF m, left, room, write_size

(* The record of a transfer after a call that left it something to do. *)
Moved(x, res) ==
  [x EXCEPT !.left = nbytes_left(x, res.ret), !.pos = res.pos, !.buf = res.buf, !.wp = res.wp]

(* The record of a transfer after a call is of the right type and keeps its *)
(* request.                                                                 *)
LEMMA MovedType ==
  ASSUME NEW x \in XferRec, NEW res, ResultOK(res)
  PROVE  /\ Moved(x, res) \in XferRec /\ Moved(x, res).st = x.st /\ Moved(x, res).buf = res.buf
         /\ Moved(x, res).wp = res.wp /\ Moved(x, res).off = x.off /\ Moved(x, res).len = x.len
         /\ Moved(x, res).fsize = x.fsize /\ Moved(x, res).cmd = x.cmd /\ Moved(x, res).file = x.file
         /\ Moved(x, res).pos = res.pos /\ Moved(x, res).left = nbytes_left(x, res.ret)
<1>1. nbytes_left(x, res.ret) \in 0 .. SizeMod - 1
  <2>1. x.left \in 0 .. SizeMod - 1 /\ res.ret \in Int
    BY DEF XferRec, ResultOK
  <2>2. x.left - res.ret \in Int
    BY <2>1, Offsets
  <2>3. (x.left - res.ret) % SizeMod \in 0 .. SizeMod - 1
    BY <2>2, Offsets, RemainderInRange
  <2> QED BY <2>1, <2>3 DEF nbytes_left
<1>2. res.pos \in Pos /\ res.buf \in Seq(Byte) /\ res.wp \in 0 .. BlkSize
  BY DEF ResultOK
<1> HIDE DEF nbytes_left
<1> QED BY <1>1, <1>2 DEF Moved, XferRec

(* A transfer in transfer_file meets the premise of the lemmas about moving *)
(* data.                                                                    *)
LEMMA AtWorkNow ==
  ASSUME TypeInv, NEW t \in Xfer, NEW n \in Int, n > 0, Moving(t)
  PROVE  AtWork(xfer[t], n) /\ Len(xfer[t].buf) <= xfer[t].wp
BY DEF TypeInv, TypeOK, Shape, Moving, AtWork

(* What one call that moved data does to the state. *)
LEMMA ProceedCases ==
  ASSUME TypeInv, NEW t \in Xfer, NEW cap \in {0, PipeCap}, NEW res, ResultOK(res),
         Proceed(t, res, cap)
  PROVE  /\ out' = [out EXCEPT ![t] = out[t] \o res.sent] /\ out[t] \o res.sent \in Seq(Byte)
         /\ \/ Finish(t, "complete") /\ nbytes_left(xfer[t], res.ret) = 0
            \/ /\ xfer' = [xfer EXCEPT ![t] = Moved(xfer[t], res)]
               /\ nbytes_left(xfer[t], res.ret) # 0
               /\ UNCHANGED <<rlock, bare>>
               /\ busy' \in {t, None} /\ total' \in 0 .. PipeCap /\ total' < PipeCap
<1>1. xfer \in [Xfer -> XferRec] /\ xfer[t] \in XferRec /\ out[t] \in Seq(Byte) /\ res.sent \in Seq(Byte)
  BY DEF TypeInv, TypeOK, ResultOK
<1>2. out' = [out EXCEPT ![t] = out[t] \o res.sent] /\ out[t] \o res.sent \in Seq(Byte)
  BY <1>1, ConcatProperties DEF Proceed
<1>3. CASE nbytes_left(xfer[t], res.ret) = 0
  BY <1>2, <1>3 DEF Proceed
<1>4. CASE nbytes_left(xfer[t], res.ret) # 0
  <2>1. xfer' = [xfer EXCEPT ![t] = Moved(xfer[t], res)]
    BY <1>1, <1>4 DEF Proceed, Moved, XferRec
  <2>2. UNCHANGED <<rlock, bare>> /\ busy' \in {t, None}
    BY <1>4 DEF Proceed
  <2>3. total' \in 0 .. PipeCap /\ total' < PipeCap
    <3> DEFINE sum == IF res.ret > 0 THEN total + res.ret ELSE total
    <3>1. total' = IF res.ret > 0 /\ sum < cap THEN sum ELSE 0
      BY <1>4 DEF Proceed
    <3>2. total \in 0 .. PipeCap /\ res.ret \in Int /\ PipeCap \in Nat \ {0}
      BY Offsets DEF TypeInv, TypeOK, ResultOK
    <3>3. sum \in Nat
      BY <3>2
    <3> HIDE DEF sum
    <3> QED BY <3>1, <3>2, <3>3
  <2> QED BY <1>2, <1>4, <2>1, <2>2, <2>3
<1> QED BY <1>3, <1>4

(* A round of the loop of transfer_file keeps the invariant. *)
LEMMA TransferKeepsTypes ==
  ASSUME TypeInv, NEW t \in Xfer, transfer_file(t)
  PROVE  TypeInv'
<1>1. PICK cap \in pipe_capacity :
        LET n == write_size(xfer[t], cap) IN
        /\ capacity' = cap
        /\ \/ /\ n = 0
              /\ assert(FALSE) /\ busy' = t
              /\ UNCHANGED <<xfer, total, out, rlock, bare>>
           \/ /\ n > 0
              /\ \E res \in file_move(xfer[t], n) : Proceed(t, res, cap)
           \/ /\ n > 0 /\ "io" \in Troubles
              /\ Finish(t, "stopped")
              /\ UNCHANGED <<out, aborted>>
  BY DEF transfer_file
<1>2. cap \in {0, PipeCap} /\ UNCHANGED <<platform, fileVars>> /\ Moving(t)
  BY DEF pipe_capacity, TypeInv, TypeOK, transfer_file
<1>3. CASE /\ assert(FALSE) /\ busy' = t
           /\ UNCHANGED <<xfer, total, out, rlock, bare>>
  BY <1>1, <1>2, <1>3 DEF assert, TypeInv, TypeOK, Shape, fileVars
<1>4. CASE Finish(t, "stopped") /\ UNCHANGED <<out, aborted>>
  <2>1. out \in [Xfer -> Seq(Byte)] /\ aborted \in BOOLEAN
    BY DEF TypeInv, TypeOK
  <2> QED BY <1>1, <1>2, <1>4, <2>1, FinishKeepsTypes
<1>5. ASSUME write_size(xfer[t], cap) > 0,
             NEW res \in file_move(xfer[t], write_size(xfer[t], cap)), Proceed(t, res, cap)
      PROVE  TypeInv'
  <2>1. AtWork(xfer[t], write_size(xfer[t], cap)) /\ Len(xfer[t].buf) <= xfer[t].wp
    BY <1>2, <1>5, WriteSize, AtWorkNow
  <2>2. ResultOK(res) /\ Len(res.buf) <= res.wp
    BY <2>1, MoveOK
  <2>3. aborted' \in BOOLEAN /\ xfer[t] \in XferRec /\ out \in [Xfer -> Seq(Byte)]
    BY <1>5 DEF Proceed, assert, TypeInv, TypeOK
  <2>4. out' \in [Xfer -> Seq(Byte)] /\ \A u \in Xfer \ {t} : out'[u] = out[u]
    BY <1>2, <1>5, <2>2, <2>3, ProceedCases
  <2>5. CASE Finish(t, "complete")
    BY <1>1, <1>2, <2>3, <2>4, <2>5, FinishKeepsTypes
  <2>6. CASE /\ xfer' = [xfer EXCEPT ![t] = Moved(xfer[t], res)] /\ UNCHANGED <<rlock, bare>>
             /\ busy' \in {t, None} /\ total' \in 0 .. PipeCap /\ total' < PipeCap
    <3>1. /\ Moved(xfer[t], res) \in XferRec /\ Moved(xfer[t], res).st = "moving"
          /\ Moved(xfer[t], res).file \in File
          /\ Len(Moved(xfer[t], res).buf) <= Moved(xfer[t], res).wp
      BY <1>2, <2>1, <2>2, <2>3, MovedType, ZenonT(60) DEF Moving, AtWork
    <3>2. rlock' \in [File -> SUBSET Pos] /\ bare' \subseteq Xfer
      BY <2>6 DEF TypeInv, TypeOK
    <3> QED BY <1>1, <1>2, <2>3, <2>4, <2>6, <3>1, <3>2, TypesAfter
  <2> QED BY <1>2, <1>5, <2>2, <2>5, <2>6, ProceedCases
<1> QED BY <1>1, <1>3, <1>4, <1>5

(* Every step keeps the invariant. *)
LEMMA TypeStep == TypeInv /\ [Next]_vars => TypeInv'
<1> SUFFICES ASSUME TypeInv, [Next]_vars PROVE TypeInv'
  OBVIOUS
<1>1. CASE UNCHANGED vars
  BY <1>1 DEF vars, fileVars, TypeInv, TypeOK, Shape
<1>2. CASE Writer
  BY <1>2, WriterKeepsTypes
<1>3. ASSUME NEW t \in Xfer, NEW f \in File, NEW cmd \in {"READ", "SEND"}, NEW r \in Requests,
             Open(t, f, cmd, r)
      PROVE  TypeInv'
  BY <1>3, OpenKeepsTypes
<1>4. ASSUME NEW t \in Xfer, delete_registered_xfer(t) PROVE TypeInv'
  <2>1. /\ Finish(t, "stopped") /\ UNCHANGED <<platform, fileVars, capacity, out, aborted>>
        /\ out \in [Xfer -> Seq(Byte)] /\ aborted \in BOOLEAN /\ capacity \in {0, PipeCap}
    BY <1>4 DEF delete_registered_xfer, TypeInv, TypeOK
  <2> QED BY <2>1, FinishKeepsTypes
<1> QED BY <1>1, <1>2, <1>3, <1>4, AddXferKeepsTypes, TransferKeepsTypes DEF Next, Server

(* Whatever the server and the other process do, in any number of           *)
(* transfers and on both platforms, the types hold; the buffer in user      *)
(* space never overflows and no offset leaves the range of off_t.           *)
THEOREM TypeCorrect == Spec => []TypeOK
<1>1. TypeInv => TypeOK
  BY DEF TypeInv
<1> QED BY <1>1, TypeInit, TypeStep, PTL DEF Spec

(* One round of transfer_file, as the other proofs use it. *)
LEMMA TransferCases ==
  ASSUME TypeInv, NEW t \in Xfer, transfer_file(t)
  PROVE  /\ Moving(t) /\ UNCHANGED <<platform, fileVars>>
         /\ \/ UNCHANGED <<xfer, out, rlock, bare>>
            \/ Finish(t, "stopped") /\ UNCHANGED out
            \/ \E n \in Nat \ {0} : \E res \in file_move(xfer[t], n) :
                 /\ n <= xfer[t].left /\ ResultOK(res)
                 /\ out' = [out EXCEPT ![t] = out[t] \o res.sent]
                 /\ \/ Finish(t, "complete") /\ nbytes_left(xfer[t], res.ret) = 0
                    \/ /\ xfer' = [xfer EXCEPT ![t] = Moved(xfer[t], res)]
                       /\ nbytes_left(xfer[t], res.ret) # 0
                       /\ UNCHANGED <<rlock, bare>>
<1>1. PICK cap \in pipe_capacity :
        LET n == write_size(xfer[t], cap) IN
        \/ UNCHANGED <<xfer, total, out, rlock, bare>>
        \/ /\ n > 0
           /\ \E res \in file_move(xfer[t], n) : Proceed(t, res, cap)
        \/ Finish(t, "stopped") /\ UNCHANGED <<out, aborted>>
  BY DEF transfer_file
<1>2. cap \in {0, PipeCap} /\ Moving(t) /\ UNCHANGED <<platform, fileVars>>
  BY DEF pipe_capacity, TypeInv, TypeOK, transfer_file
<1> DEFINE n == write_size(xfer[t], cap)
<1>3. n \in Int /\ n <= xfer[t].left
  BY <1>2, WriteSize
<1> HIDE DEF n
<1>4. ASSUME n > 0, NEW res \in file_move(xfer[t], n), Proceed(t, res, cap)
      PROVE  /\ n \in Nat \ {0} /\ ResultOK(res)
             /\ out' = [out EXCEPT ![t] = out[t] \o res.sent]
             /\ \/ Finish(t, "complete") /\ nbytes_left(xfer[t], res.ret) = 0
                \/ /\ xfer' = [xfer EXCEPT ![t] = Moved(xfer[t], res)]
                   /\ nbytes_left(xfer[t], res.ret) # 0
                   /\ UNCHANGED <<rlock, bare>>
  <2>1. AtWork(xfer[t], n) /\ Len(xfer[t].buf) <= xfer[t].wp
    BY <1>2, <1>3, <1>4, AtWorkNow
  <2>2. ResultOK(res)
    BY <1>4, <2>1, MoveOK
  <2>3. n \in Nat \ {0}
    BY <1>3, <1>4
  <2>4. /\ out' = [out EXCEPT ![t] = out[t] \o res.sent]
        /\ \/ Finish(t, "complete") /\ nbytes_left(xfer[t], res.ret) = 0
           \/ /\ xfer' = [xfer EXCEPT ![t] = Moved(xfer[t], res)]
              /\ nbytes_left(xfer[t], res.ret) # 0
              /\ UNCHANGED <<rlock, bare>>
    BY <1>2, <1>4, <2>2, ProceedCases
  <2> QED BY <2>2, <2>3, <2>4
<1> QED BY <1>1, <1>2, <1>3, <1>4 DEF n
=============================================================================
