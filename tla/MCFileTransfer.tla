--------------------------- MODULE MCFileTransfer ---------------------------
(***************************************************************************)
(* FileTransfer with two transfers and a few ranges, for TLC.              *)
(***************************************************************************)
EXTENDS FileTransfer, TLC

CONSTANTS f1, x1, x2

XferSymmetry == Permutations(Xfer)

(* The whole file, part of it, the empty rest of a file of two bytes, one   *)
(* whose end wraps around, and a negative offset.                           *)
SomeRequests == {<<0, 0>>, <<1, 1>>, <<2, 0>>, <<1, SizeMod - 1>>, <<-1, 1>>}

(* The check of a range against its definition, for every offset, length    *)
(* and size: where the sum can be represented it admits the ranges that lie *)
(* in the file, and the number of bytes is that of the range.               *)
ASSUME RangeCheckExact ==
  \A off \in Pos, len \in 0 .. SizeMod - 1, fsize \in 0 .. MaxOff :
    off + len < SizeMod =>
      LET last == IF len > 0 THEN off + len ELSE fsize
      IN  /\ RangeOK(off, len, fsize) <=> fsize > 0 /\ off <= last /\ last <= fsize
          /\ RangeOK(off, len, fsize) =>
               XferBytes(off, len, fsize) = Cardinality(off .. last - 1)
=============================================================================
