------------------------------ MODULE MCServer ------------------------------
(***************************************************************************)
(* Server with a handful of clients and heap addresses, for TLC.           *)
(***************************************************************************)
EXTENDS Server, TLC
LOCAL INSTANCE Bitwise

CONSTANTS c1, c2, a1, a2

(* Nothing but equality is ever asked of an address or of a client. *)
Symmetry == Permutations(Addr) \cup Permutations(Client)

(* indexof is written as the code's mask computes it. *)
ASSUME MaskIsModulo == \A hash \in 0 .. 32 : indexof(hash) = hash & (Capacity - 1)
=============================================================================
