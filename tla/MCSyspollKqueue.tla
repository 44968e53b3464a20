--------------------------- MODULE MCSyspollKqueue ---------------------------
(***************************************************************************)
(* SyspollKqueue with two transfers and two timers, for TLC.               *)
(***************************************************************************)
EXTENDS SyspollKqueue, TLC

CONSTANTS x1, x2, t1, t2, d1, d2, d3

KqueueSymmetry == Permutations(Xfer) \cup Permutations(Timer) \cup Permutations(Fd)
=============================================================================
