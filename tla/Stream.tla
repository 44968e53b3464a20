------------------------------- MODULE Stream -------------------------------
(***************************************************************************)
(* What the client of a transfer may count on: a request is refused, or    *)
(* else the bytes of the range it asked for, and no others, arrive one     *)
(* after the other, and the transfer is complete when all have arrived.    *)
(* It may stop short.                                                      *)
(***************************************************************************)
EXTENDS Integers, Sequences

CONSTANTS Xfer,     \* transfers
          NoFrom    \* the start of a range that is not known yet

VARIABLES phase,    \* idle, refused, moving, complete or stopped
          from,     \* the position of the first byte of the range
          want,     \* the number of bytes in it
          got       \* the positions of the bytes that have arrived, in order

streamVars == <<phase, from, want, got>>

Init ==
  /\ phase = [t \in Xfer |-> "idle"] /\ got = [t \in Xfer |-> <<>>]
  /\ from = [t \in Xfer |-> NoFrom] /\ want = [t \in Xfer |-> 0]

Refuse(t) ==
  /\ phase[t] = "idle"
  /\ phase' = [phase EXCEPT ![t] = "refused"]
  /\ UNCHANGED <<from, want, got>>

Accept(t) ==
  /\ phase[t] = "idle"
  /\ phase' = [phase EXCEPT ![t] = "moving"]
  /\ from'[t] \in Nat /\ from' = [from EXCEPT ![t] = from'[t]]
  /\ want'[t] \in Nat /\ want' = [want EXCEPT ![t] = want'[t]]
  /\ UNCHANGED got

(* The next k bytes arrive; those that complete the range end the transfer. *)
Arrive(t) ==
  LET k == Len(got'[t]) - Len(got[t])
      n == Len(got[t]) + k
  IN
  /\ phase[t] = "moving"
  /\ k > 0 /\ n <= want[t]
  /\ got' = [got EXCEPT ![t] = [i \in 1 .. n |-> from[t] + i - 1]]
  /\ phase' = [phase EXCEPT ![t] = IF n = want[t] THEN "complete" ELSE "moving"]
  /\ UNCHANGED <<from, want>>

Stop(t) ==
  /\ phase[t] = "moving"
  /\ phase' = [phase EXCEPT ![t] = "stopped"]
  /\ UNCHANGED <<from, want, got>>

Next == \E t \in Xfer : Refuse(t) \/ Accept(t) \/ Arrive(t) \/ Stop(t)

Spec == Init /\ [][Next]_streamVars
=============================================================================
