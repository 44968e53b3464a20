----------------------------- MODULE MCLifecycle -----------------------------
(* Instances of Lifecycle for TLC. *)
EXTENDS Lifecycle, TLC

CONSTANTS s1, s2, s3

SpawnSymmetry == Permutations(Spawns)

(* All that goes wrong while the files of sockets are still removed. *)
Orderly == {"fork", "exec", "priv", "setup", "caller"}
=============================================================================
