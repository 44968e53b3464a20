--------------------------- MODULE MCClientLibrary ---------------------------
(***************************************************************************)
(* ClientLibrary with three calls and a choice of arguments, for TLC.      *)
(***************************************************************************)
EXTENDS ClientLibrary, TLC

CONSTANTS c1, c2, c3

File(op, n, nb, uid) ==
  [op |-> op, name |-> [k \in 1 .. n |-> 1], off |-> 7, len |-> 9, nonblock |-> nb, uid |-> uid]

FollowUps(calls, uid) == [op : {"SEND_OPEN", "CANCEL"}, txnid : calls, uid : {uid}]

(* Names are empty, of the greatest length or one longer; later calls are   *)
(* about the transfers of earlier ones.                                     *)
SomeArgs ==
  (c1 :> {File("FILE_OPEN", 1, TRUE, "own"), File("SEND", NameMax, FALSE, "own"),
          File("READ", NameMax, TRUE, "own")})
  @@ (c2 :> {File("READ", 0, TRUE, "own"), File("READ", 1, FALSE, "own"),
             File("SEND", NameMax + 1, FALSE, "own"), File("SEND", 1, TRUE, "other")}
            \cup FollowUps({c1}, "own"))
  @@ (c3 :> FollowUps({c1}, "own") \cup FollowUps({c1}, "other"))

SomePaths == {<<2, FALSE, 2>>, <<4, TRUE, 4>>}

(* The check of a path's length against its definition: it admits those     *)
(* that fit together with their NUL, and one that is a character too long   *)
(* if a slash had to be added.                                              *)
ASSUME PathCheckExact ==
  \A dir, name \in 0 .. SunPath + 1, slash \in BOOLEAN :
    LET len == NonName + dir + (IF slash THEN 1 ELSE 0) + name
    IN  us_make_sockpath(dir, slash, name) =
          IF len + 1 <= SunPath + (IF slash THEN 1 ELSE 0) THEN len ELSE 0
=============================================================================
