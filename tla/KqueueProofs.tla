---------------------------- MODULE KqueueProofs ----------------------------
(* Proofs about SyspollKqueue, for arrays of any size and any number of     *)
(* transfers, timers and descriptors.                                       *)
EXTENDS SyspollKqueue, FiniteSetTheorems, TLAPS

(* An array with the changes in it. *)
IsQueue(q) ==
  /\ q = [events |-> q.events, size |-> q.size]
  /\ DOMAIN q.events = 0 .. capacity - 1
  /\ q.size \in 0 .. capacity + 1

(* The array p after at most n changes, unless there was no room for one:   *)
(* below its new size, and only there, entries may have been overwritten.   *)
Adds(p, q, n) ==
  /\ IsQueue(q)
  /\ p.size <= q.size
  /\ q.size <= capacity => q.size <= p.size + n
  /\ \A j \in 0 .. capacity - 1 : j >= q.size => q.events[j] = p.events[j]

(* While a batch is being handled the events behind the changes are as they *)
(* were reported, and there are no more changes than there have been events *)
(* and changes that none of these has made room for.                        *)
BatchInv ==
  pc \in {"events", "reqfd"} =>
    /\ \A j \in i .. nevents - 1 : j >= size => events[j] = reported[j]
    /\ size <= i + extra

(* The invariant of the array. *)
ArrayInv ==
  /\ IsQueue(Queue)
  /\ size <= capacity \/ pc = "abort"
  /\ nevents \in 0 .. capacity
  /\ i \in Nat /\ extra \in Nat
  /\ BatchInv

(* The array has a positive number of places. *)
LEMMA Capacity == capacity \in Nat /\ capacity > 0
  BY KqueueAssumption DEF capacity

(* One change is written behind the others. *)
LEMMA kq_addAdds ==
  ASSUME NEW q, IsQueue(q), NEW e
  PROVE  Adds(q, kq_add(q, e), 1)
<1> DEFINE b == [q.events EXCEPT ![q.size] = e]
<1>1. CASE HasRoom(q)
  <2>1. kq_add(q, e) = [events |-> b, size |-> q.size + 1]
    BY <1>1 DEF kq_add
  <2>2. DOMAIN b = 0 .. capacity - 1 /\ \A j \in 0 .. capacity - 1 : j # q.size => b[j] = q.events[j]
    BY DEF IsQueue
  <2> HIDE DEF b
  <2> QED
    BY <1>1, <2>1, <2>2, Capacity DEF Adds, IsQueue, HasRoom
<1>2. CASE ~HasRoom(q)
  <2>1. kq_add(q, e) = [events |-> q.events, size |-> capacity + 1]
    BY <1>2 DEF kq_add, IsQueue
  <2> QED
    BY <2>1, Capacity DEF Adds, IsQueue
<1> QED
  BY <1>1, <1>2

(* An array without any further changes. *)
LEMMA UnchangedAdds ==
  ASSUME NEW q, IsQueue(q)
  PROVE  Adds(q, q, 0)
  BY Capacity DEF Adds, IsQueue

(* A failing assertion leaves the array alone. *)
LEMMA assert_roomAdds ==
  ASSUME NEW q, IsQueue(q)
  PROVE  Adds(q, assert_room(q), 0)
<1>1. CASE HasRoom(q)
  BY <1>1, UnchangedAdds DEF assert_room
<1>2. CASE ~HasRoom(q)
  <2>1. assert_room(q) = [events |-> q.events, size |-> capacity + 1]
    BY <1>2 DEF assert_room, IsQueue
  <2> QED
    BY <2>1, Capacity DEF Adds, IsQueue
<1> QED
  BY <1>1, <1>2

(* Changes after changes are changes, and add up. *)
LEMMA AddsTrans ==
  ASSUME NEW p, NEW q, NEW r, NEW m \in Nat, NEW n \in Nat,
         IsQueue(p), Adds(p, q, m), Adds(q, r, n)
  PROVE  Adds(p, r, m + n)
  BY Capacity DEF Adds, IsQueue

(* syspoll_register adds one change: a transfer, a response and the request *)
(* socket wait for one kind of event each.                                  *)
LEMMA syspoll_registerAdds ==
  ASSUME NEW q, IsQueue(q), NEW ident, NEW filter, NEW r
  PROVE  Adds(q, syspoll_register(q, ident, filter, r), 1)
<1> DEFINE e == EV_SET(ident, filter, "add", r)
<1> HIDE DEF e
<1>1. Adds(q, kq_add(q, e), 1) /\ Adds(q, assert_room(q), 0)
  BY kq_addAdds, assert_roomAdds
<1>2. Adds(q, assert_room(kq_add(q, e)), 1 + 0)
  <2>1. IsQueue(kq_add(q, e))
    BY <1>1 DEF Adds
  <2>2. Adds(kq_add(q, e), assert_room(kq_add(q, e)), 0)
    BY <2>1, assert_roomAdds
  <2> QED
    BY <1>1, <2>2, AddsTrans
<1>3. Adds(q, kq_add(assert_room(q), e), 0 + 1)
  <2>1. IsQueue(assert_room(q))
    BY <1>1 DEF Adds
  <2>2. Adds(assert_room(q), kq_add(assert_room(q), e), 1)
    BY <2>1, kq_addAdds
  <2> QED
    BY <1>1, <2>2, AddsTrans
<1> QED
  BY <1>2, <1>3 DEF syspoll_register, e

(* syspoll_deregister adds one change. *)
LEMMA syspoll_deregisterAdds ==
  ASSUME NEW q, IsQueue(q), NEW ident
  PROVE  Adds(q, syspoll_deregister(q, ident), 1)
  BY kq_addAdds DEF syspoll_deregister

(* syspoll_timer adds one change. *)
LEMMA syspoll_timerAdds ==
  ASSUME NEW q, IsQueue(q), NEW r
  PROVE  Adds(q, syspoll_timer(q, r), 1)
  BY kq_addAdds DEF syspoll_timer

(* A handler that only adds to the array, no more than it has made room for *)
(* or is counted, keeps the invariant.                                      *)
LEMMA QueuedKeeps ==
  ASSUME ArrayInv, NEW q, NEW n \in Nat, Adds(Queue, q, n), NEW l, Queued(q, l),
         nevents' = nevents, reported' = reported, i' \in {i, i + 1}, extra' \in Nat,
         l \in {"events", "reqfd"} => pc \in {"events", "reqfd"} /\ i + extra + n <= i' + extra'
  PROVE  ArrayInv'
<1> USE Capacity
<1>1. IsQueue(Queue)' /\ size <= size'
  BY DEF Queued, Adds, IsQueue, Queue, ArrayInv
<1>2. (size <= capacity \/ pc = "abort")'
  BY DEF Queued, Adds, IsQueue
<1>3. (nevents \in 0 .. capacity)' /\ (i \in Nat)' /\ (extra \in Nat)'
  BY DEF ArrayInv
<1>4. ASSUME pc' \in {"events", "reqfd"}
      PROVE  /\ pc \in {"events", "reqfd"} /\ i + extra + n <= i' + extra'
             /\ q.size <= capacity
  BY <1>4 DEF Queued, Adds, IsQueue
<1>5. ASSUME pc' \in {"events", "reqfd"}, NEW j \in i' .. nevents' - 1, j >= size'
      PROVE  events'[j] = reported'[j]
  <2>1. j \in 0 .. capacity - 1 /\ j \in i .. nevents - 1 /\ j >= size
    BY <1>1, <1>5 DEF ArrayInv, IsQueue, Queue
  <2>2. events'[j] = events[j]
    BY <1>5, <2>1 DEF Adds, Queued, Queue
  <2> QED
    BY <1>4, <1>5, <2>1, <2>2 DEF ArrayInv, BatchInv
<1>6. ASSUME pc' \in {"events", "reqfd"} PROVE size' <= i' + extra'
  <2>1. size' = q.size /\ q.size <= size + n
    BY <1>4, <1>6 DEF Queued, Adds, Queue
  <2>2. size <= i + extra
    BY <1>4, <1>6 DEF ArrayInv, BatchInv
  <2>3. size \in Nat /\ size' \in Nat /\ i \in Nat /\ extra \in Nat
    BY <1>1 DEF ArrayInv, IsQueue, Queue
  <2>4. i + extra + n <= i' + extra' /\ i' \in Nat /\ extra' \in Nat
    BY <1>3, <1>4, <1>6
  <2>5. size' <= i + extra + n
    BY <2>1, <2>2, <2>3
  <2> DEFINE a == i + extra + n
             b == i' + extra'
  <2>6. a \in Nat
    BY <2>3
  <2>7. b \in Nat
    <3>1. \A c, d \in Nat : c + d \in Nat
      OBVIOUS
    <3> QED
      BY <2>4, <3>1, Zenon
  <2>8. a <= b
    BY <2>4
  <2>9. size' <= a
    BY <2>5
  <2> HIDE DEF a, b
  <2>10. size' <= b
    BY <2>3, <2>6, <2>7, <2>8, <2>9
  <2> QED
    BY <2>10 DEF b
<1> QED
  BY <1>1, <1>2, <1>3, <1>5, <1>6 DEF ArrayInv, BatchInv

(* Deleting a transfer makes one change, or two with a response to be       *)
(* retried.                                                                 *)
LEMMA DeleteAdds ==
  ASSUME NEW q, IsQueue(q), NEW keep, NEW x, NEW f
  PROVE  Adds(q, syspoll_deregister(
                   IF keep # NULL THEN syspoll_register(q, keep, "write", R(x)) ELSE q, f),
              IF keep # NULL THEN 2 ELSE 1)
<1> DEFINE p == IF keep # NULL THEN syspoll_register(q, keep, "write", R(x)) ELSE q
           m == IF keep # NULL THEN 1 ELSE 0
<1>1. Adds(q, syspoll_register(q, keep, "write", R(x)), 1) /\ Adds(q, q, 0)
  BY syspoll_registerAdds, UnchangedAdds
<1>2. Adds(q, p, m)
  BY <1>1
<1>3. m \in Nat /\ m + 1 = IF keep # NULL THEN 2 ELSE 1
  OBVIOUS
<1> HIDE DEF p, m
<1>4. IsQueue(p)
  BY <1>2 DEF Adds
<1>5. Adds(p, syspoll_deregister(p, f), 1)
  BY <1>4, syspoll_deregisterAdds
<1>6. Adds(q, syspoll_deregister(p, f), m + 1)
  BY <1>2, <1>3, <1>5, AddsTrans
<1> QED
  BY <1>3, <1>6 DEF p

(* delete_registered_xfer keeps the invariant: its own event has made room  *)
(* for one change, and the response to be retried is counted.               *)
LEMMA DeleteKeeps ==
  ASSUME ArrayInv, NEW x, NEW keep, NEW l, DeleteXfer(x, Queue, keep, l),
         nevents' = nevents, reported' = reported, i' \in {i, i + 1},
         l \in {"events", "reqfd"} => pc \in {"events", "reqfd"} /\ i' = i + 1
  PROVE  ArrayInv'
<1> DEFINE q == syspoll_deregister(
                  IF keep # NULL THEN syspoll_register(Queue, keep, "write", R(x)) ELSE Queue, fd[X(x)])
           n == IF keep # NULL THEN 2 ELSE 1
<1>1. Queued(q, l)
  BY DEF DeleteXfer
<1>2. Adds(Queue, q, n)
  BY DeleteAdds DEF ArrayInv
<1>3. n \in Nat /\ extra' \in Nat /\ extra' = extra + n - 1
  BY DEF DeleteXfer, ArrayInv
<1> HIDE DEF q, n
<1>4. i' = i + 1 => i + extra + n <= i' + extra'
  <2>1. i \in Nat /\ extra \in Nat
    BY DEF ArrayInv
  <2> QED
    BY <1>3, <2>1
<1> QED
  BY <1>1, <1>2, <1>3, <1>4, QueuedKeeps

(* kevent(2) fills the array anew: at first all of it is as reported. *)
LEMMA ReportKeeps ==
  ASSUME NEW s, IsFiniteSet(s), Cardinality(s) <= capacity, Report(s)
  PROVE  ArrayInv'
<1>1. Cardinality(s) \in Nat
  BY FS_CardinalityType
<1>2. PICK b \in Placed(s) : events' = b /\ reported' = b
  BY DEF Report
<1>3. DOMAIN b = 0 .. capacity - 1
  BY DEF Placed
<1>4. IsQueue(Queue)' /\ (size <= capacity)'
  BY <1>2, <1>3, Capacity DEF Report, IsQueue, Queue
<1>5. (nevents \in 0 .. capacity)' /\ (i \in Nat)' /\ (extra \in Nat)'
  BY <1>1, Capacity DEF Report
<1>6. BatchInv'
  BY <1>2 DEF BatchInv, Report
<1> QED
  BY <1>4, <1>5, <1>6 DEF ArrayInv

(* No more changes are refused than there are. *)
LEMMA ErrorsFit ==
  ASSUME ArrayInv, pc = "kevent"
  PROVE  LET errors == {[events[j] EXCEPT !.flags = "error"] : j \in Refused}
         IN  IsFiniteSet(errors) /\ Cardinality(errors) <= capacity
<1> DEFINE errors == {[events[j] EXCEPT !.flags = "error"] : j \in Refused}
           f == [j \in Refused |-> [events[j] EXCEPT !.flags = "error"]]
<1>1. size \in 0 .. capacity
  BY Capacity DEF ArrayInv, IsQueue, Queue
<1>2. IsFiniteSet(0 .. size - 1) /\ Cardinality(0 .. size - 1) <= capacity
                                 /\ Cardinality(0 .. size - 1) \in Nat
  <2> DEFINE n == size - 1
  <2>1. n \in Int /\ 0 \in Int
    BY <1>1, Capacity
  <2>2. n + 1 <= capacity /\ n >= -1
    BY <1>1, Capacity
  <2> HIDE DEF n
  <2>3. IsFiniteSet(0 .. n) /\ Cardinality(0 .. n) = IF 0 > n THEN 0 ELSE n - 0 + 1
    BY <2>1, FS_Interval
  <2>4. Cardinality(0 .. n) <= capacity /\ Cardinality(0 .. n) \in Nat
    BY <2>1, <2>2, <2>3, Capacity
  <2> QED
    BY <2>3, <2>4 DEF n
<1>3. Refused \in SUBSET (0 .. size - 1)
  BY DEF Refused
<1>4. IsFiniteSet(Refused) /\ Cardinality(Refused) <= Cardinality(0 .. size - 1)
  BY <1>2, <1>3, FS_Subset
<1>5. f \in Surjection(Refused, errors)
  BY DEF Surjection
<1>6. IsFiniteSet(errors) /\ Cardinality(errors) <= Cardinality(Refused)
  BY <1>4, <1>5, FS_Surjection
<1> HIDE DEF errors
<1>7. Cardinality(errors) \in Nat /\ Cardinality(Refused) \in Nat
  BY <1>4, <1>6, FS_CardinalityType
<1>8. Cardinality(errors) <= capacity
  BY <1>2, <1>4, <1>6, <1>7, Capacity
<1> QED
  BY <1>6, <1>8 DEF errors

(* A step that touches neither the array nor what was reported, and goes on *)
(* at i or behind it.                                                       *)
LEMMA ArrayUntouched ==
  ASSUME ArrayInv, UNCHANGED <<events, size, nevents, reported, extra>>, i' \in {i, i + 1},
         pc \in {"abort", "exited", "uaf"} => pc' = pc,
         pc' \in {"events", "reqfd"} => pc \in {"events", "reqfd"}
  PROVE  ArrayInv'
<1>1. IsQueue(Queue)' /\ (size <= capacity \/ pc = "abort")' /\ (nevents \in 0 .. capacity)'
  BY DEF ArrayInv, IsQueue, Queue
<1>2. (i \in Nat)' /\ (extra \in Nat)'
  BY DEF ArrayInv
<1>3. ASSUME pc' \in {"events", "reqfd"}, NEW j \in i' .. nevents' - 1, j >= size'
      PROVE  events'[j] = reported'[j]
  BY <1>3, Capacity DEF ArrayInv, BatchInv
<1>4. ASSUME pc' \in {"events", "reqfd"} PROVE size' <= i' + extra'
  BY <1>4, Capacity DEF ArrayInv, BatchInv, IsQueue, Queue
<1> QED
  BY <1>1, <1>2, <1>3, <1>4 DEF ArrayInv, BatchInv

(* Every step keeps the invariant of the array. *)
LEMMA ArrayKept == ArrayInv /\ [Next]_vars => ArrayInv'
<1> SUFFICES ASSUME ArrayInv, [Next]_vars
             PROVE  ArrayInv'
  OBVIOUS
<1>0. IsQueue(Queue)
  BY DEF ArrayInv
<1>1. CASE srv_run
  <2>1. PICK f \in Fd : Queued(syspoll_register(Queue, f, "read", Reqfd), "kevent")
    BY <1>1 DEF srv_run
  <2>2. Adds(Queue, syspoll_register(Queue, f, "read", Reqfd), 1)
    BY <1>0, syspoll_registerAdds
  <2>3. UNCHANGED <<nevents, i, reported, extra>>
    BY <1>1 DEF srv_run, ghostVars
  <2>4. extra' \in Nat
    BY <2>3 DEF ArrayInv
  <2> QED
    BY <2>1, <2>2, <2>3, <2>4, QueuedKeeps
<1>2. CASE Submit
  <2> DEFINE errors == {[events[j] EXCEPT !.flags = "error"] : j \in Refused}
  <2>1. IsFiniteSet(errors) /\ Cardinality(errors) <= capacity
    BY <1>2, ErrorsFit DEF Submit
  <2>2. Report(errors)
    BY <1>2 DEF Submit
  <2> HIDE DEF errors
  <2> QED
    BY <2>1, <2>2, ReportKeeps
<1>3. CASE Return
  BY <1>3, ReportKeeps DEF Return
<1>4. CASE Fatal
  BY <1>4, ArrayUntouched DEF Fatal, arrayVars
<1>5. CASE HandleReq
  BY <1>5, ArrayUntouched DEF HandleReq, Handling, arrayVars
<1>6. CASE ReqsDone
  BY <1>6, ArrayUntouched DEF ReqsDone, ghostVars
<1>7. CASE HandleXfer
  <2>1. pc = "events" /\ i' = i + 1 /\ nevents' = nevents /\ reported' = reported
    BY <1>7 DEF HandleXfer, Handling
  <2>2. CASE UNCHANGED <<events, size, extra>>
    BY <2>1, <2>2, ArrayUntouched
  <2>3. CASE \E keep : DeleteXfer(Current.udata[2], Queue, keep, After)
    BY <2>1, <2>3, DeleteKeeps
  <2> QED
    BY <1>7, <2>2, <2>3 DEF HandleXfer
<1>8. CASE HandleTimer
  BY <1>8, ArrayUntouched DEF HandleTimer, Handling
<1>9. CASE HandleResp
  BY <1>9, ArrayUntouched DEF HandleResp, Handling
<1>10. ASSUME NEW x \in Xfer, AddXfer(x) \/ RegisterAgain(x) PROVE ArrayInv'
  <2>1. PICK f \in Fd : Queued(syspoll_register(Queue, f, "write", X(x)), "reqfd")
    BY <1>10 DEF AddXfer, RegisterAgain
  <2>2. Adds(Queue, syspoll_register(Queue, f, "write", X(x)), 1)
    BY <1>0, syspoll_registerAdds
  <2>3. pc = "reqfd" /\ UNCHANGED <<nevents, i, reported>> /\ extra' = extra + 1
    BY <1>10 DEF AddXfer, RegisterAgain
  <2>4. extra' \in Nat /\ i + extra + 1 <= i' + extra'
    BY <2>3 DEF ArrayInv
  <2> QED
    BY <2>1, <2>2, <2>3, <2>4, QueuedKeeps
<1>11. ASSUME NEW x \in Xfer, DeferredXfer(x) PROVE ArrayInv'
  BY <1>11, DeleteKeeps DEF DeferredXfer
<1>12. ASSUME NEW t \in Timer, AddTimer(t) PROVE ArrayInv'
  <2>1. Adds(Queue, syspoll_timer(Queue, T(t)), 1)
    BY <1>0, syspoll_timerAdds
  <2>2. pc = "reqfd" /\ UNCHANGED <<nevents, i, reported>> /\ extra' = extra + 1
    BY <1>12 DEF AddTimer
  <2>3. extra' \in Nat /\ i + extra + 1 <= i' + extra'
    BY <2>2 DEF ArrayInv
  <2> QED
    BY <1>12, <2>1, <2>2, <2>3, QueuedKeeps DEF AddTimer
<1>13. ASSUME NEW t \in Timer, DeferredOpen(t) PROVE ArrayInv'
  <2>1. Adds(Queue, syspoll_deregister(Queue, NULL), 1)
    BY <1>0, syspoll_deregisterAdds
  <2>2. UNCHANGED <<nevents, i, reported, extra>> /\ extra' \in Nat
    BY <1>13 DEF DeferredOpen, ghostVars, ArrayInv
  <2> QED
    BY <1>13, <2>1, <2>2, QueuedKeeps DEF DeferredOpen
<1>14. CASE DeferredDone
  BY <1>14, ArrayUntouched DEF DeferredDone, arrayVars, ghostVars
<1>15. CASE UNCHANGED vars
  BY <1>15, ArrayUntouched DEF vars, arrayVars, ghostVars
<1> QED
  BY <1>1, <1>2, <1>3, <1>4, <1>5, <1>6, <1>7, <1>8, <1>9, <1>10, <1>11, <1>12, <1>13,
     <1>14, <1>15 DEF Next

(* However many events are reported and changes made, at most one event of  *)
(* a batch is written over for every request accepted and every response    *)
(* kept in it: the changes fill the array from its beginning, the loop is   *)
(* ahead of them by an event for each of the other changes, and syspoll_get *)
(* finds what is behind as the kernel reported it (kq_add, syspoll_kevent,  *)
(* process_events).                                                         *)
THEOREM LossIsBounded == Spec => []LossBounded
<1>1. Init => ArrayInv
  <2> SUFFICES ASSUME Init PROVE ArrayInv
    OBVIOUS
  <2> DEFINE q == [events |-> [j \in 0 .. capacity - 1 |-> NoEntry], size |-> 0]
             sig == EV_SET(SIGTERM, "signal", "add", NULL)
  <2>1. IsQueue(q)
    BY Capacity DEF IsQueue
  <2>2. syspoll_new = kq_add(kq_add(q, sig), sig)
    BY DEF syspoll_new
  <2> HIDE DEF q, sig
  <2>3. IsQueue(syspoll_new)
    BY <2>1, <2>2, kq_addAdds DEF Adds
  <2>4. syspoll_new.size <= capacity
    <3>1. capacity \in Nat /\ capacity >= 2
      BY KqueueAssumption DEF capacity
    <3>2. q.size = 0
      BY DEF q
    <3>3. kq_add(q, sig).size = 1
      BY <3>1, <3>2 DEF kq_add, HasRoom
    <3>4. kq_add(kq_add(q, sig), sig).size = 2
      BY <3>1, <3>3 DEF kq_add, HasRoom
    <3> QED
      BY <2>2, <3>1, <3>4
  <2> QED
    BY <2>3, <2>4, Capacity DEF Init, ArrayInv, IsQueue, Queue, BatchInv
<1>2. ArrayInv => LossBounded
  <2> SUFFICES ASSUME ArrayInv, pc \in {"events", "reqfd"}, NEW j \in i + extra .. nevents - 1
               PROVE  events[j] = reported[j]
    BY DEF LossBounded
  <2>1. size <= i + extra /\ size \in Nat /\ i \in Nat /\ extra \in Nat /\ nevents \in Nat
    BY Capacity DEF ArrayInv, BatchInv, IsQueue, Queue
  <2>2. j \in i .. nevents - 1 /\ j >= size
    BY <2>1
  <2> QED
    BY <2>2 DEF ArrayInv, BatchInv
<1> QED
  BY <1>1, <1>2, ArrayKept, PTL DEF Spec
=============================================================================
