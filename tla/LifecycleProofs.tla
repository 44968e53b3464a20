--------------------------- MODULE LifecycleProofs ---------------------------
(* Proofs about Lifecycle, for any number of calls of sfd_spawn.           *)
EXTENDS Lifecycle, TLAPS

(* Where a process is decides whether the socket file is its own: with the *)
(* types of the variables this is inductive.                               *)
IndInv == TypeOK /\ Reachable

(* sfd_spawn and sfd_shutdown move no process into Bound and leave the     *)
(* file alone.                                                             *)
LEMMA CallerKeeps ==
  ASSUME IndInv, NEW i \in Spawns,
         CreatePipe(i) \/ sfd_spawn(i) \/ sfd_shutdown(i) \/ ReadInterrupted(i) \/ WaitInterrupted(i)
  PROVE  IndInv'
<1> USE SpawnsAssumption DEF ends, IndInv, TypeOK, Reachable, Status, Alive, Bound
<1>1. CASE CreatePipe(i)
  BY <1>1 DEF CreatePipe
<1>2. CASE Fork(i)
  BY <1>2 DEF Fork
<1>3. CASE CloseWriteEnd(i)
  BY <1>3 DEF CloseWriteEnd
<1>4. CASE ReadStatus(i) \/ ReadInterrupted(i)
  BY <1>4 DEF ReadStatus, ReadInterrupted
<1>5. CASE wait_child(i) \/ WaitInterrupted(i)
  BY <1>5 DEF wait_child, WaitInterrupted, Waited
<1>6. CASE sfd_shutdown(i)
  BY <1>6 DEF sfd_shutdown, End
<1> QED
  BY <1>1, <1>2, <1>3, <1>4, <1>5, <1>6 DEF sfd_spawn

(* A server process binds only a free name, and unlinks only as the owner. *)
LEMMA ServerKeeps ==
  ASSUME IndInv, NEW i \in Spawns, main(i) \/ Kill(i)
  PROVE  IndInv'
<1> USE SpawnsAssumption DEF ends, IndInv, TypeOK, Reachable, Status, Alive, Bound
<1>1. CASE StartChild(i)
  BY <1>1 DEF StartChild, proc_init_child
<1>2. CASE Main(i)
  <2>1. CASE us_serve(i)
    BY <1>2, <2>1 DEF Main, us_serve
  <2>2. CASE ~us_serve(i)
    BY <1>2, <2>2 DEF Main
  <2> QED
    BY <2>1, <2>2
<1>3. CASE SyncParent(i)
  BY <1>3 DEF SyncParent
<1>4. CASE SetUp(i)
  BY <1>4 DEF SetUp, End
<1>5. CASE srv_run(i)
  BY <1>5 DEF srv_run
<1>6. CASE us_stop_serving(i)
  <2>1. \A j \in Spawns \ {i}: child[j] \notin Bound
    BY <1>6 DEF us_stop_serving
  <2> QED
    BY <1>6, <2>1 DEF us_stop_serving, End
<1>7. CASE Fail(i)
  BY <1>7 DEF Fail, End
<1>8. CASE Kill(i)
  BY <1>8 DEF Kill, End
<1> QED
  BY <1>1, <1>2, <1>3, <1>4, <1>5, <1>6, <1>7, <1>8 DEF main

(* Every step keeps the inductive invariant. *)
LEMMA StepKeeps == IndInv /\ [Next]_vars => IndInv'
<1> SUFFICES ASSUME IndInv, [Next]_vars
             PROVE  IndInv'
  OBVIOUS
<1>1. CASE CallerEnds
  BY <1>1 DEF CallerEnds, IndInv, TypeOK, Reachable
<1>2. CASE UNCHANGED vars
  BY <1>2 DEF vars, ends, IndInv, TypeOK, Reachable
<1> QED
  BY <1>1, <1>2, CallerKeeps, ServerKeeps DEF Next

(* However many servers of one name are started, stopped and killed, and   *)
(* whatever fails on the way, the inductive invariant holds.               *)
THEOREM LifecycleInductive == Spec => []IndInv
<1>1. Init => IndInv
  BY DEF Init, IndInv, TypeOK, Reachable, Status, Bound
<1> QED
  BY <1>1, StepKeeps, PTL DEF Spec

(* A server that has bound its socket is reachable under its name until it *)
(* stops: no other start, failed start or stop takes the file away. With   *)
(* it there is at most one such server (us_serve, us_stop_serving).        *)
THEOREM ServerReachable == Spec => []Reachable
<1>1. IndInv => Reachable
  BY DEF IndInv
<1> QED
  BY <1>1, LifecycleInductive, PTL

-----------------------------------------------------------------------------
(* What a call and its server process have been through, as far as the     *)
(* caller's conclusions depend on it. The last four lines need that        *)
(* servers are not killed, and so on: each says under which failures.      *)

Unsynced == {"none", "forked", "main", "failing", "bound"}

(* The status in the pipe, what was made of it, and whose the file is. *)
Report(i) ==
  /\ caller[i] \in {"idle", "piped", "forked", "reading", "waiting"} => ret[i] = "none"
  /\ caller[i] = "returned" => ret[i] # "none"
  /\ caller[i] \in {"idle", "piped"} => child[i] = "none"
  /\ caller[i] = "waiting" => pipe[i] \in {"EADDRINUSE", "other"}
  /\ caller[i] \in {"stopping", "stopped", "lost"} => ret[i] = "pid"
  /\ ret[i] = "pid" => pipe[i] = "0"
  /\ child[i] \in Unsynced => pipe[i] = "empty"
  /\ path = i => child[i] \notin {"none", "forked", "main"}
  /\ path = i /\ child[i] = "failing" => errno[i] # "0"

Freed(i) ==
  "memory" \notin Troubles =>
    /\ path = i /\ child[i] = "exited" => pipe[i] # "0"
    /\ caller[i] = "stopped" => path # i /\ child[i] = "reaped"

Reaped(i) ==
  {"kill", "signal"} \cap Troubles = {} =>
    /\ caller[i] = "piped" => Caller \in writers[i]
    /\ caller[i] \in {"piped", "forked", "reading"} => Caller \in readers[i]
    /\ caller[i] \in {"forked", "reading"} /\ pipe[i] = "empty" => i \in writers[i]
    /\ caller[i] # "gone" /\ pipe[i] = "empty" => child[i] \in Unsynced
    /\ ret[i] \in {"0", "-1"} => child[i] \in {"none", "reaped"}

Reported(i) == "args" \notin Troubles => (child[i] = "failing" => errno[i] # "0")

(* A file belongs to a server that has not ended. *)
Owned ==
  {"kill", "mode", "memory", "hasty"} \cap Troubles = {} =>
    (path # None => child[path] \in Bound)

CallInv ==
  /\ IndInv
  /\ \A i \in Spawns: Report(i) /\ Freed(i) /\ Reaped(i) /\ Reported(i)
  /\ Owned

(* A step of a call, or of its server process, keeps Report. *)
LEMMA ReportKept ==
  ASSUME CallInv, [Next]_vars, NEW k \in Spawns
  PROVE  Report(k)'
<1> USE SpawnsAssumption DEF ends, CallInv, IndInv, TypeOK, Reachable, Report, Unsynced, Status, Alive, Bound
<1>1. ASSUME NEW i \in Spawns, CreatePipe(i) \/ CloseWriteEnd(i) PROVE Report(k)'
  BY <1>1 DEF CreatePipe, CloseWriteEnd
<1>2. ASSUME NEW i \in Spawns, Fork(i) PROVE Report(k)'
  BY <1>2 DEF Fork
<1>3. ASSUME NEW i \in Spawns, ReadStatus(i) \/ ReadInterrupted(i) PROVE Report(k)'
  BY <1>3 DEF ReadStatus, ReadInterrupted
<1>4. ASSUME NEW i \in Spawns, wait_child(i) \/ WaitInterrupted(i) PROVE Report(k)'
  BY <1>4 DEF wait_child, WaitInterrupted, Waited
<1>5. ASSUME NEW i \in Spawns, sfd_shutdown(i) PROVE Report(k)'
  BY <1>5 DEF sfd_shutdown, End
<1>6. ASSUME NEW i \in Spawns, StartChild(i) PROVE Report(k)'
  BY <1>6 DEF StartChild, proc_init_child
<1>7. ASSUME NEW i \in Spawns, Main(i) PROVE Report(k)'
  BY <1>7 DEF Main, us_serve
<1>8. ASSUME NEW i \in Spawns, SyncParent(i) PROVE Report(k)'
  BY <1>8 DEF SyncParent
<1>9. ASSUME NEW i \in Spawns, SetUp(i) \/ srv_run(i) \/ us_stop_serving(i) PROVE Report(k)'
  BY <1>9 DEF SetUp, srv_run, us_stop_serving, End
<1>10. ASSUME NEW i \in Spawns, Fail(i) PROVE Report(k)'
  BY <1>10 DEF Fail, End
<1>11. ASSUME NEW i \in Spawns, Kill(i) PROVE Report(k)'
  BY <1>11 DEF Kill, End
<1>12. CASE CallerEnds
  BY <1>12 DEF CallerEnds
<1>13. CASE UNCHANGED vars
  BY <1>13 DEF vars
<1> HIDE DEF CallInv, Report
<1> QED
  BY <1>1, <1>2, <1>3, <1>4, <1>5, <1>6, <1>7, <1>8, <1>9, <1>10, <1>11, <1>12, <1>13
  DEF Next, sfd_spawn, main

(* A server removes its file before it exits; the only other way to exit   *)
(* with the file in place is a failing chmod, of which the caller is told. *)
LEMMA FreedKept ==
  ASSUME CallInv, [Next]_vars, NEW k \in Spawns
  PROVE  Freed(k)'
<1> USE SpawnsAssumption DEF ends, CallInv, IndInv, TypeOK, Reachable, Report, Freed, Unsynced, Status, Alive, Bound
<1>1. ASSUME NEW i \in Spawns, CreatePipe(i) \/ CloseWriteEnd(i) PROVE Freed(k)'
  BY <1>1 DEF CreatePipe, CloseWriteEnd
<1>2. ASSUME NEW i \in Spawns, Fork(i) PROVE Freed(k)'
  BY <1>2 DEF Fork
<1>3. ASSUME NEW i \in Spawns, ReadStatus(i) \/ ReadInterrupted(i) PROVE Freed(k)'
  BY <1>3 DEF ReadStatus, ReadInterrupted
<1>4. ASSUME NEW i \in Spawns, wait_child(i) \/ WaitInterrupted(i) PROVE Freed(k)'
  BY <1>4 DEF wait_child, WaitInterrupted, Waited
<1>5. ASSUME NEW i \in Spawns, sfd_shutdown(i) PROVE Freed(k)'
  BY <1>5 DEF sfd_shutdown, End
<1>6. ASSUME NEW i \in Spawns, StartChild(i) PROVE Freed(k)'
  BY <1>6 DEF StartChild, proc_init_child
<1>7. ASSUME NEW i \in Spawns, Main(i) PROVE Freed(k)'
  BY <1>7 DEF Main, us_serve
<1>8. ASSUME NEW i \in Spawns, SyncParent(i) PROVE Freed(k)'
  BY <1>8 DEF SyncParent
<1>9. ASSUME NEW i \in Spawns, SetUp(i) \/ srv_run(i) \/ us_stop_serving(i) PROVE Freed(k)'
  BY <1>9 DEF SetUp, srv_run, us_stop_serving, End
<1>10. ASSUME NEW i \in Spawns, Fail(i) PROVE Freed(k)'
  BY <1>10 DEF Fail, End
<1>11. ASSUME NEW i \in Spawns, Kill(i) PROVE Freed(k)'
  BY <1>11 DEF Kill, End
<1>12. CASE CallerEnds
  BY <1>12 DEF CallerEnds
<1>13. CASE UNCHANGED vars
  BY <1>13 DEF vars
<1> HIDE DEF CallInv, Freed
<1> QED
  BY <1>1, <1>2, <1>3, <1>4, <1>5, <1>6, <1>7, <1>8, <1>9, <1>10, <1>11, <1>12, <1>13
  DEF Next, sfd_spawn, main

(* While the caller is there every server process that ends has written a  *)
(* status, so the caller never meets the end of file and always waits.     *)
LEMMA ReapedKept ==
  ASSUME CallInv, [Next]_vars, NEW k \in Spawns
  PROVE  Reaped(k)'
<1> USE SpawnsAssumption DEF ends, CallInv, IndInv, TypeOK, Reachable, Report, Reaped, Unsynced, Status, Alive, Bound
<1>1. ASSUME NEW i \in Spawns, CreatePipe(i) \/ CloseWriteEnd(i) PROVE Reaped(k)'
  BY <1>1 DEF CreatePipe, CloseWriteEnd
<1>2. ASSUME NEW i \in Spawns, Fork(i) PROVE Reaped(k)'
  BY <1>2 DEF Fork
<1>3. ASSUME NEW i \in Spawns, ReadStatus(i) \/ ReadInterrupted(i) PROVE Reaped(k)'
  BY <1>3 DEF ReadStatus, ReadInterrupted
<1>4. ASSUME NEW i \in Spawns, wait_child(i) \/ WaitInterrupted(i) PROVE Reaped(k)'
  BY <1>4 DEF wait_child, WaitInterrupted, Waited
<1>5. ASSUME NEW i \in Spawns, sfd_shutdown(i) PROVE Reaped(k)'
  BY <1>5 DEF sfd_shutdown, End
<1>6. ASSUME NEW i \in Spawns, StartChild(i) PROVE Reaped(k)'
  BY <1>6 DEF StartChild, proc_init_child
<1>7. ASSUME NEW i \in Spawns, Main(i) PROVE Reaped(k)'
  BY <1>7 DEF Main, us_serve
<1>8. ASSUME NEW i \in Spawns, SyncParent(i) PROVE Reaped(k)'
  BY <1>8 DEF SyncParent, Readable
<1>9. ASSUME NEW i \in Spawns, SetUp(i) \/ srv_run(i) \/ us_stop_serving(i) PROVE Reaped(k)'
  BY <1>9 DEF SetUp, srv_run, us_stop_serving, End
<1>10. ASSUME NEW i \in Spawns, Fail(i) PROVE Reaped(k)'
  BY <1>10 DEF Fail, End, Readable
<1>11. ASSUME NEW i \in Spawns, Kill(i) PROVE Reaped(k)'
  BY <1>11 DEF Kill
<1>12. CASE CallerEnds
  BY <1>12 DEF CallerEnds
<1>13. CASE UNCHANGED vars
  BY <1>13 DEF vars
<1> HIDE DEF CallInv, Reaped
<1> QED
  BY <1>1, <1>2, <1>3, <1>4, <1>5, <1>6, <1>7, <1>8, <1>9, <1>10, <1>11, <1>12, <1>13
  DEF Next, sfd_spawn, main

(* Every error path of main and of the child sets an errno other than 0,   *)
(* except the one for numbers main does not accept.                        *)
LEMMA ReportedKept ==
  ASSUME CallInv, [Next]_vars, NEW k \in Spawns
  PROVE  Reported(k)'
<1> USE DEF ends, CallInv, IndInv, TypeOK, Reported, Status, Alive, Bound
<1>1. ASSUME NEW i \in Spawns, \/ CreatePipe(i) \/ sfd_spawn(i) \/ sfd_shutdown(i)
                               \/ ReadInterrupted(i) \/ WaitInterrupted(i)
      PROVE  Reported(k)'
  BY <1>1 DEF CreatePipe, sfd_spawn, Fork, CloseWriteEnd, ReadStatus, wait_child, Waited, sfd_shutdown, End,
          ReadInterrupted, WaitInterrupted
<1>2. ASSUME NEW i \in Spawns, StartChild(i) PROVE Reported(k)'
  BY <1>2 DEF StartChild, proc_init_child
<1>3. ASSUME NEW i \in Spawns, Main(i) PROVE Reported(k)'
  BY <1>3 DEF Main, us_serve
<1>4. ASSUME NEW i \in Spawns, SyncParent(i) \/ SetUp(i) \/ srv_run(i) PROVE Reported(k)'
  BY <1>4 DEF SyncParent, SetUp, srv_run, End
<1>5. ASSUME NEW i \in Spawns, us_stop_serving(i) \/ Fail(i) \/ Kill(i) PROVE Reported(k)'
  BY <1>5 DEF us_stop_serving, Fail, Kill, End
<1>6. CASE CallerEnds \/ UNCHANGED vars
  BY <1>6 DEF CallerEnds, vars
<1> HIDE DEF CallInv, Reported
<1> QED
  BY <1>1, <1>2, <1>3, <1>4, <1>5, <1>6 DEF Next, main

(* The owner of the file leaves Bound only by removing the file. *)
LEMMA OwnedKept ==
  ASSUME CallInv, [Next]_vars
  PROVE  Owned'
<1> USE SpawnsAssumption DEF ends, CallInv, IndInv, TypeOK, Reachable, Report, Owned, Status, Alive, Bound
<1>1. ASSUME NEW i \in Spawns, CreatePipe(i) \/ CloseWriteEnd(i) \/ ReadStatus(i) \/ ReadInterrupted(i)
      PROVE  Owned'
  BY <1>1 DEF CreatePipe, CloseWriteEnd, ReadStatus, ReadInterrupted
<1>2. ASSUME NEW i \in Spawns, Fork(i) PROVE Owned'
  BY <1>2 DEF Fork
<1>3. ASSUME NEW i \in Spawns, wait_child(i) \/ WaitInterrupted(i) PROVE Owned'
  BY <1>3 DEF wait_child, WaitInterrupted, Waited
<1>4. ASSUME NEW i \in Spawns, sfd_shutdown(i) PROVE Owned'
  BY <1>4 DEF sfd_shutdown, End
<1>5. ASSUME NEW i \in Spawns, StartChild(i) PROVE Owned'
  BY <1>5 DEF StartChild, proc_init_child
<1>6. ASSUME NEW i \in Spawns, Main(i) PROVE Owned'
  BY <1>6 DEF Main, us_serve
<1>7. ASSUME NEW i \in Spawns, SyncParent(i) \/ SetUp(i) \/ srv_run(i) PROVE Owned'
  BY <1>7 DEF SyncParent, SetUp, srv_run, End
<1>8. ASSUME NEW i \in Spawns, us_stop_serving(i) PROVE Owned'
  BY <1>8 DEF us_stop_serving, End
<1>9. ASSUME NEW i \in Spawns, Fail(i) \/ Kill(i) PROVE Owned'
  BY <1>9 DEF Fail, Kill, End
<1>10. CASE CallerEnds \/ UNCHANGED vars
  BY <1>10 DEF CallerEnds, vars
<1> HIDE DEF CallInv, Owned
<1> QED
  BY <1>1, <1>2, <1>3, <1>4, <1>5, <1>6, <1>7, <1>8, <1>9, <1>10 DEF Next, sfd_spawn, main

(* The history of every call and server process, in every reachable state. *)
LEMMA CallInvariant == Spec => []CallInv
<1>1. Init => CallInv
  BY SpawnsAssumption DEF Init, CallInv, IndInv, TypeOK, Reachable, Report, Freed, Reaped,
     Reported, Owned, Unsynced, Status, Alive, Bound
<1>2. CallInv /\ [Next]_vars => CallInv'
  BY StepKeeps, ReportKept, FreedKept, ReapedKept, ReportedKept, OwnedKept DEF CallInv
<1> QED
  BY <1>1, <1>2, PTL DEF Spec

(* When sfd_shutdown has reported a normal exit the server's file is gone  *)
(* and its process reaped, whatever else fails or is killed, provided      *)
(* us_stop_serving has the memory to put the file's name together.         *)
THEOREM ShutdownFrees ==
  ASSUME "memory" \notin Troubles
  PROVE  Spec => []ShutdownFreesName
<1>1. CallInv => ShutdownFreesName
  BY DEF CallInv, Freed, ShutdownFreesName
<1> QED
  BY <1>1, CallInvariant, PTL

(* A call of sfd_spawn that returns 0 or -1 leaves no process behind,      *)
(* neither running nor unreaped, provided servers are not killed and no    *)
(* signal handler of the caller interrupts read(2) or waitpid(2).          *)
THEOREM FailureReaps ==
  ASSUME {"kill", "signal"} \cap Troubles = {}
  PROVE  Spec => []FailedSpawnReaps
<1>1. CallInv => FailedSpawnReaps
  BY DEF CallInv, Reaped, FailedSpawnReaps
<1> QED
  BY <1>1, CallInvariant, PTL

(* The status 0 is only ever written by a server that has bound its        *)
(* socket, provided main accepts the numbers it is given.                  *)
THEOREM StatusMeansBound ==
  ASSUME "args" \notin Troubles
  PROVE  Spec => StatusAfterBind
<1> DEFINE A == \A i \in Spawns: pipe[i] # "0" /\ pipe'[i] = "0" => child[i] = "bound"
<1>1. CallInv /\ [Next]_vars => [A]_vars
  <2> SUFFICES ASSUME CallInv, [Next]_vars, NEW k \in Spawns, pipe[k] # "0", pipe'[k] = "0"
               PROVE  child[k] = "bound"
    OBVIOUS
  <2> USE DEF CallInv, IndInv, TypeOK
  <2>1. ASSUME NEW i \in Spawns, \/ CreatePipe(i) \/ sfd_spawn(i) \/ sfd_shutdown(i)
                                 \/ ReadInterrupted(i) \/ WaitInterrupted(i)
        PROVE  FALSE
    BY <2>1 DEF CreatePipe, sfd_spawn, Fork, CloseWriteEnd, ReadStatus, wait_child, Waited, sfd_shutdown, End,
          ReadInterrupted, WaitInterrupted
  <2>2. ASSUME NEW i \in Spawns, StartChild(i) \/ Main(i) \/ SetUp(i) \/ srv_run(i)
                                   \/ us_stop_serving(i) \/ Kill(i)
        PROVE  FALSE
    BY <2>2 DEF StartChild, Main, SetUp, srv_run, us_stop_serving, Kill
  <2>3. ASSUME NEW i \in Spawns, SyncParent(i) PROVE child[k] = "bound"
    BY <2>3 DEF SyncParent
  <2>4. ASSUME NEW i \in Spawns, Fail(i) PROVE FALSE
    BY <2>4 DEF Fail, Reported
  <2>5. CASE CallerEnds \/ UNCHANGED vars
    BY <2>5 DEF CallerEnds, vars
  <2> HIDE DEF CallInv
  <2> QED
    BY <2>1, <2>2, <2>3, <2>4, <2>5 DEF Next, main
<1> QED
  BY <1>1, CallInvariant, PTL DEF Spec, StatusAfterBind

(* sfd_spawn's answer that a server of the name is already running is      *)
(* true, provided no server is killed (by SIGKILL, by SIGTERM before it is *)
(* blocked, or by a failing allocation) and chmod and chown succeed.       *)
THEOREM NameTakenByServer ==
  ASSUME {"kill", "mode", "memory", "hasty"} \cap Troubles = {}
  PROVE  Spec => AlreadyRunning
<1> DEFINE A == \A i \in Spawns: errno[i] # "EADDRINUSE" /\ errno'[i] = "EADDRINUSE"
                                   => child[path] \in Bound
<1>1. CallInv /\ [Next]_vars => [A]_vars
  <2> SUFFICES ASSUME CallInv, [Next]_vars, NEW k \in Spawns,
                      errno[k] # "EADDRINUSE", errno'[k] = "EADDRINUSE"
               PROVE  child[path] \in Bound
    OBVIOUS
  <2> USE DEF CallInv, IndInv, TypeOK
  <2>1. ASSUME NEW i \in Spawns, \/ CreatePipe(i) \/ sfd_spawn(i) \/ sfd_shutdown(i)
                                 \/ ReadInterrupted(i) \/ WaitInterrupted(i)
        PROVE  FALSE
    BY <2>1 DEF CreatePipe, sfd_spawn, Fork, CloseWriteEnd, ReadStatus, wait_child, Waited, sfd_shutdown, End,
          ReadInterrupted, WaitInterrupted
  <2>2. ASSUME NEW i \in Spawns, StartChild(i) PROVE FALSE
    BY <2>2 DEF StartChild
  <2>3. ASSUME NEW i \in Spawns, Main(i) PROVE child[path] \in Bound
    <3>1. path # None
      BY <2>3 DEF Main, us_serve
    <3> QED
      BY <3>1 DEF Owned
  <2>4. ASSUME NEW i \in Spawns, SyncParent(i) \/ SetUp(i) \/ srv_run(i) \/ us_stop_serving(i)
                                   \/ Fail(i) \/ Kill(i)
        PROVE  FALSE
    BY <2>4 DEF SyncParent, SetUp, srv_run, us_stop_serving, Fail, Kill
  <2>5. CASE CallerEnds \/ UNCHANGED vars
    BY <2>5 DEF CallerEnds, vars
  <2> HIDE DEF CallInv
  <2> QED
    BY <2>1, <2>2, <2>3, <2>4, <2>5 DEF Next, main
<1> QED
  BY <1>1, CallInvariant, PTL DEF Spec, AlreadyRunning
=============================================================================
