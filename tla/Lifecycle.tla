------------------------------ MODULE Lifecycle ------------------------------
(***************************************************************************)
(* Starting and stopping servers of one name: sfd_spawn and sfd_shutdown   *)
(* in the calling process, and main in the server process, with the pipe   *)
(* over which the server reports its start and the file of its socket.     *)
(*                                                                         *)
(* A member of Spawns is one call of sfd_spawn, made by a thread of the    *)
(* one calling process, and the server process which that call forks.      *)
(***************************************************************************)
EXTENDS FiniteSets

CONSTANTS
  Spawns,    \* the calls of sfd_spawn
  None,      \* no socket file
  Caller,    \* the calling process, as a holder of descriptors
  Troubles   \* what may go wrong; a subset of AllTroubles

AllTroubles ==
  {"fork",    \* fork(2) is refused
   "exec",    \* the child cannot prepare itself or execute the server
   "args",    \* maxfiles or the timeout is not a number main accepts
   "priv",    \* chroot(2), setuid(2), socket(2) and the like are refused
   "mode",    \* chown(2) or chmod(2) of the bound socket is refused
   "setup",   \* srv_run cannot create its poller, or register the socket
   "memory",  \* malloc(3) fails for a table or for the name of the socket
   "kill",    \* the server process is killed
   "signal",  \* a signal handler of the caller interrupts read(2) or waitpid(2)
   "hasty",   \* sfd_shutdown is called before srv_run has blocked SIGTERM
   "caller"}  \* the calling process ends

ASSUME SpawnsAssumption == None \notin Spawns /\ Caller \notin Spawns

ASSUME LifecycleTroubles == Troubles \subseteq AllTroubles

VARIABLES
  caller,   \* where each thread is in sfd_spawn or sfd_shutdown
  ret,      \* what sfd_spawn returned: its PID, 0 or -1
  child,    \* where each server process is
  errno,    \* the status a failing server process is about to write
  pipe,     \* the status in the pipe: 0, EADDRINUSE or another errno
  writers,  \* the processes which hold the write end of each pipe
  readers,  \* those which hold its read end
  path,     \* the server process whose socket file exists
  term      \* the server processes with SIGTERM pending

ends == <<writers, readers>>
vars == <<caller, ret, child, errno, pipe, ends, path, term>>

Status == {"0", "EADDRINUSE", "other"}

(* The processes which have bound the socket and not yet removed it. *)
Bound == {"bound", "synced", "running", "closing"}

Alive == {"forked", "main", "failing"} \cup Bound

(* Every variable has its type. *)
TypeOK ==
  /\ caller \in [Spawns -> {"idle", "piped", "forked", "reading", "waiting",
                            "returned", "stopping", "stopped", "lost", "gone"}]
  /\ ret \in [Spawns -> {"none", "pid", "0", "-1"}]
  /\ child \in [Spawns -> {"none", "exited", "killed", "reaped"} \cup Alive]
  /\ errno \in [Spawns -> Status]
  /\ pipe \in [Spawns -> {"empty"} \cup Status]
  /\ writers \in [Spawns -> SUBSET (Spawns \cup {Caller})]
  /\ readers \in [Spawns -> SUBSET (Spawns \cup {Caller})]
  /\ path \in Spawns \cup {None}
  /\ term \subseteq Spawns

Init ==
  /\ caller = [i \in Spawns |-> "idle"]
  /\ ret = [i \in Spawns |-> "none"]
  /\ child = [i \in Spawns |-> "none"]
  /\ errno = [i \in Spawns |-> "0"]
  /\ pipe = [i \in Spawns |-> "empty"]
  /\ writers = [i \in Spawns |-> {}]
  /\ readers = [i \in Spawns |-> {}]
  /\ path = None
  /\ term = {}

(* A server process ends, and with it its descriptors. *)
End(i, how) ==
  /\ child' = [child EXCEPT ![i] = how]
  /\ writers' = [j \in Spawns |-> writers[j] \ {i}]
  /\ readers' = [j \in Spawns |-> readers[j] \ {i}]

-----------------------------------------------------------------------------
(* The calling process *)

(* sfd_pipe: the caller holds both ends. *)
CreatePipe(i) ==
  /\ caller[i] = "idle"
  /\ caller' = [caller EXCEPT ![i] = "piped"]
  /\ writers' = [writers EXCEPT ![i] = {Caller}]
  /\ readers' = [readers EXCEPT ![i] = {Caller}]
  /\ UNCHANGED <<ret, child, errno, pipe, path, term>>

(* fork: the child has a copy of every descriptor of the process, those of *)
(* other calls in progress included; the read end of its own pipe it       *)
(* closes at once.                                                         *)
Fork(i) ==
  /\ caller[i] = "piped"
  /\ \/ /\ caller' = [caller EXCEPT ![i] = "forked"]
        /\ child' = [child EXCEPT ![i] = "forked"]
        /\ writers' = [j \in Spawns |-> IF Caller \in writers[j]
                                          THEN writers[j] \cup {i} ELSE writers[j]]
        /\ readers' = [j \in Spawns |-> IF j # i /\ Caller \in readers[j]
                                          THEN readers[j] \cup {i} ELSE readers[j]]
        /\ UNCHANGED ret
     \/ /\ "fork" \in Troubles
        /\ caller' = [caller EXCEPT ![i] = "returned"]
        /\ ret' = [ret EXCEPT ![i] = "-1"]
        /\ writers' = [writers EXCEPT ![i] = @ \ {Caller}]
        /\ readers' = [readers EXCEPT ![i] = @ \ {Caller}]
        /\ UNCHANGED child
  /\ UNCHANGED <<errno, pipe, path, term>>

(* A mutant: the parent keeps its write end and never sees the end of file. *)
CloseWriteEnd_keeps(i) ==
  /\ caller[i] = "forked"
  /\ caller' = [caller EXCEPT ![i] = "reading"]
  /\ UNCHANGED <<ret, child, errno, pipe, ends, path, term>>

(* The parent closes its write end and reads. *)
CloseWriteEnd(i) ==
  /\ caller[i] = "forked"
  /\ caller' = [caller EXCEPT ![i] = "reading"]
  /\ writers' = [writers EXCEPT ![i] = @ \ {Caller}]
  /\ UNCHANGED <<ret, child, errno, pipe, readers, path, term>>

(* A mutant: the failed child is not waited for. *)
ReadStatus_unreaped(i) ==
  /\ caller[i] = "reading"
  /\ \/ pipe[i] # "empty"
     \/ writers[i] = {}
  /\ caller' = [caller EXCEPT ![i] = "returned"]
  /\ ret' = [ret EXCEPT ![i] = CASE pipe[i] = "0" -> "pid"
                                 [] pipe[i] = "EADDRINUSE" -> "0"
                                 [] OTHER -> "-1"]
  /\ readers' = [readers EXCEPT ![i] = @ \ {Caller}]
  /\ UNCHANGED <<child, errno, pipe, writers, path, term>>

(* The read returns the status, or end of file when no process holds the   *)
(* write end any more; the read end is closed.                             *)
ReadStatus(i) ==
  /\ caller[i] = "reading"
  /\ \/ /\ pipe[i] = "0"
        /\ caller' = [caller EXCEPT ![i] = "returned"]
        /\ ret' = [ret EXCEPT ![i] = "pid"]
     \/ /\ pipe[i] \in {"EADDRINUSE", "other"}
        /\ caller' = [caller EXCEPT ![i] = "waiting"]
        /\ UNCHANGED ret
     \/ /\ pipe[i] = "empty"
        /\ writers[i] = {}
        /\ caller' = [caller EXCEPT ![i] = "returned"]
        /\ ret' = [ret EXCEPT ![i] = "-1"]
  /\ readers' = [readers EXCEPT ![i] = @ \ {Caller}]
  /\ UNCHANGED <<child, errno, pipe, writers, path, term>>

(* The read is interrupted while it waits: the call fails, and the child   *)
(* is neither stopped nor waited for.                                      *)
ReadInterrupted(i) ==
  /\ "signal" \in Troubles
  /\ caller[i] = "reading" /\ pipe[i] = "empty"
  /\ caller' = [caller EXCEPT ![i] = "returned"]
  /\ ret' = [ret EXCEPT ![i] = "-1"]
  /\ readers' = [readers EXCEPT ![i] = @ \ {Caller}]
  /\ UNCHANGED <<child, errno, pipe, writers, path, term>>

(* What follows waitpid in a failed sfd_spawn, which does not look at its  *)
(* result, and in sfd_shutdown, which returns it.                          *)
Waited(i, how) ==
  \/ /\ caller[i] = "waiting"
     /\ caller' = [caller EXCEPT ![i] = "returned"]
     /\ ret' = [ret EXCEPT ![i] = IF pipe[i] = "EADDRINUSE" THEN "0" ELSE "-1"]
  \/ /\ caller[i] = "stopping"
     /\ caller' = [caller EXCEPT ![i] = how]
     /\ UNCHANGED ret

(* waitpid tells a normal exit from a death by a signal. *)
wait_child(i) ==
  /\ child[i] \in {"exited", "killed"}
  /\ child' = [child EXCEPT ![i] = "reaped"]
  /\ Waited(i, IF child[i] = "exited" THEN "stopped" ELSE "lost")
  /\ UNCHANGED <<errno, pipe, ends, path, term>>

(* waitpid is interrupted: also after Fail, when the process is about to   *)
(* exit.                                                                   *)
WaitInterrupted(i) ==
  /\ "signal" \in Troubles
  /\ Waited(i, "lost")
  /\ UNCHANGED <<child, errno, pipe, ends, path, term>>

(* A mutant: the server is waited for and not told to stop. *)
sfd_shutdown_unsent(i) ==
  /\ caller[i] = "returned"
  /\ ret[i] = "pid"
  /\ caller' = [caller EXCEPT ![i] = "stopping"]
  /\ UNCHANGED <<ret, child, errno, pipe, ends, path, term>>

(* kill(pid, SIGTERM): pending once srv_run has blocked the signal, the    *)
(* default action, death, before; nothing for a process that has ended.    *)
sfd_shutdown(i) ==
  /\ caller[i] = "returned"
  /\ ret[i] = "pid"
  /\ caller' = [caller EXCEPT ![i] = "stopping"]
  /\ \/ /\ child[i] \in {"running", "closing"}
        /\ term' = term \cup {i}
        /\ UNCHANGED <<child, ends>>
     \/ /\ child[i] \in Alive \ {"running", "closing"}
        /\ "hasty" \in Troubles
        /\ End(i, "killed")
        /\ UNCHANGED term
     \/ /\ child[i] \in {"exited", "killed"}
        /\ UNCHANGED <<child, ends, term>>
  /\ UNCHANGED <<ret, errno, pipe, path>>

-----------------------------------------------------------------------------
(* The server process *)

(* All descriptors are closed but the write end of the call's own pipe. *)
proc_init_child(i) ==
  /\ writers' = [j \in Spawns |-> IF j = i THEN writers[j] ELSE writers[j] \ {i}]
  /\ readers' = [j \in Spawns |-> readers[j] \ {i}]

(* The child of sfd_spawn up to exec_server. *)
StartChild(i) ==
  /\ child[i] = "forked"
  /\ \/ /\ child' = [child EXCEPT ![i] = "main"]
        /\ proc_init_child(i)
        /\ UNCHANGED errno
     \/ /\ "exec" \in Troubles
        /\ child' = [child EXCEPT ![i] = "failing"]
        /\ errno' = [errno EXCEPT ![i] = "other"]
        /\ UNCHANGED ends
  /\ UNCHANGED <<caller, ret, pipe, path, term>>

(* A mutant: the file of an earlier server is removed before binding. *)
us_serve_unlinks(i) ==
  /\ child' = [child EXCEPT ![i] = "bound"]
  /\ path' = i
  /\ UNCHANGED errno

(* bind, chown and chmod. The file is left behind when the latter fail. *)
us_serve(i) ==
  \/ /\ path = None
     /\ path' = i
     /\ \/ /\ child' = [child EXCEPT ![i] = "bound"]
           /\ UNCHANGED errno
        \/ /\ "mode" \in Troubles
           /\ child' = [child EXCEPT ![i] = "failing"]
           /\ errno' = [errno EXCEPT ![i] = "other"]
  \/ /\ path # None
     /\ child' = [child EXCEPT ![i] = "failing"]
     /\ errno' = [errno EXCEPT ![i] = "EADDRINUSE"]
     /\ UNCHANGED path

(* main up to the bound socket. A number that opt_strtol or main rejects   *)
(* leaves errno as strtol and the logging did, which may be 0.             *)
Main(i) ==
  /\ child[i] = "main"
  /\ \/ us_serve(i)
     \/ /\ "args" \in Troubles
        /\ child' = [child EXCEPT ![i] = "failing"]
        /\ \E e \in {"0", "other"}: errno' = [errno EXCEPT ![i] = e]
        /\ UNCHANGED path
     \/ /\ "priv" \in Troubles
        /\ child' = [child EXCEPT ![i] = "failing"]
        /\ errno' = [errno EXCEPT ![i] = "other"]
        /\ UNCHANGED path
  /\ UNCHANGED <<caller, ret, pipe, ends, term>>

(* Writing to a pipe without readers fails with EPIPE. *)
Readable(i) == readers[i] # {}

(* A mutant: the status is written before the socket is bound. *)
SyncParent_early(i) ==
  /\ child[i] \in {"main", "bound"}
  /\ pipe' = [pipe EXCEPT ![i] = "0"]
  /\ child' = [child EXCEPT ![i] = IF @ = "main" THEN "main" ELSE "synced"]
  /\ UNCHANGED <<caller, ret, errno, ends, path, term>>

(* sync_parent(0); if nobody can read it the server goes away again. *)
SyncParent(i) ==
  /\ child[i] = "bound"
  /\ \/ /\ Readable(i)
        /\ pipe' = [pipe EXCEPT ![i] = "0"]
        /\ child' = [child EXCEPT ![i] = "synced"]
        /\ writers' = [writers EXCEPT ![i] = @ \ {i}]
     \/ /\ ~Readable(i)
        /\ child' = [child EXCEPT ![i] = "closing"]
        /\ UNCHANGED <<pipe, writers>>
  /\ UNCHANGED <<caller, ret, errno, readers, path, term>>

(* srv_new in srv_run: from now on SIGTERM is blocked. A failure ends      *)
(* srv_run, or crashes in srv_delete when a table is missing.              *)
SetUp(i) ==
  /\ child[i] = "synced"
  /\ \/ /\ child' = [child EXCEPT ![i] = "running"]
        /\ UNCHANGED ends
     \/ /\ "setup" \in Troubles
        /\ child' = [child EXCEPT ![i] = "closing"]
        /\ UNCHANGED ends
     \/ /\ "memory" \in Troubles
        /\ End(i, "killed")
  /\ UNCHANGED <<caller, ret, errno, pipe, path, term>>

(* srv_run returns on SIGTERM, its request socket closed. *)
srv_run(i) ==
  /\ child[i] = "running"
  /\ i \in term
  /\ child' = [child EXCEPT ![i] = "closing"]
  /\ UNCHANGED <<caller, ret, errno, pipe, ends, path, term>>

(* A mutant: the file of the socket is left behind. *)
us_stop_serving_keeps(i) ==
  /\ child[i] = "closing"
  /\ End(i, "exited")
  /\ UNCHANGED <<caller, ret, errno, pipe, path, term>>

(* The file that has the name, whoever made it, is removed; main returns. *)
us_stop_serving(i) ==
  /\ child[i] = "closing"
  /\ \/ path' = None
     \/ /\ "memory" \in Troubles
        /\ UNCHANGED path
  /\ End(i, "exited")
  /\ UNCHANGED <<caller, ret, errno, pipe, term>>

(* The error paths of main and of the child in sfd_spawn: sync_parent with *)
(* errno, and the end of the process.                                      *)
Fail(i) ==
  /\ child[i] = "failing"
  /\ pipe' = [pipe EXCEPT ![i] = IF Readable(i) THEN errno[i] ELSE @]
  /\ End(i, "exited")
  /\ UNCHANGED <<caller, ret, errno, path, term>>

-----------------------------------------------------------------------------
Kill(i) ==
  /\ "kill" \in Troubles
  /\ child[i] \in Alive
  /\ End(i, "killed")
  /\ UNCHANGED <<caller, ret, errno, pipe, path, term>>

CallerEnds ==
  /\ "caller" \in Troubles
  /\ \E i \in Spawns: caller[i] # "gone"
  /\ caller' = [i \in Spawns |-> "gone"]
  /\ writers' = [i \in Spawns |-> writers[i] \ {Caller}]
  /\ readers' = [i \in Spawns |-> readers[i] \ {Caller}]
  /\ UNCHANGED <<ret, child, errno, pipe, path, term>>

(* The steps of the library that follow from an earlier one. *)
sfd_spawn(i) == Fork(i) \/ CloseWriteEnd(i) \/ ReadStatus(i) \/ wait_child(i)

main(i) ==
  \/ StartChild(i)
  \/ Main(i)
  \/ SyncParent(i)
  \/ SetUp(i)
  \/ srv_run(i)
  \/ us_stop_serving(i)
  \/ Fail(i)

Next ==
  \/ \E i \in Spawns:
       \/ CreatePipe(i) \/ sfd_spawn(i) \/ sfd_shutdown(i) \/ main(i) \/ Kill(i)
       \/ ReadInterrupted(i) \/ WaitInterrupted(i)
  \/ CallerEnds

Spec == Init /\ [][Next]_vars

(* Processes that can run do so. Nobody has to call sfd_spawn or           *)
(* sfd_shutdown, and nothing has to go wrong.                              *)
FairSpec == Spec /\ \A i \in Spawns: WF_vars(sfd_spawn(i)) /\ WF_vars(main(i))

-----------------------------------------------------------------------------
(* A server process that has bound its socket is the one which clients     *)
(* reach under the server's name until it removes the file itself: neither *)
(* a server that finds the name taken nor one that stops removes the file  *)
(* of another (us_serve, us_stop_serving, the labels fail1 and fail2).     *)
Reachable == \A i \in Spawns: child[i] \in Bound => path = i

(* "the server only writes the status/error code after it has bound to its *)
(* request socket and is therefore ready to accept requests": the status 0 *)
(* that makes sfd_spawn return a PID comes from a bound server only.       *)
StatusAfterBind ==
  [][\A i \in Spawns: pipe[i] # "0" /\ pipe'[i] = "0" => child[i] = "bound"]_vars

(* "Server instance of the same name was already running": when binding    *)
(* fails with EADDRINUSE, for which sfd_spawn returns 0, the process that  *)
(* made the file has not ended.                                            *)
AlreadyRunning ==
  [][\A i \in Spawns: errno[i] # "EADDRINUSE" /\ errno'[i] = "EADDRINUSE"
                        => child[path] \in Bound]_vars

(* After sfd_shutdown has reported a normal exit the name is free: the     *)
(* file of that server is gone, and its process too.                       *)
ShutdownFreesName == \A i \in Spawns: caller[i] = "stopped" => path # i /\ child[i] = "reaped"

(* A call of sfd_spawn that fails leaves no process behind, neither        *)
(* running nor unreaped, as long as servers are not killed and no signal   *)
(* handler of the caller interrupts the call.                              *)
FailedSpawnReaps == \A i \in Spawns: ret[i] \in {"0", "-1"} => child[i] \in {"none", "reaped"}

(* Every call of sfd_spawn returns, whatever happens to the child: killed  *)
(* before it has written a status, it ends the read, provided nobody else  *)
(* holds the write end.                                                    *)
SpawnReturns == \A i \in Spawns: caller[i] = "piped" ~> caller[i] \in {"returned", "gone"}

(* Every call of sfd_shutdown returns. *)
ShutdownReturns ==
  \A i \in Spawns: caller[i] = "stopping" ~> caller[i] \in {"stopped", "lost", "gone"}
=============================================================================
