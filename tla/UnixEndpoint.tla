---------------------------- MODULE UnixEndpoint ----------------------------
(***************************************************************************)
(* The Unix socket of an application (server/unix.rs): every instance      *)
(* binds the same path in the plugin's setup, replaces a socket that a     *)
(* crashed instance left there, and removes its own when it ends. Some     *)
(* instances are launched by the Playwright process manager, whose         *)
(* supervisor (process-supervisor.js) watches the path for the socket of   *)
(* its application and removes it after the application is gone.           *)
(*                                                                         *)
(* A socket file is denoted by the instance that bound it: an instance     *)
(* binds at most once, and the number of an inode is not given again while *)
(* a process that bound it or a guard that recorded it may still compare.  *)
(***************************************************************************)
EXTENDS FiniteSets

CONSTANTS Apps,        \* instances, in the order nobody knows
          Supervised,  \* those started by the process manager
          None

VARIABLES file,      \* the socket at the path
          listening, \* instances that accept connections
          pc,        \* where each instance is
          guard,     \* the inode its SocketGuard recorded
          sup,       \* where each supervisor, with its manager, is
          initial,   \* initialEndpoint
          owned,     \* ownedEndpoint
          stat       \* the identity the manager has asked to confirm

appVars == <<pc, guard>>
supVars == <<sup, initial, owned, stat>>
vars    == <<file, listening, appVars, supVars>>

Binding  == {"bind", "probe", "remove", "rebind", "listen", "stat", "chmod"}
Closing  == {"close", "unlink"}
PCs      == {"idle", "serving", "failed", "dead"} \cup Binding \cup Closing
Launched == {"watch", "stat", "confirm", "ready", "abort"}
Cleaning == {"capture", "kill", "same", "probe", "recheck", "unlink"}
Sups     == {"idle", "spawn", "refused", "gone"} \cup Launched \cup Cleaning
Inodes   == Apps \cup {None}

Init ==
  /\ file = None
  /\ listening = {}
  /\ pc = [i \in Apps |-> "idle"]
  /\ guard = [i \in Apps |-> None]
  /\ sup = [i \in Supervised |-> "idle"]
  /\ initial = [i \in Supervised |-> None]
  /\ owned = [i \in Supervised |-> None]
  /\ stat = [i \in Supervised |-> None]

\* One has found that the socket at the path may go, and has not removed it
\* yet, while another has bound a socket there and does not listen yet. The
\* code has nothing against it.
Crossing ==
  /\ \/ \E i \in Apps : pc[i] \in {"remove", "unlink"}
     \/ \E i \in Supervised : sup[i] \in {"recheck", "unlink"}
  /\ \E j \in Apps : pc[j] = "listen"

Goto(i, where) == pc' = [pc EXCEPT ![i] = where]

\* An instance that ends no longer listens; its file may stay.
End(i, how) ==
  /\ Goto(i, how)
  /\ listening' = listening \ {i}

-----------------------------------------------------------------------------
(* Binding, in the plugin's setup.                                         *)

\* An instance that somebody starts by hand.
Start(i) ==
  /\ i \notin Supervised
  /\ pc[i] = "idle"
  /\ Goto(i, "bind")
  /\ UNCHANGED <<file, listening, guard, supVars>>

\* bind(2) makes the file; the socket does not listen yet.
FirstBind(i) ==
  /\ pc[i] = "bind"
  /\ IF file = None
     THEN file' = i /\ Goto(i, "listen")
     ELSE Goto(i, "probe") /\ UNCHANGED file
  /\ UNCHANGED <<listening, guard, supVars>>

\* Only a refused connection makes the file stale. Mutant: any file is.
AnyFile == file # None
Stale == file # None /\ file \notin listening

\* Mutant: a refused connection is an error like any other.
ProbeOnly(i) ==
  /\ pc[i] = "probe"
  /\ Goto(i, "failed")
  /\ UNCHANGED <<file, listening, guard, supVars>>
Probe(i) ==
  /\ pc[i] = "probe"
  /\ Goto(i, IF Stale THEN "remove" ELSE "failed")
  /\ UNCHANGED <<file, listening, guard, supVars>>

RemoveStale(i) ==
  /\ pc[i] = "remove"
  /\ file' = None
  /\ Goto(i, "rebind")
  /\ UNCHANGED <<listening, guard, supVars>>

Rebind(i) ==
  /\ pc[i] = "rebind"
  /\ IF file = None
     THEN file' = i /\ Goto(i, "listen")
     ELSE Goto(i, "failed") /\ UNCHANGED file
  /\ UNCHANGED <<listening, guard, supVars>>

Listen(i) ==
  /\ pc[i] = "listen"
  /\ listening' = listening \cup {i}
  /\ Goto(i, "stat")
  /\ UNCHANGED <<file, guard, supVars>>

\* The guard records the inode that is at the path by now.
Stat(i) ==
  /\ pc[i] = "stat"
  /\ IF file = None
     THEN End(i, "failed") /\ UNCHANGED guard
     ELSE /\ guard' = [guard EXCEPT ![i] = file]
          /\ Goto(i, "chmod")
          /\ UNCHANGED listening
  /\ UNCHANGED <<file, supVars>>

\* The permissions are set by path; an error drops listener and guard.
SetPermissions(i) ==
  /\ pc[i] = "chmod"
  /\ IF file = None
     THEN End(i, "failed")
     ELSE Goto(i, "serving") /\ UNCHANGED listening
  /\ UNCHANGED <<file, guard, supVars>>

-----------------------------------------------------------------------------
(* The end of an instance.                                                 *)

\* The runtime drops the server: first the listener, then the guard.
Close(i) ==
  /\ pc[i] = "serving"
  /\ End(i, "close")
  /\ UNCHANGED <<file, guard, supVars>>

\* SocketGuard::drop compares before it unlinks.
Compare(i) ==
  /\ pc[i] = "close"
  /\ Goto(i, IF file = guard[i] THEN "unlink" ELSE "dead")
  /\ UNCHANGED <<file, listening, guard, supVars>>

Unlink(i) ==
  /\ pc[i] = "unlink"
  /\ file' = None
  /\ Goto(i, "dead")
  /\ UNCHANGED <<listening, guard, supVars>>

\* A crash, a kill, or an exit that drops nothing, at any step.
Crash(i) ==
  /\ pc[i] \notin {"idle", "failed", "dead"}
  /\ End(i, "dead")
  /\ UNCHANGED <<file, guard, supVars>>

-----------------------------------------------------------------------------
(* The process manager and its supervisor.                                 *)

SupGoto(i, where) == sup' = [sup EXCEPT ![i] = where]

\* launch refuses a path at which somebody answers.
Launch(i) ==
  /\ sup[i] = "idle"
  /\ SupGoto(i, IF file \in listening THEN "refused" ELSE "spawn")
  /\ UNCHANGED <<file, listening, appVars, initial, owned, stat>>

\* The supervisor notes what is at the path and starts the application.
Spawn(i) ==
  /\ sup[i] = "spawn"
  /\ initial' = [initial EXCEPT ![i] = file]
  /\ Goto(i, "bind")
  /\ SupGoto(i, "watch")
  /\ UNCHANGED <<file, listening, guard, owned, stat>>

\* captureEndpoint: a new socket at the path is taken for its application's.
Captured(i) ==
  IF owned[i] = None /\ file # None /\ file # initial[i] THEN file ELSE owned[i]

Watch(i) ==
  /\ sup[i] \in Launched
  /\ owned[i] = None
  /\ owned' = [owned EXCEPT ![i] = Captured(i)]
  /\ UNCHANGED <<file, listening, appVars, sup, initial, stat>>

\* waitForSocket: somebody answers at the path.
Appeared(i) ==
  /\ sup[i] = "watch"
  /\ file \in listening
  /\ SupGoto(i, "stat")
  /\ UNCHANGED <<file, listening, appVars, initial, owned, stat>>

\* The manager reads the identity of the socket and sends it.
AskOwnership(i) ==
  /\ sup[i] = "stat"
  /\ stat' = [stat EXCEPT ![i] = file]
  /\ SupGoto(i, IF file = None THEN "abort" ELSE "confirm")
  /\ UNCHANGED <<file, listening, appVars, initial, owned>>

\* The supervisor owns it if it is still there; otherwise the launch fails.
Confirm(i) ==
  /\ sup[i] = "confirm"
  /\ IF file = stat[i]
     THEN /\ owned' = [owned EXCEPT ![i] = file]
          /\ SupGoto(i, "ready")
     ELSE SupGoto(i, "abort") /\ UNCHANGED owned
  /\ UNCHANGED <<file, listening, appVars, initial, stat>>

\* stop, a deadline, a failed launch, the exit of the application or the death
\* of the worker.
Shutdown(i) ==
  /\ sup[i] \in Launched
  /\ SupGoto(i, "capture")
  /\ UNCHANGED <<file, listening, appVars, initial, owned, stat>>

\* cleanup looks at the path once more before it stops the application.
LastCapture(i) ==
  /\ sup[i] = "capture"
  /\ owned' = [owned EXCEPT ![i] = Captured(i)]
  /\ SupGoto(i, "kill")
  /\ UNCHANGED <<file, listening, appVars, initial, stat>>

\* stopProcessGroup returns when the group is gone. Mutant: when the signal
\* has been sent.
StopUnawaited(i) ==
  /\ sup[i] = "kill"
  /\ SupGoto(i, "same")
  /\ UNCHANGED <<file, listening, appVars, initial, owned, stat>>
StopGroup(i) ==
  /\ sup[i] = "kill"
  /\ IF pc[i] = "failed"
     THEN UNCHANGED <<pc, listening>>
     ELSE End(i, "dead")
  /\ SupGoto(i, "same")
  /\ UNCHANGED <<file, guard, initial, owned, stat>>

\* removeOwnedEndpoint: the same socket, nobody accepting, still the same.
SameSocket(i) ==
  /\ sup[i] = "same"
  /\ SupGoto(i, IF owned[i] # None /\ file = owned[i] THEN "probe" ELSE "gone")
  /\ UNCHANGED <<file, listening, appVars, initial, owned, stat>>

ProbeOwned(i) ==
  /\ sup[i] = "probe"
  /\ SupGoto(i, IF file \in listening THEN "gone" ELSE "recheck")
  /\ UNCHANGED <<file, listening, appVars, initial, owned, stat>>

Recheck(i) ==
  /\ sup[i] = "recheck"
  /\ SupGoto(i, IF file = owned[i] THEN "unlink" ELSE "gone")
  /\ UNCHANGED <<file, listening, appVars, initial, owned, stat>>

UnlinkOwned(i) ==
  /\ sup[i] = "unlink"
  /\ file' = None
  /\ SupGoto(i, "gone")
  /\ UNCHANGED <<listening, appVars, initial, owned, stat>>

-----------------------------------------------------------------------------
BindStep(i) == FirstBind(i) \/ Probe(i) \/ RemoveStale(i) \/ Rebind(i)
                 \/ Listen(i) \/ Stat(i) \/ SetPermissions(i)
CloseStep(i) == Compare(i) \/ Unlink(i)
SupStep(i) == Spawn(i) \/ AskOwnership(i) \/ Confirm(i) \/ LastCapture(i) \/ StopGroup(i)
                \/ SameSocket(i) \/ ProbeOwned(i) \/ Recheck(i) \/ UnlinkOwned(i)

Next == \/ \E i \in Apps : Start(i) \/ BindStep(i) \/ Close(i) \/ CloseStep(i) \/ Crash(i)
        \/ \E i \in Supervised : Launch(i) \/ Watch(i) \/ Appeared(i) \/ Shutdown(i) \/ SupStep(i)

Spec == Init /\ [][Next]_vars
=============================================================================
