----------------------------- MODULE Endpoints ------------------------------
(***************************************************************************)
(* The endpoint of the plugin on either kind of platform: the plugin is    *)
(* built with one server (server/mod.rs) or the other, so a behaviour is   *)
(* one of UnixEndpoint or one of PipeEndpoint, and both implement          *)
(* EndpointContract.                                                       *)
(***************************************************************************)
EXTENDS FiniteSets

CONSTANTS Apps, Supervised, Clients, Prefixed, None

ASSUME EndpointsAssumption == /\ None \notin Apps \cup Clients
                              /\ Supervised \subseteq Apps
                              /\ Prefixed \in BOOLEAN

VARIABLES platform,
          file, listening, pc, guard, sup, initial, owned, stat,
          task, waiting, served, registry, tmp, cpc,
          crossed  \* history: a removal and a bind have crossed

Unix == INSTANCE UnixEndpoint
Pipe == INSTANCE PipeEndpoint WITH pc <- task

ASSUME WaitingAssumption == None \notin Pipe!Waiting

unixVars == <<file, listening, pc, guard, sup, initial, owned, stat>>
pipeVars == <<task, waiting, served, registry, tmp, cpc>>
vars     == <<platform, unixVars, pipeVars, crossed>>

Crossing == IF platform = "unix" THEN Unix!Crossing ELSE Pipe!Crossing
Noted    == crossed' = (crossed \/ Crossing')

Init == /\ platform \in {"unix", "windows"}
        /\ Unix!Init
        /\ Pipe!Init
        /\ crossed = FALSE

Next == /\ \/ platform = "unix" /\ Unix!Next /\ UNCHANGED pipeVars
           \/ platform = "windows" /\ Pipe!Next /\ UNCHANGED unixVars
        /\ UNCHANGED platform
        /\ Noted

Spec == Init /\ [][Next]_vars

\* The system calls of a bind return, timers and messages of a supervisor
\* arrive, and a spawned server task is polled. Crashes, clients and orderly
\* ends come when they like.
FairSpec ==
  /\ Spec
  /\ \A i \in Apps : WF_vars(platform = "unix" /\ (Unix!BindStep(i) \/ Unix!CloseStep(i))
                               /\ UNCHANGED <<platform, pipeVars>> /\ Noted)
  /\ \A i \in Supervised : WF_vars(platform = "unix" /\ Unix!SupStep(i)
                               /\ UNCHANGED <<platform, pipeVars>> /\ Noted)
  /\ \A i \in Apps : WF_vars(platform = "windows" /\ Pipe!ServerStep(i)
                               /\ UNCHANGED <<platform, unixVars>> /\ Noted)

-----------------------------------------------------------------------------
(* Type correctness of the path, the instances and their supervisors, and  *)
(* of the pipe, the registry and the clients.                              *)
TypeOK ==
  /\ platform \in {"unix", "windows"}
  /\ crossed \in BOOLEAN
  /\ file \in Unix!Inodes
  /\ listening \subseteq Apps
  /\ pc \in [Apps -> Unix!PCs]
  /\ guard \in [Apps -> Unix!Inodes]
  /\ sup \in [Supervised -> Unix!Sups]
  /\ initial \in [Supervised -> Unix!Inodes]
  /\ owned \in [Supervised -> Unix!Inodes]
  /\ stat \in [Supervised -> Unix!Inodes]
  /\ task \in [Apps -> Pipe!PCs]
  /\ waiting \in [Apps -> Pipe!Waiting \cup {None}]
  /\ served \in [Apps -> SUBSET Pipe!Conns]
  /\ registry \in Apps \cup {None}
  /\ tmp \in Apps \cup {None}
  /\ cpc \in [Clients -> {"idle", "none", "open", "connected", "failed", "closed"}]

\* On Unix an instance answers from listen(2) to the close of its listener;
\* on Windows it is in its accept loop, and the entry leads to it.
Answering == IF platform = "unix" THEN listening
             ELSE {i \in Apps : task[i] \in {"serving", "next"}}
Address   == IF platform = "unix" THEN file ELSE registry

Contract == INSTANCE EndpointContract WITH up <- Answering, addr <- Address, void <- crossed

(* At most one instance answers, and while it does nobody removes or       *)
(* replaces what leads to it: not an instance that starts and finds the    *)
(* remains of a crash, not a guard that is dropped (unix.rs:14-32,         *)
(* windows.rs:71-92), not a supervisor that cleans up. Bindings, cleanups  *)
(* and crashes come at any time, and it holds for as long as no removal    *)
(* has crossed a bind, the one thing nobody is kept from.                  *)
ImplementsContract == Contract!Spec

(* A supervisor that has once seen the socket of its own application does  *)
(* not leave it behind (process-supervisor.js:28-62): however the          *)
(* application ended, at whatever step, and whether its readiness was      *)
(* confirmed or not.                                                       *)
SupervisorCleansUp ==
  \A i \in Supervised : sup[i] = "gone" /\ owned[i] = i => file # i

Moving(i) == \/ pc[i] \in Unix!Binding \cup Unix!Closing
             \/ i \in Supervised /\ sup[i] \in Unix!Cleaning

(* Whatever a crash has left at any step of an earlier bind or cleanup, an *)
(* instance that starts when nobody answers gets to serve, unless it is    *)
(* stopped itself or another one binds or cleans up before it has got      *)
(* there (unix.rs:82-127).                                                 *)
StaleNeverBlocks ==
  \A i \in Apps :
    pc[i] = "bind" /\ listening = {}
      ~> pc[i] \in {"serving", "dead"} \/ \E j \in Apps \ {i} : Moving(j)
=============================================================================
