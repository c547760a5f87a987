---------------------------- MODULE PipeEndpoint ----------------------------
(***************************************************************************)
(* The named pipe of an application on Windows (server/windows.rs): an     *)
(* instance creates the pipe as its first instance, registers itself in a  *)
(* file that clients look up, and serves every connection on a pipe        *)
(* instance of its own while the next one waits. The file is written by    *)
(* way of a temporary one, and the guard that removes it does not compare  *)
(* whose it is. Clients (main.rs, client/windows.rs) look the file up,     *)
(* pass over an entry whose process is gone, and retry a busy pipe.        *)
(***************************************************************************)
EXTENDS FiniteSets

CONSTANTS Apps,      \* instances of the application
          Clients,
          Prefixed,  \* is the pipe named tauri-hasgard-...?
          None

VARIABLES pc,       \* where each instance's server task is
          waiting,  \* the pipe instance it waits at, and who opened it
          served,   \* the connections it has handed to tasks
          registry, \* whose entry the registry file holds
          tmp,      \* whose entry the temporary file holds
          cpc       \* where each client is

files == <<registry, tmp>>
vars  == <<pc, waiting, served, files, cpc>>

\* The pipe that was asked for, and the one made of the entry's identifier:
\* accept_loop derives the name anew.
Asked   == "asked"
Derived == IF Prefixed THEN Asked ELSE "unknown"

PCs     == {"idle", "create", "write", "rename", "bound", "serving", "next",
            "drop", "remove", "stopped", "failed", "dead"}
Gone    == {"idle", "dead"}
Waiting == [pipe: {Asked, Derived}, client: Clients \cup {None}]
Conns   == [pipe: {Asked, Derived}, client: Clients]

Init ==
  /\ pc = [i \in Apps |-> "idle"]
  /\ waiting = [i \in Apps |-> None]
  /\ served = [i \in Apps |-> {}]
  /\ registry = None
  /\ tmp = None
  /\ cpc = [c \in Clients |-> "idle"]

Goto(i, where) == pc' = [pc EXCEPT ![i] = where]

\* Server handles to a pipe: its name is taken while there is one.
Taken(pipe) ==
  \E i \in Apps : \/ waiting[i] # None /\ waiting[i].pipe = pipe
                  \/ \E s \in served[i] : s.pipe = pipe

Free(pipe, i) == waiting[i] # None /\ waiting[i].pipe = pipe /\ waiting[i].client = None

Holds(i) == {s.client : s \in served[i]}
              \cup (IF waiting[i] = None THEN {} ELSE {waiting[i].client} \ {None})

\* One is about to remove the registry file, which held its entry when its
\* loop ended, while another has put an entry of its own there.
Crossing ==
  /\ \E i \in Apps : pc[i] \in {"drop", "remove"}
  /\ \E j \in Apps : pc[j] \in {"bound", "serving", "next"}

-----------------------------------------------------------------------------
(* Binding and registration, in the server task.                           *)

Start(i) ==
  /\ pc[i] = "idle"
  /\ Goto(i, "create")
  /\ UNCHANGED <<waiting, served, files, cpc>>

\* first_pipe_instance: refused while anybody holds the name. Security
\* attributes that cannot be had refuse it as well.
Creatable(i) == ~Taken(Asked)

Create(i) ==
  /\ pc[i] = "create"
  /\ \/ /\ Creatable(i)
        /\ waiting' = [waiting EXCEPT ![i] = [pipe |-> Asked, client |-> None]]
        /\ Goto(i, "write")
     \/ /\ Goto(i, "failed")
        /\ UNCHANGED waiting
  /\ UNCHANGED <<served, files, cpc>>

Dropped(i) == waiting' = [waiting EXCEPT ![i] = None]

\* Those who were connected to i alone see the end of their connection.
Cut(i, cs) == cpc' = [c \in Clients |-> IF c \in cs THEN "closed" ELSE cpc[c]]

\* An error in between drops the pipe again; there is no guard yet.
BindFails(i) ==
  /\ pc[i] \in {"write", "rename"}
  /\ Cut(i, Holds(i))
  /\ Dropped(i)
  /\ Goto(i, "failed")
  /\ UNCHANGED <<served, files>>

WriteTmp(i) ==
  /\ pc[i] = "write"
  /\ tmp' = i
  /\ Goto(i, "rename")
  /\ UNCHANGED <<waiting, served, registry, cpc>>

Rename(i) ==
  /\ pc[i] = "rename"
  /\ registry' = tmp
  /\ tmp' = None
  /\ Goto(i, "bound")
  /\ UNCHANGED <<waiting, served, cpc>>

EnterLoop(i) ==
  /\ pc[i] = "bound"
  /\ Goto(i, "serving")
  /\ UNCHANGED <<waiting, served, files, cpc>>

-----------------------------------------------------------------------------
(* The accept loop.                                                        *)

\* connect returns once a client has opened the pipe. Mutant: it returns at
\* once.
AcceptAtOnce(i) ==
  /\ pc[i] = "serving"
  /\ Goto(i, "next")
  /\ UNCHANGED <<waiting, served, files, cpc>>
Accept(i) ==
  /\ pc[i] = "serving"
  /\ waiting[i].client # None
  /\ Goto(i, "next")
  /\ UNCHANGED <<waiting, served, files, cpc>>

\* The next pipe instance is made before the connection is served; an error
\* is retried for as long as it takes.
NextInstance(i) ==
  /\ pc[i] = "next"
  /\ served' = [served EXCEPT ![i] = @ \cup {waiting[i]}]
  /\ waiting' = [waiting EXCEPT ![i] = [pipe |-> Derived, client |-> None]]
  /\ Goto(i, "serving")
  /\ UNCHANGED <<files, cpc>>

\* A dead pipe ends the loop, and drops it before the guard.
LoopFails(i) ==
  /\ pc[i] = "serving"
  /\ Cut(i, {waiting[i].client} \ {None})
  /\ Dropped(i)
  /\ Goto(i, "drop")
  /\ UNCHANGED <<served, files>>

\* unregister_instance: if there is an entry, it is removed.
Unregister(i) ==
  /\ pc[i] = "drop"
  /\ Goto(i, IF registry = None THEN "stopped" ELSE "remove")
  /\ UNCHANGED <<waiting, served, files, cpc>>

RemoveEntry(i) ==
  /\ pc[i] = "remove"
  /\ registry' = None
  /\ Goto(i, "stopped")
  /\ UNCHANGED <<waiting, served, tmp, cpc>>

\* The process ends or is killed: nothing is dropped, handles are closed.
Exit(i) ==
  /\ pc[i] \notin Gone
  /\ Cut(i, Holds(i))
  /\ Dropped(i)
  /\ served' = [served EXCEPT ![i] = {}]
  /\ Goto(i, "dead")
  /\ UNCHANGED files

-----------------------------------------------------------------------------
(* Clients.                                                                *)

CGoto(c, where) == cpc' = [cpc EXCEPT ![c] = where]

\* The newest entry whose process lives.
Listed == registry # None /\ pc[registry] # "dead"

Resolve(c) ==
  /\ cpc[c] = "idle"
  /\ CGoto(c, IF Listed THEN "open" ELSE "none")
  /\ UNCHANGED <<pc, waiting, served, files>>

\* A free pipe instance is opened. A busy name is tried again until the
\* deadline, a missing one is an error.
Open(c) ==
  /\ cpc[c] = "open"
  /\ \/ \E i \in Apps : /\ Free(Asked, i)
                        /\ waiting' = [waiting EXCEPT ![i].client = c]
                        /\ CGoto(c, "connected")
     \/ /\ \A i \in Apps : ~Free(Asked, i)
        /\ CGoto(c, "failed")
        /\ UNCHANGED waiting
  /\ UNCHANGED <<pc, served, files>>

\* A client that is done closes its end, and its connection's task ends.
Disconnect(c) ==
  /\ cpc[c] = "connected"
  /\ \E i \in Apps, s \in Conns :
        /\ s.client = c
        /\ s \in served[i]
        /\ served' = [served EXCEPT ![i] = @ \ {s}]
  /\ CGoto(c, "closed")
  /\ UNCHANGED <<pc, waiting, files>>

-----------------------------------------------------------------------------
ServerStep(i) == Create(i) \/ WriteTmp(i) \/ Rename(i) \/ EnterLoop(i) \/ Accept(i)
                   \/ NextInstance(i) \/ Unregister(i) \/ RemoveEntry(i)

Next == \/ \E i \in Apps : Start(i) \/ ServerStep(i) \/ BindFails(i) \/ LoopFails(i) \/ Exit(i)
        \/ \E c \in Clients : Resolve(c) \/ Open(c) \/ Disconnect(c)

Spec == Init /\ [][Next]_vars
=============================================================================
