--------------------------- MODULE EndpointsProofs ---------------------------
(***************************************************************************)
(* Theorems of Endpoints, for any instances, supervisors and clients: of   *)
(* UnixEndpoint (unix.rs, process-supervisor.js) and of PipeEndpoint       *)
(* (windows.rs).                                                           *)
(***************************************************************************)
EXTENDS Endpoints, TLAPS

\* An instance does not run before its supervisor has started it, nor after
\* the supervisor has stopped its process group.
Stopped == {"same", "probe", "recheck", "unlink", "gone"}

SupInv ==
  \A i \in Supervised:
    /\ sup[i] \in {"idle", "refused", "spawn"} => pc[i] = "idle"
    /\ sup[i] \in Stopped => pc[i] \in {"dead", "failed"}

\* An instance listens from listen(2) until its listener is dropped.
ListenInv == \A i \in Apps: pc[i] \in {"stat", "chmod", "serving"} <=> i \in listening

\* What no crossing can spoil.
UnixInv == SupInv /\ ListenInv /\ SupervisorCleansUp

\* The socket of one who listens is at the path, and so is that of one who is
\* about to listen; who is about to remove a socket is right in that nobody
\* listens to it.
AppFile(i) ==
  /\ i \in listening => file = i
  /\ pc[i] = "listen" => file = i
  /\ pc[i] \in {"remove", "unlink"} => listening = {}
  /\ pc[i] \in {"chmod", "serving", "close"} => guard[i] = i

FileInv ==
  /\ \A i \in Apps: AppFile(i)
  /\ \A i \in Supervised: sup[i] \in {"recheck", "unlink"} => listening = {}

\* A server task has a pipe instance from its creation until its loop ends,
\* and goes on to the next one only with a client.
WaitingInv ==
  \A i \in Apps:
    /\ waiting[i] # None <=> task[i] \in {"write", "rename", "bound", "serving", "next"}
    /\ task[i] = "next" => waiting[i].client # None

\* At most one instance has the name of the pipe, and who registers under it
\* has written the temporary file himself.
NameInv ==
  /\ \A i, j \in Apps: waiting[i] # None /\ waiting[j] # None => i = j
  /\ \A i \in Apps: task[i] = "rename" => tmp = i

\* The entry of one who is about to serve leads to it.
EntryInv == \A i \in Apps: task[i] = "bound" => registry = i

\* Until a removal crosses a bind.
Uncrossed ==
  ~crossed => /\ platform = "unix" => FileInv /\ ~Unix!Crossing
              /\ platform = "windows" => EntryInv /\ ~Pipe!Crossing

BaseInv == TypeOK /\ UnixInv /\ WaitingInv

\* The inductive strengthening of the contract.
IInv == BaseInv /\ NameInv /\ Uncrossed

-----------------------------------------------------------------------------
(* Type correctness.                                                       *)

UnixType ==
  /\ file \in Unix!Inodes
  /\ listening \subseteq Apps
  /\ pc \in [Apps -> Unix!PCs]
  /\ guard \in [Apps -> Unix!Inodes]
  /\ sup \in [Supervised -> Unix!Sups]
  /\ initial \in [Supervised -> Unix!Inodes]
  /\ owned \in [Supervised -> Unix!Inodes]
  /\ stat \in [Supervised -> Unix!Inodes]

PipeType ==
  /\ task \in [Apps -> Pipe!PCs]
  /\ waiting \in [Apps -> Pipe!Waiting \cup {None}]
  /\ served \in [Apps -> SUBSET Pipe!Conns]
  /\ registry \in Apps \cup {None}
  /\ tmp \in Apps \cup {None}
  /\ cpc \in [Clients -> {"idle", "none", "open", "connected", "failed", "closed"}]

LEMMA UnixTypeStep ==
  ASSUME UnixType, Unix!Next
  PROVE  UnixType'
  <1> USE EndpointsAssumption
      DEF UnixType, Unix!Inodes, Unix!Goto, Unix!SupGoto, Unix!appVars, Unix!supVars, Unix!PCs,
          Unix!Binding, Unix!Closing, Unix!Sups, Unix!Launched, Unix!Cleaning
  <1>1. ASSUME NEW i \in Apps, Unix!Start(i) \/ Unix!BindStep(i) PROVE UnixType'
    BY <1>1 DEF Unix!Start, Unix!BindStep, Unix!FirstBind, Unix!Probe, Unix!RemoveStale,
                Unix!Rebind, Unix!Listen, Unix!Stat, Unix!SetPermissions, Unix!End
  <1>2. ASSUME NEW i \in Apps, Unix!Close(i) \/ Unix!CloseStep(i) \/ Unix!Crash(i) PROVE UnixType'
    BY <1>2 DEF Unix!Close, Unix!CloseStep, Unix!Compare, Unix!Unlink, Unix!Crash, Unix!End
  <1>3. ASSUME NEW i \in Supervised, Unix!Launch(i) \/ Unix!Watch(i) \/ Unix!Appeared(i) \/ Unix!Shutdown(i)
        PROVE  UnixType'
    BY <1>3 DEF Unix!Launch, Unix!Watch, Unix!Appeared, Unix!Shutdown, Unix!Captured
  <1>4. ASSUME NEW i \in Supervised, Unix!SupStep(i) PROVE UnixType'
    BY <1>4 DEF Unix!SupStep, Unix!Spawn, Unix!AskOwnership, Unix!Confirm, Unix!LastCapture,
                Unix!StopGroup, Unix!SameSocket, Unix!ProbeOwned, Unix!Recheck, Unix!UnlinkOwned,
                Unix!Captured, Unix!End
  <1> QED
    BY <1>1, <1>2, <1>3, <1>4 DEF Unix!Next

LEMMA PipeTypeStep ==
  ASSUME PipeType, WaitingInv, Pipe!Next
  PROVE  PipeType'
  <1> USE EndpointsAssumption DEF PipeType, Pipe!Goto, Pipe!CGoto, Pipe!files, Pipe!PCs
  <1>1. ASSUME NEW i \in Apps, Pipe!Start(i) \/ Pipe!WriteTmp(i) \/ Pipe!Rename(i) \/ Pipe!EnterLoop(i)
                               \/ Pipe!Accept(i) \/ Pipe!Unregister(i) \/ Pipe!RemoveEntry(i)
        PROVE  PipeType'
    BY <1>1 DEF Pipe!Start, Pipe!WriteTmp, Pipe!Rename, Pipe!EnterLoop, Pipe!Accept,
                Pipe!Unregister, Pipe!RemoveEntry
  <1>2. ASSUME NEW i \in Apps, Pipe!Create(i) PROVE PipeType'
    <2>1. [pipe |-> Pipe!Asked, client |-> None] \in Pipe!Waiting
      BY DEF Pipe!Waiting
    <2> QED
      BY <1>2, <2>1 DEF Pipe!Create
  <1>3. ASSUME NEW i \in Apps, Pipe!NextInstance(i) PROVE PipeType'
    <2>1. [pipe |-> Pipe!Derived, client |-> None] \in Pipe!Waiting
      BY DEF Pipe!Waiting
    <2>2. waiting[i] \in Pipe!Conns
      BY <1>3 DEF Pipe!NextInstance, WaitingInv, Pipe!Waiting, Pipe!Conns
    <2> QED
      BY <1>3, <2>1, <2>2 DEF Pipe!NextInstance
  <1>4. ASSUME NEW i \in Apps, Pipe!BindFails(i) \/ Pipe!LoopFails(i) \/ Pipe!Exit(i) PROVE PipeType'
    BY <1>4 DEF Pipe!BindFails, Pipe!LoopFails, Pipe!Exit, Pipe!Cut, Pipe!Dropped
  <1>5. ASSUME NEW c \in Clients, Pipe!Resolve(c) PROVE PipeType'
    BY <1>5 DEF Pipe!Resolve
  <1>6. ASSUME NEW c \in Clients, Pipe!Open(c) PROVE PipeType'
    <2>1. ASSUME NEW i \in Apps, Pipe!Free(Pipe!Asked, i), waiting' = [waiting EXCEPT ![i].client = c]
          PROVE  waiting' \in [Apps -> Pipe!Waiting \cup {None}]
      <3>1. [waiting[i] EXCEPT !.client = c] \in Pipe!Waiting
        BY <2>1 DEF Pipe!Free, Pipe!Waiting
      <3> QED
        BY <2>1, <3>1
    <2> QED
      BY <1>6, <2>1 DEF Pipe!Open
  <1>7. ASSUME NEW c \in Clients, Pipe!Disconnect(c) PROVE PipeType'
    BY <1>7 DEF Pipe!Disconnect
  <1> QED
    BY <1>1, <1>2, <1>3, <1>4, <1>5, <1>6, <1>7 DEF Pipe!Next, Pipe!ServerStep

LEMMA WaitingStep ==
  ASSUME PipeType, WaitingInv, Pipe!Next
  PROVE  WaitingInv'
  <1> USE EndpointsAssumption DEF PipeType, WaitingInv, Pipe!Goto, Pipe!CGoto, Pipe!files, Pipe!PCs
  <1>1. ASSUME NEW i \in Apps, Pipe!Start(i) \/ Pipe!WriteTmp(i) \/ Pipe!Rename(i) \/ Pipe!EnterLoop(i)
                               \/ Pipe!Accept(i) \/ Pipe!Unregister(i) \/ Pipe!RemoveEntry(i)
        PROVE  WaitingInv'
    BY <1>1 DEF Pipe!Start, Pipe!WriteTmp, Pipe!Rename, Pipe!EnterLoop, Pipe!Accept,
                Pipe!Unregister, Pipe!RemoveEntry
  <1>2. ASSUME NEW i \in Apps, Pipe!Create(i) \/ Pipe!NextInstance(i) PROVE WaitingInv'
    <2>1. \A q \in {Pipe!Asked, Pipe!Derived}: [pipe |-> q, client |-> None] # None
      BY WaitingAssumption DEF Pipe!Waiting
    <2> QED
      BY <1>2, <2>1 DEF Pipe!Create, Pipe!NextInstance
  <1>3. ASSUME NEW i \in Apps, Pipe!BindFails(i) \/ Pipe!LoopFails(i) \/ Pipe!Exit(i) PROVE WaitingInv'
    BY <1>3 DEF Pipe!BindFails, Pipe!LoopFails, Pipe!Exit, Pipe!Cut, Pipe!Dropped
  <1>4. ASSUME NEW c \in Clients, Pipe!Resolve(c) \/ Pipe!Disconnect(c) PROVE WaitingInv'
    BY <1>4 DEF Pipe!Resolve, Pipe!Disconnect
  <1>5. ASSUME NEW c \in Clients, Pipe!Open(c) PROVE WaitingInv'
    <2>1. CASE UNCHANGED <<task, waiting>>
      BY <2>1
    <2>2. ASSUME NEW i \in Apps, Pipe!Free(Pipe!Asked, i), waiting' = [waiting EXCEPT ![i].client = c],
                 task' = task
          PROVE  WaitingInv'
      <3>1. [waiting[i] EXCEPT !.client = c] \in Pipe!Waiting
        BY <2>2 DEF Pipe!Free, Pipe!Waiting
      <3>2. waiting'[i] # None /\ waiting'[i].client = c /\ c # None
        BY <2>2, <3>1, WaitingAssumption DEF Pipe!Free, Pipe!Waiting
      <3> QED
        BY <2>2, <3>2 DEF Pipe!Free
    <2> QED
      BY <1>5, <2>1, <2>2 DEF Pipe!Open
  <1> QED
    BY <1>1, <1>2, <1>3, <1>4, <1>5 DEF Pipe!Next, Pipe!ServerStep

-----------------------------------------------------------------------------
(* The Unix socket.                                                        *)

LEMMA SupStep ==
  ASSUME UnixType, SupInv, Unix!Next
  PROVE  SupInv'
  <1> USE EndpointsAssumption
      DEF UnixType, SupInv, Stopped, Unix!Goto, Unix!SupGoto, Unix!appVars, Unix!supVars
  <1>1. ASSUME NEW i \in Apps, Unix!Start(i) \/ Unix!BindStep(i) PROVE SupInv'
    BY <1>1 DEF Unix!Start, Unix!BindStep, Unix!FirstBind, Unix!Probe, Unix!RemoveStale,
                Unix!Rebind, Unix!Listen, Unix!Stat, Unix!SetPermissions, Unix!End
  <1>2. ASSUME NEW i \in Apps, Unix!Close(i) \/ Unix!CloseStep(i) \/ Unix!Crash(i) PROVE SupInv'
    BY <1>2 DEF Unix!Close, Unix!CloseStep, Unix!Compare, Unix!Unlink, Unix!Crash, Unix!End
  <1>3. ASSUME NEW i \in Supervised, Unix!Launch(i) \/ Unix!Watch(i) \/ Unix!Appeared(i) \/ Unix!Shutdown(i)
        PROVE  SupInv'
    BY <1>3 DEF Unix!Launch, Unix!Watch, Unix!Appeared, Unix!Shutdown, Unix!Launched
  <1>4. ASSUME NEW i \in Supervised, Unix!SupStep(i) PROVE SupInv'
    BY <1>4 DEF Unix!SupStep, Unix!Spawn, Unix!AskOwnership, Unix!Confirm, Unix!LastCapture,
                Unix!StopGroup, Unix!SameSocket, Unix!ProbeOwned, Unix!Recheck, Unix!UnlinkOwned,
                Unix!End
  <1> QED
    BY <1>1, <1>2, <1>3, <1>4 DEF Unix!Next

LEMMA ListenStep ==
  ASSUME UnixType, SupInv, ListenInv, Unix!Next
  PROVE  ListenInv'
  <1> USE EndpointsAssumption DEF UnixType, ListenInv, Unix!Goto, Unix!SupGoto, Unix!appVars, Unix!supVars
  <1>1. ASSUME NEW i \in Apps, Unix!Start(i) \/ Unix!BindStep(i) PROVE ListenInv'
    BY <1>1 DEF Unix!Start, Unix!BindStep, Unix!FirstBind, Unix!Probe, Unix!RemoveStale,
                Unix!Rebind, Unix!Listen, Unix!Stat, Unix!SetPermissions, Unix!End
  <1>2. ASSUME NEW i \in Apps, Unix!Close(i) \/ Unix!CloseStep(i) \/ Unix!Crash(i) PROVE ListenInv'
    BY <1>2 DEF Unix!Close, Unix!CloseStep, Unix!Compare, Unix!Unlink, Unix!Crash, Unix!End
  <1>3. ASSUME NEW i \in Supervised, Unix!Launch(i) \/ Unix!Watch(i) \/ Unix!Appeared(i) \/ Unix!Shutdown(i)
        PROVE  ListenInv'
    BY <1>3 DEF Unix!Launch, Unix!Watch, Unix!Appeared, Unix!Shutdown
  <1>4. ASSUME NEW i \in Supervised, Unix!SupStep(i) PROVE ListenInv'
    BY <1>4 DEF Unix!SupStep, Unix!Spawn, Unix!AskOwnership, Unix!Confirm, Unix!LastCapture,
                Unix!StopGroup, Unix!SameSocket, Unix!ProbeOwned, Unix!Recheck, Unix!UnlinkOwned,
                Unix!End, SupInv
  <1> QED
    BY <1>1, <1>2, <1>3, <1>4 DEF Unix!Next

\* While no removal crosses a bind, the path leads to the one who listens.
LEMMA FileStep ==
  ASSUME UnixType, ListenInv, FileInv, ~Unix!Crossing, Unix!Next
  PROVE  FileInv'
  <1> USE EndpointsAssumption DEF UnixType, Unix!Goto, Unix!SupGoto, Unix!appVars, Unix!supVars
  <1>0. /\ \A i \in listening: i \in Apps /\ i # None /\ file = i
        /\ file \notin listening => listening = {}
    BY DEF FileInv, AppFile
  \* The path changes only while nobody listens, before or after.
  <1>1. ASSUME NEW i \in Apps, listening = {}, listening' = {}, guard' = guard,
               \A j \in Apps \ {i}: pc'[j] = pc[j] /\ pc[j] # "listen",
               pc'[i] \notin {"chmod", "serving", "close"},
               pc'[i] = "listen" => file' = i
        PROVE  FileInv'
    BY <1>1 DEF FileInv, AppFile
  \* Whoever leaves the path alone answers for its own place only.
  <1>2. ASSUME NEW i \in Apps, file' = file, listening' \in {listening, listening \ {i}},
               \A j \in Apps \ {i}: /\ pc'[j] = pc[j] /\ guard'[j] = guard[j]
                                    /\ j \in Supervised => sup'[j] = sup[j],
               AppFile(i)',
               i \in Supervised /\ sup'[i] \in {"recheck", "unlink"} => listening' = {}
        PROVE  FileInv'
    <2>1. listening = {} => listening' = {}
      BY <1>2
    <2>2. ASSUME NEW j \in Apps, j # i PROVE AppFile(j)'
      <3>1. /\ pc'[j] = pc[j] /\ guard'[j] = guard[j] /\ file' = file
            /\ j \in listening' <=> j \in listening
        BY <1>2, <2>2
      <3>2. AppFile(j)
        BY DEF FileInv
      <3> QED
        BY <2>1, <3>1, <3>2 DEF AppFile
    <2>3. ASSUME NEW k \in Supervised, sup'[k] \in {"recheck", "unlink"} PROVE listening' = {}
      <3>1. k # i => sup'[k] = sup[k]
        BY <1>2
      <3> QED
        BY <1>2, <2>1, <2>3, <3>1 DEF FileInv
    <2> QED
      BY <1>2, <2>2, <2>3 DEF FileInv
  <1>3. ASSUME NEW i \in Apps, Unix!FirstBind(i) \/ Unix!Rebind(i) PROVE FileInv'
    <2>1. CASE file = None
      <3>1. listening = {} /\ \A j \in Apps: pc[j] # "listen"
        BY <1>0, <2>1 DEF FileInv, AppFile
      <3> QED
        BY <1>1, <1>3, <2>1, <3>1 DEF Unix!FirstBind, Unix!Rebind
    <2>2. CASE file # None
      BY <1>2, <1>3, <2>2 DEF Unix!FirstBind, Unix!Rebind, FileInv, AppFile
    <2> QED
      BY <2>1, <2>2
  <1>4. ASSUME NEW i \in Apps, Unix!RemoveStale(i) \/ Unix!Unlink(i) PROVE FileInv'
    <2>1. listening = {} /\ \A j \in Apps: pc[j] # "listen"
      BY <1>4 DEF Unix!RemoveStale, Unix!Unlink, Unix!Crossing, FileInv, AppFile
    <2> QED
      BY <1>1, <1>4, <2>1 DEF Unix!RemoveStale, Unix!Unlink
  <1>5. ASSUME NEW i \in Supervised, Unix!UnlinkOwned(i) PROVE FileInv'
    <2>1. listening = {} /\ \A j \in Apps: pc[j] # "listen"
      BY <1>5 DEF Unix!UnlinkOwned, Unix!Crossing, FileInv
    <2> QED
      BY <1>5, <2>1 DEF Unix!UnlinkOwned, FileInv, AppFile
  <1>6. ASSUME NEW i \in Apps, Unix!Listen(i) PROVE FileInv'
    <2>1. file = i /\ listening = {}
      BY <1>0, <1>6 DEF Unix!Listen, FileInv, AppFile, ListenInv
    <2>2. /\ \A j \in Apps: pc[j] \notin {"remove", "unlink"}
          /\ \A j \in Supervised: sup[j] \notin {"recheck", "unlink"}
      BY <1>6 DEF Unix!Listen, Unix!Crossing
    <2>3. \A j \in Apps \ {i}: pc[j] # "listen"
      BY <2>1 DEF FileInv, AppFile
    <2>4. /\ file' = file /\ listening' = {i} /\ guard' = guard /\ sup' = sup
          /\ pc'[i] = "stat" /\ \A j \in Apps \ {i}: pc'[j] = pc[j]
      BY <1>6, <2>1 DEF Unix!Listen
    <2> QED
      BY <2>1, <2>2, <2>3, <2>4 DEF FileInv, AppFile
  <1>7. ASSUME NEW i \in Apps, Unix!Start(i) \/ Unix!Probe(i) \/ Unix!Compare(i) PROVE FileInv'
    <2>1. pc[i] = "close" => i \notin listening
      BY DEF ListenInv
    <2>2. AppFile(i)
      BY DEF FileInv
    <2>3. /\ AppFile(i)'
          /\ \A j \in Apps \ {i}: pc'[j] = pc[j]
          /\ UNCHANGED <<file, listening, guard, sup>>
      BY <1>0, <1>7, <2>1, <2>2
         DEF Unix!Start, Unix!Probe, Unix!Compare, Unix!Stale, AppFile
    <2> QED
      BY <1>2, <2>3 DEF FileInv
  <1>8. ASSUME NEW i \in Apps, Unix!Stat(i) \/ Unix!SetPermissions(i) \/ Unix!Close(i) \/ Unix!Crash(i)
        PROVE  FileInv'
    <2>1. AppFile(i) /\ i # None /\ (pc[i] = "stat" => file = i)
      BY DEF FileInv, AppFile, ListenInv
    <2>2. /\ AppFile(i)'
          /\ \A j \in Apps \ {i}: pc'[j] = pc[j] /\ guard'[j] = guard[j]
          /\ listening' \in {listening, listening \ {i}}
          /\ UNCHANGED <<file, sup>>
      BY <1>8, <2>1 DEF Unix!Stat, Unix!SetPermissions, Unix!Close, Unix!Crash, Unix!End, AppFile
    <2> QED
      BY <1>2, <2>2 DEF FileInv
  <1>9. ASSUME NEW i \in Supervised, UNCHANGED <<file, listening, guard>>,
               pc' = pc \/ pc' = [pc EXCEPT ![i] = "bind"],
               sup' = sup \/ (\E k: sup' = [sup EXCEPT ![i] = k] /\ (k \in {"recheck", "unlink"} => listening = {}))
         PROVE  FileInv'
    <2>1. AppFile(i) /\ i \in Apps
      BY DEF FileInv
    <2>2. AppFile(i)' /\ \A j \in Apps \ {i}: pc'[j] = pc[j]
      BY <1>9, <2>1 DEF AppFile
    <2> QED
      BY <1>2, <1>9, <2>1, <2>2 DEF FileInv
  <1>10. ASSUME NEW i \in Supervised, Unix!Launch(i) \/ Unix!Watch(i) \/ Unix!Appeared(i) \/ Unix!Shutdown(i)
         PROVE  FileInv'
    BY <1>9, <1>10 DEF Unix!Launch, Unix!Watch, Unix!Appeared, Unix!Shutdown
  <1>11. ASSUME NEW i \in Supervised, Unix!Spawn(i) \/ Unix!AskOwnership(i) \/ Unix!Confirm(i) \/ Unix!LastCapture(i)
                                       \/ Unix!SameSocket(i) \/ Unix!Recheck(i)
         PROVE  FileInv'
    BY <1>9, <1>11 DEF Unix!Spawn, Unix!AskOwnership, Unix!Confirm, Unix!LastCapture, Unix!SameSocket,
                       Unix!Recheck, FileInv
  <1>12. ASSUME NEW i \in Supervised, Unix!ProbeOwned(i) PROVE FileInv'
    <2>1. PICK k \in {"gone", "recheck"}: /\ sup' = [sup EXCEPT ![i] = k]
                                          /\ k = "recheck" => file \notin listening
      BY <1>12 DEF Unix!ProbeOwned
    <2>2. UNCHANGED <<file, listening, guard, pc>>
      BY <1>12 DEF Unix!ProbeOwned
    <2> QED
      BY <1>0, <1>9, <2>1, <2>2
  <1>13. ASSUME NEW i \in Supervised, Unix!StopGroup(i) PROVE FileInv'
    <2>1. AppFile(i) /\ i \in Apps
      BY DEF FileInv
    <2>2. /\ AppFile(i)'
          /\ \A j \in Apps \ {i}: pc'[j] = pc[j]
          /\ listening' \in {listening, listening \ {i}}
          /\ UNCHANGED <<file, guard>>
          /\ sup' = [sup EXCEPT ![i] = "same"]
      BY <1>13, <2>1 DEF Unix!StopGroup, Unix!End, AppFile
    <2> QED
      BY <1>2, <2>1, <2>2 DEF FileInv
  <1> QED
    BY <1>3, <1>4, <1>5, <1>6, <1>7, <1>8, <1>10, <1>11, <1>12, <1>13
       DEF Unix!Next, Unix!BindStep, Unix!CloseStep, Unix!SupStep

LEMMA CleanStep ==
  ASSUME UnixType, UnixInv, Unix!Next
  PROVE  SupervisorCleansUp'
  <1> USE EndpointsAssumption
      DEF UnixType, UnixInv, Unix!Inodes, Unix!Goto, Unix!SupGoto, Unix!appVars, Unix!supVars
  <1> SUFFICES ASSUME NEW k \in Supervised, sup'[k] = "gone", owned'[k] = k PROVE file' # k
    BY DEF SupervisorCleansUp
  <1>0. k \in Apps /\ k # None
    OBVIOUS
  \* The socket of k comes to the path only by k, before its supervisor is gone.
  <1>1. CASE file' # file
    <2>1. file' = None \/ \E i \in Apps: file' = i /\ (Unix!FirstBind(i) \/ Unix!Rebind(i))
      BY <1>1 DEF Unix!Next, Unix!BindStep, Unix!CloseStep, Unix!SupStep,
           Unix!Start, Unix!FirstBind, Unix!Probe, Unix!RemoveStale, Unix!Rebind, Unix!Listen, Unix!Stat,
           Unix!SetPermissions, Unix!Close, Unix!Compare, Unix!Unlink, Unix!Crash,
           Unix!Launch, Unix!Watch, Unix!Appeared, Unix!Shutdown, Unix!Spawn, Unix!AskOwnership,
           Unix!Confirm, Unix!LastCapture, Unix!StopGroup, Unix!SameSocket, Unix!ProbeOwned,
           Unix!Recheck, Unix!UnlinkOwned
    <2>2. ~Unix!FirstBind(k) /\ ~Unix!Rebind(k)
      <3>1. ASSUME Unix!FirstBind(k) \/ Unix!Rebind(k) PROVE FALSE
        <4>1. sup[k] = "gone" /\ pc[k] \in {"bind", "rebind"}
          BY <3>1 DEF Unix!FirstBind, Unix!Rebind
        <4> QED
          BY <4>1 DEF SupInv, Stopped
      <3> QED
        BY <3>1
    <2> QED
      BY <1>0, <2>1, <2>2
  <1>2. CASE file' = file /\ sup'[k] = sup[k]
    <2>1. sup[k] = "gone" => owned'[k] = owned[k]
      BY DEF Unix!Next, Unix!BindStep, Unix!CloseStep, Unix!SupStep,
           Unix!Start, Unix!FirstBind, Unix!Probe, Unix!RemoveStale, Unix!Rebind, Unix!Listen, Unix!Stat,
           Unix!SetPermissions, Unix!Close, Unix!Compare, Unix!Unlink, Unix!Crash,
           Unix!Launch, Unix!Watch, Unix!Appeared, Unix!Shutdown, Unix!Spawn, Unix!AskOwnership,
           Unix!Confirm, Unix!LastCapture, Unix!StopGroup, Unix!SameSocket, Unix!ProbeOwned,
           Unix!Recheck, Unix!UnlinkOwned, Unix!Launched
    <2> QED
      BY <1>2, <2>1 DEF SupervisorCleansUp
  <1>3. CASE file' = file /\ sup'[k] # sup[k]
    <2>1. Unix!SameSocket(k) \/ Unix!ProbeOwned(k) \/ Unix!Recheck(k) \/ Unix!UnlinkOwned(k)
      BY <1>3 DEF Unix!Next, Unix!BindStep, Unix!CloseStep, Unix!SupStep,
           Unix!Start, Unix!FirstBind, Unix!Probe, Unix!RemoveStale, Unix!Rebind, Unix!Listen, Unix!Stat,
           Unix!SetPermissions, Unix!Close, Unix!Compare, Unix!Unlink, Unix!Crash,
           Unix!Launch, Unix!Watch, Unix!Appeared, Unix!Shutdown, Unix!Spawn, Unix!AskOwnership,
           Unix!Confirm, Unix!LastCapture, Unix!StopGroup, Unix!SameSocket, Unix!ProbeOwned,
           Unix!Recheck, Unix!UnlinkOwned
    <2>2. owned' = owned
      BY <2>1 DEF Unix!SameSocket, Unix!ProbeOwned, Unix!Recheck, Unix!UnlinkOwned
    <2>3. CASE Unix!ProbeOwned(k)
      <3>1. file \in listening /\ pc[k] \in {"dead", "failed"}
        BY <2>3 DEF Unix!ProbeOwned, SupInv, Stopped
      <3> QED
        BY <1>0, <1>3, <3>1 DEF ListenInv
    <2>4. CASE Unix!SameSocket(k) \/ Unix!Recheck(k) \/ Unix!UnlinkOwned(k)
      BY <1>0, <1>3, <2>2, <2>4 DEF Unix!SameSocket, Unix!Recheck, Unix!UnlinkOwned
    <2> QED
      BY <2>1, <2>3, <2>4
  <1> QED
    BY <1>1, <1>2, <1>3
-----------------------------------------------------------------------------
(* The named pipe.                                                         *)

LEMMA NameStep ==
  ASSUME PipeType, WaitingInv, NameInv, Prefixed = TRUE, Pipe!Next
  PROVE  NameInv'
  <1> USE EndpointsAssumption DEF PipeType, Pipe!Goto, Pipe!CGoto, Pipe!files
  <1>0. Pipe!Derived = Pipe!Asked /\ \A i \in Apps: waiting[i] # None => waiting[i].pipe = Pipe!Asked
    BY DEF Pipe!Derived, Pipe!Waiting
  \* Who waits goes on waiting or stops; who writes the file has the name.
  <1>1. ASSUME NEW i \in Apps,
               \A j \in Apps \ {i}: task'[j] = task[j] /\ waiting'[j] = waiting[j],
               waiting'[i] # None => waiting[i] # None,
               task'[i] = "rename" => tmp' = i,
               tmp' = tmp \/ waiting[i] # None
        PROVE  NameInv'
    <2>1. \A j, k \in Apps: waiting'[j] # None /\ waiting'[k] # None => j = k
      BY <1>1 DEF NameInv
    <2>2. ASSUME NEW j \in Apps, j # i, task'[j] = "rename" PROVE tmp' = j
      <3>1. waiting[j] # None /\ tmp = j
        BY <1>1, <2>2 DEF NameInv, WaitingInv
      <3> QED
        BY <1>1, <2>2, <3>1 DEF NameInv
    <2> QED
      BY <1>1, <2>1, <2>2 DEF NameInv
  <1>2. ASSUME NEW i \in Apps, Pipe!Start(i) \/ Pipe!EnterLoop(i) \/ Pipe!Accept(i)
                               \/ Pipe!Unregister(i) \/ Pipe!RemoveEntry(i)
        PROVE  NameInv'
    BY <1>1, <1>2 DEF Pipe!Start, Pipe!EnterLoop, Pipe!Accept, Pipe!Unregister, Pipe!RemoveEntry
  <1>3. ASSUME NEW i \in Apps, Pipe!Create(i) PROVE NameInv'
    <2>1. CASE waiting' = waiting /\ task' = [task EXCEPT ![i] = "failed"]
      BY <1>1, <1>3, <2>1 DEF Pipe!Create
    <2>2. CASE /\ Pipe!Creatable(i) /\ task' = [task EXCEPT ![i] = "write"]
               /\ waiting' = [waiting EXCEPT ![i] = [pipe |-> Pipe!Asked, client |-> None]]
      <3>1. \A j \in Apps: waiting[j] = None
        BY <1>0, <2>2 DEF Pipe!Creatable, Pipe!Taken
      <3>2. \A j \in Apps: waiting'[j] # None => j = i
        BY <2>2, <3>1
      <3>3. \A j \in Apps: task'[j] # "rename"
        BY <2>2, <3>1 DEF WaitingInv
      <3> QED
        BY <3>2, <3>3 DEF NameInv
    <2> QED
      BY <1>3, <2>1, <2>2 DEF Pipe!Create
  <1>4. ASSUME NEW i \in Apps, Pipe!WriteTmp(i) \/ Pipe!Rename(i) PROVE NameInv'
    <2>1. waiting[i] # None
      BY <1>4 DEF Pipe!WriteTmp, Pipe!Rename, WaitingInv
    <2> QED
      BY <1>1, <1>4, <2>1 DEF Pipe!WriteTmp, Pipe!Rename
  <1>5. ASSUME NEW i \in Apps, Pipe!NextInstance(i) PROVE NameInv'
    <2>1. waiting[i] # None
      BY <1>5 DEF Pipe!NextInstance, WaitingInv
    <2> QED
      BY <1>1, <1>5, <2>1 DEF Pipe!NextInstance
  <1>6. ASSUME NEW i \in Apps, Pipe!BindFails(i) \/ Pipe!LoopFails(i) \/ Pipe!Exit(i) PROVE NameInv'
    BY <1>1, <1>6 DEF Pipe!BindFails, Pipe!LoopFails, Pipe!Exit, Pipe!Dropped
  <1>7. ASSUME NEW c \in Clients, Pipe!Resolve(c) \/ Pipe!Open(c) \/ Pipe!Disconnect(c)
         PROVE  NameInv'
    <2>1. CASE UNCHANGED <<task, waiting, tmp>>
      BY <2>1 DEF NameInv
    <2>2. ASSUME NEW i \in Apps, waiting[i] # None, waiting' = [waiting EXCEPT ![i].client = c],
                 UNCHANGED <<task, tmp>>
          PROVE  NameInv'
      <3>1. \A j \in Apps: waiting'[j] # None => waiting[j] # None
        BY <2>2
      <3> QED
        BY <2>2, <3>1 DEF NameInv
    <2> QED
      BY <1>7, <2>1, <2>2 DEF Pipe!Resolve, Pipe!Open, Pipe!Disconnect, Pipe!Free
  <1> QED
    BY <1>2, <1>3, <1>4, <1>5, <1>6, <1>7 DEF Pipe!Next, Pipe!ServerStep

\* While no removal crosses a registration, who has registered is listed.
LEMMA EntryStep ==
  ASSUME PipeType, WaitingInv, NameInv, EntryInv, ~Pipe!Crossing, Pipe!Next
  PROVE  EntryInv'
  <1> USE DEF PipeType, EntryInv, Pipe!Goto, Pipe!CGoto, Pipe!files
  <1>1. ASSUME NEW i \in Apps, Pipe!Rename(i) PROVE EntryInv'
    <2>1. tmp = i /\ waiting[i] # None
      BY <1>1 DEF Pipe!Rename, NameInv, WaitingInv
    <2>2. \A j \in Apps: task'[j] = "bound" => j = i
      BY <1>1, <2>1 DEF Pipe!Rename, NameInv, WaitingInv
    <2> QED
      BY <1>1, <2>1, <2>2 DEF Pipe!Rename
  <1>2. ASSUME NEW i \in Apps, Pipe!RemoveEntry(i) PROVE EntryInv'
    BY <1>2 DEF Pipe!RemoveEntry, Pipe!Crossing
  <1>3. ASSUME NEW i \in Apps,
               \/ Pipe!Start(i) \/ Pipe!Create(i) \/ Pipe!WriteTmp(i) \/ Pipe!EnterLoop(i)
               \/ Pipe!Accept(i) \/ Pipe!NextInstance(i) \/ Pipe!Unregister(i)
               \/ Pipe!BindFails(i) \/ Pipe!LoopFails(i) \/ Pipe!Exit(i)
        PROVE  EntryInv'
    BY <1>3 DEF Pipe!Start, Pipe!Create, Pipe!WriteTmp, Pipe!EnterLoop, Pipe!Accept, Pipe!NextInstance,
                Pipe!Unregister, Pipe!BindFails, Pipe!LoopFails, Pipe!Exit
  <1>4. ASSUME NEW c \in Clients, Pipe!Resolve(c) \/ Pipe!Open(c) \/ Pipe!Disconnect(c)
        PROVE  EntryInv'
    BY <1>4 DEF Pipe!Resolve, Pipe!Open, Pipe!Disconnect
  <1> QED
    BY <1>1, <1>2, <1>3, <1>4 DEF Pipe!Next, Pipe!ServerStep

-----------------------------------------------------------------------------
(* The contract.                                                           *)

\* A step that the contract promises, or none.
Kept == Contract!Promised \/ UNCHANGED <<Answering, Address>>

\* Every step of the Unix endpoint is one of the contract's, or none.
LEMMA UnixContract ==
  ASSUME TypeOK, UnixInv, FileInv, ~Unix!Crossing, platform = "unix", Unix!Next,
         platform' = platform
  PROVE  Kept
  <1> USE EndpointsAssumption DEF UnixInv, Unix!Goto, Unix!SupGoto, Unix!appVars, Unix!supVars
  <1>0. /\ Answering = listening /\ Address = file
        /\ Answering' = listening' /\ Address' = file'
    BY DEF Answering, Address
  <1>a. \A i \in listening: i \in Apps /\ i # None /\ file = i
    BY DEF TypeOK, FileInv, AppFile
  <1>1. CASE UNCHANGED <<file, listening>>
    BY <1>0, <1>1 DEF Kept
  <1>2. ASSUME NEW i \in Apps, listening = {}, file' = i, UNCHANGED listening PROVE Kept
    BY <1>0, <1>2 DEF Kept, Contract!Promised, Contract!Claim
  <1>3. ASSUME listening = {}, file' = None, UNCHANGED listening PROVE Kept
    BY <1>0, <1>3 DEF Kept, Contract!Promised, Contract!Forget
  <1>4. ASSUME NEW i \in Apps, listening' = listening \ {i}, UNCHANGED file
        PROVE  Kept
    <2>1. CASE i \in listening
      BY <1>0, <1>4, <2>1 DEF Kept, Contract!Promised, Contract!Leave
    <2>2. CASE i \notin listening
      BY <1>1, <1>4, <2>2
    <2> QED
      BY <2>1, <2>2
  <1>5. ASSUME NEW i \in Apps, Unix!FirstBind(i) \/ Unix!Rebind(i) PROVE Kept
    BY <1>a, <1>1, <1>2, <1>5 DEF Unix!FirstBind, Unix!Rebind
  <1>6. ASSUME NEW i \in Apps, Unix!RemoveStale(i) \/ Unix!Unlink(i) PROVE Kept
    <2>1. listening = {}
      BY <1>a, <1>6 DEF FileInv, AppFile, Unix!RemoveStale, Unix!Unlink
    <2> QED
      BY <1>3, <1>6, <2>1 DEF Unix!RemoveStale, Unix!Unlink
  <1>7. ASSUME NEW i \in Apps, Unix!Listen(i) PROVE Kept
    <2>1. file = i /\ listening = {}
      BY <1>a, <1>7 DEF FileInv, AppFile, ListenInv, Unix!Listen
    <2>2. listening' = {i} /\ file' = file
      BY <1>7, <2>1 DEF Unix!Listen
    <2> QED
      BY <1>0, <2>1, <2>2 DEF Kept, Contract!Promised, Contract!Answer
  <1>8. ASSUME NEW i \in Apps, Unix!Stat(i) \/ Unix!SetPermissions(i) \/ Unix!Close(i) \/ Unix!Crash(i)
        PROVE  Kept
    BY <1>1, <1>4, <1>8 DEF Unix!Stat, Unix!SetPermissions, Unix!Close, Unix!Crash, Unix!End
  <1>9. ASSUME NEW i \in Apps, Unix!Start(i) \/ Unix!Probe(i) \/ Unix!Compare(i)
        PROVE  Kept
    BY <1>1, <1>9 DEF Unix!Start, Unix!Probe, Unix!Compare
  <1>10. ASSUME NEW i \in Supervised, Unix!UnlinkOwned(i) PROVE Kept
    BY <1>3, <1>10 DEF FileInv, Unix!UnlinkOwned
  <1>11. ASSUME NEW i \in Supervised, Unix!StopGroup(i) PROVE Kept
    BY <1>1, <1>4, <1>11 DEF Unix!StopGroup, Unix!End
  <1>12. ASSUME NEW i \in Supervised,
                \/ Unix!Launch(i) \/ Unix!Watch(i) \/ Unix!Appeared(i) \/ Unix!Shutdown(i)
                \/ Unix!Spawn(i) \/ Unix!AskOwnership(i) \/ Unix!Confirm(i) \/ Unix!LastCapture(i)
                \/ Unix!SameSocket(i) \/ Unix!ProbeOwned(i) \/ Unix!Recheck(i)
         PROVE  Kept
    BY <1>1, <1>12
       DEF Unix!Launch, Unix!Watch, Unix!Appeared, Unix!Shutdown, Unix!Spawn, Unix!AskOwnership,
           Unix!Confirm, Unix!LastCapture, Unix!SameSocket, Unix!ProbeOwned, Unix!Recheck
  <1> QED
    BY <1>5, <1>6, <1>7, <1>8, <1>9, <1>10, <1>11, <1>12
       DEF Unix!Next, Unix!BindStep, Unix!CloseStep, Unix!SupStep

\* And so is every step of the pipe endpoint.
LEMMA PipeContract ==
  ASSUME TypeOK, WaitingInv, NameInv, EntryInv, ~Pipe!Crossing, platform = "windows", Pipe!Next,
         platform' = platform
  PROVE  Kept
  <1> USE EndpointsAssumption DEF Pipe!Goto, Pipe!CGoto, Pipe!files
  <1> DEFINE Looping == {i \in Apps: task[i] \in {"serving", "next"}}
  <1>0. /\ Answering = Looping /\ Address = registry
        /\ Answering' = Looping' /\ Address' = registry'
    BY DEF Answering, Address
  <1>a. /\ task \in [Apps -> Pipe!PCs]
        /\ \A i \in Looping: waiting[i] # None
    BY DEF TypeOK, WaitingInv
  <1>1. CASE UNCHANGED <<Looping, registry>>
    BY <1>0, <1>1 DEF Kept
  <1>2. ASSUME NEW i \in Apps, Looping' = Looping \ {i}, UNCHANGED registry
        PROVE  Kept
    <2>1. CASE i \in Looping
      BY <1>0, <1>2, <2>1 DEF Kept, Contract!Promised, Contract!Leave
    <2>2. CASE i \notin Looping
      BY <1>1, <1>2, <2>2
    <2> QED
      BY <2>1, <2>2
  <1>3. ASSUME NEW i \in Apps, NEW k, k \notin {"serving", "next"}, task' = [task EXCEPT ![i] = k]
        PROVE  Looping' = Looping \ {i}
    BY <1>a, <1>3
  <1>4. ASSUME NEW i \in Apps, Pipe!Rename(i) PROVE Kept
    <2>1. tmp = i /\ waiting[i] # None
      BY <1>4 DEF Pipe!Rename, NameInv, WaitingInv
    <2>2. Looping = {}
      BY <1>a, <1>4, <2>1 DEF Pipe!Rename, NameInv
    <2>3. Looping' = {} /\ registry' = i
      BY <1>a, <1>4, <2>1, <2>2 DEF Pipe!Rename
    <2> QED
      BY <1>0, <2>2, <2>3 DEF Kept, Contract!Promised, Contract!Claim
  <1>5. ASSUME NEW i \in Apps, Pipe!EnterLoop(i) PROVE Kept
    <2>1. registry = i /\ waiting[i] # None
      BY <1>5 DEF Pipe!EnterLoop, EntryInv, WaitingInv
    <2>2. Looping = {}
      BY <1>a, <1>5, <2>1 DEF Pipe!EnterLoop, NameInv
    <2>3. Looping' = {i} /\ registry' = registry
      BY <1>a, <1>5, <2>2 DEF Pipe!EnterLoop
    <2> QED
      BY <1>0, <2>1, <2>2, <2>3 DEF Kept, Contract!Promised, Contract!Answer
  <1>6. ASSUME NEW i \in Apps, Pipe!RemoveEntry(i) PROVE Kept
    <2>1. Looping = {}
      BY <1>a, <1>6 DEF Pipe!RemoveEntry, Pipe!Crossing
    <2>2. Looping' = {} /\ registry' = None
      BY <1>a, <1>6, <2>1 DEF Pipe!RemoveEntry
    <2> QED
      BY <1>0, <2>1, <2>2 DEF Kept, Contract!Promised, Contract!Forget
  <1>7. ASSUME NEW i \in Apps, Pipe!Accept(i) \/ Pipe!NextInstance(i) PROVE Kept
    <2>1. Looping' = Looping /\ registry' = registry
      BY <1>a, <1>7 DEF Pipe!Accept, Pipe!NextInstance
    <2> QED
      BY <1>1, <2>1
  <1>8. ASSUME NEW i \in Apps,
               \/ Pipe!Start(i) \/ Pipe!Create(i) \/ Pipe!WriteTmp(i) \/ Pipe!Unregister(i)
               \/ Pipe!BindFails(i) \/ Pipe!LoopFails(i) \/ Pipe!Exit(i)
        PROVE  Kept
    <2>1. /\ registry' = registry
          /\ \E k \in {"create", "write", "failed", "rename", "stopped", "remove", "drop", "dead"}:
               task' = [task EXCEPT ![i] = k]
      BY <1>8 DEF Pipe!Start, Pipe!Create, Pipe!WriteTmp, Pipe!Unregister, Pipe!BindFails,
                  Pipe!LoopFails, Pipe!Exit
    <2>2. Looping' = Looping \ {i}
      BY <1>3, <2>1
    <2> QED
      BY <1>2, <2>1, <2>2
  <1>9. ASSUME NEW c \in Clients, Pipe!Resolve(c) \/ Pipe!Open(c) \/ Pipe!Disconnect(c)
        PROVE  Kept
    <2>1. task' = task /\ registry' = registry
      BY <1>9 DEF Pipe!Resolve, Pipe!Open, Pipe!Disconnect
    <2> QED
      BY <1>1, <2>1
  <1> QED
    BY <1>4, <1>5, <1>6, <1>7, <1>8, <1>9 DEF Pipe!Next, Pipe!ServerStep

-----------------------------------------------------------------------------
(* The theorems.                                                           *)

LEMMA TypeParts ==
  /\ TypeOK <=> platform \in {"unix", "windows"} /\ crossed \in BOOLEAN /\ UnixType /\ PipeType
  /\ TypeOK' <=> platform' \in {"unix", "windows"} /\ crossed' \in BOOLEAN /\ UnixType' /\ PipeType'
  BY DEF TypeOK, UnixType, PipeType

LEMMA InvInit == Init => IInv
  <1> SUFFICES ASSUME Init PROVE IInv
    OBVIOUS
  <1> USE DEF Init, Unix!Init, Pipe!Init
  <1>1. UnixType
    BY EndpointsAssumption DEF UnixType, Unix!Inodes, Unix!PCs, Unix!Sups
  <1>2. PipeType
    BY DEF PipeType, Pipe!PCs
  <1>3. UnixInv /\ FileInv /\ ~Unix!Crossing
    BY EndpointsAssumption
       DEF UnixInv, SupInv, Stopped, ListenInv, FileInv, AppFile, SupervisorCleansUp, Unix!Crossing
  <1>4. WaitingInv /\ NameInv /\ EntryInv /\ ~Pipe!Crossing
    BY DEF WaitingInv, NameInv, EntryInv, Pipe!Crossing
  <1> QED
    BY <1>1, <1>2, <1>3, <1>4, TypeParts DEF IInv, BaseInv, Uncrossed

LEMMA BaseStep ==
  ASSUME BaseInv, [Next]_vars
  PROVE  BaseInv'
  <1>1. CASE UNCHANGED vars
    BY <1>1 DEF BaseInv, TypeOK, UnixInv, SupInv, ListenInv, SupervisorCleansUp, WaitingInv,
                vars, unixVars, pipeVars
  <1>2. CASE Next
    <2>1. platform' = platform /\ crossed' \in BOOLEAN
      BY <1>2 DEF Next, Noted, BaseInv, TypeOK
    <2>2. CASE platform = "unix" /\ Unix!Next /\ UNCHANGED pipeVars
      <3>1. PipeType' /\ WaitingInv'
        BY <2>2, TypeParts DEF BaseInv, PipeType, WaitingInv, pipeVars
      <3>2. UnixType' /\ UnixInv'
        BY <2>2, TypeParts, UnixTypeStep, SupStep, ListenStep, CleanStep DEF BaseInv, UnixInv
      <3> QED
        BY <2>1, <3>1, <3>2, TypeParts DEF BaseInv
    <2>3. CASE platform = "windows" /\ Pipe!Next /\ UNCHANGED unixVars
      <3>1. UnixType' /\ UnixInv'
        BY <2>3, TypeParts DEF BaseInv, UnixType, UnixInv, SupInv, ListenInv, SupervisorCleansUp, unixVars
      <3>2. PipeType' /\ WaitingInv'
        BY <2>3, TypeParts, PipeTypeStep, WaitingStep DEF BaseInv
      <3> QED
        BY <2>1, <3>1, <3>2, TypeParts DEF BaseInv
    <2> QED
      BY <1>2, <2>2, <2>3 DEF Next
  <1> QED
    BY <1>1, <1>2

\* Every variable keeps its type, whatever crosses.
THEOREM TypeCorrect == Spec => []TypeOK
  <1>1. BaseInv => TypeOK
    BY DEF BaseInv
  <1>2. Init => BaseInv
    BY InvInit DEF IInv
  <1> QED
    BY <1>1, <1>2, BaseStep, PTL DEF Spec

\* A supervisor that has seen its application's socket does not leave it
\* behind, at whatever step the application ended (process-supervisor.js) and
\* whoever binds or cleans up at the same time.
THEOREM NoSocketLeft == Spec => []SupervisorCleansUp
  <1>1. BaseInv => SupervisorCleansUp
    BY DEF BaseInv, UnixInv
  <1>2. Init => BaseInv
    BY InvInit DEF IInv
  <1> QED
    BY <1>1, <1>2, BaseStep, PTL DEF Spec

LEMMA InvStep ==
  ASSUME Prefixed = TRUE, IInv, [Next]_vars
  PROVE  IInv'
  <1>0. BaseInv'
    BY BaseStep DEF IInv
  <1>1. CASE UNCHANGED vars
    BY <1>0, <1>1 DEF IInv, NameInv, Uncrossed, FileInv, AppFile, EntryInv, Unix!Crossing, Pipe!Crossing,
                      vars, unixVars, pipeVars
  <1>2. CASE Next
    <2>1. /\ platform' = platform
          /\ crossed' = FALSE => /\ crossed = FALSE
                                 /\ platform = "unix" => ~Unix!Crossing'
                                 /\ platform = "windows" => ~Pipe!Crossing'
      BY <1>2, TypeParts DEF Next, Noted, Crossing, IInv, BaseInv
    <2>2. CASE platform = "unix" /\ Unix!Next /\ UNCHANGED pipeVars
      <3>1. NameInv'
        BY <2>2 DEF IInv, NameInv, pipeVars
      <3>2. crossed' = FALSE => FileInv'
        BY <2>1, <2>2, FileStep, TypeParts DEF IInv, BaseInv, UnixInv, Uncrossed
      <3> QED
        BY <1>0, <2>1, <2>2, <3>1, <3>2, TypeParts DEF IInv, BaseInv, Uncrossed
    <2>3. CASE platform = "windows" /\ Pipe!Next /\ UNCHANGED unixVars
      <3>1. NameInv'
        BY <2>3, NameStep, TypeParts DEF IInv, BaseInv
      <3>2. crossed' = FALSE => EntryInv'
        BY <2>1, <2>3, EntryStep, TypeParts DEF IInv, BaseInv, Uncrossed
      <3> QED
        BY <1>0, <2>1, <2>3, <3>1, <3>2, TypeParts DEF IInv, BaseInv, Uncrossed
    <2> QED
      BY <1>2, <2>2, <2>3 DEF Next
  <1> QED
    BY <1>1, <1>2

\* The inductive invariant holds if the pipe has the prefix of the plugin's
\* names, whoever binds, cleans up or crashes at the same time.
THEOREM EndpointsCorrect ==
  ASSUME Prefixed = TRUE
  PROVE  Spec => []IInv
  BY InvInit, InvStep, PTL DEF Spec

\* Both endpoints implement the contract, which is void from the moment at
\* which a removal crosses a bind: until then one answers at a time and is not
\* robbed of its address, if the pipe has the prefix of the plugin's names.
THEOREM ContractHolds ==
  ASSUME Prefixed = TRUE
  PROVE  Spec => ImplementsContract
  <1>1. Init => Contract!Init
    BY DEF Init, Unix!Init, Pipe!Init, Contract!Init, Answering, Address
  <1>2. IInv /\ [Next]_vars => [Contract!Next]_(Contract!cvars)
    <2> SUFFICES ASSUME IInv, [Next]_vars PROVE [Contract!Next]_(Contract!cvars)
      OBVIOUS
    <2>1. CASE UNCHANGED vars
      BY <2>1 DEF vars, unixVars, pipeVars, Contract!cvars, Answering, Address
    <2>2. CASE Next
      <3>a. crossed \in BOOLEAN /\ crossed' = (crossed \/ Crossing')
        BY <2>2 DEF Next, Noted, IInv, BaseInv, TypeOK
      <3>1. crossed => crossed'
        BY <3>a, Zenon
      <3>2. ASSUME crossed = FALSE PROVE Kept
        <4>1. CASE platform = "unix" /\ Unix!Next
          BY <2>2, <3>2, <4>1, UnixContract DEF Next, IInv, BaseInv, Uncrossed
        <4>2. CASE platform = "windows" /\ Pipe!Next
          BY <2>2, <3>2, <4>2, PipeContract DEF Next, IInv, BaseInv, Uncrossed
        <4> QED
          BY <2>2, <4>1, <4>2 DEF Next
      <3> QED
        <4>1. crossed = FALSE \/ crossed
          BY <3>a
        <4>2. crossed \/ Kept
          BY <3>2, <4>1, Zenon
        <4>3. Contract!Next
          BY <3>1, <4>2, Zenon DEF Contract!Next, Kept
        <4> QED
          BY <4>3
    <2> QED
      BY <2>1, <2>2
  <1> QED
    BY <1>1, <1>2, EndpointsCorrect, PTL DEF Spec, ImplementsContract, Contract!Spec
=============================================================================
