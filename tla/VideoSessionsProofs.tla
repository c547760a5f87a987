------------------------- MODULE VideoSessionsProofs -------------------------
(***************************************************************************)
(* Theorems of VideoSessions, for any numbers of calls, windows, paths and *)
(* native windows.                                                         *)
(***************************************************************************)
EXTENDS VideoSessions, TLAPS

\* Where a session is: in the map, or in the hands of the event loop.
InMap(s) == \E w \in Windows: sessions[w] = s
Taken(s) == s \in main.join \/ main.joining = s

\* The event loop holds sessions only while it cancels or shuts down, aborts
\* what it is going to join, and leaves nothing behind in the map.
MainInv ==
  /\ main.op \in {"idle", "exited"} => main.join = {} /\ main.joining = None
  /\ main.abort \subseteq main.join
  /\ main.op \in {"shutdown", "exited"} => closed
  /\ closed => \A w \in Windows: sessions[w] = None

\* A start has no worker before it inserts its session, and knows its window by
\* then; it takes its session back only after the worker has failed.
StartInv ==
  \A c \in Starts:
    /\ pc[c] \in {"idle", "checkPath", "insert"} => rec[c].worker = "none"
    /\ pc[c] \in {"checkPath", "insert"} => win[c] \in Windows
    /\ pc[c] \in {"waitReady", "removeFailed"} => sess[c] = c
    /\ pc[c] = "removeFailed" => rec[c].ready = "err"
    /\ rec[c].ready = "err" => rec[c].worker = "done"
    /\ rec[c].worker = "none" => ~rec[c].abort

\* Sessions that are referenced have had a worker; a call that has come to its
\* session has a reference to it, and has joined it when it takes it back.
SessInv ==
  /\ \A c \in Calls:
       /\ pc[c] \in {"sendStop", "lockWorker", "join", "removeStopped", "dropJoin"}
            => sess[c] \in Starts
       /\ sess[c] \in Starts => rec[sess[c]].worker # "none"
       /\ pc[c] = "removeStopped" => rec[sess[c]].worker = "done"
  /\ \A w \in Windows: sessions[w] \in Starts => rec[sessions[w]].worker # "none"
  /\ \A s \in Starts: Taken(s) => rec[s].worker # "none"

CallInv == StartInv /\ SessInv

\* A running worker is in the hands of a thread, or can be taken from its
\* session; the session is in the map or in the hands of the event loop, and in
\* the latter if it was aborted.
WorkerInv ==
  \A s \in Starts: Running(s) =>
    /\ rec[s].owner # None \/ rec[s].handle
    /\ InMap(s) \/ Taken(s)
    /\ rec[s].abort => Taken(s)

\* The inductive strengthening of the properties below.
IInv == TypeOK /\ MainInv /\ CallInv /\ WorkerInv

-----------------------------------------------------------------------------
(* Type correctness.                                                       *)

\* A call that returns keeps the types of what it touches.
LEMMA ReturnType ==
  ASSUME TypeOK, NEW c \in Calls, sess[c] \in Starts, NEW map, Return(c, map)
  PROVE  /\ rec' \in [Starts -> Record]
         /\ pc' \in [Calls -> PCs]
         /\ sess' \in [Calls -> MaybeSession]
  <1>0. rec \in [Starts -> Record]
    BY DEF TypeOK
  <1>1. rec' \in [Starts -> Record]
    <2>1. [rec[sess[c]] EXCEPT !.abort = TRUE, !.stop = TRUE, !.handle = FALSE] \in Record
      BY <1>0 DEF Record
    <2> QED
      BY <1>0, <2>1 DEF Return
  <1>2. pc' \in [Calls -> PCs]
    BY DEF TypeOK, Return, PCs
  <1> QED
    BY <1>1, <1>2 DEF TypeOK, Return, MaybeSession

\* A call that is about to return has a session.
LEMMA Referring ==
  ASSUME CallInv, NEW c \in Calls,
         pc[c] \in {"waitReady", "removeFailed"} => c \in Starts,
         pc[c] \in {"waitReady", "removeFailed", "sendStop", "lockWorker", "join",
                    "removeStopped", "dropJoin"}
  PROVE  sess[c] \in Starts
  BY DEF CallInv, StartInv, SessInv

\* Every step keeps every variable in its type.
LEMMA TypeStep ==
  ASSUME TypeOK, CallInv, [Next]_vars
  PROVE  TypeOK'
  <1> USE VideoAssumption DEF Calls, call, env, vars
  <1>0. rec \in [Starts -> Record]
    BY DEF TypeOK
  <1>1. ASSUME NEW c \in Starts, NEW w \in Windows, NEW p \in Paths, Resolve(c, w, p) PROVE TypeOK'
    BY <1>1 DEF TypeOK, Resolve, PCs
  <1>2. ASSUME NEW c \in Starts, CheckPath(c) PROVE TypeOK'
    BY <1>2 DEF TypeOK, CheckPath, PCs
  <1>3. ASSUME NEW c \in Starts, Insert(c) PROVE TypeOK'
    <2>1. rec' \in [Starts -> Record]
      BY <1>0, <1>3 DEF Insert, Record, Workers
    <2>2. pc' \in [Calls -> PCs]
      BY <1>3 DEF TypeOK, Insert, PCs
    <2> QED
      BY <1>3, <2>1, <2>2 DEF TypeOK, Insert, MaybeSession
  <1>4. ASSUME NEW c \in Starts, WaitReady(c) PROVE TypeOK'
    <2>1. \/ Return(c, sessions)
          \/ pc' = [pc EXCEPT ![c] = "removeFailed"] /\ UNCHANGED <<rec, sess>>
      BY <1>4 DEF TypeOK, WaitReady
    <2>2. sess[c] \in Starts
      BY <1>4, Referring DEF WaitReady
    <2>3. /\ rec' \in [Starts -> Record]
          /\ pc' \in [Calls -> PCs]
          /\ sess' \in [Calls -> MaybeSession]
      BY <2>1, <2>2, ReturnType DEF TypeOK, PCs
    <2> QED
      BY <1>4, <2>3 DEF TypeOK, WaitReady
  <1>5. ASSUME NEW c \in Starts, RemoveFailed(c) PROVE TypeOK'
    <2>1. sess[c] \in Starts /\ Return(c, sessions')
      BY <1>5, Referring DEF RemoveFailed
    <2>2. /\ rec' \in [Starts -> Record]
          /\ pc' \in [Calls -> PCs]
          /\ sess' \in [Calls -> MaybeSession]
      BY <2>1, ReturnType DEF TypeOK
    <2>3. sessions' \in [Windows -> MaybeSession]
      BY <1>5 DEF TypeOK, RemoveFailed, Without, MaybeSession
    <2> QED
      BY <1>5, <2>2, <2>3 DEF TypeOK, RemoveFailed
  <1>6. ASSUME NEW c \in Starts, DropJoin(c) PROVE TypeOK'
    BY <1>6 DEF TypeOK, DropJoin, PCs, MaybeSession
  <1>7. ASSUME NEW c \in Stops, NEW w \in Windows, Lookup(c, w) PROVE TypeOK'
    BY <1>7 DEF TypeOK, Lookup, PCs, MaybeSession
  <1>8. ASSUME NEW c \in Stops, SendStop(c) PROVE TypeOK'
    <2>1. sess[c] \in Starts
      BY <1>8, Referring DEF SendStop
    <2>2. rec' \in [Starts -> Record]
      <3>1. PICK s \in Starts: s = sess[c]
        BY <2>1
      <3>2. [rec[s] EXCEPT !.stop = TRUE] \in Record
        BY <1>0 DEF Record
      <3>3. rec' = [rec EXCEPT ![s].stop = TRUE]
        BY <1>8, <3>1 DEF SendStop
      <3> QED
        BY <1>0, <3>2, <3>3
    <2> QED
      BY <1>8, <2>2 DEF TypeOK, SendStop, PCs
  <1>9. ASSUME NEW c \in Stops, LockWorker(c) PROVE TypeOK'
    <2>1. sess[c] \in Starts
      BY <1>9, Referring DEF LockWorker
    <2>2. CASE Return(c, sessions)
      BY <1>9, <2>1, <2>2, ReturnType DEF TypeOK, LockWorker
    <2>3. CASE ~Return(c, sessions)
      <3>1. /\ rec' = [rec EXCEPT ![sess[c]].owner = c, ![sess[c]].handle = FALSE]
            /\ pc' = [pc EXCEPT ![c] = "join"]
            /\ UNCHANGED sess
        BY <1>9, <2>3 DEF TypeOK, LockWorker
      <3>2. rec' \in [Starts -> Record]
        BY <1>0, <2>1, <3>1 DEF Record
      <3> QED
        BY <1>9, <3>1, <3>2 DEF TypeOK, LockWorker, PCs
    <2> QED
      BY <2>2, <2>3 DEF TypeOK
  <1>10. ASSUME NEW c \in Stops, Join(c) PROVE TypeOK'
    <2>1. sess[c] \in Starts
      BY <1>10, Referring DEF Join
    <2>2. rec' \in [Starts -> Record]
      BY <1>0, <1>10, <2>1 DEF Join, Record
    <2> QED
      BY <1>10, <2>2 DEF TypeOK, Join, PCs
  <1>11. ASSUME NEW c \in Stops, RemoveStopped(c) PROVE TypeOK'
    <2>1. sess[c] \in Starts /\ Return(c, sessions')
      BY <1>11, Referring DEF RemoveStopped
    <2>2. /\ rec' \in [Starts -> Record]
          /\ pc' \in [Calls -> PCs]
          /\ sess' \in [Calls -> MaybeSession]
      BY <2>1, ReturnType DEF TypeOK
    <2>3. sessions' \in [Windows -> MaybeSession]
      BY <1>11 DEF TypeOK, RemoveStopped, Without, MaybeSession
    <2> QED
      BY <1>11, <2>2, <2>3 DEF TypeOK, RemoveStopped
  <1>12. ASSUME NEW c \in Statuses, NEW w \in Windows, LockStatus(c, w) PROVE TypeOK'
    BY <1>12 DEF TypeOK, LockStatus, PCs
  <1>13. ASSUME NEW c \in Statuses, ReadWorker(c) PROVE TypeOK'
    BY <1>13 DEF TypeOK, ReadWorker, PCs
  <1>14. ASSUME NEW s \in Starts, FirstFrame(s) PROVE TypeOK'
    <2>1. rec' \in [Starts -> Record]
      BY <1>0, <1>14 DEF FirstFrame, Record, Workers
    <2> QED
      BY <1>14, <2>1 DEF TypeOK, FirstFrame
  <1>15. ASSUME NEW s \in Starts, EndRecording(s) PROVE TypeOK'
    <2>1. rec' \in [Starts -> Record]
      BY <1>0, <1>15 DEF EndRecording, WorkerFails, Record, Workers
    <2> QED
      BY <1>15, <2>1 DEF TypeOK, EndRecording, WorkerFails
  <1>16. ASSUME NEW s \in Starts, Encode(s) PROVE TypeOK'
    <2>1. rec' \in [Starts -> Record]
      BY <1>0, <1>16 DEF Encode, WorkerFails, Record, Workers
    <2> QED
      BY <1>16, <2>1 DEF TypeOK, Encode, WorkerFails
  <1>17. ASSUME NEW s \in Starts, Publish(s) PROVE TypeOK'
    <2>1. rec' \in [Starts -> Record]
      BY <1>0, <1>17 DEF Publish, WorkerFails, Record, Workers
    <2> QED
      BY <1>17, <2>1 DEF TypeOK, Publish, WorkerFails, MaybeSession
  <1>18. ASSUME NEW w \in Windows, DestroyWindow(w) PROVE TypeOK'
    BY <1>18 DEF TypeOK, DestroyWindow
  <1>19. ASSUME NEW w \in Windows, CreateWindow(w) PROVE TypeOK'
    BY <1>19 DEF TypeOK, CreateWindow
  <1>20. ASSUME NEW w \in Windows, CancelWindow(w) PROVE TypeOK'
    <2>1. sessions' \in [Windows -> MaybeSession]
      BY <1>20 DEF TypeOK, CancelWindow, MaybeSession
    <2>2. {sessions[w]} \ {None} \in SUBSET Starts
      BY DEF TypeOK, MaybeSession
    <2>3. main' \in Main
      BY <1>20, <2>2 DEF TypeOK, CancelWindow, Main, MainIdle, MaybeSession
    <2> QED
      BY <1>20, <2>1, <2>3 DEF TypeOK, CancelWindow
  <1>21. ASSUME Shutdown PROVE TypeOK'
    <2>1. {sessions[w] : w \in Windows} \ {None} \in SUBSET Starts
      BY DEF TypeOK, MaybeSession
    <2>2. main' \in Main
      BY <1>21, <2>1 DEF TypeOK, Shutdown, Main, MaybeSession
    <2> QED
      BY <1>21, <2>2 DEF TypeOK, Shutdown, MaybeSession
  <1>22. ASSUME NEW s \in Starts, AbortTaken(s) PROVE TypeOK'
    <2>1. rec' \in [Starts -> Record]
      <3>1. [rec[s] EXCEPT !.abort = TRUE, !.stop = TRUE] \in Record
        BY <1>0 DEF Record
      <3> QED
        BY <1>0, <1>22, <3>1 DEF AbortTaken
    <2>2. main' \in Main
      BY <1>22 DEF TypeOK, AbortTaken, Main
    <2> QED
      BY <1>22, <2>1, <2>2 DEF TypeOK, AbortTaken
  <1>23. ASSUME NEW s \in Starts, LockTaken(s) PROVE TypeOK'
    <2>1. rec' \in [Starts -> Record]
      <3>1. [rec[s] EXCEPT !.handle = FALSE, !.owner = "main"] \in Record
        BY <1>0 DEF Record
      <3> QED
        BY <1>0, <1>23, <3>1 DEF LockTaken
    <2>2. main' \in Main
      BY <1>23 DEF TypeOK, LockTaken, Main, MaybeSession
    <2> QED
      BY <1>23, <2>1, <2>2 DEF TypeOK, LockTaken
  <1>24. ASSUME JoinTaken PROVE TypeOK'
    <2>1. main.joining \in Starts
      BY <1>24 DEF TypeOK, JoinTaken, Main, MaybeSession
    <2>2. rec' \in [Starts -> Record]
      BY <1>0, <1>24, <2>1 DEF JoinTaken, Record
    <2>3. main' \in Main
      BY <1>24 DEF TypeOK, JoinTaken, Main, MaybeSession
    <2> QED
      BY <1>24, <2>2, <2>3 DEF TypeOK, JoinTaken
  <1>25. ASSUME Finish PROVE TypeOK'
    <2>1. main' \in Main
      <3>1. MainIdle \in Main /\ [MainIdle EXCEPT !.op = "exited"] \in Main
        BY DEF Main, MainIdle, MaybeSession
      <3> QED
        BY <1>25, <3>1 DEF Finish
    <2> QED
      BY <1>25, <2>1 DEF TypeOK, Finish
  <1>26. CASE UNCHANGED vars
    BY <1>26 DEF TypeOK
  <1> QED
    BY <1>1, <1>2, <1>3, <1>4, <1>5, <1>6, <1>7, <1>8, <1>9, <1>10, <1>11, <1>12, <1>13, <1>14,
       <1>15, <1>16, <1>17, <1>18, <1>19, <1>20, <1>21, <1>22, <1>23, <1>24, <1>25, <1>26
       DEF Next, StartStep, StopStep, WorkerStep, MainStep

-----------------------------------------------------------------------------
(* Where the sessions are.                                                 *)

LEMMA MainInvStep ==
  ASSUME TypeOK, MainInv, [Next]_vars
  PROVE  MainInv'
  <1> USE VideoAssumption DEF MainInv, call, env, vars
  <1>0. main \in Main /\ sessions \in [Windows -> MaybeSession]
    BY DEF TypeOK
  <1>1. ASSUME NEW c \in Starts, Insert(c) PROVE MainInv'
    BY <1>0, <1>1 DEF Insert, MayInsert
  <1>2. ASSUME NEW c \in Calls, sessions' = Without(c),
               UNCHANGED <<main, closed>>
        PROVE  MainInv'
    BY <1>0, <1>2 DEF Without
  <1>3. ASSUME NEW w \in Windows, CancelWindow(w) PROVE MainInv'
    BY <1>0, <1>3 DEF CancelWindow, MainIdle
  <1>4. ASSUME Shutdown PROVE MainInv'
    BY <1>0, <1>4 DEF Shutdown
  <1>5. ASSUME NEW s \in Starts, AbortTaken(s) PROVE MainInv'
    BY <1>0, <1>5 DEF AbortTaken, Main
  <1>6. ASSUME NEW s \in Starts, LockTaken(s) PROVE MainInv'
    BY <1>0, <1>6 DEF LockTaken, Main
  <1>7. ASSUME JoinTaken PROVE MainInv'
    BY <1>0, <1>7 DEF JoinTaken, Main
  <1>8. ASSUME Finish PROVE MainInv'
    BY <1>0, <1>8 DEF Finish, MainIdle
  <1>9. CASE UNCHANGED <<main, closed, sessions>>
    BY <1>9
  <1> QED
    BY <1>1, <1>2, <1>3, <1>4, <1>5, <1>6, <1>7, <1>8, <1>9
       DEF Next, StartStep, StopStep, WorkerStep, MainStep, Calls,
           Resolve, CheckPath, WaitReady, RemoveFailed, DropJoin, Lookup, SendStop, LockWorker,
           Join, RemoveStopped, LockStatus, ReadWorker, FirstFrame, EndRecording, Encode,
           Publish, DestroyWindow, CreateWindow

\* What one step does to the worker of a session, its good or bad news and its
\* abort flag: a worker that has ended has ended for good.
Advances(s) ==
  /\ rec[s].worker # "none" => rec'[s].worker # "none"
  /\ rec[s].worker = "done" => rec'[s].worker = "done"
  /\ rec'[s].ready = "err" => rec[s].ready = "err" \/ rec'[s].worker = "done"
  /\ rec[s].ready = "err" => rec'[s].ready = "err"
  /\ rec'[s].abort => rec[s].abort \/ rec[s].worker # "none"

LEMMA ReturnAdvances ==
  ASSUME TypeOK, CallInv, NEW c \in Calls, sess[c] \in Starts, NEW map, Return(c, map),
         NEW s \in Starts
  PROVE  Advances(s) /\ rec'[s].worker = rec[s].worker
  <1>1. rec \in [Starts -> Record] /\ rec[sess[c]].worker # "none"
    BY DEF TypeOK, CallInv, SessInv
  <1> QED
    BY <1>1 DEF Return, Record, Advances

LEMMA WorkersAdvance ==
  ASSUME TypeOK, MainInv, CallInv, [Next]_vars, NEW s \in Starts
  PROVE  Advances(s) /\ (rec'[s].worker = "none" \/ rec[s].worker # "none" \/ Insert(s))
  <1> DEFINE P == Advances(s) /\ (rec'[s].worker = "none" \/ rec[s].worker # "none" \/ Insert(s))
  <1> USE DEF call, env, vars
  <1>0. rec \in [Starts -> Record]
    BY DEF TypeOK
  <1>1. ASSUME NEW c \in Starts, Insert(c) PROVE P
    <2>1. rec[c].worker = "none" /\ rec[c].ready # "err"
      BY <1>1 DEF Insert, CallInv, StartInv
    <2> QED
      BY <1>0, <1>1, <2>1 DEF Insert, Record, Advances
  <1>2. ASSUME NEW c \in Calls, sess[c] \in Starts, NEW map, Return(c, map) PROVE P
    BY <1>2, ReturnAdvances
  <1>3. ASSUME NEW c \in Stops, SendStop(c) PROVE P
    BY <1>0, <1>3 DEF SendStop, Record, Advances
  <1>4. ASSUME NEW c \in Stops, LockWorker(c), ~Return(c, sessions) PROVE P
    BY <1>0, <1>4 DEF LockWorker, Record, Advances
  <1>5. ASSUME NEW c \in Stops, Join(c) PROVE P
    BY <1>0, <1>5 DEF Join, Record, Advances
  <1>6. ASSUME NEW t \in Starts, FirstFrame(t) PROVE P
    BY <1>0, <1>6 DEF FirstFrame, Record, Advances
  <1>7. ASSUME NEW t \in Starts, EndRecording(t) \/ Encode(t) \/ Publish(t) PROVE P
    BY <1>0, <1>7 DEF EndRecording, Encode, Publish, WorkerFails, Record, Advances
  <1>8. ASSUME NEW t \in Starts, AbortTaken(t) PROVE P
    <2>1. rec[t].worker # "none"
      BY <1>8 DEF AbortTaken, MainInv, CallInv, SessInv, Taken
    <2> QED
      BY <1>0, <1>8, <2>1 DEF AbortTaken, Record, Advances
  <1>9. ASSUME NEW t \in Starts, LockTaken(t) PROVE P
    BY <1>0, <1>9 DEF LockTaken, Record, Advances
  <1>10. ASSUME JoinTaken PROVE P
    BY <1>0, <1>10 DEF JoinTaken, Record, Advances
  <1>11. CASE UNCHANGED rec
    BY <1>11 DEF Advances
  <1>12. ASSUME NEW c \in Starts, WaitReady(c) \/ RemoveFailed(c) PROVE P
    <2>1. sess[c] \in Starts
      BY <1>12, Referring DEF WaitReady, RemoveFailed, Calls
    <2> QED
      BY <1>2, <1>11, <1>12, <2>1 DEF WaitReady, RemoveFailed, Calls
  <1>13. ASSUME NEW c \in Stops, LockWorker(c) \/ RemoveStopped(c) PROVE P
    <2>1. sess[c] \in Starts
      BY <1>13, VideoAssumption, Referring DEF LockWorker, RemoveStopped, Calls
    <2> QED
      BY <1>2, <1>4, <1>13, <2>1 DEF LockWorker, RemoveStopped, Calls
  <1> QED
    BY <1>1, <1>3, <1>5, <1>6, <1>7, <1>8, <1>9, <1>10, <1>11, <1>12, <1>13
       DEF Next, StartStep, StopStep, WorkerStep, MainStep, Resolve, CheckPath, DropJoin, Lookup,
           LockStatus, ReadWorker, DestroyWindow, CreateWindow, CancelWindow, Shutdown, Finish

LEMMA CallInvStep ==
  ASSUME TypeOK, MainInv, CallInv, [Next]_vars
  PROVE  CallInv'
  <1> USE VideoAssumption DEF Calls, call, env, vars, CallInv, StartInv, SessInv, Taken
  <1>0. /\ sessions \in [Windows -> MaybeSession]
        /\ pc \in [Calls -> PCs]
        /\ win \in [Calls -> Windows \cup {None}]
        /\ sess \in [Calls -> MaybeSession]
    BY DEF TypeOK
  <1>a. \A s \in Starts: Advances(s)
    BY WorkersAdvance
  <1>b. \A s \in Starts: rec'[s].worker = "none" \/ rec[s].worker # "none" \/ Insert(s)
    BY WorkersAdvance
  <1>c. \A s \in Starts:
          /\ rec'[s].ready = "err" => rec'[s].worker = "done"
          /\ rec[s].ready = "err" => rec'[s].ready = "err"
          /\ rec[s].worker # "none" => rec'[s].worker # "none"
          /\ rec[s].worker = "done" => rec'[s].worker = "done"
          /\ rec'[s].worker = "none" => ~rec'[s].abort
    BY <1>a DEF Advances
  <1>d. \A s \in Starts: /\ pc'[s] \in {"idle", "checkPath", "insert"}
                         /\ rec[s].worker = "none"
                         => rec'[s].worker = "none"
    <2>1. \A s \in Starts: Insert(s) => pc'[s] \in {"waitReady", "done"}
      BY <1>0 DEF Insert
    <2> QED
      BY <1>b, <2>1
  <1>e. ASSUME UNCHANGED <<sess, sessions, win, main>>, NEW c \in Stops, NEW k \in PCs,
               pc' = [pc EXCEPT ![c] = k],
               sess[c] \in Starts, k = "removeStopped" => rec[sess[c]].worker = "done"
        PROVE  CallInv'
    <2>1. \A d \in Calls \ {c}: pc'[d] = pc[d]
      BY <1>0, <1>e
    <2>2. pc'[c] = k
      BY <1>0, <1>e
    <2>3. StartInv'
      BY <1>c, <1>d, <1>e, <2>1
    <2>4. SessInv'
      BY <1>0, <1>c, <1>e, <2>1, <2>2 DEF MaybeSession
    <2> QED
      BY <2>3, <2>4
  <1>1. ASSUME NEW c \in Starts, NEW w \in Windows, NEW p \in Paths, Resolve(c, w, p) PROVE CallInv'
    BY <1>0, <1>1 DEF Resolve
  <1>2. ASSUME NEW c \in Starts, CheckPath(c) PROVE CallInv'
    BY <1>0, <1>2 DEF CheckPath
  <1>3. ASSUME NEW c \in Starts, Insert(c) PROVE CallInv'
    <2>1. CASE MayInsert(c)
      <3>1. rec'[c].worker = "starting" /\ \A s \in Starts \ {c}: rec'[s] = rec[s]
        BY <1>3, <2>1 DEF Insert, TypeOK, Record
      <3>2. StartInv'
        BY <1>0, <1>3, <1>c, <2>1, <3>1 DEF Insert
      <3>3. SessInv'
        BY <1>0, <1>3, <2>1, <3>1 DEF Insert, MaybeSession
      <3> QED
        BY <3>2, <3>3
    <2> QED
      BY <1>0, <1>3, <2>1 DEF Insert
  <1>4. ASSUME NEW c \in Calls, sess[c] \in Starts, NEW map, Return(c, map),
               c \in Starts => pc[c] \in {"waitReady", "removeFailed"},
               sessions' \in {sessions, Without(c)}, UNCHANGED <<win, main>>
        PROVE  CallInv'
    <2>1. /\ \A d \in Calls \ {c}: pc'[d] = pc[d] /\ sess'[d] = sess[d]
          /\ pc'[c] \in {"dropJoin", "done"} /\ sess'[c] \in {sess[c], None}
          /\ pc'[c] = "dropJoin" => sess'[c] = sess[c]
      BY <1>0, <1>4 DEF Return
    <2>2. \A s \in Starts: rec'[s].worker = rec[s].worker /\ Advances(s)
      BY <1>4, ReturnAdvances
    <2>3. \A w \in Windows: sessions'[w] \in {sessions[w], None}
      BY <1>0, <1>4 DEF Without
    <2>4. StartInv'
      BY <1>0, <1>4, <1>c, <2>1, <2>2 DEF Advances
    <2>5. SessInv'
      <3>1. \A d \in Calls: sess'[d] \in {sess[d], None}
        BY <2>1
      <3>3. \A d \in Calls: pc'[d] \in {"sendStop", "lockWorker", "join", "removeStopped", "dropJoin"}
                            => sess'[d] \in Starts
        BY <1>4, <2>1
      <3>4. \A d \in Calls: sess'[d] \in Starts => rec'[sess'[d]].worker # "none"
        BY <2>2, <3>1
      <3>5. \A d \in Calls: pc'[d] = "removeStopped" => rec'[sess'[d]].worker = "done"
        BY <2>1, <2>2
      <3>6. \A w \in Windows: sessions'[w] \in Starts => rec'[sessions'[w]].worker # "none"
        BY <2>2, <2>3
      <3>7. \A s \in Starts: Taken(s)' => rec'[s].worker # "none"
        BY <1>4, <2>2
      <3> QED
        BY <3>3, <3>4, <3>5, <3>6, <3>7
    <2> QED
      BY <2>4, <2>5
  <1>5. ASSUME NEW c \in Starts, WaitReady(c), ~Return(c, sessions) PROVE CallInv'
    BY <1>0, <1>5 DEF WaitReady
  <1>6. ASSUME NEW c \in Starts, DropJoin(c) PROVE CallInv'
    BY <1>0, <1>6 DEF DropJoin
  <1>7. ASSUME NEW c \in Stops, NEW w \in Windows, Lookup(c, w) PROVE CallInv'
    <2>1. sess'[c] = sessions[w] /\ \A d \in Calls \ {c}: sess'[d] = sess[d] /\ pc'[d] = pc[d]
      BY <1>0, <1>7 DEF Lookup
    <2>2. pc'[c] = IF sessions[w] = None THEN "done" ELSE "sendStop"
      BY <1>0, <1>7 DEF Lookup
    <2>3. UNCHANGED <<rec, sessions, main>> /\ \A d \in Starts: win'[d] = win[d]
      BY <1>0, <1>7 DEF Lookup
    <2>4. StartInv'
      BY <1>c, <2>1, <2>3
    <2>5. SessInv'
      <3>1. sessions[w] \in Starts \cup {None}
        BY <1>0 DEF MaybeSession
      <3>2. \A d \in Calls \ {c}: sess'[d] = sess[d] /\ pc'[d] = pc[d]
        BY <2>1
      <3>3. sess'[c] \in Starts => sess'[c] = sessions[w] /\ rec[sessions[w]].worker # "none"
        BY <2>1, <3>1
      <3>4. pc'[c] = "sendStop" => sess'[c] \in Starts
        BY <2>1, <2>2, <3>1
      <3>5. \A d \in Calls:
              /\ pc'[d] \in {"sendStop", "lockWorker", "join", "removeStopped", "dropJoin"} => sess'[d] \in Starts
              /\ sess'[d] \in Starts => rec'[sess'[d]].worker # "none"
              /\ pc'[d] = "removeStopped" => rec'[sess'[d]].worker = "done"
        BY <2>2, <2>3, <3>2, <3>3, <3>4
      <3>6. \A s \in Starts: Taken(s)' => Taken(s)
        BY <2>3
      <3> QED
        BY <2>3, <3>5, <3>6
    <2> QED
      BY <2>4, <2>5
  <1>8. ASSUME NEW c \in Stops, SendStop(c) PROVE CallInv'
    <2>1. sess[c] \in Starts
      BY <1>8, Referring DEF SendStop
    <2>2. UNCHANGED <<sess, sessions, win, main>> /\ pc' = [pc EXCEPT ![c] = "lockWorker"]
      BY <1>8 DEF SendStop
    <2>3. "lockWorker" \in PCs /\ "lockWorker" # "removeStopped"
      BY DEF PCs
    <2> QED
      BY <1>e, <2>1, <2>2, <2>3, Zenon
  <1>9. ASSUME NEW c \in Stops, sess[c] \in Starts, LockWorker(c), ~Return(c, sessions) PROVE CallInv'
    BY <1>9, <1>e DEF LockWorker, PCs
  <1>10. ASSUME NEW c \in Stops, Join(c) PROVE CallInv'
    <2>1. sess[c] \in Starts
      BY <1>10, Referring DEF Join
    <2>2. rec[sess[c]].worker = "done"
      BY <1>10, <2>1 DEF Join, Running
    <2>3. "removeStopped" \in PCs
      BY DEF PCs
    <2>4. pc' = [pc EXCEPT ![c] = "removeStopped"] /\ UNCHANGED <<sess, sessions, win, main>>
      BY <1>10 DEF Join
    <2> QED
      BY <1>e, <2>1, <2>2, <2>3, <2>4
  <1>11. ASSUME NEW c \in Statuses, NEW w \in Windows, LockStatus(c, w) PROVE CallInv'
    BY <1>0, <1>11 DEF LockStatus
  <1>12. ASSUME NEW c \in Statuses, ReadWorker(c) PROVE CallInv'
    BY <1>0, <1>12 DEF ReadWorker
  <1>13. ASSUME UNCHANGED <<pc, win, sess>>, \A w \in Windows: sessions'[w] \in {sessions[w], None},
                \A s \in Starts: Taken(s)' => Taken(s) \/ InMap(s)
         PROVE  CallInv'
    <2>1. \A s \in Starts: ~Insert(s)
      BY <1>0, <1>13 DEF Insert
    <2> QED
      BY <1>0, <1>b, <1>c, <1>13, <2>1 DEF InMap
  <1>14. ASSUME NEW c \in Starts, WaitReady(c) \/ RemoveFailed(c) PROVE CallInv'
    <2>1. sess[c] \in Starts
      BY <1>14, Referring DEF WaitReady, RemoveFailed
    <2> QED
      BY <1>4, <1>5, <1>14, <2>1 DEF WaitReady, RemoveFailed
  <1>15. ASSUME NEW c \in Stops, LockWorker(c) \/ RemoveStopped(c) PROVE CallInv'
    <2>1. sess[c] \in Starts
      BY <1>15, Referring DEF LockWorker, RemoveStopped
    <2>2. c \notin Starts
      OBVIOUS
    <2>3. CASE Return(c, sessions) /\ UNCHANGED <<sessions, win, main>>
      BY <1>4, <2>1, <2>2, <2>3
    <2>4. CASE LockWorker(c) /\ ~Return(c, sessions)
      BY <1>9, <2>1, <2>4
    <2>5. CASE RemoveStopped(c)
      <3>1. Return(c, sessions') /\ sessions' = Without(c) /\ UNCHANGED <<win, main>>
        BY <2>5 DEF RemoveStopped
      <3> QED
        BY <1>4, <2>1, <2>2, <3>1
    <2>6. LockWorker(c) => UNCHANGED <<sessions, win, main>>
      BY DEF LockWorker
    <2> QED
      BY <1>15, <2>3, <2>4, <2>5, <2>6
  <1>16. ASSUME \/ \E w \in Windows: DestroyWindow(w) \/ CreateWindow(w) \/ CancelWindow(w)
                \/ Shutdown \/ MainStep \/ \E s \in Starts: WorkerStep(s)
                \/ UNCHANGED vars
         PROVE  CallInv'
    <2>0. main \in Main
      BY DEF TypeOK
    <2>1. /\ UNCHANGED <<pc, win, sess>>
          /\ \A w \in Windows: sessions'[w] \in {sessions[w], None}
          /\ \A s \in Starts: Taken(s)' => Taken(s) \/ InMap(s)
      <3>1. CASE \E w \in Windows: CancelWindow(w)
        BY <1>0, <3>1 DEF CancelWindow, MainIdle, InMap
      <3>2. CASE Shutdown
        BY <1>0, <3>2 DEF Shutdown, InMap
      <3>3. CASE UNCHANGED <<pc, win, sess, sessions, main>>
        BY <3>3
      <3>4. CASE \E w \in Windows: DestroyWindow(w) \/ CreateWindow(w)
        BY <3>3, <3>4 DEF DestroyWindow, CreateWindow
      <3>5. CASE MainStep
        <4>1. CASE \E s \in Starts: AbortTaken(s)
          BY <2>0, <4>1 DEF AbortTaken, Main
        <4>2. CASE \E s \in Starts: LockTaken(s)
          BY <2>0, <4>2 DEF LockTaken, Main
        <4>3. CASE JoinTaken
          BY <2>0, <4>3 DEF JoinTaken, Main
        <4>4. CASE Finish
          BY <2>0, <4>4 DEF Finish, MainIdle
        <4> QED
          BY <3>5, <4>1, <4>2, <4>3, <4>4 DEF MainStep
      <3>6. CASE \E s \in Starts: WorkerStep(s)
        BY <3>3, <3>6 DEF WorkerStep, FirstFrame, EndRecording, Encode, Publish
      <3>7. CASE UNCHANGED vars
        BY <3>3, <3>7
      <3> QED
        BY <1>16, <3>1, <3>2, <3>3, <3>4, <3>5, <3>6, <3>7
    <2> QED
      BY <1>13, <2>1
  <1> QED
    BY <1>1, <1>2, <1>3, <1>6, <1>7, <1>8, <1>10, <1>11, <1>12, <1>14, <1>15, <1>16
       DEF Next, StartStep, StopStep

-----------------------------------------------------------------------------
(* Running workers.                                                        *)

\* A session whose worker runs is not dropped: it is referenced.
LEMMA RunningReferenced ==
  ASSUME WorkerInv, NEW s \in Starts, Running(s), NEW c
  PROVE  Referenced(s, sessions, c)
  BY DEF WorkerInv, InMap, Taken, Referenced

\* A call that returns leaves every running worker to the others.
LEMMA ReturnLeavesRunning ==
  ASSUME TypeOK, WorkerInv, NEW c \in Calls, sess[c] \in Starts, NEW map, Return(c, map),
         map = sessions \/ ~Running(sess[c]), NEW s \in Starts, Running(s)'
  PROVE  Running(s) /\ rec'[s] = rec[s]
  <1>1. rec \in [Starts -> Record]
    BY DEF TypeOK
  <1>2. CASE UNCHANGED rec
    BY <1>2 DEF Running
  <1>3. CASE rec[sess[c]].handle /\ ~Referenced(sess[c], map, c)
    <2>1. ~Running(sess[c])
      BY <1>3, RunningReferenced
    <2>2. rec' = [rec EXCEPT ![sess[c]].abort = TRUE, ![sess[c]].stop = TRUE, ![sess[c]].handle = FALSE]
      BY <1>3 DEF Return
    <2>3. CASE s = sess[c]
      <3>1. rec'[s].worker = rec[s].worker
        BY <1>1, <2>2, <2>3 DEF Record
      <3> QED
        BY <2>1, <2>3, <3>1 DEF Running
    <2>4. CASE s # sess[c]
      BY <1>1, <2>2, <2>4 DEF Running
    <2> QED
      BY <2>3, <2>4
  <1> QED
    BY <1>2, <1>3 DEF Return

LEMMA WorkerInvStep ==
  ASSUME TypeOK, MainInv, CallInv, WorkerInv, [Next]_vars
  PROVE  WorkerInv'
  <1> USE VideoAssumption DEF Calls, call, env, vars
  <1>0. /\ rec \in [Starts -> Record]
        /\ sessions \in [Windows -> MaybeSession]
        /\ main \in Main
    BY DEF TypeOK
  \* Nothing that runs is changed, and no session that runs leaves its place.
  <1>1. ASSUME \A s \in Starts: Running(s)' =>
                 /\ Running(s)
                 /\ rec'[s].owner = rec[s].owner /\ rec'[s].handle = rec[s].handle
                 /\ rec'[s].abort = rec[s].abort
                 /\ \A w \in Windows: sessions[w] = s => sessions'[w] = s,
               UNCHANGED main
        PROVE  WorkerInv'
    BY <1>1 DEF WorkerInv, InMap, Taken
  <1>2. ASSUME NEW c \in Starts, Insert(c) PROVE WorkerInv'
    <2>1. CASE MayInsert(c)
      <3>1. /\ rec'[c].handle /\ rec'[c].abort = rec[c].abort
            /\ \A s \in Starts \ {c}: rec'[s] = rec[s]
        BY <1>0, <1>2, <2>1 DEF Insert, Record
      <3>2. ~rec[c].abort /\ win[c] \in Windows
        BY <1>2 DEF Insert, CallInv, StartInv
      <3>3. sessions[win[c]] = None /\ sessions'[win[c]] = c
        BY <1>0, <1>2, <2>1, <3>2 DEF Insert, MayInsert
      <3>4. \A w \in Windows \ {win[c]}: sessions'[w] = sessions[w]
        BY <1>0, <1>2, <2>1 DEF Insert
      <3>5. main' = main
        BY <1>2 DEF Insert
      <3>6. \A s \in Starts \ {c}: /\ Running(s)' => Running(s)
                                   /\ InMap(s) => InMap(s)'
        BY <3>1, <3>3, <3>4 DEF Running, InMap
      <3>7. InMap(c)'
        BY <3>2, <3>3 DEF InMap
      <3>8. \A s \in Starts: Taken(s)' <=> Taken(s)
        BY <3>5 DEF Taken
      <3>9. ASSUME NEW s \in Starts, Running(s)', s # c
            PROVE  /\ rec'[s].owner # None \/ rec'[s].handle
                   /\ InMap(s)' \/ Taken(s)'
                   /\ rec'[s].abort => Taken(s)'
        <4>1. Running(s) /\ rec'[s] = rec[s] /\ (InMap(s) => InMap(s)')
          BY <3>1, <3>6, <3>9
        <4> QED
          BY <3>8, <4>1 DEF WorkerInv
      <3>10. rec'[c].handle /\ ~rec'[c].abort
        BY <3>1, <3>2
      <3> QED
        BY <3>7, <3>9, <3>10 DEF WorkerInv
    <2>2. CASE ~MayInsert(c)
      BY <1>1, <1>2, <2>2 DEF Insert, Running
    <2> QED
      BY <2>1, <2>2
  <1>3. ASSUME NEW c \in Calls, sess[c] \in Starts, Return(c, sessions), UNCHANGED <<sessions, main>>
        PROVE  WorkerInv'
    BY <1>1, <1>3, ReturnLeavesRunning
  <1>4. ASSUME NEW c \in Calls, sess[c] \in Starts, rec[sess[c]].worker = "done",
               sessions' = Without(c), Return(c, sessions'), UNCHANGED main
        PROVE  WorkerInv'
    <2>1. ~Running(sess[c])
      BY <1>4 DEF Running
    <2>2. \A s \in Starts: Running(s)' => Running(s) /\ rec'[s] = rec[s]
      BY <1>4, <2>1, ReturnLeavesRunning
    <2>3. \A s \in Starts \ {sess[c]}: \A w \in Windows: sessions[w] = s => sessions'[w] = s
      BY <1>0, <1>4 DEF Without
    <2> QED
      BY <1>1, <1>4, <2>1, <2>2, <2>3
  <1>5. ASSUME NEW c \in Stops, sess[c] \in Starts, SendStop(c) PROVE WorkerInv'
    <2>1. /\ rec' = [rec EXCEPT ![sess[c]].stop = TRUE]
          /\ UNCHANGED <<sessions, main>>
      BY <1>5 DEF SendStop
    <2>2. \A s \in Starts: /\ rec'[s].worker = rec[s].worker /\ rec'[s].owner = rec[s].owner
                           /\ rec'[s].handle = rec[s].handle /\ rec'[s].abort = rec[s].abort
      BY <1>0, <2>1 DEF Record
    <2> QED
      BY <1>1, <2>1, <2>2 DEF Running
  <1>6. ASSUME NEW c \in Stops, sess[c] \in Starts, LockWorker(c), ~Return(c, sessions)
        PROVE  WorkerInv'
    <2>0. PICK t \in Starts: t = sess[c]
      BY <1>6
    <2>1. /\ rec' = [rec EXCEPT ![t].owner = c, ![t].handle = FALSE]
          /\ UNCHANGED <<sessions, main>>
      BY <1>6, <2>0 DEF LockWorker
    <2>2. /\ rec'[t].worker = rec[t].worker /\ rec'[t].abort = rec[t].abort /\ rec'[t].owner = c
          /\ \A s \in Starts \ {t}: rec'[s] = rec[s]
      BY <1>0, <2>1 DEF Record
    <2>3. \A s \in Starts: /\ Running(s)' <=> Running(s)
                           /\ InMap(s)' <=> InMap(s)
                           /\ Taken(s)' <=> Taken(s)
      BY <2>1, <2>2 DEF Running, InMap, Taken
    <2>4. c # None
      OBVIOUS
    <2> QED
      BY <2>2, <2>3, <2>4 DEF WorkerInv
  <1>7. ASSUME NEW c \in Stops, sess[c] \in Starts, Join(c) PROVE WorkerInv'
    <2>1. /\ rec' = [rec EXCEPT ![sess[c]].owner = None] /\ ~Running(sess[c])
          /\ UNCHANGED <<sessions, main>>
      BY <1>7 DEF Join
    <2>2. /\ rec'[sess[c]].worker = rec[sess[c]].worker
          /\ \A s \in Starts \ {sess[c]}: rec'[s] = rec[s]
      BY <1>0, <2>1 DEF Record
    <2> QED
      BY <1>1, <2>1, <2>2 DEF Running
  <1>8. ASSUME NEW s \in Starts, WorkerStep(s) PROVE WorkerInv'
    <2>1. UNCHANGED <<sessions, main>>
      BY <1>8 DEF WorkerStep, FirstFrame, EndRecording, Encode, Publish
    <2>2. /\ Running(s)
          /\ rec'[s].owner = rec[s].owner /\ rec'[s].handle = rec[s].handle
          /\ rec'[s].abort = rec[s].abort
          /\ \A t \in Starts \ {s}: rec'[t] = rec[t]
      <3>1. CASE FirstFrame(s)
        BY <1>0, <3>1 DEF FirstFrame, Record, Running
      <3>2. CASE EndRecording(s)
        BY <1>0, <3>2 DEF EndRecording, WorkerFails, Record, Running
      <3>3. CASE Encode(s)
        BY <1>0, <3>3 DEF Encode, WorkerFails, Record, Running
      <3>4. CASE Publish(s)
        BY <1>0, <3>4 DEF Publish, WorkerFails, Record, Running
      <3> QED
        BY <1>8, <3>1, <3>2, <3>3, <3>4 DEF WorkerStep
    <2> QED
      BY <1>1, <2>1, <2>2 DEF Running
  <1>9. ASSUME NEW w \in Windows, CancelWindow(w) PROVE WorkerInv'
    <2>1. rec' = rec /\ \A v \in Windows \ {w}: sessions'[v] = sessions[v]
      BY <1>0, <1>9 DEF CancelWindow
    <2>2. \A s \in Starts: ~Taken(s)
      BY <1>9 DEF CancelWindow, MainInv, Taken
    <2>3. \A s \in Starts: sessions[w] = s => Taken(s)'
      BY <1>9 DEF CancelWindow, Taken, MainIdle
    <2> QED
      BY <2>1, <2>2, <2>3 DEF WorkerInv, InMap, Running
  <1>10. ASSUME Shutdown PROVE WorkerInv'
    <2>1. rec' = rec
      BY <1>10 DEF Shutdown
    <2>2. \A s \in Starts: ~Taken(s)
      BY <1>10 DEF Shutdown, MainInv, Taken
    <2>3. \A s \in Starts: InMap(s) => Taken(s)'
      BY <1>10 DEF Shutdown, Taken, InMap
    <2> QED
      BY <2>1, <2>2, <2>3 DEF WorkerInv, Running
  <1>11. ASSUME NEW s \in Starts, AbortTaken(s) PROVE WorkerInv'
    <2>1. Taken(s)
      BY <1>11 DEF AbortTaken, MainInv, Taken
    <2>2. /\ main'.join = main.join /\ main'.joining = main.joining
          /\ sessions' = sessions
      BY <1>0, <1>11 DEF AbortTaken, Main
    <2>3. /\ rec'[s].worker = rec[s].worker /\ rec'[s].owner = rec[s].owner
          /\ rec'[s].handle = rec[s].handle
          /\ \A t \in Starts \ {s}: rec'[t] = rec[t]
      BY <1>0, <1>11 DEF AbortTaken, Record
    <2> QED
      BY <2>1, <2>2, <2>3 DEF WorkerInv, InMap, Taken, Running
  <1>12. ASSUME NEW s \in Starts, LockTaken(s) PROVE WorkerInv'
    <2>1. /\ rec[s].owner = None
          /\ main.joining = None
          /\ main'.join = main.join \ {s}
          /\ main'.joining = IF rec[s].handle THEN s ELSE None
          /\ sessions' = sessions
      BY <1>0, <1>12 DEF LockTaken, MayLockWorker, Main
    <2>2. /\ rec'[s].worker = rec[s].worker /\ rec'[s].abort = rec[s].abort
          /\ rec[s].handle => rec'[s].owner = "main"
          /\ \A t \in Starts \ {s}: rec'[t] = rec[t]
      BY <1>0, <1>12 DEF LockTaken, Record
    <2>3. Running(s) => rec[s].handle
      BY <2>1 DEF WorkerInv
    <2>4. \A t \in Starts \ {s}: Taken(t) => Taken(t)'
      BY <2>1 DEF Taken
    <2>5. Running(s) => Taken(s)' /\ rec'[s].owner = "main"
      BY <2>1, <2>2, <2>3 DEF Taken
    <2>6. \A t \in Starts: (Running(t)' <=> Running(t)) /\ (InMap(t)' <=> InMap(t))
      BY <2>1, <2>2 DEF InMap, Running
    <2>7. "main" # None
      OBVIOUS
    <2> QED
      BY <2>2, <2>4, <2>5, <2>6, <2>7 DEF WorkerInv
  <1>13. ASSUME JoinTaken PROVE WorkerInv'
    <2>1. /\ ~Running(main.joining) /\ main.joining \in Starts
          /\ main'.join = main.join
          /\ sessions' = sessions
      BY <1>0, <1>13 DEF JoinTaken, Main, MaybeSession
    <2>2. /\ rec'[main.joining].worker = rec[main.joining].worker
          /\ \A t \in Starts \ {main.joining}: rec'[t] = rec[t]
      BY <1>0, <1>13, <2>1 DEF JoinTaken, Record
    <2>3. \A t \in Starts \ {main.joining}: Taken(t) => Taken(t)'
      BY <2>1 DEF Taken
    <2> QED
      BY <2>1, <2>2, <2>3 DEF WorkerInv, InMap, Running
  <1>14. ASSUME Finish PROVE WorkerInv'
    <2>1. rec' = rec /\ sessions' = sessions /\ \A s \in Starts: ~Taken(s)
      BY <1>14 DEF Finish, Taken
    <2> QED
      BY <2>1 DEF WorkerInv, InMap, Running
  <1>15. CASE UNCHANGED <<rec, sessions, main>>
    BY <1>1, <1>15 DEF Running
  <1>16. ASSUME NEW c \in Starts, WaitReady(c) \/ RemoveFailed(c) PROVE WorkerInv'
    <2>1. sess[c] \in Starts
      BY <1>16, Referring DEF WaitReady, RemoveFailed
    <2>2. CASE WaitReady(c)
      BY <1>3, <1>15, <2>1, <2>2 DEF WaitReady
    <2>3. CASE RemoveFailed(c)
      <3>1. rec[sess[c]].worker = "done"
        BY <2>3 DEF RemoveFailed, CallInv, StartInv
      <3> QED
        BY <1>4, <2>1, <2>3, <3>1 DEF RemoveFailed
    <2> QED
      BY <1>16, <2>2, <2>3
  <1>17. ASSUME NEW c \in Stops, StopStep(c) PROVE WorkerInv'
    <2>1. sess[c] \in Starts
      BY <1>17, Referring DEF StopStep, SendStop, LockWorker, Join, RemoveStopped
    <2>2. CASE LockWorker(c)
      <3>1. UNCHANGED <<sessions, main>>
        BY <2>2 DEF LockWorker
      <3> QED
        BY <1>3, <1>6, <2>1, <2>2, <3>1
    <2>3. CASE RemoveStopped(c)
      <3>1. rec[sess[c]].worker = "done"
        BY <2>3 DEF RemoveStopped, CallInv, SessInv
      <3> QED
        BY <1>4, <2>1, <2>3, <3>1 DEF RemoveStopped
    <2> QED
      BY <1>5, <1>7, <1>17, <2>1, <2>2, <2>3 DEF StopStep
  <1> QED
    BY <1>2, <1>8, <1>9, <1>10, <1>11, <1>12, <1>13, <1>14, <1>15, <1>16, <1>17
       DEF Next, StartStep, MainStep, Resolve, CheckPath, DropJoin, Lookup,
           LockStatus, ReadWorker, DestroyWindow, CreateWindow

-----------------------------------------------------------------------------
(* The theorems.                                                           *)

LEMMA InvInit == Init => IInv
  <1> SUFFICES ASSUME Init PROVE IInv
    OBVIOUS
  <1> USE VideoAssumption DEF Init, Calls
  <1>1. TypeOK
    <2>1. rec \in [Starts -> Record] /\ main \in Main
      BY DEF NoRecord, Record, Workers, Main, MainIdle, MaybeSession
    <2>2. /\ native \in [Windows -> 0 .. MaxNative]
          /\ made \in [Windows -> 0 .. MaxNative]
          /\ id \in [Starts -> 0 .. MaxNative]
      OBVIOUS
    <2>3. /\ sessions \in [Windows -> MaybeSession]
          /\ files \in [Paths -> MaybeSession]
          /\ sess \in [Calls -> MaybeSession]
      BY DEF MaybeSession
    <2>4. /\ pc \in [Calls -> PCs]
          /\ win \in [Calls -> Windows \cup {None}]
          /\ path \in [Starts -> Paths \cup {None}]
          /\ gone \subseteq Windows /\ mapLock \in Statuses \cup {None} /\ closed \in BOOLEAN
      BY DEF PCs
    <2> QED
      BY <2>1, <2>2, <2>3, <2>4 DEF TypeOK
  <1>2. MainInv
    BY DEF MainInv, MainIdle
  <1>3. CallInv
    BY DEF CallInv, StartInv, SessInv, Taken, MainIdle, NoRecord
  <1>4. WorkerInv
    BY DEF WorkerInv, Running, NoRecord
  <1> QED
    BY <1>1, <1>2, <1>3, <1>4 DEF IInv

LEMMA InvStep == IInv /\ [Next]_vars => IInv'
  BY TypeStep, MainInvStep, CallInvStep, WorkerInvStep DEF IInv

\* The inductive invariant holds in every state.
THEOREM SessionsCorrect == Spec => []IInv
  BY InvInit, InvStep, PTL DEF Spec

\* Every variable keeps its type.
THEOREM TypeCorrect == Spec => []TypeOK
  <1>1. IInv => TypeOK
    BY DEF IInv
  <1> QED
    BY <1>1, SessionsCorrect, PTL

\* No worker is orphaned, whoever starts, stops, cancels or shuts down: its
\* handle can be taken from a session that is referenced, or has been taken by
\* a thread that joins it (Session::drop, finish_session, cancel_session).
THEOREM WorkersAreJoined == Spec => []NoOrphanWorker
  <1>1. IInv => NoOrphanWorker
    BY RunningReferenced DEF IInv, WorkerInv, NoOrphanWorker
  <1> QED
    BY <1>1, SessionsCorrect, PTL

\* When the event loop is through with a cancellation, the workers it has
\* aborted have ended; when it is through with shutdown, all have.
THEOREM CancellationIsFinal == Spec => []CancelledIsOver
  <1>1. IInv => CancelledIsOver
    <2> SUFFICES ASSUME IInv PROVE CancelledIsOver
      OBVIOUS
    <2>1. MainInv /\ WorkerInv
      BY DEF IInv
    <2>2. None \notin Starts
      BY VideoAssumption DEF Calls
    <2>3. main.op \in {"idle", "exited"} => \A s \in Starts: ~Taken(s)
      BY <2>1, <2>2 DEF MainInv, Taken
    <2>4. main.op = "exited" => \A s \in Starts: ~InMap(s)
      BY <2>1, <2>2 DEF MainInv, InMap
    <2>5. \A s \in Starts: Running(s) => (InMap(s) \/ Taken(s)) /\ (rec[s].abort => Taken(s))
      BY <2>1, Zenon DEF WorkerInv
    <2> QED
      BY <2>3, <2>4, <2>5 DEF CancelledIsOver
  <1> QED
    BY <1>1, SessionsCorrect, PTL

\* A published recording stays what it is: the worker that comes second to a
\* path fails at hard_link and leaves the file alone.
THEOREM PublishedForGood == Spec => NeverOverwrites
  <1>1. TypeOK /\ [Next]_vars => [\A p \in Paths: files[p] # None => files'[p] = files[p]]_vars
    <2> SUFFICES ASSUME TypeOK, [Next]_vars, NEW p \in Paths, files[p] # None
                 PROVE  files'[p] = files[p]
      OBVIOUS
    <2>1. files \in [Paths -> MaybeSession]
      BY DEF TypeOK
    <2>2. ASSUME NEW s \in Starts, Publish(s) PROVE files'[p] = files[p]
      <3>1. files' = files \/ (files[path[s]] = None /\ files' = [files EXCEPT ![path[s]] = s])
        BY <2>2 DEF Publish, WorkerFails
      <3> QED
        BY <2>1, <3>1
    <2>3. CASE UNCHANGED files
      BY <2>3
    <2> QED
      BY <2>2, <2>3
         DEF Next, vars, StartStep, StopStep, WorkerStep, MainStep, Resolve, CheckPath, Insert,
             WaitReady, RemoveFailed, DropJoin, Lookup, SendStop, LockWorker, Join, RemoveStopped,
             LockStatus, ReadWorker, FirstFrame, EndRecording, Encode, WorkerFails,
             DestroyWindow, CreateWindow, CancelWindow, Shutdown, AbortTaken, LockTaken, JoinTaken,
             Finish
  <1> QED
    BY <1>1, TypeCorrect, PTL DEF Spec, NeverOverwrites
=============================================================================
