--------------------------- MODULE VideoSessions ---------------------------
(***************************************************************************)
(* Native window recording on macOS (video.rs) and the calls that drive    *)
(* it: video.start, video.stop and video.status run on the blocking pool   *)
(* (handler.rs), window destruction and exit on the event loop (lib.rs).   *)
(*                                                                         *)
(* A session lives behind an Arc: the sessions map and every call inside   *)
(* it hold a reference. Two mutexes matter: the map's, and each session's  *)
(* worker mutex, which is kept while a thread joins the worker. status is  *)
(* the only operation that keeps the first while it waits for the second.  *)
(*                                                                         *)
(* A start call makes at most one session, so the session is named after   *)
(* the call. A call is made once; concurrent clients are several calls.    *)
(***************************************************************************)
EXTENDS Naturals, FiniteSets

CONSTANTS Starts,     \* video.start calls; each also names its session
          Stops,      \* video.stop calls
          Statuses,   \* video.status calls
          Windows,    \* webview labels
          Paths,      \* output paths
          MaxNative,  \* bound: native windows a label may go through
          None        \* no session, window, path or thread

Calls == Starts \cup Stops \cup Statuses

ASSUME VideoAssumption == /\ None \notin Calls \cup Windows \cup Paths
                          /\ "main" \notin Calls \cup {None}
                          /\ Starts \cap Stops = {}
                          /\ (Starts \cup Stops) \cap Statuses = {}
                          /\ MaxNative \in Nat \ {0}

VARIABLES native,    \* the native id of each label's window, 0 if there is none
          made,      \* native ids used so far by each label
          gone,      \* labels whose Destroyed event is not handled yet
          sessions,  \* Videos.sessions: label -> session
          mapLock,   \* who keeps the sessions mutex across a wait
          closed,    \* Videos.closed
          rec,       \* the session of each start call, and its worker
          files,     \* the recording published at each path
          pc,        \* where each call is
          win,       \* the label of each call
          id,        \* start: the native id the handler resolved
          path,      \* start: the output path
          sess,      \* the session a call has a reference to
          main       \* the event loop: cancel_window or shutdown in progress

call == <<pc, win, id, path, sess>>
env  == <<native, made, gone>>
vars == <<env, sessions, mapLock, closed, rec, files, call, main>>

MaybeSession == Starts \cup {None}

Workers == {"none", "starting", "recording", "encoding", "linking", "done"}
Record  == [worker: Workers, abort: BOOLEAN, stop: BOOLEAN,
            handle: BOOLEAN, owner: Stops \cup {"main", None}, ready: {"empty", "ok", "err"}]
NoRecord == [worker |-> "none", abort |-> FALSE, stop |-> FALSE,
             handle |-> FALSE, owner |-> None, ready |-> "empty"]

PCs == {"idle", "checkPath", "insert", "waitReady", "removeFailed", "dropJoin",
        "sendStop", "lockWorker", "join", "removeStopped", "readWorker", "done"}
Main == [op: {"idle", "cancel", "shutdown", "exited"},
         abort: SUBSET Starts, join: SUBSET Starts, joining: MaybeSession]
MainIdle == [op |-> "idle", abort |-> {}, join |-> {}, joining |-> None]

Init ==
  /\ native = [w \in Windows |-> 1]
  /\ made = [w \in Windows |-> 1]
  /\ gone = {}
  /\ sessions = [w \in Windows |-> None]
  /\ mapLock = None
  /\ closed = FALSE
  /\ rec = [s \in Starts |-> NoRecord]
  /\ files = [p \in Paths |-> None]
  /\ pc = [c \in Calls |-> "idle"]
  /\ win = [c \in Calls |-> None]
  /\ id = [s \in Starts |-> 0]
  /\ path = [s \in Starts |-> None]
  /\ sess = [c \in Calls |-> None]
  /\ main = MainIdle

Running(s) == rec[s].worker \notin {"none", "done"}

-----------------------------------------------------------------------------
(* References.                                                             *)

\* Whether s is referenced by the map, by a call other than c, or by the event
\* loop.
Referenced(s, map, c) == \/ \E w \in Windows: map[w] = s
                         \/ \E d \in Calls \ {c}: sess[d] = s
                         \/ s \in main.abort \cup main.join \cup {main.joining}

\* Call c returns while the map is `map`. If its reference is the last one to
\* a session whose worker nobody has joined, Session::drop aborts and joins it.
Return(c, map) ==
  IF rec[sess[c]].handle /\ ~Referenced(sess[c], map, c)
  THEN /\ rec' = [rec EXCEPT ![sess[c]].abort = TRUE, ![sess[c]].stop = TRUE,
                             ![sess[c]].handle = FALSE]
       /\ pc' = [pc EXCEPT ![c] = "dropJoin"]
       /\ UNCHANGED sess
  ELSE /\ pc' = [pc EXCEPT ![c] = "done"]
       /\ sess' = [sess EXCEPT ![c] = None]
       /\ UNCHANGED rec

DropJoin(c) ==
  /\ pc[c] = "dropJoin"
  /\ ~Running(sess[c])
  /\ pc' = [pc EXCEPT ![c] = "done"]
  /\ sess' = [sess EXCEPT ![c] = None]
  /\ UNCHANGED <<env, sessions, mapLock, closed, rec, files, win, id, path, main>>

\* remove_session compares the Arc pointers, so that it can only remove the
\* caller's own session. Mutant: it removes what the window has.
WithoutAny(c) == [sessions EXCEPT ![win[c]] = None]
Without(c) == [sessions EXCEPT ![win[c]] = IF @ = sess[c] THEN None ELSE @]

-----------------------------------------------------------------------------
(* video.start.                                                            *)

\* The handler looks the label's native window id up before it hands the call
\* to the blocking pool; without such a window the call fails.
Resolve(c, w, p) ==
  /\ pc[c] = "idle"
  /\ native[w] # 0
  /\ pc' = [pc EXCEPT ![c] = "checkPath"]
  /\ win' = [win EXCEPT ![c] = w]
  /\ id' = [id EXCEPT ![c] = native[w]]
  /\ path' = [path EXCEPT ![c] = p]
  /\ UNCHANGED <<env, sessions, mapLock, closed, rec, files, sess, main>>

CheckPath(c) ==
  /\ pc[c] = "checkPath"
  /\ pc' = [pc EXCEPT ![c] = IF files[path[c]] = None THEN "insert" ELSE "done"]
  /\ UNCHANGED <<env, sessions, mapLock, closed, rec, files, win, id, path, sess, main>>

\* Under the map's lock: refuse after shutdown and while the window has a
\* session; otherwise spawn the worker and insert the session.
MayInsert(c) == ~closed /\ sessions[win[c]] = None

Insert(c) ==
  /\ pc[c] = "insert"
  /\ mapLock = None
  /\ IF MayInsert(c)
     THEN /\ pc' = [pc EXCEPT ![c] = "waitReady"]
          /\ sessions' = [sessions EXCEPT ![win[c]] = c]
          /\ rec' = [rec EXCEPT ![c].worker = "starting", ![c].handle = TRUE]
          /\ sess' = [sess EXCEPT ![c] = c]
     ELSE /\ pc' = [pc EXCEPT ![c] = "done"]
          /\ UNCHANGED <<sessions, rec, sess>>
  /\ UNCHANGED <<env, mapLock, closed, files, win, id, path, main>>

\* The worker reports its first frame, or the start takes its session back.
WaitReady(c) ==
  /\ pc[c] = "waitReady"
  /\ \/ /\ rec[c].ready = "ok"
        /\ Return(c, sessions)
     \/ /\ rec[c].ready = "err"
        /\ pc' = [pc EXCEPT ![c] = "removeFailed"]
        /\ UNCHANGED <<rec, sess>>
  /\ UNCHANGED <<env, sessions, mapLock, closed, files, win, id, path, main>>

RemoveFailed(c) ==
  /\ pc[c] = "removeFailed"
  /\ mapLock = None
  /\ sessions' = Without(c)
  /\ Return(c, sessions')
  /\ UNCHANGED <<env, mapLock, closed, files, win, id, path, main>>

-----------------------------------------------------------------------------
(* video.stop.                                                             *)

\* The map's lock is given up within the statement. Mutant: its guard lives on
\* until the call returns.
LookupKeepsLock(c, w) ==
  /\ pc[c] = "idle"
  /\ mapLock = None
  /\ mapLock' = IF sessions[w] = None THEN None ELSE c
  /\ win' = [win EXCEPT ![c] = w]
  /\ sess' = [sess EXCEPT ![c] = sessions[w]]
  /\ pc' = [pc EXCEPT ![c] = IF sessions[w] = None THEN "done" ELSE "sendStop"]
  /\ UNCHANGED <<env, sessions, closed, rec, files, id, path, main>>

Lookup(c, w) ==
  /\ pc[c] = "idle"
  /\ mapLock = None
  /\ win' = [win EXCEPT ![c] = w]
  /\ sess' = [sess EXCEPT ![c] = sessions[w]]
  /\ pc' = [pc EXCEPT ![c] = IF sessions[w] = None THEN "done" ELSE "sendStop"]
  /\ UNCHANGED <<env, sessions, mapLock, closed, rec, files, id, path, main>>

SendStop(c) ==
  /\ pc[c] = "sendStop"
  /\ rec' = [rec EXCEPT ![sess[c]].stop = TRUE]
  /\ pc' = [pc EXCEPT ![c] = "lockWorker"]
  /\ UNCHANGED <<env, sessions, mapLock, closed, files, win, id, path, sess, main>>

\* The worker handle can be taken once; later stops find it collected.
LockWorker(c) ==
  /\ pc[c] = "lockWorker"
  /\ rec[sess[c]].owner = None
  /\ IF rec[sess[c]].handle
     THEN /\ rec' = [rec EXCEPT ![sess[c]].owner = c, ![sess[c]].handle = FALSE]
          /\ pc' = [pc EXCEPT ![c] = "join"]
          /\ UNCHANGED sess
     ELSE Return(c, sessions)
  /\ UNCHANGED <<env, sessions, mapLock, closed, files, win, id, path, main>>

Join(c) ==
  /\ pc[c] = "join"
  /\ ~Running(sess[c])
  /\ rec' = [rec EXCEPT ![sess[c]].owner = None]
  /\ pc' = [pc EXCEPT ![c] = "removeStopped"]
  /\ UNCHANGED <<env, sessions, mapLock, closed, files, win, id, path, sess, main>>

RemoveStopped(c) ==
  /\ pc[c] = "removeStopped"
  /\ mapLock = None
  /\ sessions' = Without(c)
  /\ Return(c, sessions')
  /\ UNCHANGED <<env, mapLock, closed, files, win, id, path, main>>

-----------------------------------------------------------------------------
(* video.status: the map's lock is kept while the worker's is awaited.     *)

LockStatus(c, w) ==
  /\ pc[c] = "idle"
  /\ mapLock = None
  /\ win' = [win EXCEPT ![c] = w]
  /\ IF sessions[w] = None
     THEN pc' = [pc EXCEPT ![c] = "done"] /\ UNCHANGED mapLock
     ELSE pc' = [pc EXCEPT ![c] = "readWorker"] /\ mapLock' = c
  /\ UNCHANGED <<env, sessions, closed, rec, files, id, path, sess, main>>

ReadWorker(c) ==
  /\ pc[c] = "readWorker"
  /\ rec[sessions[win[c]]].owner = None
  /\ mapLock' = None
  /\ pc' = [pc EXCEPT ![c] = "done"]
  /\ UNCHANGED <<env, sessions, closed, rec, files, win, id, path, sess, main>>

-----------------------------------------------------------------------------
(* The worker of session s. Each bounded child process is one step: it     *)
(* fails if the abort flag is up, and may fail or time out by itself.      *)

WorkerFails(s) == rec' = [rec EXCEPT ![s].worker = "done"] /\ UNCHANGED files

FirstFrame(s) ==
  /\ rec[s].worker = "starting"
  /\ \/ rec' = [rec EXCEPT ![s].worker = "done", ![s].ready = "err"]
     \/ /\ ~rec[s].abort
        /\ rec' = [rec EXCEPT ![s].worker = "recording", ![s].ready = "ok"]
  /\ UNCHANGED <<env, sessions, mapLock, closed, files, call, main>>

\* The loop ends on a stop signal or at the duration limit.
EndRecording(s) ==
  /\ rec[s].worker = "recording"
  /\ \/ WorkerFails(s)
     \/ /\ ~rec[s].abort
        /\ rec' = [rec EXCEPT ![s].worker = "encoding"]
        /\ UNCHANGED files
  /\ UNCHANGED <<env, sessions, mapLock, closed, call, main>>

\* Encoding, and the last look at the abort flag before publication.
Encode(s) ==
  /\ rec[s].worker = "encoding"
  /\ \/ WorkerFails(s)
     \/ /\ ~rec[s].abort
        /\ rec' = [rec EXCEPT ![s].worker = "linking"]
        /\ UNCHANGED files
  /\ UNCHANGED <<env, sessions, mapLock, closed, call, main>>

\* Mutant: the finished file is renamed over the output path.
PublishByRename(s) ==
  /\ rec[s].worker = "linking"
  /\ files' = [files EXCEPT ![path[s]] = s]
  /\ rec' = [rec EXCEPT ![s].worker = "done"]
  /\ UNCHANGED <<env, sessions, mapLock, closed, call, main>>

\* hard_link is atomic and fails on a path that exists by now.
Publish(s) ==
  /\ rec[s].worker = "linking"
  /\ IF files[path[s]] = None
     THEN /\ files' = [files EXCEPT ![path[s]] = s]
          /\ rec' = [rec EXCEPT ![s].worker = "done"]
     ELSE WorkerFails(s)
  /\ UNCHANGED <<env, sessions, mapLock, closed, call, main>>

-----------------------------------------------------------------------------
(* The window system (external) and the event loop.                        *)

\* A window goes away; its native id may be given to another window.
DestroyWindow(w) ==
  /\ native[w] # 0
  /\ native' = [native EXCEPT ![w] = 0]
  /\ gone' = gone \cup {w}
  /\ UNCHANGED <<made, sessions, mapLock, closed, rec, files, call, main>>

CreateWindow(w) ==
  /\ native[w] = 0
  /\ w \notin gone
  /\ main.op = "idle"
  /\ made[w] < MaxNative
  /\ made' = [made EXCEPT ![w] = @ + 1]
  /\ native' = [native EXCEPT ![w] = made[w] + 1]
  /\ UNCHANGED <<gone, sessions, mapLock, closed, rec, files, call, main>>

\* cancel_window: the session leaves the map.
CancelWindow(w) ==
  /\ main.op = "idle"
  /\ w \in gone
  /\ mapLock = None
  /\ gone' = gone \ {w}
  /\ sessions' = [sessions EXCEPT ![w] = None]
  /\ LET taken == {sessions[w]} \ {None} IN
       main' = IF taken = {} THEN MainIdle
               ELSE [op |-> "cancel", abort |-> taken, join |-> taken, joining |-> None]
  /\ UNCHANGED <<native, made, mapLock, closed, rec, files, call>>

\* shutdown: the service closes and every session leaves the map.
Shutdown ==
  /\ main.op = "idle"
  /\ mapLock = None
  /\ closed' = TRUE
  /\ LET taken == {sessions[w] : w \in Windows} \ {None} IN
       main' = [op |-> "shutdown", abort |-> taken, join |-> taken, joining |-> None]
  /\ sessions' = [w \in Windows |-> None]
  /\ UNCHANGED <<env, mapLock, rec, files, call>>

\* The sessions taken are all aborted before the first one is joined.
AbortTaken(s) ==
  /\ s \in main.abort
  /\ rec' = [rec EXCEPT ![s].abort = TRUE, ![s].stop = TRUE]
  /\ main' = [main EXCEPT !.abort = @ \ {s}]
  /\ UNCHANGED <<env, sessions, mapLock, closed, files, call>>

\* The worker is joined under its lock, after a concurrent stop has let go of
\* it. Mutants: a worker in the hands of somebody else is not waited for; the
\* event loop insists on joining the worker itself.
JoinUnlocked(s) == TRUE
JoinItself(s) == rec[s].owner = None /\ rec[s].handle
MayLockWorker(s) == rec[s].owner = None

LockTaken(s) ==
  /\ main.abort = {}
  /\ main.joining = None
  /\ s \in main.join
  /\ MayLockWorker(s)
  /\ main' = [main EXCEPT !.join = @ \ {s}, !.joining = IF rec[s].handle THEN s ELSE None]
  /\ rec' = IF rec[s].handle
            THEN [rec EXCEPT ![s].handle = FALSE, ![s].owner = "main"]
            ELSE rec
  /\ UNCHANGED <<env, sessions, mapLock, closed, files, call>>

JoinTaken ==
  /\ main.joining # None
  /\ ~Running(main.joining)
  /\ rec' = [rec EXCEPT ![main.joining].owner = None]
  /\ main' = [main EXCEPT !.joining = None]
  /\ UNCHANGED <<env, sessions, mapLock, closed, files, call>>

Finish ==
  /\ main.op \in {"cancel", "shutdown"}
  /\ main.join = {}
  /\ main.joining = None
  /\ main' = IF main.op = "cancel" THEN MainIdle ELSE [MainIdle EXCEPT !.op = "exited"]
  /\ UNCHANGED <<env, sessions, mapLock, closed, rec, files, call>>

-----------------------------------------------------------------------------
StartStep(c) == CheckPath(c) \/ Insert(c) \/ WaitReady(c) \/ RemoveFailed(c) \/ DropJoin(c)
StopStep(c)  == SendStop(c) \/ LockWorker(c) \/ Join(c) \/ RemoveStopped(c)

WorkerStep(s) == FirstFrame(s) \/ EndRecording(s) \/ Encode(s) \/ Publish(s)

MainStep == (\E s \in Starts: AbortTaken(s) \/ LockTaken(s)) \/ JoinTaken \/ Finish

Next ==
  \/ \E c \in Starts, w \in Windows, p \in Paths: Resolve(c, w, p)
  \/ \E c \in Starts: StartStep(c) \/ WorkerStep(c)
  \/ \E c \in Stops: (\E w \in Windows: Lookup(c, w)) \/ StopStep(c)
  \/ \E c \in Statuses: (\E w \in Windows: LockStatus(c, w)) \/ ReadWorker(c)
  \/ \E w \in Windows: DestroyWindow(w) \/ CreateWindow(w) \/ CancelWindow(w)
  \/ Shutdown
  \/ MainStep

Spec == Init /\ [][Next]_vars

\* Calls run on threads of their own, every child of a worker has a deadline,
\* and the event loop finishes what it is doing and takes its next event.
Fairness ==
  /\ \A c \in Starts: WF_vars(StartStep(c)) /\ WF_vars(WorkerStep(c))
  /\ \A c \in Stops: WF_vars(StopStep(c))
  /\ \A c \in Statuses: WF_vars(ReadWorker(c))
  /\ WF_vars(MainStep)
  /\ \A w \in Windows: WF_vars(CancelWindow(w))

FairSpec == Spec /\ Fairness

-----------------------------------------------------------------------------
(* Properties.                                                             *)

TypeOK ==
  /\ native \in [Windows -> 0 .. MaxNative]
  /\ made \in [Windows -> 0 .. MaxNative]
  /\ gone \subseteq Windows
  /\ sessions \in [Windows -> MaybeSession]
  /\ mapLock \in Statuses \cup {None}
  /\ closed \in BOOLEAN
  /\ rec \in [Starts -> Record]
  /\ files \in [Paths -> MaybeSession]
  /\ pc \in [Calls -> PCs]
  /\ win \in [Calls -> Windows \cup {None}]
  /\ id \in [Starts -> 0 .. MaxNative]
  /\ path \in [Starts -> Paths \cup {None}]
  /\ sess \in [Calls -> MaybeSession]
  /\ main \in Main

\* Somebody is going to join every running worker: its handle is in a session
\* that is still referenced, or a thread that took the handle is joining it.
NoOrphanWorker ==
  \A s \in Starts: Running(s) =>
    \/ rec[s].handle /\ Referenced(s, sessions, None)
    \/ rec[s].owner # None
    \/ \E c \in Calls: pc[c] = "dropJoin" /\ sess[c] = s

\* cancel_window and shutdown return only when the workers of the sessions
\* they took have ended, even if a concurrent video.stop was joining them; and
\* nothing records, encodes or publishes once the application has shut the
\* service down, no start that was under way begins afterwards.
CancelledIsOver ==
  /\ main.op \in {"idle", "exited"} =>
       \A s \in Starts: rec[s].abort /\ Running(s) =>
         \E c \in Calls: pc[c] = "dropJoin" /\ sess[c] = s
  /\ main.op = "exited" => \A s \in Starts: ~Running(s)

\* A published recording is never replaced.
NeverOverwrites == [][\A p \in Paths: files[p] # None => files'[p] = files[p]]_vars

\* Every call returns and every cancellation ends, so that the event loop is
\* free again, though status keeps the map's lock while it waits for a
\* worker's, and joins wait for encoders.
EverybodyReturns ==
  /\ \A c \in Calls: pc[c] # "idle" ~> pc[c] = "done"
  /\ main.op \in {"cancel", "shutdown"} ~> main.op \in {"idle", "exited"}
=============================================================================
