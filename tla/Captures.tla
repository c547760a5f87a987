------------------------------ MODULE Captures ------------------------------
(***************************************************************************)
(* Screenshots and heap snapshots (screenshot/ipc.rs, heap.rs): calls on   *)
(* the blocking pool that obtain their bytes from the system, write them   *)
(* beside the file that was asked for, and rename that into place. A heap  *)
(* snapshot on macOS connects the window's inspector from the main thread, *)
(* asks again until its frontend has loaded, waits for the script it runs  *)
(* there, and detaches the inspector.                                      *)
(*                                                                         *)
(* A file's identity is the call that created it. Its data is the call     *)
(* whose bytes it holds whole, or Torn.                                    *)
(***************************************************************************)
EXTENDS Naturals, Sequences, FiniteSets

CONSTANTS Natives,  \* screenshots of a window of the window server
          Views,    \* screenshots of a webview
          Heaps,    \* heap snapshots, all of one window
          Paths,    \* the files that are asked for
          Asked,    \* call -> its path
          Stem,     \* path -> path without its extension
          Casts,    \* sets of calls that are made together: a bound
          Attempts, \* FRONTEND_ATTEMPTS
          Old,      \* what is at the paths before
          Torn, None

Shots == Natives \cup Views
Calls == Shots \cup Heaps

ASSUME CapturesAssumption == /\ Asked \in [Calls -> Paths]
                             /\ Casts \subseteq SUBSET Calls
                             /\ Attempts \in Nat
                             /\ {Old, Torn, None} \cap Calls = {}
                             /\ Old # None /\ None # "UNHEARD"

VARIABLES dir,       \* name -> the file at it
          data,      \* file -> what it holds
          pc,        \* where each call is
          code,      \* the error it ends with
          opened,    \* the file it writes to
          tool,      \* what takes the picture of a native window
          backend,   \* the backend selected once for the process
          connected, \* is the inspector connected?
          frontend,  \* its frontend page
          attempts,  \* attempts of a heap snapshot
          scripts,   \* snapshot scripts that run in the frontend
          reply,     \* what the receiver of a call's last request holds
          posted     \* closures on their way to the main thread

filesVars == <<dir, data, opened>>
shotVars  == <<tool, backend>>
heapVars  == <<connected, frontend, attempts, scripts, reply, posted>>
vars      == <<filesVars, pc, code, shotVars, heapVars>>

\* A process-wide counter is part of the name. Mutant: only the path is.
TmpOfPath(c) == <<"tmp", Asked[c]>>
Tmp(c)     == <<"tmp", c>>
Partial(c) == <<"partial", Stem[Asked[c]]>>
Beside(c)  == IF c \in Heaps THEN Partial(c) ELSE Tmp(c)
Names      == Paths \cup {Beside(c) : c \in Calls}
Files      == Calls \cup {Old}

\* Nobody asks for a temporary name, and heap snapshots that are made together
\* have partial files of their own.
ASSUME NamesAssumption ==
  /\ \A c \in Calls : Beside(c) \notin Paths
  /\ \A cast \in Casts : \A h, k \in cast \cap Heaps : Partial(h) = Partial(k) => h = k

PCs   == {"never", "idle", "pixels", "write", "writing", "metadata", "rename", "cleanup",
          "request", "await", "recv", "retry", "close", "done", "failed"}
Ended == {"done", "failed"}
Codes == {None, "INVALID_PARAMS", "UNSUPPORTED_FORMAT", "INVALID_OUTPUT_PATH",
          "WINDOW_NOT_FOUND", "CAPTURE_FAILED", "UNHEARD"}

Init ==
  /\ dir = [n \in Names |-> IF n \in Paths THEN Old ELSE None]
  /\ data = [f \in Files |-> IF f = Old THEN Old ELSE None]
  /\ \E cast \in Casts : pc = [c \in Calls |-> IF c \in cast THEN "idle" ELSE "never"]
  /\ code = [c \in Calls |-> None]
  /\ opened = [c \in Calls |-> None]
  /\ tool = [c \in Natives |-> None]
  /\ backend = None
  /\ connected = FALSE
  /\ frontend = "none"
  /\ attempts = [h \in Heaps |-> 0]
  /\ scripts = {}
  /\ reply = [h \in Heaps |-> None]
  /\ posted = <<>>

Goto(c, where) == pc' = [pc EXCEPT ![c] = where] /\ UNCHANGED code

Fail(c, why) == /\ pc' = [pc EXCEPT ![c] = "failed"]
                /\ code' = [code EXCEPT ![c] = why]

\* A failure after the temporary name was taken removes what is there.
Abandon(c, why) == /\ pc' = [pc EXCEPT ![c] = "cleanup"]
                   /\ code' = [code EXCEPT ![c] = why]

-----------------------------------------------------------------------------
(* Requests. The checks are made in the order of the contract.             *)

Requests == [object: BOOLEAN,
             format: {"none", "png", "jpeg"},
             window: {"none", "u32", "negative", "large"},
             path: {"none", "relative", "symlink", "directory", "orphan", "good"}]

\* For a screenshot: every refusal is one of the path, after the others.
OutputPathRefusal(r) == IF r.path = "good" THEN None ELSE "INVALID_OUTPUT_PATH"

Refusal(r) ==
  IF ~r.object THEN "INVALID_PARAMS"
  ELSE IF r.format = "jpeg" THEN "UNSUPPORTED_FORMAT"
  ELSE IF r.window \in {"negative", "large"} THEN "INVALID_PARAMS"
  ELSE OutputPathRefusal(r)

\* A heap snapshot takes a path that is a link or a directory.
HeapRefusal(r) ==
  IF ~r.object \/ r.path \in {"none", "relative", "orphan"} THEN "INVALID_PARAMS" ELSE None

\* The shape of a request decides between a webview and a native window.
Fits(c, r) == CASE c \in Natives -> r.window # "none"
                [] c \in Views   -> r.window = "none"
                [] OTHER         -> TRUE

Parse(c) ==
  /\ pc[c] = "idle"
  /\ \E r \in Requests :
       /\ Fits(c, r)
       /\ LET refusal == IF c \in Heaps THEN HeapRefusal(r) ELSE Refusal(r)
          IN  IF refusal = None
              THEN Goto(c, IF c \in Heaps THEN "request" ELSE "pixels")
              ELSE Fail(c, refusal)
  /\ UNCHANGED <<filesVars, shotVars, heapVars>>

-----------------------------------------------------------------------------
(* Screenshots: where the pixels come from.                                *)

\* One pass over the window list finds the window and its bounds. The backend
\* is selected once: screencapture, if the permission is there at that time.
Enumerate(c) ==
  /\ pc[c] = "pixels"
  /\ c \in Natives
  /\ \/ /\ backend' \in (IF backend = None THEN {"screencapture", "cgwindow"} ELSE {backend})
        /\ tool' = [tool EXCEPT ![c] = backend']
        /\ Goto(c, "write")
     \/ /\ \E why \in {"WINDOW_NOT_FOUND", "CAPTURE_FAILED"} : Fail(c, why)
        /\ UNCHANGED shotVars
  /\ UNCHANGED <<filesVars, heapVars>>

\* WebKit delivers an encoded image, an error, or nothing within 10 seconds.
Snapshot(c) ==
  /\ pc[c] = "pixels"
  /\ c \in Views
  /\ \/ Goto(c, "write")
     \/ \E why \in {"WINDOW_NOT_FOUND", "CAPTURE_FAILED"} : Fail(c, why)
  /\ UNCHANGED <<filesVars, shotVars, heapVars>>

-----------------------------------------------------------------------------
(* Writing beside the file and renaming into place.                        *)

\* Opening truncates the file at the name, or makes one.
BeginWrite(c) ==
  /\ pc[c] = "write"
  /\ LET f == IF dir[Beside(c)] = None THEN c ELSE dir[Beside(c)]
     IN  /\ dir' = [dir EXCEPT ![Beside(c)] = f]
         /\ data' = [data EXCEPT ![f] = Torn]
         /\ opened' = [opened EXCEPT ![c] = f]
  /\ Goto(c, "writing")
  /\ UNCHANGED <<shotVars, heapVars>>

\* Bytes of two writers at once make no file of either.
Alone(c) == \A d \in Calls \ {c} : opened[d] # opened[c] \/ pc[d] # "writing"

EndWrite(c) ==
  /\ pc[c] = "writing"
  /\ data' = [data EXCEPT ![opened[c]] = IF Alone(c) THEN c ELSE Torn]
  /\ Goto(c, IF c \in Heaps THEN "rename" ELSE "metadata")
  /\ UNCHANGED <<dir, opened, shotVars, heapVars>>

\* The disk is full or the tool fails, before or after the file was opened.
\* CGWindowList is tried once after screencapture.
\* Mutant: the error is returned with the file still there.
WriteFailsUncleaned(c) ==
  /\ pc[c] \in {"write", "writing"}
  /\ Fail(c, "CAPTURE_FAILED")
  /\ UNCHANGED <<filesVars, shotVars, heapVars>>
WriteFails(c) ==
  /\ pc[c] \in {"write", "writing"}
  /\ IF c \in Natives /\ tool[c] = "screencapture"
     THEN /\ tool' = [tool EXCEPT ![c] = "cgwindow"]
          /\ Goto(c, "write")
     ELSE /\ Abandon(c, "CAPTURE_FAILED")
          /\ UNCHANGED tool
  /\ UNCHANGED <<filesVars, backend, heapVars>>

\* Size, dimensions and scale are read from the file before it is published.
ReadMetadata(c) ==
  /\ pc[c] = "metadata"
  /\ \/ Goto(c, "rename")
     \/ Abandon(c, "CAPTURE_FAILED")
  /\ UNCHANGED <<filesVars, shotVars, heapVars>>

\* A path that has become a directory, or a name that is gone, refuses it.
Rename(c) ==
  /\ pc[c] = "rename"
  /\ \/ /\ dir[Beside(c)] # None
        /\ dir' = [dir EXCEPT ![Asked[c]] = dir[Beside(c)], ![Beside(c)] = None]
        /\ Goto(c, "done")
     \/ Abandon(c, "CAPTURE_FAILED") /\ UNCHANGED dir
  /\ UNCHANGED <<data, opened, shotVars, heapVars>>

Cleanup(c) ==
  /\ pc[c] = "cleanup"
  /\ dir' = [dir EXCEPT ![Beside(c)] = None]
  /\ Goto(c, "failed")
  /\ UNCHANGED <<data, opened, shotVars, heapVars>>

-----------------------------------------------------------------------------
(* Heap snapshots: the calling thread.                                     *)

Post(closure) == posted' = Append(posted, closure)

Request(h) ==
  /\ pc[h] = "request"
  /\ Post([kind |-> "request", call |-> h, attempt |-> attempts[h]])
  /\ Goto(h, "await")
  /\ UNCHANGED <<filesVars, shotVars, connected, frontend, attempts, scripts, reply>>

\* The main thread does not run the closure within 10 seconds: the call fails
\* there and then.
AwaitFails(h) ==
  /\ pc[h] = "await"
  /\ Fail(h, "UNHEARD")
  /\ UNCHANGED <<filesVars, shotVars, heapVars>>

\* What the script of the last request has returned; an answer to the effect
\* that the frontend was reloaded is asked for again.
Receive(h) ==
  /\ pc[h] = "recv"
  /\ reply[h] # None
  /\ CASE reply[h] = "reloaded" -> Goto(h, "retry")
       [] reply[h] = "error"    -> pc' = [pc EXCEPT ![h] = "close"]
                                     /\ code' = [code EXCEPT ![h] = "CAPTURE_FAILED"]
       [] OTHER                 -> Goto(h, "close")
  /\ reply' = [reply EXCEPT ![h] = None]
  /\ UNCHANGED <<filesVars, shotVars, connected, frontend, attempts, scripts, posted>>

\* SNAPSHOT_TIMEOUT. Mutant: it is returned like any other error.
TimeoutReturns(h) ==
  /\ pc[h] = "recv"
  /\ Fail(h, "CAPTURE_FAILED")
  /\ UNCHANGED <<filesVars, shotVars, heapVars>>
Timeout(h) ==
  /\ pc[h] = "recv"
  /\ pc' = [pc EXCEPT ![h] = "close"]
  /\ code' = [code EXCEPT ![h] = "CAPTURE_FAILED"]
  /\ UNCHANGED <<filesVars, shotVars, heapVars>>

\* Mutant: the last attempt is one too many.
RetryOnceMore(h) ==
  /\ pc[h] = "retry"
  /\ attempts[h] <= Attempts
  /\ attempts' = [attempts EXCEPT ![h] = @ + 1]
  /\ Goto(h, "request")
  /\ UNCHANGED <<filesVars, shotVars, connected, frontend, scripts, reply, posted>>
Retry(h) ==
  /\ pc[h] = "retry"
  /\ IF attempts[h] = Attempts
     THEN /\ pc' = [pc EXCEPT ![h] = "close"]
          /\ code' = [code EXCEPT ![h] = "CAPTURE_FAILED"]
          /\ UNCHANGED attempts
     ELSE /\ attempts' = [attempts EXCEPT ![h] = @ + 1]
          /\ Goto(h, "request")
  /\ UNCHANGED <<filesVars, shotVars, connected, frontend, scripts, reply, posted>>

\* The backend is detached whatever the outcome was.
Close(h) ==
  /\ pc[h] = "close"
  /\ Post([kind |-> "close", call |-> h, attempt |-> attempts[h]])
  /\ Goto(h, IF code[h] = None THEN "write" ELSE "failed")
  /\ UNCHANGED <<filesVars, shotVars, connected, frontend, attempts, scripts, reply>>

-----------------------------------------------------------------------------
(* Heap snapshots: the main thread and the inspector.                      *)

\* Its call still waits for this very request.
Heard(m) == pc[m.call] = "await" /\ attempts[m.call] = m.attempt

\* The closure connects an inspector that is not, and asks the frontend for a
\* snapshot if it has loaded.
RunRequest ==
  /\ posted # <<>>
  /\ Head(posted).kind = "request"
  /\ LET m == Head(posted) IN
       /\ connected' = TRUE
       /\ frontend' = IF connected THEN frontend ELSE "loading"
       /\ scripts' = IF connected /\ frontend = "ready" THEN scripts \cup {m} ELSE scripts
       /\ IF Heard(m)
          THEN Goto(m.call, IF connected /\ frontend = "ready" THEN "recv" ELSE "retry")
          ELSE UNCHANGED <<pc, code>>
  /\ posted' = Tail(posted)
  /\ UNCHANGED <<filesVars, shotVars, attempts, reply>>

\* Its webview is gone, and the inspector with it.
RequestFails ==
  /\ posted # <<>>
  /\ Head(posted).kind = "request"
  /\ connected' = FALSE
  /\ frontend' = "none"
  /\ IF Heard(Head(posted)) THEN Fail(Head(posted).call, "CAPTURE_FAILED") ELSE UNCHANGED <<pc, code>>
  /\ posted' = Tail(posted)
  /\ UNCHANGED <<filesVars, shotVars, attempts, scripts, reply>>

\* Each request has a channel of its own; one whose receiver is gone is lost.
Answered(m, what) ==
  reply' = IF pc[m.call] = "recv" /\ attempts[m.call] = m.attempt
           THEN [reply EXCEPT ![m.call] = IF @ = None THEN what ELSE @]
           ELSE reply

RunClose ==
  /\ posted # <<>>
  /\ Head(posted).kind = "close"
  /\ connected' = FALSE
  /\ frontend' = "none"
  /\ posted' = Tail(posted)
  /\ UNCHANGED <<filesVars, pc, code, shotVars, attempts, scripts, reply>>

FrontendLoads ==
  /\ frontend = "loading"
  /\ frontend' = "ready"
  /\ UNCHANGED <<filesVars, pc, code, shotVars, connected, attempts, scripts, reply, posted>>

\* A script ends with the snapshot or an error, or with its page.
ScriptEnds(m) ==
  /\ m \in scripts
  /\ scripts' = scripts \ {m}
  /\ \E what \in {"reloaded", "error"} \cup (IF frontend = "ready" THEN {"snapshot"} ELSE {}) :
        Answered(m, what)
  /\ UNCHANGED <<filesVars, pc, code, shotVars, connected, frontend, attempts, posted>>

-----------------------------------------------------------------------------
CallStep(c) == Enumerate(c) \/ Snapshot(c) \/ BeginWrite(c) \/ EndWrite(c) \/ WriteFails(c)
                 \/ ReadMetadata(c) \/ Rename(c) \/ Cleanup(c)
HeapStep(h) == Request(h) \/ AwaitFails(h) \/ Receive(h) \/ Timeout(h) \/ Retry(h) \/ Close(h)
MainStep    == RunRequest \/ RequestFails \/ RunClose

Next == \/ \E c \in Calls : Parse(c) \/ CallStep(c)
        \/ \E h \in Heaps : HeapStep(h)
        \/ MainStep
        \/ FrontendLoads
        \/ \E m \in scripts : ScriptEnds(m)

Spec == Init /\ [][Next]_vars

-----------------------------------------------------------------------------
TypeOK ==
  /\ dir \in [Names -> Files \cup {None}]
  /\ data \in [Files -> Calls \cup {Old, Torn, None}]
  /\ pc \in [Calls -> PCs]
  /\ code \in [Calls -> Codes]
  /\ opened \in [Calls -> Calls \cup {None}]
  /\ tool \in [Natives -> {None, "screencapture", "cgwindow"}]
  /\ backend \in {None, "screencapture", "cgwindow"}
  /\ connected \in BOOLEAN
  /\ frontend \in {"none", "loading", "ready"}
  /\ attempts \in [Heaps -> 0 .. Attempts]
  /\ reply \in [Heaps -> {None, "reloaded", "error", "snapshot"}]

(* Whatever is at a path that was asked for is whole, and the work of one  *)
(* call or what was there before, at every moment: captures that fail,     *)
(* race for a path or fall back to another tool never show a partial file  *)
(* (ipc.rs:252-284, heap.rs:349-356).                                      *)
PublishedWhole ==
  \A p \in Paths : dir[p] # None /\ data[dir[p]] \in {dir[p]} \cup {Old}

(* When no call is under way, no temporary file is left, whichever step    *)
(* of whichever call has failed (ipc.rs:351-364 and its callers,           *)
(* heap.rs:351-355).                                                       *)
NoTempLeft ==
  (\A c \in Calls : pc[c] \in {"never", "idle"} \cup Ended) =>
     \A c \in Calls : dir[Beside(c)] = None

(* When no heap snapshot is under way and the main thread has run what was *)
(* posted, the inspector is detached (heap.rs:118-120), unless a call did  *)
(* not hear from the main thread: snapshots of one window at the same      *)
(* time, reloads of the frontend, late answers and failures leave no       *)
(* instrumentation behind.                                                 *)
InspectorDetached ==
  (\A h \in Heaps : pc[h] \notin {"request", "await", "recv", "retry", "close"}) /\ posted = <<>>
     => ~connected \/ \E h \in Heaps : code[h] = "UNHEARD"
=============================================================================
