--------------------------- MODULE CapturesProofs ---------------------------
(***************************************************************************)
(* Theorems of Captures, for any calls, paths and number of attempts.      *)
(***************************************************************************)
EXTENDS Captures, TLAPS

\* The calls that are made together have temporary names of their own.
LiveApart ==
  \A c, d \in Calls: /\ pc[c] # "never" /\ pc[d] # "never"
                     /\ Beside(c) = Beside(d)
                     => c = d

\* A temporary name leads to the file of a call that has yet to rename it or to
\* remove it; a path leads to what was there before or to the file of a call
\* that is done; the file of a call is whole once it is written.
Working == {"write", "writing", "metadata", "rename", "cleanup"}

FileInv ==
  /\ \A n \in Names \ Paths:
       dir[n] # None => \E c \in Calls: pc[c] \in Working /\ n = Beside(c) /\ dir[n] = c
  /\ \A p \in Paths: /\ dir[p] # None
                     /\ dir[p] # Old => pc[dir[p]] = "done"
  /\ data[Old] = Old
  /\ \A c \in Calls: /\ pc[c] = "writing" => opened[c] = c
                     /\ pc[c] \in {"metadata", "rename", "done"} => data[c] = c

\* What is posted to the main thread.
Message == [kind: {"request", "close"}, call: Heaps, attempt: 0 .. Attempts]

MailInv == posted \in Seq(Message) /\ scripts \subseteq Message

\* A request on its way is the only one of its call, which waits for it, or the
\* call has given up waiting.
RequestOf(k, h) == posted[k].kind = "request" /\ posted[k].call = h

RequestInv ==
  /\ \A h \in Heaps: code[h] = "UNHEARD" => pc[h] = "failed"
  /\ \A h \in Heaps: \A k \in 1 .. Len(posted):
       RequestOf(k, h) =>
         \/ code[h] = "UNHEARD"
         \/ /\ pc[h] = "await" /\ attempts[h] = posted[k].attempt
            /\ \A j \in 1 .. Len(posted): RequestOf(j, h) => j = k

\* While the inspector is connected, somebody will have it closed, or was not
\* heard.
Snapping == {"request", "await", "recv", "retry", "close"}

Cared == \/ \E h \in Heaps: pc[h] \in Snapping
         \/ \E k \in 1 .. Len(posted): posted[k].kind = "close"
         \/ \E h \in Heaps: code[h] = "UNHEARD"

InspectorInv == connected => Cared

\* The inductive strengthening of the properties of Captures.
IInv == TypeOK /\ LiveApart /\ FileInv /\ MailInv /\ RequestInv /\ InspectorInv
-----------------------------------------------------------------------------
(* Type correctness.                                                       *)

\* The temporary name of a call is a name.
LEMMA BesideName == \A c \in Calls: Beside(c) \in Names /\ Asked[c] \in Names
  BY CapturesAssumption DEF Names

\* The main thread looks at a message.
LEMMA HeadMessage ==
  ASSUME MailInv, posted # <<>>
  PROVE  Head(posted) \in Message /\ Head(posted).call \in Heaps
  <1>1. Head(posted) \in Message
    BY DEF MailInv
  <1> QED
    BY <1>1 DEF Message

\* What a live call finds at its temporary name is its own file.
LEMMA Own ==
  ASSUME LiveApart, FileInv, NEW c \in Calls, pc[c] # "never"
  PROVE  dir[Beside(c)] \in {None, c}
  <1>1. Beside(c) \in Names \ Paths
    BY BesideName, NamesAssumption
  <1>2. CASE dir[Beside(c)] # None
    <2>1. PICK d \in Calls: pc[d] \in Working /\ Beside(c) = Beside(d) /\ dir[Beside(c)] = d
      BY <1>1, <1>2 DEF FileInv
    <2>2. c = d
      BY <2>1 DEF LiveApart, Working
    <2> QED
      BY <2>1, <2>2
  <1> QED
    BY <1>2

\* Every step keeps every variable in its type.
LEMMA TypeStep ==
  ASSUME TypeOK, MailInv, LiveApart, FileInv, [Next]_vars
  PROVE  TypeOK'
  <1> USE CapturesAssumption
      DEF TypeOK, PCs, Codes, Goto, Fail, Abandon, filesVars, shotVars, heapVars, Calls, Shots
  <1>1. ASSUME NEW c \in Calls, Parse(c) PROVE TypeOK'
    BY <1>1 DEF Parse, HeapRefusal, Refusal, OutputPathRefusal
  <1>2. ASSUME NEW c \in Calls, Enumerate(c) \/ Snapshot(c) PROVE TypeOK'
    BY <1>2 DEF Enumerate, Snapshot
  <1>3. ASSUME NEW c \in Calls, BeginWrite(c) PROVE TypeOK'
    <2> DEFINE f == IF dir[Beside(c)] = None THEN c ELSE dir[Beside(c)]
    <2>1. f = c /\ f \in Files
      BY <1>3, Own DEF BeginWrite, Files
    <2>2. /\ dir' = [dir EXCEPT ![Beside(c)] = f]
          /\ data' = [data EXCEPT ![f] = Torn]
          /\ opened' = [opened EXCEPT ![c] = f]
      BY <1>3 DEF BeginWrite
    <2> HIDE DEF f
    <2>3. /\ dir' \in [Names -> Files \cup {None}]
          /\ data' \in [Files -> Calls \cup {Old, Torn, None}]
      BY <2>1, <2>2
    <2>5. /\ pc' \in [Calls -> PCs] /\ code' \in [Calls -> Codes]
          /\ UNCHANGED <<tool, backend, connected, frontend, attempts, reply>>
      BY <1>3 DEF BeginWrite
    <2>4. opened' \in [Calls -> Calls \cup {None}]
      BY <2>1, <2>2
    <2> QED
      BY <2>3, <2>4, <2>5
  <1>4. ASSUME NEW c \in Calls, EndWrite(c) PROVE TypeOK'
    BY <1>4 DEF EndWrite
  <1>5. ASSUME NEW c \in Calls, WriteFails(c) \/ ReadMetadata(c) PROVE TypeOK'
    BY <1>5 DEF WriteFails, ReadMetadata
  <1>6. ASSUME NEW c \in Calls, Rename(c) \/ Cleanup(c) PROVE TypeOK'
    <2>1. dir' \in [Names -> Files \cup {None}]
      BY <1>6, BesideName DEF Rename, Cleanup
    <2> QED
      BY <1>6, <2>1 DEF Rename, Cleanup
  <1>7. ASSUME NEW h \in Heaps, HeapStep(h) PROVE TypeOK'
    BY <1>7 DEF HeapStep, Request, AwaitFails, Receive, Timeout, Retry, Close
  <1>8. CASE MainStep
    <2>1. posted # <<>> => Head(posted).call \in Heaps
      BY HeadMessage
    <2>2. CASE RunRequest
      <3>1. PICK h \in Heaps: h = Head(posted).call
        BY <2>1, <2>2 DEF RunRequest
      <3>2. /\ \/ UNCHANGED <<pc, code>>
               \/ \E k \in {"recv", "retry"}: pc' = [pc EXCEPT ![h] = k] /\ code' = code
            /\ connected' = TRUE /\ frontend' \in {frontend, "loading"}
            /\ UNCHANGED <<dir, data, opened, tool, backend, attempts, reply>>
        BY <2>2, <3>1 DEF RunRequest
      <3> QED
        BY <3>1, <3>2
    <2>3. CASE RequestFails
      <3>1. PICK h \in Heaps: h = Head(posted).call
        BY <2>1, <2>3 DEF RequestFails
      <3>2. /\ \/ UNCHANGED <<pc, code>>
               \/ /\ pc' = [pc EXCEPT ![h] = "failed"]
                  /\ code' = [code EXCEPT ![h] = "CAPTURE_FAILED"]
            /\ connected' = FALSE /\ frontend' = "none"
            /\ UNCHANGED <<dir, data, opened, tool, backend, attempts, reply>>
        BY <2>3, <3>1 DEF RequestFails
      <3>3. pc' \in [Calls -> PCs]
        BY <3>1, <3>2
      <3>4. code' \in [Calls -> Codes]
        BY <3>1, <3>2
      <3> QED
        BY <3>2, <3>3, <3>4
    <2>4. CASE RunClose
      BY <2>4 DEF RunClose
    <2> QED
      BY <1>8, <2>2, <2>3, <2>4 DEF MainStep
  <1>9. CASE FrontendLoads
    BY <1>9 DEF FrontendLoads
  <1>10. ASSUME NEW m \in scripts, ScriptEnds(m) PROVE TypeOK'
    <2>1. m.call \in Heaps
      BY DEF MailInv, Message
    <2>2. reply' \in [Heaps -> {None, "reloaded", "error", "snapshot"}]
      BY <1>10, <2>1 DEF ScriptEnds, Answered
    <2> QED
      BY <1>10, <2>2 DEF ScriptEnds
  <1>11. CASE UNCHANGED vars
    BY <1>11 DEF vars
  <1> QED
    BY <1>1, <1>2, <1>3, <1>4, <1>5, <1>6, <1>7, <1>8, <1>9, <1>10, <1>11 DEF Next, CallStep

LEMMA MailStep ==
  ASSUME TypeOK, MailInv, [Next]_vars
  PROVE  MailInv'
  <1> USE DEF MailInv, heapVars
  <1>1. CASE UNCHANGED <<posted, scripts>>
    BY <1>1
  <1>2. ASSUME NEW h \in Heaps, Request(h) \/ Close(h) PROVE MailInv'
    <2>1. PICK m \in Message: posted' = Append(posted, m)
      BY <1>2 DEF TypeOK, Request, Close, Post, Message
    <2> QED
      BY <1>2, <2>1 DEF Request, Close
  <1>3. CASE MainStep
    <2>1. /\ posted # <<>> /\ posted' = Tail(posted)
          /\ scripts' \subseteq scripts \cup {Head(posted)}
      BY <1>3 DEF MainStep, RunRequest, RequestFails, RunClose
    <2> QED
      BY <2>1
  <1>4. ASSUME NEW m \in scripts, ScriptEnds(m) PROVE MailInv'
    BY <1>4 DEF ScriptEnds
  <1> QED
    BY <1>1, <1>2, <1>3, <1>4
       DEF Next, CallStep, HeapStep, vars, Parse, Enumerate, Snapshot, BeginWrite, EndWrite, WriteFails,
           ReadMetadata, Rename, Cleanup, AwaitFails, Receive, Timeout, Retry, FrontendLoads

-----------------------------------------------------------------------------
(* Where the calls are.                                                    *)

\* A step that leaves the files alone: a call that writes does not begin, end
\* or give up; nobody else comes to the file's states.
Elsewhere(c) ==
  /\ pc[c] \in Working \cup {"done"} => pc'[c] = pc[c]
  /\ pc'[c] \in {"writing", "metadata", "rename", "done"} => pc[c] = pc'[c]
  /\ pc'[c] = "never" <=> pc[c] = "never"

\* Of a call's steps, five have to do with the files.
FileAction(c) ==
  BeginWrite(c) \/ EndWrite(c) \/ WriteFails(c) \/ ReadMetadata(c) \/ Rename(c) \/ Cleanup(c)

LEMMA Others ==
  ASSUME TypeOK, MailInv, [Next]_vars
  PROVE  \/ \E c \in Calls: FileAction(c)
         \/ UNCHANGED filesVars /\ \A c \in Calls: Elsewhere(c)
  <1> USE DEF Goto, Fail, Abandon, Calls, Shots
  <1>0. pc \in [Calls -> PCs]
    BY DEF TypeOK
  <1> DEFINE Away == UNCHANGED filesVars /\ \A d \in Calls: Elsewhere(d)
  <1>1. ASSUME NEW c \in Calls, UNCHANGED filesVars, NEW k, pc' = [pc EXCEPT ![c] = k],
               pc[c] \notin Working \cup {"done", "never"},
               k \notin {"writing", "metadata", "rename", "done", "never"}
        PROVE  Away
    BY <1>0, <1>1 DEF Elsewhere
  <1>2. CASE UNCHANGED <<filesVars, pc>>
    BY <1>2 DEF Elsewhere
  <1>3. ASSUME NEW c \in Calls, Parse(c) \/ Enumerate(c) \/ Snapshot(c) PROVE Away
    <2>1. /\ UNCHANGED filesVars /\ pc[c] \in {"idle", "pixels"}
          /\ \E k \in {"request", "pixels", "failed", "write"}: pc' = [pc EXCEPT ![c] = k]
      BY <1>3 DEF Parse, Enumerate, Snapshot
    <2> QED
      BY <1>1, <2>1 DEF Working
  <1>4. ASSUME NEW h \in Heaps, HeapStep(h) PROVE Away
    <2>1. /\ UNCHANGED filesVars /\ pc[h] \in Snapping
          /\ \E k \in {"await", "failed", "retry", "close", "request", "write"}: pc' = [pc EXCEPT ![h] = k]
      BY <1>4 DEF HeapStep, Request, AwaitFails, Receive, Timeout, Retry, Close, Snapping
    <2> QED
      BY <1>1, <2>1 DEF Working, Snapping
  <1>5. CASE MainStep
    <2>1. posted # <<>> => Head(posted).call \in Heaps
      BY HeadMessage
    <2>2. \/ UNCHANGED <<filesVars, pc>>
          \/ /\ UNCHANGED filesVars /\ posted # <<>> /\ pc[Head(posted).call] = "await"
             /\ \E k \in {"recv", "retry", "failed"}: pc' = [pc EXCEPT ![Head(posted).call] = k]
      BY <1>5 DEF MainStep, RunRequest, RequestFails, RunClose, Heard
    <2> QED
      BY <1>1, <1>2, <2>1, <2>2 DEF Working
  <1>6. CASE FrontendLoads \/ (\E m \in scripts: ScriptEnds(m)) \/ UNCHANGED vars
    BY <1>2, <1>6 DEF FrontendLoads, ScriptEnds, vars
  <1> QED
    BY <1>3, <1>4, <1>5, <1>6 DEF Next, CallStep, FileAction

\* A call that has to do with the files is under way, and the others stay where
\* they are.
LEMMA FileActor ==
  ASSUME TypeOK, NEW c \in Calls, FileAction(c)
  PROVE  /\ pc[c] \in Working
         /\ \A d \in Calls \ {c}: pc'[d] = pc[d]
         /\ pc'[c] \in Working \cup {"done", "failed"}
  BY DEF TypeOK, FileAction, BeginWrite, EndWrite, WriteFails, ReadMetadata, Rename, Cleanup,
         Working, Goto, Abandon

LEMMA LiveStep ==
  ASSUME TypeOK, MailInv, LiveApart, [Next]_vars
  PROVE  LiveApart'
  <1>1. \A c \in Calls: pc'[c] # "never" => pc[c] # "never"
    BY Others, FileActor DEF Elsewhere, Working
  <1> QED
    BY <1>1 DEF LiveApart, Beside, Tmp, Partial
-----------------------------------------------------------------------------
(* The files.                                                              *)

LEMMA FileStep ==
  ASSUME TypeOK, MailInv, LiveApart, FileInv, [Next]_vars
  PROVE  FileInv'
  <1> USE CapturesAssumption
  <1>0. /\ dir \in [Names -> Files \cup {None}]
        /\ data \in [Files -> Calls \cup {Old, Torn, None}]
        /\ opened \in [Calls -> Calls \cup {None}]
        /\ pc \in [Calls -> PCs]
        /\ Paths \subseteq Names
        /\ Calls \subseteq Files /\ Old \in Files /\ Old \notin Calls
    BY DEF TypeOK, Names, Files
  \* Whoever has to do with the files changes what is its own, and a path only
  \* to the whole file it has written.
  <1>1. ASSUME NEW c \in Calls, FileAction(c),
               \A n \in Names \ Paths: n # Beside(c) => dir'[n] = dir[n],
               dir'[Beside(c)] \in {None, c},
               dir'[Beside(c)] # None => pc'[c] \in Working,
               \A d \in Calls \ {c}: opened'[d] = opened[d] /\ data'[d] = data[d],
               data'[Old] = data[Old],
               \A p \in Paths: dir'[p] = dir[p] \/ (dir'[p] = c /\ pc'[c] = "done"),
               pc'[c] = "writing" => opened'[c] = c,
               pc'[c] \in {"metadata", "rename", "done"} => data'[c] = c
        PROVE  FileInv'
    <2>1. /\ pc[c] \in Working
          /\ \A d \in Calls \ {c}: pc'[d] = pc[d]
      BY <1>1, FileActor
    <2>2. ASSUME NEW n \in Names \ Paths, dir'[n] # None
          PROVE  \E d \in Calls: pc'[d] \in Working /\ n = Beside(d) /\ dir'[n] = d
      <3>1. CASE n = Beside(c)
        BY <1>1, <2>2, <3>1
      <3>2. CASE n # Beside(c)
        <4>1. PICK d \in Calls: pc[d] \in Working /\ n = Beside(d) /\ dir[n] = d
          BY <1>1, <2>2, <3>2 DEF FileInv
        <4>2. d # c
          BY <3>2, <4>1
        <4> QED
          BY <1>1, <2>1, <3>2, <4>1, <4>2
      <3> QED
        BY <3>1, <3>2
    <2>3. ASSUME NEW p \in Paths PROVE dir'[p] # None /\ (dir'[p] # Old => pc'[dir'[p]] = "done")
      <3>1. CASE dir'[p] = c /\ pc'[c] = "done"
        BY <3>1
      <3>2. CASE dir'[p] = dir[p]
        <4>1. dir[p] # None /\ dir[p] \in Files /\ (dir[p] # Old => pc[dir[p]] = "done")
          BY <1>0 DEF FileInv
        <4>2. dir[p] # c
          BY <1>0, <2>1, <4>1 DEF Working
        <4> QED
          BY <2>1, <3>2, <4>1, <4>2 DEF Files
      <3> QED
        BY <1>1, <3>1, <3>2
    <2>4. \A d \in Calls \ {c}: /\ pc'[d] = "writing" => opened'[d] = d
                                /\ pc'[d] \in {"metadata", "rename", "done"} => data'[d] = d
      BY <1>1, <2>1 DEF FileInv
    <2> QED
      BY <1>1, <2>2, <2>3, <2>4 DEF FileInv
  <1>2. ASSUME UNCHANGED filesVars, \A c \in Calls: Elsewhere(c) PROVE FileInv'
    <2>1. dir' = dir /\ data' = data /\ opened' = opened
      BY <1>2 DEF filesVars
    <2>2. \A p \in Paths: dir[p] # Old => dir[p] \in Calls
      BY <1>0 DEF FileInv, Files
    <2>3. \A c \in Calls: /\ pc[c] \in Working => pc'[c] \in Working
                          /\ pc[c] = "done" => pc'[c] = "done"
                          /\ pc'[c] = "writing" => pc[c] = "writing"
                          /\ pc'[c] \in {"metadata", "rename", "done"} => pc[c] \in {"metadata", "rename", "done"}
      BY <1>2 DEF Elsewhere
    <2> QED
      BY <2>1, <2>2, <2>3 DEF FileInv
  <1>3. ASSUME NEW c \in Calls, FileAction(c) PROVE FileInv'
    <2> USE DEF Goto, Abandon
    <2>0. /\ Beside(c) \in Names \ Paths /\ Asked[c] \in Paths
          /\ dir[Beside(c)] \in {None, c}
          /\ pc[c] \in Working
      BY <1>3, FileActor, BesideName, NamesAssumption, Own DEF Working
    <2>1. CASE BeginWrite(c)
      <3>1. /\ dir' = [dir EXCEPT ![Beside(c)] = c]
            /\ data' = [data EXCEPT ![c] = Torn]
            /\ opened' = [opened EXCEPT ![c] = c]
            /\ pc' = [pc EXCEPT ![c] = "writing"]
        BY <2>0, <2>1 DEF BeginWrite
      <3> QED
        BY <1>0, <1>1, <1>3, <2>0, <3>1 DEF Working
    <2>2. CASE EndWrite(c)
      <3>1. opened[c] = c /\ pc[c] = "writing"
        BY <2>2 DEF EndWrite, FileInv
      <3>2. Alone(c)
        BY <3>1 DEF Alone, FileInv
      <3>3. /\ data' = [data EXCEPT ![c] = c] /\ UNCHANGED <<dir, opened>>
            /\ \E k \in {"rename", "metadata"}: pc' = [pc EXCEPT ![c] = k]
        BY <2>2, <3>1, <3>2 DEF EndWrite
      <3> QED
        BY <1>0, <1>1, <1>3, <2>0, <3>3 DEF Working
    <2>3. CASE WriteFails(c)
      <3>1. /\ UNCHANGED <<dir, data, opened>>
            /\ \E k \in {"write", "cleanup"}: pc' = [pc EXCEPT ![c] = k]
        BY <2>3 DEF WriteFails, filesVars
      <3> QED
        BY <1>0, <1>1, <1>3, <2>0, <3>1 DEF Working
    <2>4. CASE ReadMetadata(c)
      <3>1. /\ UNCHANGED <<dir, data, opened>> /\ pc[c] = "metadata"
            /\ \E k \in {"rename", "cleanup"}: pc' = [pc EXCEPT ![c] = k]
        BY <2>4 DEF ReadMetadata, filesVars
      <3>2. data[c] = c
        BY <3>1 DEF FileInv
      <3> QED
        BY <1>0, <1>1, <1>3, <2>0, <3>1, <3>2 DEF Working
    <2>5. CASE Rename(c)
      <3>1. UNCHANGED <<data, opened>> /\ pc[c] = "rename"
        BY <2>5 DEF Rename
      <3>2. data[c] = c
        BY <3>1 DEF FileInv
      <3>3. CASE dir' = dir /\ pc' = [pc EXCEPT ![c] = "cleanup"]
        BY <1>0, <1>1, <1>3, <2>0, <3>1, <3>3 DEF Working
      <3>4. CASE /\ dir[Beside(c)] # None
                 /\ dir' = [dir EXCEPT ![Asked[c]] = dir[Beside(c)], ![Beside(c)] = None]
                 /\ pc' = [pc EXCEPT ![c] = "done"]
        <4>1. /\ \A n \in Names \ Paths: n # Beside(c) => dir'[n] = dir[n]
              /\ dir'[Beside(c)] = None
              /\ \A p \in Paths: dir'[p] = dir[p] \/ dir'[p] = c
          BY <1>0, <2>0, <3>4
        <4>2. pc'[c] = "done"
          BY <1>0, <3>4
        <4> QED
          BY <1>1, <1>3, <3>1, <3>2, <4>1, <4>2
      <3> QED
        BY <2>5, <3>3, <3>4 DEF Rename
    <2>6. CASE Cleanup(c)
      <3>1. /\ dir' = [dir EXCEPT ![Beside(c)] = None]
            /\ pc' = [pc EXCEPT ![c] = "failed"] /\ UNCHANGED <<data, opened>>
        BY <2>6 DEF Cleanup
      <3> QED
        BY <1>0, <1>1, <1>3, <2>0, <3>1
    <2> QED
      BY <1>3, <2>1, <2>2, <2>3, <2>4, <2>5, <2>6 DEF FileAction
  <1> QED
    BY <1>2, <1>3, Others
-----------------------------------------------------------------------------
(* The main thread and the inspector.                                      *)

\* A heap snapshot that waits for the main thread goes on waiting or gives up
\* for good; one that has its inspector open keeps at it until it has posted
\* that it be closed.
Keeps(h) ==
  /\ code[h] = "UNHEARD" => code'[h] = "UNHEARD"
  /\ code'[h] = "UNHEARD" => pc'[h] = "failed"
  /\ pc[h] = "await" => code'[h] = "UNHEARD" \/ (pc'[h] = "await" /\ attempts'[h] = attempts[h])
  /\ pc[h] \in Snapping => pc'[h] \in Snapping \/ code'[h] = "UNHEARD"

\* The steps of calls other than Request and Close, which post.
LEMMA CallsKeep ==
  ASSUME TypeOK, RequestInv,
         \/ \E c \in Calls: Parse(c) \/ CallStep(c)
         \/ \E h \in Heaps: AwaitFails(h) \/ Receive(h) \/ Timeout(h) \/ Retry(h)
  PROVE  UNCHANGED <<posted, connected>> /\ \A h \in Heaps: Keeps(h)
  <1> USE DEF heapVars, Goto, Fail, Abandon
  <1>0. /\ pc \in [Calls -> PCs] /\ code \in [Calls -> Codes] /\ attempts \in [Heaps -> 0 .. Attempts]
        /\ Heaps \subseteq Calls
        /\ \A h \in Heaps: code[h] = "UNHEARD" => pc[h] = "failed"
    BY DEF TypeOK, RequestInv, Calls
  <1>1. ASSUME NEW c \in Calls, pc[c] \notin Snapping \cup {"failed"}, UNCHANGED <<posted, connected, attempts>>,
               NEW k \in PCs, pc' = [pc EXCEPT ![c] = k],
               \/ code' = code
               \/ \E why \in Codes \ {"UNHEARD"}: code' = [code EXCEPT ![c] = why]
        PROVE  UNCHANGED <<posted, connected>> /\ \A h \in Heaps: Keeps(h)
    BY <1>0, <1>1 DEF Keeps, Snapping
  <1>2. ASSUME NEW c \in Calls, Parse(c) PROVE UNCHANGED <<posted, connected>> /\ \A h \in Heaps: Keeps(h)
    <2>1. /\ pc[c] = "idle" /\ UNCHANGED <<posted, connected, attempts>>
          /\ \E k \in {"request", "pixels", "failed"}: pc' = [pc EXCEPT ![c] = k]
          /\ \/ code' = code
             \/ \E why \in {"INVALID_PARAMS", "UNSUPPORTED_FORMAT", "INVALID_OUTPUT_PATH"}:
                  code' = [code EXCEPT ![c] = why]
      BY <1>2 DEF Parse, HeapRefusal, Refusal, OutputPathRefusal
    <2> QED
      BY <1>1, <2>1, CapturesAssumption DEF Snapping, PCs, Codes
  <1>3. ASSUME NEW c \in Calls, CallStep(c) PROVE UNCHANGED <<posted, connected>> /\ \A h \in Heaps: Keeps(h)
    <2>1. /\ pc[c] \in {"pixels", "write", "writing", "metadata", "rename", "cleanup"}
          /\ UNCHANGED <<posted, connected, attempts>>
      BY <1>3 DEF CallStep, Enumerate, Snapshot, BeginWrite, EndWrite, WriteFails, ReadMetadata, Rename, Cleanup
    <2>2. /\ \E k \in {"write", "writing", "rename", "metadata", "cleanup", "done", "failed"}:
               pc' = [pc EXCEPT ![c] = k]
          /\ \/ code' = code
             \/ \E why \in {"WINDOW_NOT_FOUND", "CAPTURE_FAILED"}: code' = [code EXCEPT ![c] = why]
      BY <1>3 DEF CallStep, Enumerate, Snapshot, BeginWrite, EndWrite, WriteFails, ReadMetadata, Rename, Cleanup
    <2> QED
      BY <1>1, <2>1, <2>2 DEF Snapping, PCs, Codes
  <1>4. ASSUME NEW h \in Heaps, AwaitFails(h) \/ Receive(h) \/ Timeout(h) \/ Retry(h)
        PROVE  UNCHANGED <<posted, connected>> /\ \A i \in Heaps: Keeps(i)
    <2>1. CASE AwaitFails(h)
      BY <1>0, <2>1 DEF AwaitFails, Keeps
    <2>2. CASE Receive(h) \/ Timeout(h)
      BY <1>0, <2>2 DEF Receive, Timeout, Keeps, Snapping
    <2>3. CASE Retry(h)
      BY <1>0, <2>3 DEF Retry, Keeps, Snapping
    <2> QED
      BY <1>4, <2>1, <2>2, <2>3
  <1> QED
    BY <1>2, <1>3, <1>4

\* The message at the head is gone, the others have moved up.
LEMMA Shifted ==
  ASSUME MailInv, posted # <<>>, posted' = Tail(posted)
  PROVE  /\ 1 \in 1 .. Len(posted) /\ Head(posted) = posted[1]
         /\ \A k \in 1 .. Len(posted'): /\ k + 1 \in 1 .. Len(posted) /\ k + 1 # 1
                                        /\ posted'[k] = posted[k + 1]
         /\ \A k \in 1 .. Len(posted): k # 1 => k - 1 \in 1 .. Len(posted')
  BY DEF MailInv

LEMMA Appended ==
  ASSUME MailInv, NEW m, posted' = Append(posted, m)
  PROVE  /\ Len(posted') = Len(posted) + 1 /\ Len(posted) \in Nat
         /\ \A k \in 1 .. Len(posted): posted'[k] = posted[k]
         /\ posted'[Len(posted) + 1] = m
  BY DEF MailInv

LEMMA RequestStep ==
  ASSUME TypeOK, MailInv, RequestInv, [Next]_vars
  PROVE  RequestInv'
  <1> USE DEF heapVars, Goto, Fail
  <1>0. /\ pc \in [Calls -> PCs] /\ code \in [Calls -> Codes] /\ attempts \in [Heaps -> 0 .. Attempts]
        /\ Heaps \subseteq Calls
    BY DEF TypeOK, Calls
  <1>1. ASSUME UNCHANGED posted, \A h \in Heaps: Keeps(h) PROVE RequestInv'
    BY <1>1 DEF RequestInv, Keeps, RequestOf
  <1>2. ASSUME NEW h \in Heaps, Request(h) PROVE RequestInv'
    <2>1. /\ pc[h] = "request" /\ pc'[h] = "await" /\ code' = code /\ attempts' = attempts
          /\ \A i \in Heaps \ {h}: pc'[i] = pc[i]
          /\ posted' = Append(posted, [kind |-> "request", call |-> h, attempt |-> attempts[h]])
      BY <1>0, <1>2 DEF Request, Post
    <2>2. code[h] # "UNHEARD" /\ \A k \in 1 .. Len(posted): ~RequestOf(k, h)
      BY <2>1 DEF RequestInv
    <2>0. PICK n \in Nat: n = Len(posted)
      BY DEF MailInv
    <2>3. /\ Len(posted') = n + 1
          /\ \A k \in 1 .. n: posted'[k] = posted[k]
          /\ posted'[n + 1] = [kind |-> "request", call |-> h, attempt |-> attempts[h]]
      BY <2>0, <2>1, Appended
    <2>6. /\ \A k \in 1 .. n, i \in Heaps: RequestOf(k, i)' <=> RequestOf(k, i)
          /\ \A k \in 1 .. n + 1: k \in 1 .. n \/ k = n + 1
          /\ \A i \in Heaps: RequestOf(n + 1, i)' <=> i = h
          /\ posted'[n + 1].attempt = attempts[h]
      BY <2>3 DEF RequestOf
    <2>4. ASSUME NEW i \in Heaps, NEW k \in 1 .. Len(posted'), RequestOf(k, i)'
          PROVE  \/ code'[i] = "UNHEARD"
                 \/ /\ pc'[i] = "await" /\ attempts'[i] = posted'[k].attempt
                    /\ \A j \in 1 .. Len(posted'): RequestOf(j, i)' => j = k
      <3>1. CASE i = h
        <4>1. \A j \in 1 .. n: ~RequestOf(j, i)'
          BY <2>0, <2>2, <2>6, <3>1
        <4>2. k = n + 1 /\ \A j \in 1 .. Len(posted'): RequestOf(j, i)' => j = n + 1
          BY <2>3, <2>4, <2>6, <4>1
        <4> QED
          BY <2>1, <2>6, <3>1, <4>2
      <3>2. CASE i # h
        <4>1. \A j \in 1 .. Len(posted'): RequestOf(j, i)' => j \in 1 .. n /\ RequestOf(j, i)
          BY <2>3, <2>6, <3>2
        <4>2. k \in 1 .. n /\ RequestOf(k, i) /\ posted'[k] = posted[k]
          BY <2>3, <2>4, <4>1
        <4>3. \/ code[i] = "UNHEARD"
              \/ /\ pc[i] = "await" /\ attempts[i] = posted[k].attempt
                 /\ \A j \in 1 .. n: RequestOf(j, i) => j = k
          BY <2>0, <4>2 DEF RequestInv
        <4> QED
          BY <2>1, <3>2, <4>1, <4>2, <4>3
      <3> QED
        BY <3>1, <3>2
    <2>5. \A i \in Heaps: code'[i] = "UNHEARD" => pc'[i] = "failed"
      BY <2>1, <2>2 DEF RequestInv
    <2> QED
      BY <2>4, <2>5 DEF RequestInv
  <1>3. ASSUME NEW h \in Heaps, Close(h) PROVE RequestInv'
    <2>1. /\ pc[h] = "close" /\ pc'[h] \in {"write", "failed"} /\ code' = code /\ attempts' = attempts
          /\ \A i \in Heaps \ {h}: pc'[i] = pc[i]
          /\ posted' = Append(posted, [kind |-> "close", call |-> h, attempt |-> attempts[h]])
      BY <1>0, <1>3 DEF Close, Post
    <2>2. /\ Len(posted') = Len(posted) + 1 /\ Len(posted) \in Nat
          /\ posted'[Len(posted) + 1].kind = "close"
          /\ \A k \in 1 .. Len(posted): posted'[k] = posted[k]
      BY <2>1, Appended
    <2>3. \A k \in 1 .. Len(posted'), i \in Heaps:
            RequestOf(k, i)' => k \in 1 .. Len(posted) /\ RequestOf(k, i)
      BY <2>2 DEF RequestOf
    <2>4. \A i \in Heaps: code[i] = "UNHEARD" => pc[i] = "failed"
      BY DEF RequestInv
    <2>5. \A i \in Heaps: pc[i] = "await" => pc'[i] = "await"
      BY <2>1
    <2> QED
      BY <2>1, <2>2, <2>3, <2>4, <2>5 DEF RequestInv
  <1>4. CASE MainStep
    <2>1. posted # <<>> /\ posted' = Tail(posted) /\ attempts' = attempts
      BY <1>4 DEF MainStep, RunRequest, RequestFails, RunClose
    <2>2. PICK h \in Heaps: h = Head(posted).call
      BY <2>1, HeadMessage
    <2>3. \A k \in 1 .. Len(posted'), i \in Heaps: RequestOf(k, i)' <=> RequestOf(k + 1, i)
      BY <2>1, Shifted DEF RequestOf
    <2>4. \/ UNCHANGED <<pc, code>>
          \/ /\ RequestOf(1, h) /\ pc[h] = "await"
             /\ pc'[h] \in {"recv", "retry", "failed"} /\ code'[h] # "UNHEARD"
             /\ \A i \in Heaps \ {h}: pc'[i] = pc[i] /\ code'[i] = code[i]
      <3>1. posted[1] = Head(posted)
        BY <2>1, Shifted
      <3>2. CASE RunRequest
        <4>1. \/ UNCHANGED <<pc, code>>
              \/ /\ pc[h] = "await" /\ posted[1].kind = "request"
                 /\ code' = code /\ \E k \in {"recv", "retry"}: pc' = [pc EXCEPT ![h] = k]
          BY <2>2, <3>1, <3>2 DEF RunRequest, Heard
        <4>2. pc[h] = "await" => code[h] # "UNHEARD"
          BY DEF RequestInv
        <4> QED
          BY <1>0, <2>2, <3>1, <4>1, <4>2 DEF RequestOf
      <3>3. CASE RequestFails
        <4>1. \/ UNCHANGED <<pc, code>>
              \/ /\ pc[h] = "await" /\ posted[1].kind = "request"
                 /\ pc' = [pc EXCEPT ![h] = "failed"] /\ code' = [code EXCEPT ![h] = "CAPTURE_FAILED"]
          BY <2>2, <3>1, <3>3 DEF RequestFails, Heard
        <4> QED
          BY <1>0, <2>2, <3>1, <4>1 DEF RequestOf
      <3>4. CASE RunClose
        BY <3>4 DEF RunClose
      <3> QED
        BY <1>4, <3>2, <3>3, <3>4 DEF MainStep
    <2>5. \A k \in 1 .. Len(posted'): k + 1 \in 1 .. Len(posted) /\ k + 1 # 1 /\ posted'[k] = posted[k + 1]
      BY <2>1, Shifted
    <2>6. \A i \in Heaps: code'[i] = "UNHEARD" => pc'[i] = "failed"
      BY <2>4 DEF RequestInv
    <2>7. ASSUME NEW i \in Heaps, NEW k \in 1 .. Len(posted'), RequestOf(k, i)'
          PROVE  \/ code'[i] = "UNHEARD"
                 \/ /\ pc'[i] = "await" /\ attempts'[i] = posted'[k].attempt
                    /\ \A j \in 1 .. Len(posted'): RequestOf(j, i)' => j = k
      <3>1. k + 1 \in 1 .. Len(posted) /\ RequestOf(k + 1, i) /\ posted'[k] = posted[k + 1] /\ k + 1 # 1
        BY <2>3, <2>5, <2>7
      <3>2. \/ code[i] = "UNHEARD"
            \/ /\ pc[i] = "await" /\ attempts[i] = posted[k + 1].attempt
               /\ \A j \in 1 .. Len(posted): RequestOf(j, i) => j = k + 1
        BY <3>1 DEF RequestInv
      <3>3. \A j \in 1 .. Len(posted'): RequestOf(j, i)' => j + 1 \in 1 .. Len(posted) /\ RequestOf(j + 1, i)
        BY <2>3, <2>5
      <3>4. code[i] = "UNHEARD" => pc[i] = "failed"
        BY DEF RequestInv
      <3>5. CASE UNCHANGED <<pc, code>>
        BY <2>1, <3>1, <3>2, <3>3, <3>5
      <3>6. CASE i # h /\ pc'[i] = pc[i] /\ code'[i] = code[i]
        BY <2>1, <3>1, <3>2, <3>3, <3>6
      <3>7. CASE i = h /\ RequestOf(1, h) /\ pc[h] = "await"
        <4>1. 1 \in 1 .. Len(posted)
          BY <2>1, Shifted
        <4> QED
          BY <3>1, <3>2, <3>4, <3>7, <4>1
      <3> QED
        BY <2>4, <3>5, <3>6, <3>7
    <2> QED
      BY <2>6, <2>7 DEF RequestInv
  <1>5. CASE UNCHANGED <<pc, code, attempts, posted>>
    BY <1>5 DEF RequestInv, RequestOf
  <1> QED
    BY <1>1, <1>2, <1>3, <1>4, <1>5, CallsKeep
       DEF Next, HeapStep, FrontendLoads, ScriptEnds, vars

LEMMA InspectorStep ==
  ASSUME TypeOK, MailInv, RequestInv, InspectorInv, [Next]_vars
  PROVE  InspectorInv'
  <1> USE DEF heapVars, Goto, Fail
  <1>0. /\ pc \in [Calls -> PCs] /\ Heaps \subseteq Calls
    BY DEF TypeOK, Calls
  <1>1. ASSUME UNCHANGED <<posted, connected>>, \A h \in Heaps: Keeps(h) PROVE InspectorInv'
    BY <1>1 DEF InspectorInv, Cared, Keeps
  <1>2. ASSUME NEW h \in Heaps, Request(h) PROVE InspectorInv'
    <2>1. pc'[h] \in Snapping
      BY <1>0, <1>2 DEF Request, Snapping
    <2> QED
      BY <2>1 DEF InspectorInv, Cared
  <1>3. ASSUME NEW h \in Heaps, Close(h) PROVE InspectorInv'
    <2>1. /\ Len(posted') = Len(posted) + 1 /\ Len(posted) \in Nat
          /\ posted'[Len(posted) + 1].kind = "close"
      BY <1>3, Appended DEF Close, Post
    <2>2. Len(posted) + 1 \in 1 .. Len(posted')
      BY <2>1
    <2> QED
      BY <2>1, <2>2 DEF InspectorInv, Cared
  <1>4. CASE RunRequest
    <2>1. posted # <<>> /\ posted[1] = Head(posted) /\ 1 \in 1 .. Len(posted)
      BY <1>4, Shifted DEF RunRequest
    <2>2. PICK h \in Heaps: h = Head(posted).call
      BY <2>1, HeadMessage
    <2>3. CASE Heard(Head(posted))
      <3>1. pc'[h] \in Snapping
        BY <1>0, <1>4, <2>2, <2>3 DEF RunRequest, Snapping
      <3> QED
        BY <3>1 DEF InspectorInv, Cared
    <2>4. CASE ~Heard(Head(posted))
      <3>1. code' = code /\ RequestOf(1, h)
        BY <1>4, <2>1, <2>2, <2>4 DEF RunRequest, RequestOf
      <3>2. code[h] = "UNHEARD"
        BY <2>1, <2>2, <2>4, <3>1 DEF RequestInv, Heard
      <3> QED
        BY <3>1, <3>2 DEF InspectorInv, Cared
    <2> QED
      BY <2>3, <2>4
  <1>5. CASE RequestFails \/ RunClose
    BY <1>5 DEF RequestFails, RunClose, InspectorInv
  <1>6. CASE UNCHANGED <<pc, code, posted, connected>>
    BY <1>6 DEF InspectorInv, Cared
  <1> QED
    BY <1>1, <1>2, <1>3, <1>4, <1>5, <1>6, CallsKeep
       DEF Next, HeapStep, MainStep, FrontendLoads, ScriptEnds, vars

-----------------------------------------------------------------------------
(* The theorems.                                                           *)

LEMMA InvInit == Init => IInv
  <1> SUFFICES ASSUME Init PROVE IInv
    OBVIOUS
  <1> USE DEF Init
  <1>1. PICK cast \in Casts: pc = [c \in Calls |-> IF c \in cast THEN "idle" ELSE "never"]
    OBVIOUS
  <1>2. TypeOK
    <2>1. Paths \subseteq Names /\ Old \in Files
      BY DEF Names, Files
    <2>2. dir \in [Names -> Files \cup {None}] /\ data \in [Files -> Calls \cup {Old, Torn, None}]
      BY <2>1
    <2>3. pc \in [Calls -> PCs] /\ code \in [Calls -> Codes] /\ opened \in [Calls -> Calls \cup {None}]
      BY <1>1 DEF PCs, Codes
    <2>4. attempts \in [Heaps -> 0 .. Attempts]
      BY CapturesAssumption
    <2> QED
      BY <2>2, <2>3, <2>4 DEF TypeOK
  <1>3. LiveApart
    <2> SUFFICES ASSUME NEW c \in Calls, NEW d \in Calls, c \in cast, d \in cast, Beside(c) = Beside(d)
                 PROVE  c = d
      <3>1. \A c \in Calls: pc[c] # "never" => c \in cast
        BY <1>1
      <3> QED
        BY <3>1 DEF LiveApart
    <2>1. CASE c \in Heaps /\ d \in Heaps
      BY <2>1, NamesAssumption DEF Beside
    <2>2. CASE c \notin Heaps /\ d \notin Heaps
      BY <2>2 DEF Beside, Tmp
    <2>3. CASE (c \in Heaps) # (d \in Heaps)
      BY <2>3 DEF Beside, Tmp, Partial
    <2> QED
      BY <2>1, <2>2, <2>3
  <1>4. FileInv
    <2>1. Paths \subseteq Names /\ Old \in Files
      BY DEF Names, Files
    <2> QED
      BY <1>1, <2>1, CapturesAssumption DEF FileInv
  <1>5. MailInv /\ RequestInv /\ InspectorInv
    BY CapturesAssumption DEF MailInv, RequestInv, InspectorInv, Calls
  <1> QED
    BY <1>2, <1>3, <1>4, <1>5 DEF IInv

LEMMA InvStep == IInv /\ [Next]_vars => IInv'
  BY TypeStep, LiveStep, FileStep, MailStep, RequestStep, InspectorStep DEF IInv

\* The inductive invariant holds in every state.
THEOREM CapturesCorrect == Spec => []IInv
  BY InvInit, InvStep, PTL DEF Spec

\* Every variable keeps its type.
THEOREM TypeCorrect == Spec => []TypeOK
  <1>1. IInv => TypeOK
    BY DEF IInv
  <1> QED
    BY <1>1, CapturesCorrect, PTL

\* What is at a path is whole at every moment, the work of one call or what was
\* there before (ipc.rs, heap.rs).
THEOREM WholeOrOld == Spec => []PublishedWhole
  <1>1. IInv => PublishedWhole
    <2> SUFFICES ASSUME IInv, NEW p \in Paths
                 PROVE  dir[p] # None /\ data[dir[p]] \in {dir[p]} \cup {Old}
      BY DEF PublishedWhole
    <2>1. dir[p] \in Calls \cup {Old, None}
      BY DEF IInv, TypeOK, Names, Files
    <2> QED
      BY <2>1 DEF IInv, FileInv
  <1> QED
    BY <1>1, CapturesCorrect, PTL

\* No temporary file outlives the calls, whichever step of them failed.
THEOREM CleanedUp == Spec => []NoTempLeft
  <1>1. IInv => NoTempLeft
    <2> SUFFICES ASSUME IInv, \A c \in Calls: pc[c] \in {"never", "idle"} \cup Ended, NEW c \in Calls
                 PROVE  dir[Beside(c)] = None
      BY DEF NoTempLeft
    <2>1. Beside(c) \in Names \ Paths
      BY BesideName, NamesAssumption
    <2> QED
      BY <2>1 DEF IInv, FileInv, Working, Ended
  <1> QED
    BY <1>1, CapturesCorrect, PTL

\* When all heap snapshots are over and the main thread has run what they
\* posted, the inspector is detached, unless one of them was not heard.
THEOREM Detached == Spec => []InspectorDetached
  <1>1. IInv => InspectorDetached
    BY DEF IInv, InspectorInv, Cared, Snapping, InspectorDetached
  <1> QED
    BY <1>1, CapturesCorrect, PTL
=============================================================================
