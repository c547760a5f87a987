------------------------------ MODULE HostProofs ------------------------------
(* Theorems of Host: types, recordings, baselines, diffs and replays.      *)
EXTENDS Host, FiniteSetTheorems, FunctionTheorems, TLAPS

-----------------------------------------------------------------------------
(* The inductive invariant.                                                *)

\* A request is counted once, and is answered once.
IdInv ==
  /\ replied \subseteq 1 .. lines
  /\ \A c \in Clients:
       /\ call[c].before \subseteq replied
       /\ call[c].pc # "idle" => call[c].req \in Requests /\ call[c].id \in (1 .. lines) \ replied
       /\ call[c].pc = "idle" => call[c] = Idle
  /\ \A c, d \in Clients: call[c].pc # "idle" /\ call[d].pc # "idle" /\ call[c].id = call[d].id => c = d

\* The recorder has nothing yet of a request that may still be recorded.
Unrecorded == {"read", "eval", "ran", "ok", "record"}

Ids == {entries[i].id : i \in DOMAIN entries}

\* A call n, as to what the recorder has: it is of this recording or an earlier
\* one, and is recorded when it is to be answered, and not before.
Accounted(n, ids, recording, number) ==
  /\ n.in <= number
  /\ n.pc \in Unrecorded => n.id \notin ids
  /\ /\ n.pc = "answer" /\ n.ok /\ n.req.method \in Recordable
     /\ recording /\ n.in = number
     => n.id \in ids

RecordInv ==
  /\ active => during > 0
  /\ \A i \in DOMAIN entries: entries[i].id \in 0 .. lines /\ entries[i].before \subseteq replied
  /\ \A c \in Clients: Accounted(call[c], Ids, active, during)

\* What a page has returned is of its present document, unless the page was
\* loaded meanwhile and knows of it.
BaselineInv ==
  /\ \A w \in Windows: baseline[w] # None => baseline[w].window = w
  /\ \A c \in Clients: call[c].pc = "ran" /\ call[c].new # None =>
                         /\ call[c].new.window = Win(c)
                         /\ page[Win(c)].quiet => call[c].new.doc = page[Win(c)].doc

\* An entry names the window its action ran in.
Scoped(e) == e.hit = None \/ e.hit = Label(e.window)

ReplayInv ==
  /\ \A i \in DOMAIN entries: Scoped(entries[i])
  /\ \A i \in DOMAIN file: Scoped(file[i])
  /\ \A c \in Clients: \A i \in DOMAIN script[c]: Scoped(script[c][i])
  /\ \A c \in Clients: /\ call[c].ran = None \/ call[c].ran = Win(c)
                       /\ call[c].entry # None =>
                            Scoped(call[c].entry) /\ call[c].req.window = Scope(c, call[c].entry)

\* A result that is to be compared is a snapshot.
DiffInv ==
  \A c \in Clients: call[c].old # None => /\ call[c].pc = "eval" => call[c].req.method = "diff"
                                          /\ call[c].pc = "ran" => call[c].new # None

\* What a comparison n says of its request: the baseline it took was of the
\* window asked about, and the answer compares it with the page of that window.
Comparison(n) ==
  /\ n.old # None /\ n.req.ref = None => n.old.window = Label(n.req.window)
  /\ n.pc \in {"read", "eval", "ran"} => n.diff = None
  /\ n.diff # None => /\ n.old # None /\ n.new # None
                      /\ n.diff = ComputeDiff(n.old.dom, n.new.dom)
                      /\ n.new.window = Label(n.req.window)

ComparedInv == \A c \in Clients: Comparison(call[c])

IInv == /\ TypeOK /\ IdInv /\ DiffInv /\ RecordInv /\ BaselineInv /\ ReplayInv
        /\ ComparedInv /\ RecordingIsComplete /\ BaselineOfThisDocument

-----------------------------------------------------------------------------
(* What a step does to the request of its connection.                      *)

\* It remains the same request, read when it was.
SameRequest(n, r) ==
  n.req = r.req /\ n.id = r.id /\ n.before = r.before /\ n.in = r.in /\ n.entry = r.entry

\* Only its call changes.
Alone(c) == call' \in [Clients -> Calls] /\ \A d \in Clients \ {c}: call'[d] = call[d]

LEMMA Update ==
  ASSUME call \in [Clients -> Calls], NEW c \in Clients, NEW n \in Calls, Becomes(c, n)
  PROVE  Alone(c) /\ call'[c] = n
  BY DEF Becomes, Alone

Placed(r, k)         == [r EXCEPT !.pc = k]
Verdict(r, k, b)     == [r EXCEPT !.pc = k, !.ok = b]
Referred(r, k, s)    == [r EXCEPT !.pc = k, !.old = s]
Returned(r, k, w, s) == [r EXCEPT !.pc = k, !.ran = w, !.new = s]
Diffed(r, k, d)      == [r EXCEPT !.pc = k, !.diff = d]

LEMMA Answered ==
  ASSUME NEW r \in Calls, NEW k \in PCs, NEW b \in BOOLEAN
  PROVE  LET n == Verdict(r, k, b)
         IN  /\ n \in Calls /\ SameRequest(n, r) /\ n.pc = k /\ n.ok = b
             /\ n.ran = r.ran /\ n.new = r.new /\ n.old = r.old
  BY DEF Calls, SameRequest, Verdict

LEMMA Moved ==
  ASSUME NEW r \in Calls, NEW k \in PCs
  PROVE  LET n == Placed(r, k)
         IN  /\ n \in Calls /\ SameRequest(n, r) /\ n.pc = k /\ n.ok = r.ok
             /\ n.ran = r.ran /\ n.new = r.new /\ n.old = r.old
  BY DEF Calls, SameRequest, Placed

LEMMA Submitted ==
  ASSUME NEW r \in Calls, NEW k \in PCs, NEW s \in Snapshots \cup {None}
  PROVE  LET n == Referred(r, k, s)
         IN  /\ n \in Calls /\ SameRequest(n, r) /\ n.pc = k
             /\ n.ran = r.ran /\ n.new = r.new /\ n.old = s
  BY DEF Calls, SameRequest, Referred

LEMMA Ran ==
  ASSUME NEW r \in Calls, NEW k \in PCs, NEW w \in Windows, NEW s \in Snapshots \cup {None}
  PROVE  LET n == Returned(r, k, w, s)
         IN  /\ n \in Calls /\ SameRequest(n, r) /\ n.pc = k
             /\ n.ran = w /\ n.new = s /\ n.old = r.old
  BY DEF Calls, SameRequest, Returned

LEMMA Compared ==
  ASSUME NEW r \in Calls, NEW k \in PCs, NEW d \in Diffs \cup {None}
  PROVE  LET n == Diffed(r, k, d)
         IN  /\ n \in Calls /\ SameRequest(n, r) /\ n.pc = k
             /\ n.ran = r.ran /\ n.new = r.new /\ n.old = r.old
  BY DEF Calls, SameRequest, Diffed

Opened(q, i, b, d, e) == [Idle EXCEPT !.pc = "read", !.req = q, !.id = i, !.before = b, !.in = d, !.entry = e]

IsOpen(n, q, i, b, d, e) ==
  /\ n \in Calls /\ n.pc = "read" /\ n.req = q /\ n.id = i /\ n.before = b
  /\ n.in = d /\ n.entry = e /\ n.ran = None /\ n.new = None /\ n.old = None

LEMMA ReadCall ==
  ASSUME NEW q \in Requests, NEW i \in 0 .. MaxLines, NEW b \in SUBSET (1 .. MaxLines),
         NEW d \in Nat, NEW e \in Entries \cup {None}
  PROVE  IsOpen(Opened(q, i, b, d, e), q, i, b, d, e)
  <1>1. Idle \in Calls /\ Idle.ran = None /\ Idle.new = None /\ Idle.old = None /\ "read" \in PCs
    BY HostAssumption DEF Calls, Idle, PCs
  <1> QED
    BY <1>1 DEF Calls, Opened, IsOpen

LEMMA IdleCall == Idle \in Calls /\ Idle.pc = "idle" /\ Idle.before = {} /\ Idle.in = 0
                  /\ Idle.ran = None /\ Idle.new = None /\ Idle.old = None /\ Idle.entry = None
  BY HostAssumption DEF Calls, Idle, PCs

-----------------------------------------------------------------------------
(* The steps between the reading of a request and its answer.              *)

Handled(c) == \/ Refuse(c) \/ Answer(c) \/ StartRecording(c) \/ StopRecording(c) \/ AddEntry(c)
              \/ Submit(c) \/ Run(c) \/ RunFails(c) \/ Finish(c) \/ Look(c) \/ Record(c)

\* The window of a request is one.
LEMMA WinType ==
  ASSUME TypeOK, NEW c \in Clients, call[c].req \in Requests
  PROVE  Win(c) \in Windows /\ call[c].req.ref \in Doms \cup {None}
  <1>1. PICK q \in Requests: q = call[c].req
    OBVIOUS
  <1>2. q.window \in Windows \cup {None} /\ q.ref \in Doms \cup {None}
    BY DEF Requests
  <1>3. Main \in Windows
    BY HostAssumption
  <1> QED
    BY <1>1, <1>2, <1>3 DEF Win, Label

\* compute_diff names positions in the two snapshots.
LEMMA DiffType ==
  ASSUME NEW old \in Doms, NEW new \in Doms
  PROVE  ComputeDiff(old, new) \in Diffs
  <1>1. DOMAIN old \subseteq Nat /\ DOMAIN new \subseteq Nat
    <2>1. \A d \in Doms: DOMAIN d \subseteq Nat
      BY HostAssumption
    <2> QED
      BY <2>1
  <1>2. Pairs(old, new) \subseteq (DOMAIN old) \X (DOMAIN new)
    BY DEF Pairs
  <1>3. Pairs(old, new) \subseteq Nat \X Nat
    BY <1>1, <1>2
  <1> QED
    BY <1>1, <1>3 DEF ComputeDiff, Diffs

\* What becomes of the call in each of them.
LEMMA Handling ==
  ASSUME TypeOK, IdInv, DiffInv, NEW c \in Clients, Handled(c)
  PROVE  /\ Alone(c) /\ SameRequest(call'[c], call[c])
         /\ UNCHANGED <<script, todo, lines, replied>>
         /\ call[c].pc # "idle" /\ call'[c].pc # "idle"
         /\ call'[c].pc \in Unrecorded => call[c].pc \in Unrecorded
         /\ call'[c].ran = call[c].ran \/ call'[c].ran = Win(c)
         /\ call'[c].pc = "answer" /\ call'[c].ok => (Look(c) /\ ~active) \/ Record(c)
         /\ call'[c].pc = "ran" /\ call'[c].new # None =>
              call'[c].new.window = Win(c) /\ call'[c].new.doc = page[Win(c)].doc
         /\ call'[c].old # None => /\ call'[c].pc = "eval" => call'[c].req.method = "diff"
                                   /\ call'[c].pc = "ran" => call'[c].new # None
         /\ Record(c) => call'[c].pc = "answer" /\ call[c].pc = "record"
  <1>0. call \in [Clients -> Calls] /\ call[c] \in Calls
    BY DEF TypeOK
  <1>1. ASSUME NEW b \in BOOLEAN, NEW k \in PCs, Becomes(c, Verdict(call[c], k, b))
        PROVE  /\ Alone(c) /\ SameRequest(call'[c], call[c]) /\ call'[c].pc = k /\ call'[c].ok = b
               /\ call'[c].ran = call[c].ran /\ call'[c].new = call[c].new /\ call'[c].old = call[c].old
    BY <1>0, <1>1, Answered, Update
  <1>2. ASSUME NEW k \in PCs, Becomes(c, Placed(call[c], k))
        PROVE  /\ Alone(c) /\ SameRequest(call'[c], call[c]) /\ call'[c].pc = k /\ call'[c].ok = call[c].ok
               /\ call'[c].ran = call[c].ran /\ call'[c].new = call[c].new /\ call'[c].old = call[c].old
    BY <1>0, <1>2, Moved, Update
  <1>3. {"ok", "answer", "record", "eval", "ran"} \subseteq PCs
    BY DEF PCs
  <1>4. ASSUME Fail(c) \/ Succeed(c)
        PROVE  /\ Alone(c) /\ SameRequest(call'[c], call[c])
               /\ call'[c].pc \in {"ok", "answer"} /\ (call'[c].pc = "answer" => ~call'[c].ok)
               /\ call'[c].ran = call[c].ran
    <2>1. Becomes(c, Verdict(call[c], "answer", FALSE)) \/ Becomes(c, Placed(call[c], "ok"))
      BY <1>4 DEF Fail, Succeed, Verdict, Placed
    <2> QED
      BY <1>1, <1>2, <1>3, <2>1
  <1>5. CASE Refuse(c) \/ Answer(c) \/ StartRecording(c) \/ StopRecording(c) \/ AddEntry(c)
    <2>1. /\ call[c].pc = "read" /\ (Fail(c) \/ Succeed(c))
          /\ UNCHANGED <<script, todo, lines, replied>>
      BY <1>5 DEF Refuse, Answer, StartRecording, StopRecording, AddEntry, Taken
    <2> QED
      BY <1>4, <2>1 DEF Unrecorded, Record
  <1>6. CASE RunFails(c)
    <2>1. /\ call[c].pc \in {"eval", "ran"} /\ Fail(c)
          /\ UNCHANGED <<script, todo, lines, replied>>
      BY <1>6 DEF RunFails
    <2> QED
      BY <1>4, <2>1 DEF Unrecorded, Record
  <1>7. CASE Submit(c)
    <2>1. call[c].pc = "read" /\ UNCHANGED <<script, todo, lines, replied>>
      BY <1>7 DEF Submit, Taken
    <2>2. CASE Fail(c)
      BY <1>4, <2>1, <2>2 DEF Unrecorded, Record
    <2>3. CASE ~Fail(c)
      <3>1. PICK s: s = IF call[c].req.method = "diff" THEN Reference(c) ELSE None
        OBVIOUS
      <3>2. Becomes(c, Referred(call[c], "eval", s))
        BY <1>7, <2>3, <3>1 DEF Submit, Referred
      <3>3. s \in Snapshots \cup {None}
        <4>1. call[c].req \in Requests
          BY <2>1 DEF IdInv
        <4>2. Reference(c) \in Snapshots \cup {None}
          <5>1. Win(c) \in Windows /\ call[c].req.ref \in Doms \cup {None}
            BY <4>1, WinType
          <5>2. baseline[Win(c)] \in Snapshots \cup {None}
            BY <5>1 DEF TypeOK
          <5>3. ASSUME NEW d \in Doms PROVE [dom |-> d, window |-> None, doc |-> 0] \in Snapshots
            BY HostAssumption DEF Snapshots
          <5> QED
            BY <5>1, <5>2, <5>3 DEF Reference
        <4> QED
          BY <3>1, <4>2
      <3>4. /\ Alone(c) /\ SameRequest(call'[c], call[c]) /\ call'[c].pc = "eval"
            /\ call'[c].ran = call[c].ran /\ call'[c].old = s
        BY <1>0, <1>3, <3>2, <3>3, Submitted, Update
      <3> QED
        BY <2>1, <3>1, <3>4 DEF Unrecorded, Record, SameRequest
    <2> QED
      BY <2>2, <2>3
  <1>8. CASE Run(c)
    <2>1. call[c].pc = "eval" /\ UNCHANGED <<script, todo, lines, replied>>
      BY <1>8 DEF Run
    <2>2. Win(c) \in Windows
      BY <2>1, WinType DEF IdInv
    <2>3. PICK s: s = IF call[c].req.method \in {"snapshot", "diff"}
                      THEN [dom |-> page[Win(c)].dom, window |-> Win(c), doc |-> page[Win(c)].doc]
                      ELSE None
      OBVIOUS
    <2>4. Becomes(c, Returned(call[c], "ran", Win(c), s))
      BY <1>8, <2>3 DEF Run, Returned
    <2>5. [dom |-> page[Win(c)].dom, window |-> Win(c), doc |-> page[Win(c)].doc] \in Snapshots
      <3>1. page[Win(c)] \in Pages
        BY <2>2 DEF TypeOK
      <3> QED
        BY <2>2, <3>1 DEF Pages, Snapshots
    <2>6. /\ Alone(c) /\ SameRequest(call'[c], call[c]) /\ call'[c].pc = "ran"
          /\ call'[c].ran = Win(c) /\ call'[c].new = s /\ call'[c].old = call[c].old
      BY <1>0, <1>3, <2>2, <2>3, <2>4, <2>5, Ran, Update
    <2>7. call[c].old # None => s # None
      BY <2>1, <2>3, <2>5, HostAssumption DEF DiffInv
    <2>8. s # None => s.window = Win(c) /\ s.doc = page[Win(c)].doc
      BY <2>3
    <2> QED
      BY <1>8, <2>1, <2>6, <2>7, <2>8 DEF Unrecorded, Record, SameRequest
  <1>9. CASE Finish(c)
    <2>1. call[c].pc = "ran" /\ UNCHANGED <<script, todo, lines, replied>>
      BY <1>9 DEF Finish
    <2>2. PICK d: d = IF call[c].old = None THEN None ELSE ComputeDiff(call[c].old.dom, call[c].new.dom)
      OBVIOUS
    <2>3. d \in Diffs \cup {None}
      <3>1. call[c].old # None => call[c].old.dom \in Doms /\ call[c].new.dom \in Doms
        BY <1>0, <2>1 DEF Calls, Snapshots, DiffInv
      <3> QED
        BY <2>2, <3>1, DiffType
    <2>4. Becomes(c, Diffed(call[c], "ok", d))
      BY <1>9, <2>2 DEF Finish, Diffed
    <2>5. Alone(c) /\ SameRequest(call'[c], call[c]) /\ call'[c].pc = "ok" /\ call'[c].ran = call[c].ran
      BY <1>0, <1>3, <2>3, <2>4, Compared, Update
    <2> QED
      BY <2>1, <2>5 DEF Unrecorded, Record
  <1>10. CASE Look(c)
    <2>1. /\ call[c].pc = "ok" /\ UNCHANGED <<script, todo, lines, replied>>
      BY <1>10 DEF Look
    <2>2. PICK k: k = IF active THEN "record" ELSE "answer"
      OBVIOUS
    <2>3. k \in PCs
      BY <1>3, <2>2
    <2>4. Becomes(c, Verdict(call[c], k, TRUE))
      BY <1>10, <2>2 DEF Look, Verdict
    <2>5. /\ Alone(c) /\ SameRequest(call'[c], call[c]) /\ call'[c].pc = k /\ call'[c].ran = call[c].ran
      BY <1>1, <2>3, <2>4
    <2>6. k \in {"record", "answer"} /\ (k = "answer" => ~active) /\ ~Record(c)
      BY <2>1, <2>2 DEF Record
    <2> QED
      BY <1>10, <2>1, <2>5, <2>6 DEF Unrecorded
  <1>11. CASE Record(c)
    <2>1. /\ call[c].pc = "record" /\ UNCHANGED <<script, todo, lines, replied>>
          /\ Becomes(c, Placed(call[c], "answer"))
      BY <1>11 DEF Record, Placed
    <2> QED
      BY <1>2, <1>3, <1>11, <2>1 DEF Unrecorded
  <1> QED
    BY <1>5, <1>6, <1>7, <1>8, <1>9, <1>10, <1>11 DEF Handled

-----------------------------------------------------------------------------
(* The other steps.                                                        *)

\* A recorded action is a method of the plugin.
LEMMA RecordedIsKnown == Recordable \subseteq Known
  <1>1. Recordable \subseteq Bridged \cup {"press"}
    BY DEF Recordable, Bridged
  <1>2. Bridged \cup {"press"} \subseteq Known
    <2>1. "press" \in Elsewhere
      BY DEF Elsewhere
    <2> QED
      BY <2>1 DEF Known, Evaluated
  <1> QED
    BY <1>1, <1>2

\* What the next entry of a script asks for.
LEMMA NextEntry ==
  ASSUME TypeOK, NEW c \in Clients, script[c] # <<>>
  PROVE  Head(script[c]) \in Entries /\ Tail(script[c]) \in Seq(Entries)
  <1>1. script[c] \in Seq(Entries)
    BY DEF TypeOK
  <1> QED
    BY <1>1

LEMMA Reading ==
  ASSUME TypeOK, IdInv, NEW c \in Clients, Ask(c) \/ Repeat(c)
  PROVE  /\ Alone(c) /\ call[c].pc = "idle" /\ call'[c].pc = "read"
         /\ call'[c].req \in Requests /\ call'[c].id = lines + 1 /\ call'[c].before = replied
         /\ call'[c].in = IF active THEN during ELSE 0
         /\ call'[c].ran = None /\ call'[c].new = None /\ call'[c].old = None
         /\ call'[c].entry # None => /\ script[c] # <<>> /\ call'[c].entry = Head(script[c])
                                     /\ call'[c].req.window = Scope(c, call'[c].entry)
         /\ lines < MaxLines /\ lines' = lines + 1
         /\ UNCHANGED <<page, baseline, recorder, file, replied, due>>
  <1>1. ASSUME NEW q \in Requests, NEW e \in Entries \cup {None}, Read(c, q, e)
        PROVE  /\ Alone(c) /\ call[c].pc = "idle" /\ call'[c].pc = "read"
               /\ call'[c].req = q /\ call'[c].id = lines + 1 /\ call'[c].before = replied
               /\ call'[c].in = IF active THEN during ELSE 0
               /\ call'[c].ran = None /\ call'[c].new = None /\ call'[c].old = None
               /\ call'[c].entry = e
               /\ lines < MaxLines /\ lines' = lines + 1
    <2>1. PICK d: d = IF active THEN during ELSE 0
      OBVIOUS
    <2>2. d \in Nat
      BY <2>1 DEF TypeOK
    <2>3. lines \in 0 .. MaxLines /\ lines < MaxLines /\ lines' = lines + 1 /\ call[c].pc = "idle"
      BY <1>1 DEF Read, TypeOK
    <2>4. lines + 1 \in 0 .. MaxLines
      BY <2>3, HostAssumption
    <2>5. replied \in SUBSET (1 .. MaxLines)
      BY DEF TypeOK
    <2>6. PICK i: i = lines + 1
      OBVIOUS
    <2>7. PICK n: n = Opened(q, i, replied, d, e)
      OBVIOUS
    <2>8. /\ n \in Calls /\ n.pc = "read" /\ n.req = q /\ n.id = i /\ n.before = replied
          /\ n.in = d /\ n.entry = e /\ n.ran = None /\ n.new = None /\ n.old = None
      <3>1. i \in 0 .. MaxLines
        BY <2>4, <2>6
      <3>2. IsOpen(Opened(q, i, replied, d, e), q, i, replied, d, e)
        BY <2>2, <2>5, <3>1, ReadCall, Zenon
      <3> QED
        BY <2>7, <3>2 DEF IsOpen
    <2>9. Becomes(c, n)
      BY <1>1, <2>1, <2>6, <2>7 DEF Read, Opened
    <2>10. Alone(c) /\ call'[c] = n
      BY <2>8, <2>9, Update DEF TypeOK
    <2> QED
      BY <2>1, <2>3, <2>6, <2>8, <2>10
  <1>2. CASE Ask(c)
    <2>1. Head(todo) \in Requests
      <3>1. todo \in Seq(Requests) /\ todo # <<>>
        BY <1>2 DEF TypeOK, Ask
      <3> QED
        BY <3>1
    <2>2. /\ Read(c, Head(todo), None)
          /\ UNCHANGED <<page, baseline, recorder, file, replied, due>>
      BY <1>2 DEF Ask
    <2> QED
      BY <1>1, <2>1, <2>2
  <1>3. CASE Repeat(c)
    <2>1. PICK e: e = Head(script[c])
      OBVIOUS
    <2>2. PICK q: q = [method |-> e.action, window |-> Scope(c, e), ref |-> None, params |-> "named"]
      OBVIOUS
    <2>3. /\ script[c] # <<>> /\ e.action \in Replayable /\ Read(c, q, e)
          /\ UNCHANGED <<page, baseline, recorder, file, replied, due>>
      BY <1>3, <2>1, <2>2 DEF Repeat
    <2>4. e \in Entries
      BY <2>1, <2>3, NextEntry
    <2>5. q \in Requests /\ q.window = Scope(c, e)
      <3>1. Scope(c, e) \in Windows \cup {None} /\ e.action \in Known
        BY <2>4, HostAssumption DEF Entries, Scope
      <3> QED
        BY <2>2, <3>1 DEF Requests
    <2> QED
      BY <1>1, <2>1, <2>3, <2>4, <2>5
  <1> QED
    BY <1>2, <1>3

LEMMA Answering ==
  ASSUME TypeOK, NEW c \in Clients, Reply(c) \/ ReplyFails(c)
  PROVE  /\ Alone(c) /\ call[c].pc = "answer" /\ call'[c] = Idle
         /\ UNCHANGED <<page, baseline, recorder, file, script, todo, lines>>
         /\ replied' = replied \/ replied' = replied \cup {call[c].id}
         /\ \/ due' = due
            \/ /\ due' = due \cup {call[c].id}
               /\ call[c].ok /\ call[c].req.method \in Recordable /\ active /\ call[c].in = during
  <1>1. Becomes(c, Idle) /\ call[c].pc = "answer"
    BY DEF Reply, ReplyFails, Becomes
  <1>2. Alone(c) /\ call'[c] = Idle
    BY <1>1, Update, IdleCall DEF TypeOK
  <1> QED
    BY <1>1, <1>2 DEF Reply, ReplyFails

\* A load takes the evals that are on their way to the page.
LEMMA Loading ==
  ASSUME TypeOK, NEW w \in Windows, Load(w)
  PROVE  /\ call' \in [Clients -> Calls]
         /\ \A c \in Clients:
              \/ call'[c] = call[c] /\ (Win(c) = w => call[c].pc # "eval")
              \/ /\ call[c].pc = "eval" /\ call'[c].pc = "answer" /\ ~call'[c].ok
                 /\ SameRequest(call'[c], call[c]) /\ call'[c].ran = call[c].ran
         /\ UNCHANGED <<recorder, file, script, todo, lines, replied, due>>
  <1>1. UNCHANGED <<recorder, file, script, todo, lines, replied, due>>
    BY Zenon DEF Load
  <1>2. "answer" \in PCs /\ FALSE \in BOOLEAN
    BY DEF PCs
  <1>3. /\ call' \in [Clients -> Calls \cup {call'[c] : c \in Clients}]
        /\ \A c \in Clients: call'[c] = IF c \in AtWork(w) /\ call[c].pc = "eval"
                                        THEN Verdict(call[c], "answer", FALSE) ELSE call[c]
    BY Zenon DEF Load, Verdict
  <1>4. ASSUME NEW c \in Clients
        PROVE  /\ call'[c] \in Calls
               /\ \/ call'[c] = call[c] /\ (Win(c) = w => call[c].pc # "eval")
                  \/ /\ call[c].pc = "eval" /\ call'[c].pc = "answer" /\ ~call'[c].ok
                     /\ SameRequest(call'[c], call[c]) /\ call'[c].ran = call[c].ran
    <2>1. call[c] \in Calls
      BY DEF TypeOK
    <2>2. CASE c \in AtWork(w) /\ call[c].pc = "eval"
      <3>1. call'[c] = Verdict(call[c], "answer", FALSE)
        BY <1>3, <2>2
      <3>2. PICK n: n = Verdict(call[c], "answer", FALSE)
        OBVIOUS
      <3>3. /\ n \in Calls /\ n.pc = "answer" /\ ~n.ok
            /\ SameRequest(n, call[c]) /\ n.ran = call[c].ran
        BY <1>2, <2>1, <3>2, Answered
      <3> QED
        BY <2>2, <3>1, <3>2, <3>3
    <2>3. CASE ~(c \in AtWork(w) /\ call[c].pc = "eval")
      <3>1. call'[c] = call[c]
        BY <1>3, <2>3
      <3> QED
        BY <2>1, <2>3, <3>1 DEF AtWork
    <2> QED
      BY <2>2, <2>3
  <1> QED
    BY <1>1, <1>3, <1>4

-----------------------------------------------------------------------------
(* What the handling of a request does to what the connections share.      *)

\* The recorder starts, stops, or takes one more entry.
Started == /\ active' = TRUE /\ entries' = <<>> /\ during' = during + 1 /\ due' = {}
           /\ UNCHANGED file
Stopped == /\ active /\ active' = FALSE /\ entries' = <<>> /\ file' = entries
           /\ UNCHANGED <<during, due>>
Noted(e) == active /\ entries' = Append(entries, e) /\ UNCHANGED <<active, during, due, file>>

LEMMA RecorderSteps ==
  ASSUME TypeOK, IdInv, NEW c \in Clients, Handled(c)
  PROVE  \/ StartRecording(c) /\ Started
         \/ Stopped
         \/ Noted(Added) /\ ~Record(c)
         \/ Record(c) /\ Kept(c) /\ Noted(Entry(c)) /\ Entry(c) \in Entries
         \/ UNCHANGED <<active, entries, during, due, file>> /\ (Record(c) => ~Kept(c))
  <1>1. CASE StartRecording(c)
    BY <1>1 DEF StartRecording, Started
  <1>2. CASE StopRecording(c)
    <2>1. /\ active => active' = FALSE /\ entries' = <<>> /\ file' = entries
          /\ ~active => UNCHANGED <<active, entries, file>>
          /\ UNCHANGED <<during, due>> /\ call[c].pc = "read"
      BY <1>2 DEF StopRecording, Taken
    <2> QED
      BY <2>1 DEF Stopped, Record
  <1>3. CASE AddEntry(c)
    <2>1. /\ entries' = IF active THEN Append(entries, Added) ELSE entries
          /\ UNCHANGED <<active, during, file, due>> /\ call[c].pc = "read"
      BY <1>3 DEF AddEntry, Taken
    <2> QED
      BY <2>1 DEF Noted, Record
  <1>4. CASE Record(c)
    <2>1. /\ entries' = IF Kept(c) THEN Append(entries, Entry(c)) ELSE entries
          /\ UNCHANGED <<active, during, file, due>> /\ call[c].pc = "record"
      BY <1>4 DEF Record
    <2>2. Kept(c) => active /\ call[c].req.method \in Known
      BY RecordedIsKnown DEF Kept
    <2>3. Kept(c) => Entry(c) \in Entries
      <3>1. call[c] \in Calls /\ call[c].req \in Requests
        BY <2>1 DEF TypeOK, IdInv
      <3> QED
        BY <2>2, <3>1 DEF Entry, Entries, Calls, Requests
    <2> QED
      BY <1>4, <2>1, <2>2, <2>3 DEF Noted
  <1>5. CASE \/ Refuse(c) \/ Answer(c) \/ Submit(c) \/ Run(c) \/ RunFails(c) \/ Finish(c) \/ Look(c)
    <2>1. UNCHANGED <<recorder, due, file>> /\ call[c].pc # "record"
      BY <1>5 DEF Refuse, Answer, Submit, Run, RunFails, Finish, Look, Taken
    <2>2. UNCHANGED <<active, entries, during>>
      BY <2>1 DEF recorder
    <2> QED
      BY <2>1, <2>2 DEF Record
  <1> QED
    BY <1>1, <1>2, <1>3, <1>4, <1>5 DEF Handled

\* A page keeps its document; what it shows may change.
LEMMA PageSteps ==
  ASSUME TypeOK, IdInv, NEW c \in Clients, Handled(c)
  PROVE  /\ page' \in [Windows -> Pages]
         /\ \A w \in Windows: page'[w].doc = page[w].doc /\ page'[w].quiet = page[w].quiet
  <1>1. page \in [Windows -> Pages]
    BY DEF TypeOK
  <1>2. CASE Run(c)
    <2>1. call[c].pc = "eval"
      BY <1>2 DEF Run
    <2>2. Win(c) \in Windows
      BY <2>1, WinType DEF IdInv
    <2>3. CASE page' = page
      BY <1>1, <2>3
    <2>4. CASE \E d \in Doms: page' = [page EXCEPT ![Win(c)].dom = d]
      <3>1. PICK d \in Doms: page' = [page EXCEPT ![Win(c)].dom = d]
        BY <2>4
      <3>2. PICK p: p = [page[Win(c)] EXCEPT !.dom = d]
        OBVIOUS
      <3>3. p \in Pages /\ p.doc = page[Win(c)].doc /\ p.quiet = page[Win(c)].quiet
        <4>1. page[Win(c)] \in Pages
          BY <1>1, <2>2
        <4> QED
          BY <3>2, <4>1 DEF Pages
      <3>4. page' = [page EXCEPT ![Win(c)] = p]
        BY <3>1, <3>2
      <3> QED
        BY <1>1, <3>3, <3>4
    <2> QED
      BY <1>2, <2>3, <2>4 DEF Run
  <1>3. CASE ~Run(c)
    <2>1. page' = page
      BY <1>3 DEF Handled, Refuse, Answer, StartRecording, StopRecording, AddEntry, Submit,
                  RunFails, Finish, Look, Record
    <2> QED
      BY <1>1, <2>1
  <1> QED
    BY <1>2, <1>3

\* A snapshot that has come back is stored under the label of its window.
LEMMA BaselineSteps ==
  ASSUME TypeOK, IdInv, NEW c \in Clients, Handled(c)
  PROVE  \/ UNCHANGED baseline
         \/ /\ call[c].pc = "ran" /\ call[c].new # None /\ Win(c) \in Windows
            /\ baseline' = [baseline EXCEPT ![Win(c)] = call[c].new]
  <1>1. CASE Finish(c)
    <2>1. call[c].pc = "ran" /\ Store(c)
      BY <1>1 DEF Finish
    <2>2. Win(c) \in Windows
      BY <2>1, WinType DEF IdInv
    <2> QED
      BY <2>1, <2>2 DEF Store
  <1>2. CASE ~Finish(c)
    BY <1>2 DEF Handled, Refuse, Answer, StartRecording, StopRecording, AddEntry, Submit,
                Run, RunFails, Look, Record
  <1> QED
    BY <1>1, <1>2

-----------------------------------------------------------------------------
(* The types.                                                              *)

LEMMA Kinds ==
  ASSUME Next
  PROVE  \/ \E c \in Clients: \/ Handled(c) \/ Ask(c) \/ Repeat(c) \/ Reply(c) \/ ReplyFails(c)
                              \/ BeginReplay(c) \/ Skip(c)
         \/ \E w \in Windows: Load(w)
  BY DEF Next, Step, Replay, Handled

\* What a load does to the windows.
LEMMA LoadedPages ==
  ASSUME TypeOK, NEW w \in Windows, Load(w)
  PROVE  /\ page' \in [Windows -> Pages] /\ baseline' \in [Windows -> Snapshots \cup {None}]
         /\ page'[w].quiet => AtWork(w) = {}
         /\ baseline'[w] = None
         /\ \A v \in Windows \ {w}: page'[v] = page[v] /\ baseline'[v] = baseline[v]
  <1>1. page[w].doc < MaxLoads
    BY Zenon DEF Load
  <1>2. PICK d \in Doms: page' = [page EXCEPT ![w] = [doc |-> page[w].doc + 1, dom |-> d,
                                                      quiet |-> AtWork(w) = {}]]
    BY Zenon DEF Load
  <1>3. PICK b \in BOOLEAN: b <=> AtWork(w) = {}
    OBVIOUS
  <1>4. PICK p: p = [doc |-> page[w].doc + 1, dom |-> d, quiet |-> b]
    OBVIOUS
  <1>5. p \in Pages /\ p.quiet = b
    <2>1. page[w] \in Pages
      BY DEF TypeOK
    <2> QED
      BY <1>1, <1>4, <2>1, HostAssumption DEF Pages
  <1>6. page' = [page EXCEPT ![w] = p]
    <2>1. b = (AtWork(w) = {})
      BY <1>3, Zenon
    <2> QED
      BY <1>2, <1>4, <2>1, Zenon
  <1>7. baseline' = [baseline EXCEPT ![w] = None]
    BY Zenon DEF Load, Forget
  <1> QED
    BY <1>3, <1>5, <1>6, <1>7 DEF TypeOK

\* What is left to replay are entries.
LEMMA Scripts ==
  ASSUME TypeOK, NEW c \in Clients, Repeat(c) \/ Skip(c)
  PROVE  script[c] # <<>> /\ script' = [script EXCEPT ![c] = Tail(script[c])]
  BY DEF Repeat, Skip

LEMMA TypeStep ==
  ASSUME TypeOK, IdInv, DiffInv, [Next]_vars
  PROVE  TypeOK'
  <1>0. /\ call \in [Clients -> Calls] /\ page \in [Windows -> Pages]
        /\ baseline \in [Windows -> Snapshots \cup {None}]
        /\ active \in BOOLEAN /\ during \in Nat
        /\ entries \in Seq(Entries) /\ file \in Seq(Entries)
        /\ script \in [Clients -> Seq(Entries)] /\ todo \in Seq(Requests)
        /\ lines \in 0 .. MaxLines /\ replied \subseteq 1 .. MaxLines /\ due \subseteq 1 .. MaxLines
    BY DEF TypeOK
  <1>1. <<>> \in Seq(Entries)
    OBVIOUS
  <1>2. ASSUME NEW c \in Clients, Handled(c)
        PROVE  TypeOK'
    <2>1. call' \in [Clients -> Calls] /\ UNCHANGED <<script, todo, lines, replied>>
      BY <1>2, Handling DEF Alone
    <2>2. page' \in [Windows -> Pages]
      BY <1>2, PageSteps
    <2>3. baseline' \in [Windows -> Snapshots \cup {None}]
      <3>1. call[c].new \in Snapshots \cup {None}
        BY <1>0 DEF Calls
      <3>2. \/ UNCHANGED baseline
            \/ Win(c) \in Windows /\ baseline' = [baseline EXCEPT ![Win(c)] = call[c].new]
        BY <1>2, BaselineSteps
      <3> QED
        BY <1>0, <3>1, <3>2
    <2>4. /\ active' \in BOOLEAN /\ during' \in Nat /\ entries' \in Seq(Entries)
          /\ file' \in Seq(Entries) /\ due' \subseteq 1 .. MaxLines
      <3>1. CASE Started
        BY <1>0, <1>1, <3>1 DEF Started
      <3>2. CASE Stopped
        BY <1>0, <1>1, <3>2 DEF Stopped
      <3>3. ASSUME NEW e \in Entries, Noted(e)
            PROVE  /\ active' \in BOOLEAN /\ during' \in Nat /\ entries' \in Seq(Entries)
                   /\ file' \in Seq(Entries) /\ due' \subseteq 1 .. MaxLines
        BY <1>0, <3>3 DEF Noted
      <3>4. CASE UNCHANGED <<active, entries, during, due, file>>
        BY <1>0, <3>4
      <3>5. Added \in Entries
        BY HostAssumption
      <3> QED
        BY <1>2, <3>1, <3>2, <3>3, <3>4, <3>5, RecorderSteps
    <2> QED
      BY <1>0, <2>1, <2>2, <2>3, <2>4 DEF TypeOK
  <1>3. ASSUME NEW c \in Clients, Ask(c) \/ Repeat(c)
        PROVE  TypeOK'
    <2>1. /\ call' \in [Clients -> Calls] /\ lines < MaxLines /\ lines' = lines + 1
          /\ UNCHANGED <<page, baseline, recorder, file, replied, due>>
      BY <1>3, Reading DEF Alone
    <2>2. lines' \in 0 .. MaxLines
      BY <1>0, <2>1, HostAssumption
    <2>3. UNCHANGED <<active, entries, during>>
      BY <2>1 DEF recorder
    <2>4. script' \in [Clients -> Seq(Entries)] /\ todo' \in Seq(Requests)
      <3>1. CASE Ask(c)
        <4>1. script' = script /\ todo # <<>> /\ todo' = Tail(todo)
          BY <3>1 DEF Ask
        <4>2. Tail(todo) \in Seq(Requests)
          BY <1>0, <4>1
        <4> QED
          BY <1>0, <4>1, <4>2
      <3>2. CASE Repeat(c)
        <4>1. todo' = todo
          BY <3>2 DEF Repeat
        <4>2. script[c] # <<>> /\ script' = [script EXCEPT ![c] = Tail(script[c])]
          BY <3>2, Scripts
        <4>3. Tail(script[c]) \in Seq(Entries)
          BY <4>2, NextEntry
        <4> QED
          BY <1>0, <4>1, <4>2, <4>3
      <3> QED
        BY <1>3, <3>1, <3>2
    <2> QED
      BY <1>0, <2>1, <2>2, <2>3, <2>4 DEF TypeOK
  <1>4. ASSUME NEW c \in Clients, Reply(c) \/ ReplyFails(c)
        PROVE  TypeOK'
    <2>1. /\ call' \in [Clients -> Calls] /\ call[c].pc = "answer"
          /\ UNCHANGED <<page, baseline, recorder, file, script, todo, lines>>
          /\ replied' \subseteq replied \cup {call[c].id} /\ due' \subseteq due \cup {call[c].id}
      BY <1>4, Answering DEF Alone
    <2>2. UNCHANGED <<active, entries, during>>
      BY <2>1 DEF recorder
    <2>3. call[c].id \in 1 .. MaxLines
      BY <1>0, <2>1, HostAssumption DEF IdInv
    <2> QED
      BY <1>0, <2>1, <2>2, <2>3 DEF TypeOK
  <1>5. ASSUME NEW c \in Clients, BeginReplay(c) \/ Skip(c)
        PROVE  TypeOK'
    <2>1. UNCHANGED <<call, page, baseline, recorder, todo, lines, replied, due>>
      BY <1>5 DEF BeginReplay, Skip
    <2>2. UNCHANGED <<active, entries, during>>
      BY <2>1 DEF recorder
    <2>3. script' \in [Clients -> Seq(Entries)] /\ file' \in Seq(Entries)
      <3>1. CASE BeginReplay(c)
        <4>1. script' = [script EXCEPT ![c] = file] /\ file' = <<>>
          BY <3>1 DEF BeginReplay
        <4> QED
          BY <1>0, <1>1, <4>1
      <3>2. CASE Skip(c)
        <4>1. file' = file
          BY <3>2 DEF Skip
        <4>2. script[c] # <<>> /\ script' = [script EXCEPT ![c] = Tail(script[c])]
          BY <3>2, Scripts
        <4>3. Tail(script[c]) \in Seq(Entries)
          BY <4>2, NextEntry
        <4> QED
          BY <1>0, <4>1, <4>2, <4>3
      <3> QED
        BY <1>5, <3>1, <3>2
    <2> QED
      BY <1>0, <2>1, <2>2, <2>3 DEF TypeOK
  <1>6. ASSUME NEW w \in Windows, Load(w)
        PROVE  TypeOK'
    <2>1. call' \in [Clients -> Calls] /\ UNCHANGED <<recorder, file, script, todo, lines, replied, due>>
      BY <1>6, Loading
    <2>2. page' \in [Windows -> Pages] /\ baseline' \in [Windows -> Snapshots \cup {None}]
      BY <1>6, LoadedPages
    <2>3. UNCHANGED <<active, entries, during>>
      BY <2>1 DEF recorder
    <2> QED
      BY <1>0, <2>1, <2>2, <2>3 DEF TypeOK
  <1>7. CASE UNCHANGED vars
    BY <1>0, <1>7 DEF vars, recorder, TypeOK
  <1> QED
    BY <1>2, <1>3, <1>4, <1>5, <1>6, <1>7, Kinds

-----------------------------------------------------------------------------
(* Requests and their answers.                                             *)

\* A step that reads nothing and answers nothing.
LEMMA SameRequests ==
  ASSUME IdInv, UNCHANGED <<lines, replied>>,
         \A d \in Clients: /\ call'[d] = call[d] \/ (call'[d].pc # "idle" /\ call[d].pc # "idle")
                           /\ SameRequest(call'[d], call[d])
  PROVE  IdInv'
  <1>1. ASSUME NEW d \in Clients
        PROVE  /\ call'[d].pc = "idle" <=> call[d].pc = "idle"
               /\ call'[d].pc = "idle" => call'[d] = call[d]
               /\ call'[d].req = call[d].req /\ call'[d].id = call[d].id
               /\ call'[d].before = call[d].before
    BY DEF SameRequest
  <1> QED
    BY <1>1 DEF IdInv

LEMMA IdStep ==
  ASSUME TypeOK, IdInv, DiffInv, [Next]_vars
  PROVE  IdInv'
  <1>1. ASSUME NEW c \in Clients, Handled(c)
        PROVE  IdInv'
    <2>1. /\ \A d \in Clients \ {c}: call'[d] = call[d]
          /\ SameRequest(call'[c], call[c]) /\ call[c].pc # "idle" /\ call'[c].pc # "idle"
          /\ UNCHANGED <<lines, replied>>
      BY <1>1, Handling DEF Alone
    <2> QED
      BY <2>1, SameRequests DEF SameRequest
  <1>2. ASSUME NEW c \in Clients, Ask(c) \/ Repeat(c)
        PROVE  IdInv'
    <2>1. /\ \A d \in Clients \ {c}: call'[d] = call[d]
          /\ call'[c].pc = "read" /\ call'[c].req \in Requests /\ call'[c].id = lines + 1
          /\ call'[c].before = replied
          /\ lines' = lines + 1 /\ UNCHANGED replied
      BY <1>2, Reading DEF Alone
    <2>2. lines \in Nat /\ replied \subseteq 1 .. lines
      BY HostAssumption DEF TypeOK, IdInv
    <2>3. lines + 1 \in (1 .. lines') \ replied /\ replied \subseteq 1 .. lines'
          /\ (1 .. lines) \ replied \subseteq (1 .. lines') \ replied
      BY <2>1, <2>2
    <2>4. \A d \in Clients: call[d].pc # "idle" => call[d].id # lines + 1
      BY <2>2 DEF IdInv
    <2> QED
      BY <2>1, <2>3, <2>4 DEF IdInv
  <1>3. ASSUME NEW c \in Clients, Reply(c) \/ ReplyFails(c)
        PROVE  IdInv'
    <2>1. /\ \A d \in Clients \ {c}: call'[d] = call[d]
          /\ call[c].pc = "answer" /\ call'[c] = Idle /\ UNCHANGED lines
          /\ replied \subseteq replied' /\ replied' \subseteq replied \cup {call[c].id}
      BY <1>3, Answering DEF Alone
    <2>2. call[c].id \in 1 .. lines /\ \A d \in Clients \ {c}: call[d].pc # "idle" => call[d].id # call[c].id
      BY <2>1 DEF IdInv
    <2>3. ASSUME NEW d \in Clients \ {c}, call[d].pc # "idle"
          PROVE  call[d].req \in Requests /\ call[d].id \in (1 .. lines) \ replied'
      BY <2>1, <2>2, <2>3 DEF IdInv
    <2>4. \A d \in Clients: call'[d].before \subseteq replied'
      BY <2>1, IdleCall DEF IdInv
    <2>5. call'[c].pc = "idle"
      BY <2>1, IdleCall
    <2>6. replied' \subseteq 1 .. lines'
      BY <2>1, <2>2 DEF IdInv
    <2>7. ASSUME NEW d \in Clients
          PROVE  /\ call'[d].pc # "idle" => /\ call'[d].req \in Requests
                                            /\ call'[d].id \in (1 .. lines') \ replied'
                 /\ call'[d].pc = "idle" => call'[d] = Idle
      BY <2>1, <2>3, <2>5 DEF IdInv
    <2>8. ASSUME NEW d \in Clients, NEW e \in Clients,
                 call'[d].pc # "idle", call'[e].pc # "idle", call'[d].id = call'[e].id
          PROVE  d = e
      BY <2>1, <2>5, <2>8 DEF IdInv
    <2> QED
      BY <2>4, <2>6, <2>7, <2>8 DEF IdInv
  <1>4. ASSUME NEW w \in Windows, Load(w)
        PROVE  IdInv'
    <2>1. /\ \A d \in Clients: \/ call'[d] = call[d]
                               \/ /\ call[d].pc = "eval" /\ call'[d].pc = "answer"
                                  /\ SameRequest(call'[d], call[d])
          /\ UNCHANGED <<lines, replied>>
      BY <1>4, Loading
    <2> QED
      BY <2>1, SameRequests DEF SameRequest
  <1>5. CASE UNCHANGED <<call, lines, replied>>
    BY <1>5 DEF IdInv
  <1>6. ASSUME NEW c \in Clients, BeginReplay(c) \/ Skip(c)
        PROVE  UNCHANGED <<call, lines, replied>>
    BY <1>6 DEF BeginReplay, Skip
  <1> QED
    BY <1>1, <1>2, <1>3, <1>4, <1>5, <1>6, Kinds DEF vars

LEMMA DiffStep ==
  ASSUME TypeOK, IdInv, DiffInv, [Next]_vars
  PROVE  DiffInv'
  <1>1. ASSUME NEW c \in Clients, Handled(c)
        PROVE  DiffInv'
    <2>1. /\ \A d \in Clients \ {c}: call'[d] = call[d]
          /\ call'[c].old # None => /\ call'[c].pc = "eval" => call'[c].req.method = "diff"
                                    /\ call'[c].pc = "ran" => call'[c].new # None
      BY <1>1, Handling DEF Alone
    <2> QED
      BY <2>1 DEF DiffInv
  <1>2. ASSUME NEW c \in Clients, Ask(c) \/ Repeat(c)
        PROVE  DiffInv'
    <2>1. (\A d \in Clients \ {c}: call'[d] = call[d]) /\ call'[c].old = None
      BY <1>2, Reading DEF Alone
    <2> QED
      BY <2>1 DEF DiffInv
  <1>3. ASSUME NEW c \in Clients, Reply(c) \/ ReplyFails(c)
        PROVE  DiffInv'
    <2>1. (\A d \in Clients \ {c}: call'[d] = call[d]) /\ call'[c].old = None
      BY <1>3, Answering, IdleCall DEF Alone
    <2> QED
      BY <2>1 DEF DiffInv
  <1>4. ASSUME NEW w \in Windows, Load(w)
        PROVE  DiffInv'
    <2>1. \A d \in Clients: call'[d] = call[d] \/ call'[d].pc = "answer"
      BY <1>4, Loading
    <2> QED
      BY <2>1 DEF DiffInv
  <1>5. CASE UNCHANGED call
    BY <1>5 DEF DiffInv
  <1>6. ASSUME NEW c \in Clients, BeginReplay(c) \/ Skip(c)
        PROVE  UNCHANGED call
    BY <1>6 DEF BeginReplay, Skip
  <1> QED
    BY <1>1, <1>2, <1>3, <1>4, <1>5, <1>6, Kinds DEF vars

-----------------------------------------------------------------------------
(* The recording.                                                          *)

\* The recorder is left alone.
LEMMA Unnoted ==
  ASSUME RecordInv, RecordingIsComplete, UNCHANGED <<active, entries, during>>,
         lines \in Nat, lines' \in Nat, lines <= lines', replied \subseteq replied',
         active => due' \subseteq Ids,
         \A d \in Clients: Accounted(call'[d], Ids, active, during)
  PROVE  RecordInv' /\ RecordingIsComplete'
  <1>1. Ids' = Ids
    BY DEF Ids
  <1>2. \A i \in DOMAIN entries: entries[i].id \in 0 .. lines' /\ entries[i].before \subseteq replied'
    BY DEF RecordInv
  <1>3. RecordInv'
    BY <1>1, <1>2 DEF RecordInv
  <1>4. RecordingIsComplete'
    BY DEF RecordingIsComplete, Ids
  <1> QED
    BY <1>3, <1>4

\* It has nothing.
LEMMA Emptied ==
  ASSUME entries' = <<>>, active' => during' > 0 /\ due' = {},
         \A d \in Clients: Accounted(call'[d], {}, active', during')
  PROVE  RecordInv' /\ RecordingIsComplete'
  <1>1. Ids' = {} /\ DOMAIN entries' = {}
    BY DEF Ids
  <1> QED
    BY <1>1 DEF RecordInv, RecordingIsComplete

\* It has one more.
LEMMA Appended ==
  ASSUME entries \in Seq(Entries), NEW e \in Entries, entries' = Append(entries, e)
  PROVE  /\ DOMAIN entries = 1 .. Len(entries) /\ Len(entries) \in Nat
         /\ DOMAIN entries' = 1 .. (Len(entries) + 1) /\ entries'[Len(entries) + 1] = e
         /\ \A i \in DOMAIN entries: entries'[i] = entries[i]
         /\ Ids' = Ids \cup {e.id}
  <1>1. /\ DOMAIN entries = 1 .. Len(entries) /\ Len(entries) \in Nat
        /\ DOMAIN entries' = 1 .. (Len(entries) + 1) /\ entries'[Len(entries) + 1] = e
        /\ \A i \in DOMAIN entries: entries'[i] = entries[i]
    OBVIOUS
  <1>2. DOMAIN entries' = DOMAIN entries \cup {Len(entries) + 1}
    BY <1>1
  <1>3. Ids' = {entries'[i].id : i \in DOMAIN entries'}
    BY DEF Ids
  <1>4. ASSUME NEW x PROVE x \in Ids' <=> x \in Ids \cup {e.id}
    BY <1>1, <1>2, <1>3 DEF Ids
  <1> QED
    BY <1>1, <1>4

LEMMA OneMore ==
  ASSUME TypeOK, RecordInv, RecordingIsComplete, NEW e \in Entries, Noted(e),
         UNCHANGED <<lines, replied>>,
         e.id \in 0 .. lines, e.id \notin replied, e.id = 0 \/ e.id \notin Ids, e.before \subseteq replied,
         \A d \in Clients: Accounted(call'[d], Ids \cup {e.id}, active, during)
  PROVE  RecordInv' /\ RecordingIsComplete'
  <1>1. PICK n: n = Len(entries)
    OBVIOUS
  <1>2. /\ DOMAIN entries = 1 .. n /\ n \in Nat
        /\ DOMAIN entries' = 1 .. (n + 1) /\ entries'[n + 1] = e
        /\ \A i \in DOMAIN entries: entries'[i] = entries[i]
        /\ Ids' = Ids \cup {e.id}
    BY <1>1, Appended DEF Noted, TypeOK
  <1>3. UNCHANGED <<active, during, due>> /\ active
    BY DEF Noted
  <1>4. ASSUME NEW i \in DOMAIN entries'
        PROVE  entries'[i].id \in 0 .. lines /\ entries'[i].before \subseteq replied
    <2>1. i \in DOMAIN entries \/ i = n + 1
      BY <1>2
    <2> QED
      BY <1>2, <2>1 DEF RecordInv
  <1>5. RecordInv'
    BY <1>2, <1>3, <1>4 DEF RecordInv
  <1>6. ASSUME NEW i \in DOMAIN entries', NEW j \in DOMAIN entries', i < j
        PROVE  /\ entries'[j].id \notin entries'[i].before
               /\ entries'[i].id = 0 \/ entries'[i].id # entries'[j].id
    <2>1. i \in DOMAIN entries /\ entries'[i] = entries[i]
      BY <1>2, <1>6
    <2>2. CASE j \in DOMAIN entries
      BY <1>2, <1>6, <2>1, <2>2 DEF RecordingIsComplete
    <2>3. CASE j = n + 1
      <3>1. entries[i].before \subseteq replied /\ entries[i].id \in Ids
        BY <2>1 DEF RecordInv, Ids
      <3> QED
        BY <1>2, <2>1, <2>3, <3>1
    <2> QED
      BY <1>2, <2>2, <2>3
  <1>7. active' /\ due' \subseteq Ids'
    <2>1. due \subseteq Ids
      BY <1>3 DEF RecordingIsComplete, Ids
    <2> QED
      BY <1>2, <1>3, <2>1
  <1>8. RecordingIsComplete'
    BY <1>6, <1>7 DEF RecordingIsComplete, Ids
  <1> QED
    BY <1>5, <1>8

\* A request that is handled while the recorder keeps what it has.
LEMMA HandledUnnoted ==
  ASSUME TypeOK, IdInv, DiffInv, RecordInv, NEW c \in Clients, Handled(c),
         Record(c) => ~Kept(c)
  PROVE  \A d \in Clients: Accounted(call'[d], Ids, active, during)
  <1>1. ASSUME NEW d \in Clients \ {c}
        PROVE  Accounted(call'[d], Ids, active, during)
    BY <1>1, Handling DEF Alone, RecordInv
  <1>2. Accounted(call'[c], Ids, active, during)
    <2>1. /\ SameRequest(call'[c], call[c])
          /\ call'[c].pc \in Unrecorded => call[c].pc \in Unrecorded
          /\ call'[c].pc = "answer" /\ call'[c].ok => (Look(c) /\ ~active) \/ Record(c)
      BY Handling
    <2>2. Record(c) => ~active \/ call[c].req.method \notin Recordable
      BY DEF Kept
    <2>3. Accounted(call[c], Ids, active, during)
      BY DEF RecordInv
    <2> QED
      BY <2>1, <2>2, <2>3 DEF Accounted, SameRequest
  <1> QED
    BY <1>1, <1>2

LEMMA RecordStep ==
  ASSUME TypeOK, IdInv, DiffInv, RecordInv, RecordingIsComplete, [Next]_vars
  PROVE  RecordInv' /\ RecordingIsComplete'
  <1>0. /\ lines \in Nat /\ replied \subseteq 1 .. lines /\ during \in Nat
        /\ entries \in Seq(Entries) /\ \A d \in Clients: call[d] \in Calls
    BY HostAssumption DEF TypeOK, IdInv
  <1>1. ASSUME NEW d \in Clients PROVE Accounted(call[d], Ids, active, during)
    BY DEF RecordInv
  <1>2. active => due \subseteq Ids
    BY DEF RecordingIsComplete, Ids
  <1>3. ASSUME NEW c \in Clients, Handled(c)
        PROVE  RecordInv' /\ RecordingIsComplete'
    <2>0. /\ \A d \in Clients \ {c}: call'[d] = call[d]
          /\ SameRequest(call'[c], call[c]) /\ UNCHANGED <<lines, replied>>
          /\ call[c].pc # "idle"
          /\ call'[c].pc \in Unrecorded => call[c].pc \in Unrecorded
          /\ call'[c].pc = "answer" /\ call'[c].ok => (Look(c) /\ ~active) \/ Record(c)
          /\ Record(c) => call'[c].pc = "answer" /\ call[c].pc = "record"
      BY <1>3, Handling DEF Alone
    <2>1. CASE Started
      <3>1. ASSUME NEW d \in Clients PROVE Accounted(call'[d], {}, active', during')
        <4>1. call'[d].in = call[d].in /\ call[d].in <= during /\ call[d].in \in Nat
          BY <1>0, <1>1, <2>0 DEF Accounted, SameRequest, Calls
        <4> QED
          BY <1>0, <2>1, <4>1 DEF Started, Accounted
      <3>2. entries' = <<>> /\ due' = {} /\ during' > 0
        BY <1>0, <2>1 DEF Started
      <3> QED
        BY <3>1, <3>2, Emptied
    <2>2. CASE Stopped
      <3>1. ASSUME NEW d \in Clients PROVE Accounted(call'[d], {}, active', during')
        <4>1. call'[d].in = call[d].in /\ call[d].in <= during
          BY <1>0, <1>1, <2>0 DEF Accounted, SameRequest
        <4> QED
          BY <2>2, <4>1 DEF Stopped, Accounted
      <3> QED
        BY <2>2, <3>1, Emptied DEF Stopped
    <2>3. CASE Noted(Added) /\ ~Record(c)
      <3>1. Added \in Entries /\ Added.id = 0 /\ Added.before = {}
        BY HostAssumption
      <3>2. active
        BY <2>3 DEF Noted
      <3>3. ASSUME NEW d \in Clients PROVE Accounted(call'[d], Ids \cup {Added.id}, active, during)
        <4>1. Accounted(call'[d], Ids, active, during)
          BY <1>3, <2>3, HandledUnnoted
        <4>2. call'[d].pc \in Unrecorded => call'[d].id # 0
          <5>1. call[d].pc # "idle" => call[d].id # 0
            BY <1>0 DEF IdInv
          <5> QED
            BY <2>0, <5>1 DEF Unrecorded, SameRequest
        <4> QED
          BY <3>1, <4>1, <4>2 DEF Accounted
      <3>4. 0 \in 0 .. lines /\ 0 \notin replied
        BY <1>0
      <3> QED
        BY <2>0, <2>3, <3>1, <3>3, <3>4, OneMore
    <2>4. CASE Record(c) /\ Kept(c) /\ Noted(Entry(c)) /\ Entry(c) \in Entries
      <3>1. Entry(c).id = call[c].id /\ Entry(c).before = call[c].before
        BY DEF Entry
      <3>2. /\ call[c].id \in (1 .. lines) \ replied /\ call[c].before \subseteq replied
            /\ \A d \in Clients \ {c}: call[d].pc # "idle" => call[d].id # call[c].id
        BY <2>0 DEF IdInv
      <3>3. call[c].id \notin Ids
        BY <1>1, <2>0, <2>4 DEF Accounted, Unrecorded
      <3>4. ASSUME NEW d \in Clients PROVE Accounted(call'[d], Ids \cup {Entry(c).id}, active, during)
        <4>1. CASE d = c
          BY <1>1, <2>0, <2>4, <3>1, <4>1 DEF Accounted, SameRequest, Unrecorded
        <4>2. CASE d # c
          BY <1>1, <2>0, <3>1, <3>2, <4>2 DEF Accounted, Unrecorded
        <4> QED
          BY <4>1, <4>2
      <3>5. call[c].id \in 0 .. lines
        BY <1>0, <3>2
      <3> QED
        BY <2>0, <2>4, <3>1, <3>2, <3>3, <3>4, <3>5, OneMore
    <2>5. CASE UNCHANGED <<active, entries, during, due, file>> /\ (Record(c) => ~Kept(c))
      <3>1. \A d \in Clients: Accounted(call'[d], Ids, active, during)
        BY <1>3, <2>5, HandledUnnoted
      <3> QED
        BY <1>0, <1>2, <2>0, <2>5, <3>1, Unnoted
    <2> QED
      BY <1>3, <2>1, <2>2, <2>3, <2>4, <2>5, RecorderSteps
  <1>4. ASSUME NEW c \in Clients, Ask(c) \/ Repeat(c)
        PROVE  RecordInv' /\ RecordingIsComplete'
    <2>1. /\ \A d \in Clients \ {c}: call'[d] = call[d]
          /\ call'[c].pc = "read" /\ call'[c].id = lines + 1
          /\ call'[c].in = IF active THEN during ELSE 0
          /\ lines' = lines + 1 /\ UNCHANGED <<recorder, replied, due>>
      BY <1>4, Reading DEF Alone
    <2>2. UNCHANGED <<active, entries, during>>
      BY <2>1 DEF recorder
    <2>3. lines + 1 \notin Ids
      BY <1>0 DEF RecordInv, Ids
    <2>4. \A d \in Clients: Accounted(call'[d], Ids, active, during)
      BY <1>0, <1>1, <2>1, <2>3 DEF Accounted
    <2> QED
      BY <1>0, <1>2, <2>1, <2>2, <2>4, Unnoted
  <1>5. ASSUME NEW c \in Clients, Reply(c) \/ ReplyFails(c)
        PROVE  RecordInv' /\ RecordingIsComplete'
    <2>1. /\ \A d \in Clients \ {c}: call'[d] = call[d]
          /\ call[c].pc = "answer" /\ call'[c] = Idle /\ UNCHANGED <<recorder, lines>>
          /\ replied \subseteq replied'
          /\ \/ due' = due
             \/ /\ due' = due \cup {call[c].id}
                /\ call[c].ok /\ call[c].req.method \in Recordable /\ active /\ call[c].in = during
      BY <1>5, Answering DEF Alone
    <2>2. UNCHANGED <<active, entries, during>>
      BY <2>1 DEF recorder
    <2>3. \A d \in Clients: Accounted(call'[d], Ids, active, during)
      <3>1. Accounted(Idle, Ids, active, during)
        BY <1>0, IdleCall DEF Accounted, Unrecorded
      <3> QED
        BY <1>1, <2>1, <3>1
    <2>4. active => due' \subseteq Ids
      BY <1>1, <1>2, <2>1 DEF Accounted
    <2> QED
      BY <1>0, <2>1, <2>2, <2>3, <2>4, Unnoted
  <1>6. ASSUME NEW w \in Windows, Load(w)
        PROVE  RecordInv' /\ RecordingIsComplete'
    <2>1. /\ \A d \in Clients: \/ call'[d] = call[d]
                               \/ /\ call[d].pc = "eval" /\ call'[d].pc = "answer" /\ ~call'[d].ok
                                  /\ SameRequest(call'[d], call[d])
          /\ UNCHANGED <<recorder, lines, replied, due>>
      BY <1>6, Loading
    <2>2. UNCHANGED <<active, entries, during>>
      BY <2>1 DEF recorder
    <2>3. \A d \in Clients: Accounted(call'[d], Ids, active, during)
      BY <1>1, <2>1 DEF Accounted, Unrecorded, SameRequest
    <2> QED
      BY <1>0, <1>2, <2>1, <2>2, <2>3, Unnoted
  <1>7. CASE UNCHANGED <<call, recorder, lines, replied, due>>
    <2>1. UNCHANGED <<active, entries, during>>
      BY <1>7 DEF recorder
    <2> QED
      BY <1>0, <1>1, <1>2, <1>7, <2>1, Unnoted
  <1>8. ASSUME NEW c \in Clients, BeginReplay(c) \/ Skip(c)
        PROVE  UNCHANGED <<call, recorder, lines, replied, due>>
    BY <1>8 DEF BeginReplay, Skip
  <1> QED
    BY <1>3, <1>4, <1>5, <1>6, <1>7, <1>8, Kinds DEF vars

-----------------------------------------------------------------------------
(* The baselines.                                                          *)

\* A call n to a page: what it has returned is of its window and, when the
\* page has lost none, of the document the window shows.
Current(n, w) == n.pc = "ran" /\ n.new # None =>
                   /\ n.new.window = w
                   /\ page[w].quiet => n.new.doc = page[w].doc

\* Another step than one of a page or of the handling of a request.
LEMMA OtherBaselines ==
  ASSUME BaselineInv, BaselineOfThisDocument, UNCHANGED <<page, baseline>>,
         \A d \in Clients: call'[d] = call[d] \/ call'[d].pc # "ran"
  PROVE  BaselineInv' /\ BaselineOfThisDocument'
  <1>1. BaselineOfThisDocument'
    BY DEF BaselineOfThisDocument
  <1>2. ASSUME NEW d \in Clients, call'[d].pc = "ran"
        PROVE  call'[d] = call[d] /\ Win(d)' = Win(d)
    BY <1>2 DEF Win
  <1>3. BaselineInv'
    BY <1>2 DEF BaselineInv
  <1> QED
    BY <1>1, <1>3

LEMMA BaselineStep ==
  ASSUME TypeOK, IdInv, DiffInv, BaselineInv, BaselineOfThisDocument, [Next]_vars
  PROVE  BaselineInv' /\ BaselineOfThisDocument'
  <1>0. ASSUME NEW d \in Clients, call[d].pc # "idle"
        PROVE  Win(d) \in Windows
    BY <1>0, WinType DEF IdInv
  <1>1. ASSUME NEW c \in Clients, Handled(c)
        PROVE  BaselineInv' /\ BaselineOfThisDocument'
    <2>1. /\ \A d \in Clients \ {c}: call'[d] = call[d]
          /\ SameRequest(call'[c], call[c]) /\ call[c].pc # "idle"
          /\ call'[c].pc = "ran" /\ call'[c].new # None =>
               call'[c].new.window = Win(c) /\ call'[c].new.doc = page[Win(c)].doc
      BY <1>1, Handling DEF Alone
    <2>2. \A w \in Windows: page'[w].doc = page[w].doc /\ page'[w].quiet = page[w].quiet
      BY <1>1, PageSteps
    <2>3. \A d \in Clients: Win(d)' = Win(d)
      BY <2>1 DEF Win, SameRequest
    <2>4. \/ UNCHANGED baseline
          \/ /\ call[c].pc = "ran" /\ call[c].new # None /\ Win(c) \in Windows
             /\ baseline' = [baseline EXCEPT ![Win(c)] = call[c].new]
      BY <1>1, BaselineSteps
    <2>5. ASSUME NEW w \in Windows, baseline'[w] # None
          PROVE  baseline'[w].window = w /\ (page'[w].quiet => baseline'[w].doc = page'[w].doc)
      <3>1. CASE baseline'[w] = baseline[w]
        BY <2>2, <2>5, <3>1 DEF BaselineInv, BaselineOfThisDocument
      <3>2. CASE w = Win(c) /\ call[c].pc = "ran" /\ call[c].new # None /\ baseline'[w] = call[c].new
        BY <2>2, <3>2 DEF BaselineInv
      <3>3. baseline \in [Windows -> Snapshots \cup {None}]
        BY DEF TypeOK
      <3> QED
        BY <2>4, <3>1, <3>2, <3>3
    <2>6. ASSUME NEW d \in Clients, call'[d].pc = "ran", call'[d].new # None
          PROVE  /\ call'[d].new.window = Win(d)
                 /\ page'[Win(d)].quiet => call'[d].new.doc = page'[Win(d)].doc
      <3>1. CASE d = c
        BY <1>0, <2>1, <2>2, <2>6, <3>1
      <3>2. CASE d # c
        <4>1. call'[d] = call[d] /\ Win(d) \in Windows
          BY <1>0, <2>1, <2>6, <3>2
        <4> QED
          BY <2>2, <2>6, <4>1 DEF BaselineInv
      <3> QED
        BY <3>1, <3>2
    <2> QED
      BY <2>3, <2>5, <2>6 DEF BaselineInv, BaselineOfThisDocument
  <1>2. ASSUME NEW c \in Clients, Ask(c) \/ Repeat(c)
        PROVE  BaselineInv' /\ BaselineOfThisDocument'
    <2>1. /\ \A d \in Clients: call'[d] = call[d] \/ call'[d].pc # "ran"
          /\ UNCHANGED <<page, baseline>>
      BY <1>2, Reading DEF Alone
    <2> QED
      BY <2>1, OtherBaselines
  <1>3. ASSUME NEW c \in Clients, Reply(c) \/ ReplyFails(c)
        PROVE  BaselineInv' /\ BaselineOfThisDocument'
    <2>1. /\ \A d \in Clients: call'[d] = call[d] \/ call'[d].pc # "ran"
          /\ UNCHANGED <<page, baseline>>
      BY <1>3, Answering, IdleCall DEF Alone
    <2> QED
      BY <2>1, OtherBaselines
  <1>4. ASSUME NEW w \in Windows, Load(w)
        PROVE  BaselineInv' /\ BaselineOfThisDocument'
    <2>1. /\ page'[w].quiet => AtWork(w) = {}
          /\ baseline'[w] = None
          /\ \A v \in Windows \ {w}: page'[v] = page[v] /\ baseline'[v] = baseline[v]
      BY <1>4, LoadedPages
    <2>2. \A d \in Clients: \/ call'[d] = call[d]
                            \/ call'[d].pc = "answer" /\ SameRequest(call'[d], call[d])
      BY <1>4, Loading
    <2>3. \A d \in Clients: Win(d)' = Win(d)
      BY <2>2 DEF Win, SameRequest
    <2>4. BaselineOfThisDocument' /\ \A v \in Windows: baseline'[v] # None => baseline'[v].window = v
      BY <2>1 DEF BaselineInv, BaselineOfThisDocument
    <2>5. ASSUME NEW d \in Clients, call'[d].pc = "ran", call'[d].new # None
          PROVE  /\ call'[d].new.window = Win(d)
                 /\ page'[Win(d)].quiet => call'[d].new.doc = page'[Win(d)].doc
      <3>1. call'[d] = call[d] /\ call[d].pc = "ran" /\ Win(d) \in Windows
        BY <1>0, <2>2, <2>5
      <3>2. CASE Win(d) = w
        <4>1. ~page'[w].quiet
          BY <2>1, <3>1, <3>2 DEF AtWork
        <4> QED
          BY <2>5, <3>1, <3>2, <4>1 DEF BaselineInv
      <3>3. CASE Win(d) # w
        BY <2>1, <2>5, <3>1, <3>3 DEF BaselineInv
      <3> QED
        BY <3>2, <3>3
    <2> QED
      BY <2>3, <2>4, <2>5 DEF BaselineInv
  <1>5. CASE UNCHANGED <<call, page, baseline>>
    BY <1>5, OtherBaselines
  <1>6. ASSUME NEW c \in Clients, BeginReplay(c) \/ Skip(c)
        PROVE  UNCHANGED <<call, page, baseline>>
    BY <1>6 DEF BeginReplay, Skip
  <1> QED
    BY <1>1, <1>2, <1>3, <1>4, <1>5, <1>6, Kinds DEF vars

-----------------------------------------------------------------------------
(* Diffs: first what compute_diff does with any two snapshots.             *)

\* Elements of a snapshot that are the same as one of it.
Alike(s, i) == {k \in DOMAIN s: Same(s[k], s[i])}

\* Finite sets have the sizes of their parts.
LEMMA Subsets ==
  ASSUME NEW S, IsFiniteSet(S), NEW T \in SUBSET S
  PROVE  /\ IsFiniteSet(T) /\ Cardinality(T) \in Nat /\ Cardinality(S) \in Nat
         /\ Cardinality(T) <= Cardinality(S)
         /\ T # S => Cardinality(T) < Cardinality(S)
  <1>1. IsFiniteSet(T) /\ Cardinality(T) <= Cardinality(S) /\ (Cardinality(S) = Cardinality(T) => S = T)
    BY FS_Subset
  <1>2. Cardinality(T) \in Nat /\ Cardinality(S) \in Nat
    BY <1>1, FS_CardinalityType
  <1> QED
    BY <1>1, <1>2

LEMMA Finite ==
  ASSUME NEW s \in Doms
  PROVE  IsFiniteSet(DOMAIN s) /\ DOMAIN s \subseteq Nat /\ \A i \in DOMAIN s: 1 .. i \subseteq DOMAIN s
  <1>1. Len(s) \in Nat /\ DOMAIN s = 1 .. Len(s)
    BY HostAssumption
  <1>2. IsFiniteSet(1 .. Len(s))
    BY <1>1, FS_Interval
  <1> QED
    BY <1>1, <1>2

\* Elements that are the same have ranks of their own, from 1 to their number.
LEMMA RankBound ==
  ASSUME NEW s \in Doms, NEW i \in DOMAIN s
  PROVE  /\ IsFiniteSet(Alike(s, i)) /\ Cardinality(Alike(s, i)) \in Nat
         /\ Rank(s, i) \in 1 .. Cardinality(Alike(s, i))
  <1> DEFINE Before == {j \in 1 .. i: Same(s[j], s[i])}
  <1>1. IsFiniteSet(DOMAIN s) /\ i \in Nat /\ 1 .. i \subseteq DOMAIN s /\ 1 <= i
    <2>1. DOMAIN s = 1 .. Len(s)
      BY HostAssumption
    <2> QED
      BY <2>1, Finite
  <1>2. IsFiniteSet(Alike(s, i))
    BY <1>1, Subsets DEF Alike
  <1>3. Before \subseteq Alike(s, i) /\ i \in Before
    BY <1>1 DEF Alike, Same
  <1>4. /\ IsFiniteSet(Before) /\ Cardinality(Before) \in Nat /\ Cardinality(Alike(s, i)) \in Nat
        /\ Cardinality(Before) <= Cardinality(Alike(s, i))
    BY <1>2, <1>3, Subsets
  <1>5. Cardinality(Before) # 0
    BY <1>3, <1>4, FS_EmptySet
  <1> QED
    BY <1>2, <1>4, <1>5 DEF Rank

LEMMA RankGrows ==
  ASSUME NEW s \in Doms, NEW i \in DOMAIN s, NEW j \in DOMAIN s, i < j, Same(s[i], s[j])
  PROVE  Rank(s, i) < Rank(s, j)
  <1> DEFINE B == {k \in 1 .. i: Same(s[k], s[i])}
             C == {k \in 1 .. j: Same(s[k], s[j])}
  <1>1. IsFiniteSet(DOMAIN s) /\ i \in Nat /\ j \in Nat /\ 1 .. j \subseteq DOMAIN s /\ 1 <= j
    <2>1. DOMAIN s = 1 .. Len(s)
      BY HostAssumption
    <2> QED
      BY <2>1, Finite
  <1>2. B \subseteq C /\ j \in C /\ j \notin B
    BY <1>1 DEF Same
  <1>3. IsFiniteSet(C)
    BY <1>1, Subsets
  <1>4. Cardinality(B) < Cardinality(C)
    <2>1. B \in SUBSET C /\ B # C
      BY <1>2
    <2> HIDE DEF B, C
    <2> QED
      BY <1>3, <2>1, Subsets
  <1> QED
    BY <1>4 DEF Rank

LEMMA RankOwn ==
  ASSUME NEW s \in Doms, NEW i \in DOMAIN s, NEW j \in DOMAIN s, Same(s[i], s[j]), Rank(s, i) = Rank(s, j)
  PROVE  i = j
  <1>1. i \in Nat /\ j \in Nat
    BY Finite
  <1>2. Rank(s, i) \in Nat /\ Rank(s, j) \in Nat
    BY RankBound
  <1>3. Same(s[j], s[i])
    BY DEF Same
  <1>4. ~(i < j) /\ ~(j < i)
    BY <1>2, <1>3, RankGrows
  <1> QED
    BY <1>1, <1>4

LEMMA RankOnto ==
  ASSUME NEW s \in Doms, NEW i \in DOMAIN s, NEW r \in 1 .. Cardinality(Alike(s, i))
  PROVE  \E k \in Alike(s, i): Rank(s, k) = r
  <1> DEFINE K == Alike(s, i)
             T == 1 .. Cardinality(K)
             f == [k \in K |-> Rank(s, k)]
  <1>1. IsFiniteSet(K) /\ Cardinality(K) \in Nat
    BY RankBound
  <1>2. IsFiniteSet(T) /\ Cardinality(T) = Cardinality(K)
    BY <1>1, FS_Interval
  <1>3. f \in [K -> T]
    <2> SUFFICES ASSUME NEW k \in K PROVE Rank(s, k) \in T
      OBVIOUS
    <2>1. k \in DOMAIN s /\ Alike(s, k) = K
      BY DEF Alike, Same
    <2> QED
      BY <2>1, RankBound
  <1>4. \A a, b \in K: f[a] = f[b] => a = b
    <2> SUFFICES ASSUME NEW a \in K, NEW b \in K, Rank(s, a) = Rank(s, b) PROVE a = b
      OBVIOUS
    <2>1. a \in DOMAIN s /\ b \in DOMAIN s /\ Same(s[a], s[b])
      BY DEF Alike, Same
    <2> QED
      BY <2>1, RankOwn
  <1>5. f \in Injection(K, T)
    <2> HIDE DEF f, K, T
    <2> QED
      BY <1>3, <1>4, Fun_IsInj
  <1>6. f \in Surjection(K, T)
    <2> HIDE DEF f, K, T
    <2> QED
      BY <1>2, <1>5, FS_Injection
  <1>7. \A t \in T: \E k \in K: f[k] = t
    <2> HIDE DEF f, K, T
    <2> QED
      BY <1>6, Fun_SurjectionProperties
  <1> QED
    BY <1>7

\* Every element has one partner at most.
LEMMA OnePartner ==
  ASSUME NEW old \in Doms, NEW new \in Doms, NEW p \in Pairs(old, new), NEW q \in Pairs(old, new)
  PROVE  p[1] = q[1] <=> p[2] = q[2]
  <1>1. /\ p[1] \in DOMAIN old /\ q[1] \in DOMAIN old /\ p[2] \in DOMAIN new /\ q[2] \in DOMAIN new
        /\ Same(old[p[1]], new[p[2]]) /\ Same(old[q[1]], new[q[2]])
        /\ Rank(old, p[1]) = Rank(new, p[2]) /\ Rank(old, q[1]) = Rank(new, q[2])
    BY DEF Pairs
  <1>2. ASSUME p[1] = q[1] PROVE p[2] = q[2]
    <2>1. Same(new[p[2]], new[q[2]]) /\ Rank(new, p[2]) = Rank(new, q[2])
      BY <1>1, <1>2 DEF Same
    <2> QED
      BY <1>1, <2>1, RankOwn
  <1>3. ASSUME p[2] = q[2] PROVE p[1] = q[1]
    <2>1. Same(old[p[1]], old[q[1]]) /\ Rank(old, p[1]) = Rank(old, q[1])
      BY <1>1, <1>3 DEF Same
    <2> QED
      BY <1>1, <2>1, RankOwn
  <1> QED
    BY <1>2, <1>3

\* Of two elements that are the same one has a partner.
LEMMA Paired ==
  ASSUME NEW old \in Doms, NEW new \in Doms, NEW i \in DOMAIN old, NEW j \in DOMAIN new,
         Same(old[i], new[j])
  PROVE  \E p \in Pairs(old, new): p[1] = i \/ p[2] = j
  <1> DEFINE m == Cardinality(Alike(old, i))
             n == Cardinality(Alike(new, j))
  <1>1. m \in Nat /\ Rank(old, i) \in 1 .. m /\ n \in Nat /\ Rank(new, j) \in 1 .. n
    BY RankBound
  <1>2. CASE m <= n
    <2>1. Rank(old, i) \in 1 .. n
      BY <1>1, <1>2
    <2>2. PICK k \in Alike(new, j): Rank(new, k) = Rank(old, i)
      BY <2>1, RankOnto
    <2>3. <<i, k>> \in Pairs(old, new)
      BY <2>2 DEF Pairs, Alike, Same
    <2> QED
      BY <2>3
  <1>3. CASE n <= m
    <2>1. Rank(new, j) \in 1 .. m
      BY <1>1, <1>3
    <2>2. PICK k \in Alike(old, i): Rank(old, k) = Rank(new, j)
      BY <2>1, RankOnto
    <2>3. <<k, j>> \in Pairs(old, new)
      BY <2>2 DEF Pairs, Alike, Same
    <2> QED
      BY <2>3
  <1> QED
    BY <1>1, <1>2, <1>3

\* A set of which R is left out and the rest is in C or in U, one to one.
LEMMA Counted ==
  ASSUME NEW A, IsFiniteSet(A), NEW R \in SUBSET A, NEW C, NEW U, C \cap U = {},
         ExistsBijection(C \cup U, A \ R)
  PROVE  Cardinality(A) - Cardinality(R) - Cardinality(C) = Cardinality(U)
  <1>1. /\ IsFiniteSet(A \ R) /\ Cardinality(A \ R) = Cardinality(A) - Cardinality(A \cap R)
        /\ A \cap R = R
    BY FS_Difference
  <1>2. ExistsBijection(A \ R, C \cup U)
    BY Fun_ExistsBijSymmetric
  <1>3. IsFiniteSet(C \cup U) /\ Cardinality(C \cup U) = Cardinality(A \ R)
    BY <1>1, <1>2, FS_Bijection
  <1>4. C \in SUBSET (C \cup U) /\ U \in SUBSET (C \cup U)
    OBVIOUS
  <1>5. IsFiniteSet(C) /\ IsFiniteSet(U) /\ Cardinality(C) \in Nat /\ Cardinality(U) \in Nat
    BY <1>3, <1>4, Subsets
  <1>6. Cardinality(C \cup U) = Cardinality(C) + Cardinality(U) - Cardinality(C \cap U)
    BY <1>5, FS_Union
  <1>7. Cardinality(C \cap U) = 0
    BY FS_EmptySet
  <1>8. Cardinality(A) \in Nat /\ Cardinality(R) \in Nat
    BY Subsets
  <1>9. Cardinality(A \ R) = Cardinality(A) - Cardinality(R)
    BY <1>1
  <1>10. Cardinality(C \cup U) = Cardinality(C) + Cardinality(U)
    BY <1>5, <1>6, <1>7
  <1> QED
    BY <1>3, <1>5, <1>8, <1>9, <1>10

\* The pairs of an element that are unchanged account for what remains of it
\* on both sides.
LEMMA Balanced ==
  ASSUME NEW old \in Doms, NEW new \in Doms, NEW e
  PROVE  Left(ComputeDiff(old, new), old, e) = Unmoved(ComputeDiff(old, new), new, e)
  <1> DEFINE P  == Pairs(old, new)
             Ch == {p \in P: Differences(old[p[1]], new[p[2]]) # {}}
             Ro == (DOMAIN old) \ {p[1] : p \in P}
             Rn == (DOMAIN new) \ {p[2] : p \in P}
             U  == {p \in P \ Ch: old[p[1]] = e}
  <1>1. /\ ComputeDiff(old, new).removed = Ro /\ ComputeDiff(old, new).added = Rn
        /\ ComputeDiff(old, new).changed = Ch
    BY DEF ComputeDiff
  <1>2. \A p \in P: p[1] \in DOMAIN old /\ p[2] \in DOMAIN new /\ Same(old[p[1]], new[p[2]])
    BY DEF Pairs
  <1>3. U = {p \in P \ Ch: new[p[2]] = e}
    <2>1. \A p \in P \ Ch: old[p[1]] = new[p[2]]
      BY <1>2, ElementAssumption
    <2> QED
      BY <2>1
  <1>4. \A p, q \in P: (p[1] = q[1] <=> p[2] = q[2]) /\ (p[1] = q[1] /\ p[2] = q[2] => p = q)
    <2>1. \A p, q \in P: p[1] = q[1] <=> p[2] = q[2]
      BY OnePartner
    <2>2. P \subseteq (DOMAIN old) \X (DOMAIN new)
      BY DEF Pairs
    <2>3. \A p, q \in (DOMAIN old) \X (DOMAIN new): p[1] = q[1] /\ p[2] = q[2] => p = q
      OBVIOUS
    <2> HIDE DEF P
    <2> QED
      BY <2>1, <2>2, <2>3
  <1>5. IsFiniteSet(DOMAIN old) /\ IsFiniteSet(DOMAIN new)
    BY Finite
  <1> HIDE DEF P
  <1>6. Cardinality({i \in DOMAIN old : old[i] = e}) - Cardinality({i \in Ro : old[i] = e})
        - Cardinality({p \in Ch : old[p[1]] = e}) = Cardinality(U)
    <2> DEFINE A == {i \in DOMAIN old : old[i] = e}
               R == {i \in Ro : old[i] = e}
               C == {p \in Ch : old[p[1]] = e}
               f == [p \in C \cup U |-> p[1]]
    <2>1. IsFiniteSet(A)
      BY <1>5, Subsets
    <2>2. R \in SUBSET A /\ C \cap U = {}
      OBVIOUS
    <2>3. f \in [C \cup U -> A \ R]
      BY <1>2
    <2>4. \A a, b \in C \cup U: f[a] = f[b] => a = b
      BY <1>4
    <2>5. \A x \in A \ R: \E a \in C \cup U: f[a] = x
      OBVIOUS
    <2> HIDE DEF A, R, C, U, f
    <2>6. ExistsBijection(C \cup U, A \ R)
      <3> DEFINE S == C \cup U
                 T == A \ R
      <3>1. f \in [S -> T] /\ (\A a, b \in S: f[a] = f[b] => a = b) /\ \A x \in T: \E a \in S: f[a] = x
        BY <2>3, <2>4, <2>5
      <3> HIDE DEF S, T
      <3>2. f \in Bijection(S, T)
        BY <3>1, Fun_IsBij
      <3> QED
        BY <3>2 DEF S, T, ExistsBijection
    <2>7. Cardinality(A) - Cardinality(R) - Cardinality(C) = Cardinality(U)
      BY <2>1, <2>2, <2>6, Counted
    <2> QED
      BY <2>7 DEF A, R, C
  <1>7. Cardinality({i \in DOMAIN new : new[i] = e}) - Cardinality({i \in Rn : new[i] = e})
        - Cardinality({p \in Ch : new[p[2]] = e}) = Cardinality(U)
    <2> DEFINE A == {i \in DOMAIN new : new[i] = e}
               R == {i \in Rn : new[i] = e}
               C == {p \in Ch : new[p[2]] = e}
               f == [p \in C \cup U |-> p[2]]
    <2>1. IsFiniteSet(A)
      BY <1>5, Subsets
    <2>2. R \in SUBSET A /\ C \cap U = {}
      OBVIOUS
    <2>3. f \in [C \cup U -> A \ R]
      BY <1>2, <1>3
    <2>4. \A a, b \in C \cup U: f[a] = f[b] => a = b
      BY <1>4
    <2>5. \A x \in A \ R: \E a \in C \cup U: f[a] = x
      BY <1>3
    <2> HIDE DEF A, R, C, U, f
    <2>6. ExistsBijection(C \cup U, A \ R)
      <3> DEFINE S == C \cup U
                 T == A \ R
      <3>1. f \in [S -> T] /\ (\A a, b \in S: f[a] = f[b] => a = b) /\ \A x \in T: \E a \in S: f[a] = x
        BY <2>3, <2>4, <2>5
      <3> HIDE DEF S, T
      <3>2. f \in Bijection(S, T)
        BY <3>1, Fun_IsBij
      <3> QED
        BY <3>2 DEF S, T, ExistsBijection
    <2>7. Cardinality(A) - Cardinality(R) - Cardinality(C) = Cardinality(U)
      BY <2>1, <2>2, <2>6, Counted
    <2> QED
      BY <2>7 DEF A, R, C
  <1> HIDE DEF Ch, Ro, Rn, U
  <1> QED
    BY <1>1, <1>6, <1>7 DEF Left, Unmoved

\* So does what compute_diff returns.
LEMMA DiffsExplained ==
  ASSUME NEW old \in Doms, NEW new \in Doms
  PROVE  Explains(ComputeDiff(old, new), old, new)
  <1> DEFINE d == ComputeDiff(old, new)
  <1>1. \A p \in d.changed : Same(old[p[1]], new[p[2]])
    BY DEF ComputeDiff, Pairs
  <1>2. \A i \in d.removed, j \in d.added : ~Same(old[i], new[j])
    <2> SUFFICES ASSUME NEW i \in d.removed, NEW j \in d.added, Same(old[i], new[j]) PROVE FALSE
      OBVIOUS
    <2>1. /\ i \in DOMAIN old /\ j \in DOMAIN new
          /\ \A p \in Pairs(old, new): p[1] # i /\ p[2] # j
      BY DEF ComputeDiff
    <2> QED
      BY <2>1, Paired
  <1>3. \A e: Left(d, old, e) = Unmoved(d, new, e)
    BY Balanced
  <1> HIDE DEF d
  <1>4. Explains(d, old, new)
    BY <1>1, <1>2, <1>3 DEF Explains
  <1> QED
    BY <1>4 DEF d

LEMMA Replaced ==
  ASSUME call \in [Clients -> Calls], NEW c \in Clients, NEW n, Becomes(c, n)
  PROVE  call'[c] = n /\ \A d \in Clients \ {c}: call'[d] = call[d]
  BY DEF Becomes

\* The calls go on as they were, or are over.
LEMMA ComparisonKept ==
  ASSUME NEW r \in Calls, Comparison(r), NEW k \in {"ok", "record", "answer"}, NEW b
  PROVE  Comparison(Verdict(r, k, b)) /\ Comparison(Placed(r, k))
  BY DEF Calls, Comparison, Verdict, Placed

LEMMA ComparisonReferred ==
  ASSUME NEW r \in Calls, Comparison(r), r.pc = "read", NEW s,
         s # None /\ r.req.ref = None => s.window = Label(r.req.window)
  PROVE  Comparison(Referred(r, "eval", s))
  BY DEF Calls, Comparison, Referred

LEMMA ComparisonReturned ==
  ASSUME NEW r \in Calls, Comparison(r), r.pc = "eval", NEW w, NEW s
  PROVE  Comparison(Returned(r, "ran", w, s))
  BY DEF Calls, Comparison, Returned

LEMMA ComparisonMade ==
  ASSUME NEW r \in Calls, Comparison(r), NEW d,
         d = IF r.old = None THEN None ELSE ComputeDiff(r.old.dom, r.new.dom),
         r.old # None => r.new # None /\ r.new.window = Label(r.req.window)
  PROVE  Comparison(Diffed(r, "ok", d))
  <1>1. PICK n: n = Diffed(r, "ok", d)
    OBVIOUS
  <1>2. n.pc = "ok" /\ n.old = r.old /\ n.new = r.new /\ n.req = r.req /\ n.diff = d
    BY <1>1 DEF Calls, Diffed
  <1> QED
    BY <1>1, <1>2 DEF Comparison

LEMMA ComparisonOpened ==
  ASSUME NEW q, NEW i, NEW b, NEW d, NEW e
  PROVE  Comparison(Opened(q, i, b, d, e)) /\ Comparison(Idle)
  BY DEF Comparison, Opened, Idle

LEMMA ComparedHandling ==
  ASSUME TypeOK, IdInv, DiffInv, BaselineInv, ComparedInv, NEW c \in Clients, Handled(c)
  PROVE  Comparison(call'[c]) /\ \A d \in Clients \ {c}: call'[d] = call[d]
  <1>0. call \in [Clients -> Calls] /\ call[c] \in Calls /\ Comparison(call[c])
    BY DEF TypeOK, ComparedInv
  <1>1. ASSUME Fail(c) \/ Succeed(c)
        PROVE  Comparison(call'[c]) /\ \A d \in Clients \ {c}: call'[d] = call[d]
    <2>1. Becomes(c, Verdict(call[c], "answer", FALSE)) \/ Becomes(c, Placed(call[c], "ok"))
      BY <1>1 DEF Fail, Succeed, Verdict, Placed
    <2> QED
      BY <1>0, <2>1, Replaced, ComparisonKept
  <1>2. CASE Refuse(c) \/ Answer(c) \/ StartRecording(c) \/ StopRecording(c) \/ AddEntry(c) \/ RunFails(c)
    BY <1>1, <1>2 DEF Refuse, Answer, StartRecording, StopRecording, AddEntry, RunFails
  <1>3. CASE Submit(c)
    <2>1. call[c].pc = "read" /\ call[c].req \in Requests
      BY <1>3 DEF Submit, Taken, IdInv
    <2>2. PICK s: s = IF call[c].req.method = "diff" THEN Reference(c) ELSE None
      OBVIOUS
    <2>3. s # None /\ call[c].req.ref = None => s.window = Win(c)
      <3>1. Win(c) \in Windows
        BY <2>1, WinType
      <3> QED
        BY <2>2, <3>1 DEF Reference, BaselineInv
    <2>4. CASE Fail(c)
      BY <1>1, <2>4
    <2>5. CASE ~Fail(c)
      <3>1. Becomes(c, Referred(call[c], "eval", s))
        BY <1>3, <2>2, <2>5 DEF Submit, Referred
      <3>2. Comparison(Referred(call[c], "eval", s))
        BY <1>0, <2>1, <2>3, ComparisonReferred DEF Win
      <3> QED
        BY <1>0, <3>1, <3>2, Replaced
    <2> QED
      BY <2>4, <2>5
  <1>4. CASE Run(c)
    <2>1. PICK s: s = IF call[c].req.method \in {"snapshot", "diff"}
                      THEN [dom |-> page[Win(c)].dom, window |-> Win(c), doc |-> page[Win(c)].doc]
                      ELSE None
      OBVIOUS
    <2>2. call[c].pc = "eval" /\ Becomes(c, Returned(call[c], "ran", Win(c), s))
      BY <1>4, <2>1 DEF Run, Returned
    <2> QED
      BY <1>0, <2>2, Replaced, ComparisonReturned
  <1>5. CASE Finish(c)
    <2>1. PICK d: d = IF call[c].old = None THEN None ELSE ComputeDiff(call[c].old.dom, call[c].new.dom)
      OBVIOUS
    <2>2. call[c].pc = "ran" /\ Becomes(c, Diffed(call[c], "ok", d))
      BY <1>5, <2>1 DEF Finish, Diffed
    <2>3. call[c].old # None => call[c].new # None /\ call[c].new.window = Label(call[c].req.window)
      BY <2>2 DEF DiffInv, BaselineInv, Win
    <2>4. Comparison(Diffed(call[c], "ok", d))
      BY <1>0, <2>1, <2>3, ComparisonMade
    <2> QED
      BY <1>0, <2>2, <2>4, Replaced
  <1>6. CASE Look(c)
    <2>1. PICK k: k = IF active THEN "record" ELSE "answer"
      OBVIOUS
    <2>2. k \in {"ok", "record", "answer"} /\ Becomes(c, Verdict(call[c], k, TRUE))
      BY <1>6, <2>1 DEF Look, Verdict
    <2> QED
      BY <1>0, <2>2, Replaced, ComparisonKept
  <1>7. CASE Record(c)
    <2>1. Becomes(c, Placed(call[c], "answer"))
      BY <1>7 DEF Record, Placed
    <2> QED
      BY <1>0, <2>1, Replaced, ComparisonKept
  <1> QED
    BY <1>2, <1>3, <1>4, <1>5, <1>6, <1>7 DEF Handled

LEMMA ComparedStep ==
  ASSUME TypeOK, IdInv, DiffInv, BaselineInv, ComparedInv, [Next]_vars
  PROVE  ComparedInv'
  <1>0. call \in [Clients -> Calls]
    BY Zenon DEF TypeOK
  <1>9. ASSUME \A d \in Clients: call'[d] = call[d] \/ Comparison(call'[d])
        PROVE  ComparedInv'
    <2>1. \A d \in Clients: Comparison(call'[d])
      BY <1>9 DEF ComparedInv
    <2> QED
      BY <2>1, ZenonT(60) DEF ComparedInv, Comparison, ComputeDiff, Pairs, Rank, Differences, Same, Label
  <1>1. ASSUME NEW c \in Clients, Handled(c)
        PROVE  ComparedInv'
    BY <1>1, <1>9, ComparedHandling
  <1>2. ASSUME NEW c \in Clients, Ask(c) \/ Repeat(c)
        PROVE  ComparedInv'
    <2>1. ASSUME NEW q, NEW e, Read(c, q, e)
          PROVE  Comparison(call'[c]) /\ \A d \in Clients \ {c}: call'[d] = call[d]
      <3>1. PICK b: b = IF active THEN during ELSE 0
        OBVIOUS
      <3>2. Becomes(c, Opened(q, lines + 1, replied, b, e))
        BY <2>1, <3>1 DEF Read, Opened
      <3> QED
        BY <1>0, <3>2, Replaced, ComparisonOpened
    <2>2. \E q, e: Read(c, q, e)
      BY <1>2 DEF Ask, Repeat
    <2> QED
      BY <1>9, <2>1, <2>2
  <1>3. ASSUME NEW c \in Clients, Reply(c) \/ ReplyFails(c)
        PROVE  ComparedInv'
    <2>1. call'[c] = Idle /\ \A d \in Clients \ {c}: call'[d] = call[d]
      BY <1>3, Answering DEF Alone
    <2> QED
      BY <1>9, <2>1, ComparisonOpened
  <1>4. ASSUME NEW w \in Windows, Load(w)
        PROVE  ComparedInv'
    <2>1. \A d \in Clients: call'[d] = call[d] \/ call'[d] = Verdict(call[d], "answer", FALSE)
      BY <1>4, Zenon DEF Load, Verdict
    <2>2. \A d \in Clients: Comparison(Verdict(call[d], "answer", FALSE))
      BY <1>0, ComparisonKept DEF ComparedInv
    <2> QED
      BY <1>9, <2>1, <2>2
  <1>5. CASE UNCHANGED call
    BY <1>5, <1>9
  <1>6. ASSUME NEW c \in Clients, BeginReplay(c) \/ Skip(c)
        PROVE  UNCHANGED call
    BY <1>6 DEF BeginReplay, Skip
  <1> QED
    BY <1>1, <1>2, <1>3, <1>4, <1>5, <1>6, Kinds DEF vars

-----------------------------------------------------------------------------
(* Replays.                                                                *)

\* A call n of c, of an entry or not, runs in the window the entry or c's
\* override names.
InItsWindow(c, n) == /\ n.ran = None \/ n.ran = Label(n.req.window)
                     /\ n.entry # None => Scoped(n.entry) /\ n.req.window = Scope(c, n.entry)

LEMMA ReplayStep ==
  ASSUME TypeOK, IdInv, DiffInv, ReplayInv, [Next]_vars
  PROVE  ReplayInv'
  <1>0. /\ \A i \in DOMAIN entries: Scoped(entries[i])
        /\ \A i \in DOMAIN file: Scoped(file[i])
        /\ \A c \in Clients: \A i \in DOMAIN script[c]: Scoped(script[c][i])
        /\ \A c \in Clients: InItsWindow(c, call[c])
        /\ entries \in Seq(Entries) /\ script \in [Clients -> Seq(Entries)]
    BY DEF ReplayInv, InItsWindow, Win, TypeOK
  <1>9. ASSUME /\ \A i \in DOMAIN entries': Scoped(entries'[i])
               /\ \A i \in DOMAIN file': Scoped(file'[i])
               /\ \A c \in Clients: \A i \in DOMAIN script'[c]: Scoped(script'[c][i])
               /\ \A c \in Clients: InItsWindow(c, call'[c])
        PROVE  ReplayInv'
    BY <1>9 DEF ReplayInv, InItsWindow, Win, Scoped
  <1>1. ASSUME NEW c \in Clients, Handled(c)
        PROVE  ReplayInv'
    <2>1. /\ \A d \in Clients \ {c}: call'[d] = call[d]
          /\ SameRequest(call'[c], call[c]) /\ UNCHANGED script
          /\ call'[c].ran = call[c].ran \/ call'[c].ran = Win(c)
      BY <1>1, Handling DEF Alone
    <2>2. \A d \in Clients: InItsWindow(d, call'[d])
      BY <1>0, <2>1 DEF InItsWindow, SameRequest, Win
    <2>3. /\ \A i \in DOMAIN entries': Scoped(entries'[i])
          /\ \A i \in DOMAIN file': Scoped(file'[i])
      <3>1. CASE Started
        BY <1>0, <3>1 DEF Started
      <3>2. CASE Stopped
        BY <1>0, <3>2 DEF Stopped
      <3>3. ASSUME NEW e \in Entries, Noted(e), Scoped(e)
            PROVE  /\ \A i \in DOMAIN entries': Scoped(entries'[i])
                   /\ \A i \in DOMAIN file': Scoped(file'[i])
        <4>1. /\ DOMAIN entries' = 1 .. (Len(entries) + 1) /\ entries'[Len(entries) + 1] = e
              /\ \A i \in DOMAIN entries: entries'[i] = entries[i]
              /\ DOMAIN entries = 1 .. Len(entries) /\ Len(entries) \in Nat
          BY <1>0, <3>3, Appended DEF Noted
        <4>2. \A i \in DOMAIN entries': i \in DOMAIN entries \/ i = Len(entries) + 1
          BY <4>1
        <4> QED
          BY <1>0, <3>3, <4>1, <4>2 DEF Noted
      <3>4. CASE UNCHANGED <<active, entries, during, due, file>>
        BY <1>0, <3>4
      <3>5. Added \in Entries /\ Scoped(Added)
        BY HostAssumption DEF Scoped
      <3>6. Scoped(Entry(c))
        <4>1. call[c].ran = None \/ call[c].ran = Label(call[c].req.window)
          BY <1>0 DEF InItsWindow
        <4> QED
          BY <4>1 DEF Scoped, Entry
      <3> QED
        BY <1>1, <3>1, <3>2, <3>3, <3>4, <3>5, <3>6, RecorderSteps
    <2> QED
      BY <1>0, <1>9, <2>1, <2>2, <2>3
  <1>2. ASSUME NEW c \in Clients, script[c] # <<>>, script' = [script EXCEPT ![c] = Tail(script[c])]
        PROVE  \A d \in Clients: \A i \in DOMAIN script'[d]: Scoped(script'[d][i])
    <2>1. PICK s \in Seq(Entries): s = script[c]
      BY <1>0
    <2>2. \A i \in DOMAIN Tail(s): i + 1 \in DOMAIN s /\ Tail(s)[i] = s[i + 1]
      BY <1>2, <2>1
    <2>3. \A i \in DOMAIN Tail(s): Scoped(Tail(s)[i])
      BY <1>0, <2>1, <2>2
    <2> QED
      BY <1>0, <1>2, <2>1, <2>3
  <1>3. ASSUME NEW c \in Clients, Ask(c) \/ Repeat(c)
        PROVE  ReplayInv'
    <2>1. /\ \A d \in Clients \ {c}: call'[d] = call[d]
          /\ call'[c].ran = None
          /\ call'[c].entry # None => /\ script[c] # <<>> /\ call'[c].entry = Head(script[c])
                                      /\ call'[c].req.window = Scope(c, call'[c].entry)
          /\ UNCHANGED <<recorder, file>>
      BY <1>3, Reading DEF Alone
    <2>2. UNCHANGED entries
      BY <2>1 DEF recorder
    <2>3. script[c] # <<>> => Scoped(Head(script[c]))
      <3>1. script[c] # <<>> => 1 \in DOMAIN script[c] /\ Head(script[c]) = script[c][1]
        BY <1>0
      <3> QED
        BY <1>0, <3>1
    <2>4. \A d \in Clients: InItsWindow(d, call'[d])
      BY <1>0, <2>1, <2>3 DEF InItsWindow
    <2>5. \A d \in Clients: \A i \in DOMAIN script'[d]: Scoped(script'[d][i])
      <3>1. Ask(c) => script' = script
        BY DEF Ask
      <3> QED
        BY <1>0, <1>2, <1>3, <3>1, Scripts
    <2> QED
      BY <1>0, <1>9, <2>1, <2>2, <2>4, <2>5
  <1>4. ASSUME NEW c \in Clients, Reply(c) \/ ReplyFails(c)
        PROVE  ReplayInv'
    <2>1. /\ \A d \in Clients \ {c}: call'[d] = call[d]
          /\ call'[c] = Idle /\ UNCHANGED <<recorder, file, script>>
      BY <1>4, Answering DEF Alone
    <2>2. UNCHANGED entries
      BY <2>1 DEF recorder
    <2>3. InItsWindow(c, Idle)
      BY IdleCall DEF InItsWindow
    <2> QED
      BY <1>0, <1>9, <2>1, <2>2, <2>3
  <1>5. ASSUME NEW c \in Clients, BeginReplay(c) \/ Skip(c)
        PROVE  ReplayInv'
    <2>1. UNCHANGED <<call, recorder>>
      BY <1>5 DEF BeginReplay, Skip
    <2>2. UNCHANGED entries
      BY <2>1 DEF recorder
    <2>3. CASE BeginReplay(c)
      <3>1. script' = [script EXCEPT ![c] = file] /\ file' = <<>>
        BY <2>3 DEF BeginReplay
      <3> QED
        BY <1>0, <1>9, <2>1, <2>2, <3>1
    <2>4. CASE Skip(c)
      <3>1. UNCHANGED file
        BY <2>4 DEF Skip
      <3>2. \A d \in Clients: \A i \in DOMAIN script'[d]: Scoped(script'[d][i])
        BY <1>2, <2>4, Scripts
      <3> QED
        BY <1>0, <1>9, <2>1, <2>2, <3>1, <3>2
    <2> QED
      BY <1>5, <2>3, <2>4
  <1>6. ASSUME NEW w \in Windows, Load(w)
        PROVE  ReplayInv'
    <2>1. /\ \A d \in Clients: \/ call'[d] = call[d]
                               \/ SameRequest(call'[d], call[d]) /\ call'[d].ran = call[d].ran
          /\ UNCHANGED <<recorder, file, script>>
      BY <1>6, Loading
    <2>2. UNCHANGED entries
      BY <2>1 DEF recorder
    <2>3. \A d \in Clients: InItsWindow(d, call'[d])
      BY <1>0, <2>1 DEF InItsWindow, SameRequest
    <2> QED
      BY <1>0, <1>9, <2>1, <2>2, <2>3
  <1>7. CASE UNCHANGED vars
    <2>1. UNCHANGED <<call, entries, file, script>>
      BY <1>7 DEF vars, recorder
    <2> QED
      BY <1>0, <1>9, <2>1
  <1> QED
    BY <1>1, <1>3, <1>4, <1>5, <1>6, <1>7, Kinds

-----------------------------------------------------------------------------
(* The theorems.                                                           *)

LEMMA InvInit == Init => IInv
  <1> SUFFICES ASSUME Init PROVE IInv
    OBVIOUS
  <1>0. /\ call = [c \in Clients |-> Idle] /\ baseline = [w \in Windows |-> None]
        /\ active = FALSE /\ entries = <<>> /\ during = 0
        /\ file = <<>> /\ script = [c \in Clients |-> <<>>]
        /\ todo \in Stories /\ lines = 0 /\ replied = {} /\ due = {}
    BY DEF Init
  <1>1. \A c \in Clients: call[c] = Idle
    BY <1>0
  <1>2. <<>> \in Seq(Entries)
    OBVIOUS
  <1>3. page \in [Windows -> Pages]
    <2>1. PICK d \in Doms: page = [w \in Windows |-> [doc |-> 0, dom |-> d, quiet |-> TRUE]]
      BY DEF Init
    <2>2. [doc |-> 0, dom |-> d, quiet |-> TRUE] \in Pages
      BY HostAssumption DEF Pages
    <2> QED
      BY <2>1, <2>2
  <1>4. TypeOK
    <2>1. call \in [Clients -> Calls]
      BY <1>0, IdleCall
    <2>2. todo \in Seq(Requests)
      BY <1>0, HostAssumption
    <2>3. lines \in 0 .. MaxLines
      BY <1>0, HostAssumption
    <2> QED
      BY <1>0, <1>2, <1>3, <2>1, <2>2, <2>3 DEF TypeOK
  <1>5. IdInv /\ DiffInv
    BY <1>0, <1>1, IdleCall DEF IdInv, DiffInv
  <1>6. RecordInv /\ RecordingIsComplete
    <2>1. Accounted(Idle, Ids, active, during)
      BY <1>0, IdleCall DEF Accounted, Unrecorded
    <2> QED
      BY <1>0, <1>1, <2>1 DEF RecordInv, RecordingIsComplete
  <1>7. BaselineInv /\ BaselineOfThisDocument
    BY <1>0, <1>1, IdleCall DEF BaselineInv, BaselineOfThisDocument
  <1>8. ReplayInv
    BY <1>0, <1>1, IdleCall DEF ReplayInv
  <1>9. ComparedInv
    BY <1>1, ComparisonOpened DEF ComparedInv
  <1> QED
    BY <1>4, <1>5, <1>6, <1>7, <1>8, <1>9 DEF IInv

LEMMA InvStep == IInv /\ [Next]_vars => IInv'
  <1> SUFFICES ASSUME IInv, [Next]_vars PROVE IInv'
    OBVIOUS
  <1> USE DEF IInv
  <1>1. TypeOK' /\ IdInv' /\ DiffInv'
    BY TypeStep, IdStep, DiffStep
  <1>2. RecordInv' /\ RecordingIsComplete'
    BY RecordStep
  <1>3. BaselineInv' /\ BaselineOfThisDocument'
    BY BaselineStep
  <1>4. ReplayInv'
    BY ReplayStep
  <1>5. ComparedInv'
    BY ComparedStep
  <1> QED
    BY <1>1, <1>2, <1>3, <1>4, <1>5

\* Whatever the connections ask for, and in whichever order their requests
\* are read, recorded and answered, the invariant holds (handle_connection,
\* handler::dispatch, recorder.rs, forget_window and store_snapshot).
THEOREM HostCorrect == Spec => []IInv
  BY InvInit, InvStep, PTL DEF Spec

\* The connections, the pages and what they share have their types.
THEOREM TypeCorrect == Spec => []TypeOK
  <1>1. IInv => TypeOK
    BY DEF IInv
  <1> QED
    BY <1>1, HostCorrect, PTL

\* A recording holds each action asked for and answered while it ran, once,
\* and after those that were answered before it was asked for, although
\* is_active and record take the lock separately (Recorder::record).
THEOREM RecordingComplete == Spec => []RecordingIsComplete
  <1>1. IInv => RecordingIsComplete
    BY DEF IInv
  <1> QED
    BY <1>1, HostCorrect, PTL

\* The baseline of a window is of the document it shows unless a snapshot was
\* under way when that document began to load (on_page_load, store_snapshot).
THEOREM BaselineFresh == Spec => []BaselineOfThisDocument
  <1>1. IInv => BaselineOfThisDocument
    BY DEF IInv
  <1> QED
    BY <1>1, HostCorrect, PTL

\* A replayed action runs in the window the recorded one ran in, through the
\* file the recording was saved to, or in the one given for the replay
\* (Recorder::record, run_replay_command).
THEOREM ReplayInWindow == Spec => []ReplayHitsItsWindow
  <1>1. IInv => ReplayHitsItsWindow
    <2> SUFFICES ASSUME IInv, NEW c \in Clients, call[c].entry # None, call[c].ran # None
                 PROVE  \/ /\ Override[c] = None
                           /\ call[c].entry.hit = None \/ call[c].ran = call[c].entry.hit
                        \/ Override[c] # None /\ call[c].ran = Override[c]
      BY DEF ReplayHitsItsWindow
    <2>1. /\ call[c].ran = Label(Scope(c, call[c].entry))
          /\ call[c].entry.hit = None \/ call[c].entry.hit = Label(call[c].entry.window)
      BY DEF IInv, ReplayInv, Scoped, Win
    <2> QED
      BY <2>1 DEF Scope, Label
  <1> QED
    BY <1>1, HostCorrect, PTL

\* What diff answers explains what became of the page: of every kind of element
\* there are as many as there were, less the removed and the old sides of the
\* changed ones, with the added and the new sides; and nothing is removed and
\* added at once (compute_diff, handle_diff).
THEOREM DiffsExplain == Spec => []DiffExplains
  <1>1. IInv => DiffExplains
    <2> SUFFICES ASSUME IInv, NEW c \in Clients, call[c].diff # None
                 PROVE  /\ Explains(call[c].diff, call[c].old.dom, call[c].new.dom)
                        /\ call[c].new.window = Win(c)
                        /\ call[c].req.ref = None => call[c].old.window = Win(c)
      BY DEF DiffExplains
    <2>1. /\ call[c].old # None /\ call[c].new # None
          /\ call[c].diff = ComputeDiff(call[c].old.dom, call[c].new.dom)
          /\ call[c].new.window = Win(c)
          /\ call[c].req.ref = None => call[c].old.window = Win(c)
      BY DEF IInv, ComparedInv, Comparison, Win
    <2>2. call[c].old.dom \in Doms /\ call[c].new.dom \in Doms
      <3>1. call[c] \in Calls
        BY DEF IInv, TypeOK
      <3>2. call[c].old \in Snapshots /\ call[c].new \in Snapshots
        BY <2>1, <3>1 DEF Calls
      <3> QED
        BY <3>2 DEF Snapshots
    <2>3. Explains(call[c].diff, call[c].old.dom, call[c].new.dom)
      BY <2>1, <2>2, DiffsExplained
    <2> QED
      BY <2>1, <2>3
  <1> QED
    BY <1>1, HostCorrect, PTL
=============================================================================
