-------------------------------- MODULE Host --------------------------------
(***************************************************************************)
(* The plugin between its connections and its pages (server/mod.rs,        *)
(* handler.rs, recorder.rs, diff.rs, the baselines of eval.rs): each       *)
(* connection answers one line at a time, the connections run side by      *)
(* side, and share the recorder, the baselines and the pages. One client   *)
(* may replay the last recording that was saved (run_replay_command).      *)
(*                                                                         *)
(* A page shows a sequence of elements. What an action does to it is up to *)
(* the application; how an eval reaches it is in EvalEngine.               *)
(***************************************************************************)
EXTENDS Methods, Naturals, Sequences, FiniteSets

CONSTANTS Clients,  \* connections
          Windows,
          Main,     \* the window a request without a label is for
          Doms,     \* what a page may show: sequences of elements
          Override, \* the --window a client gives its replays, if any
          Stories,  \* sequences of requests that clients make: a bound
          Added,    \* the entry record.add brings
          MaxLines, \* requests, the replayed ones included: a bound
          MaxLoads, \* page loads: a bound
          None

\* "other" is any method that is not known.
Requests  == [method : Known \cup {"other"}, window : Windows \cup {None}, ref : Doms \cup {None},
              params : {"named", "list", "unlabelled", "untimed"}]
Snapshots == [dom : Doms, window : Windows \cup {None}, doc : 0 .. MaxLoads]
Entries   == [action : Known, window : Windows \cup {None}, id : 0 .. MaxLines,
              before : SUBSET (1 .. MaxLines), hit : Windows \cup {None}]

\* An entry of record.add is of no request that was answered.
ASSUME HostAssumption ==
  /\ Main \in Windows /\ None \notin Windows \cup Doms \cup Requests \cup Snapshots \cup Entries
  /\ Override \in [Clients -> Windows \cup {None}]
  /\ \A d \in Doms : Len(d) \in Nat /\ DOMAIN d = 1 .. Len(d)
  /\ Stories \subseteq Seq(Requests)
  /\ Added \in Entries /\ Added.id = 0 /\ Added.before = {} /\ Added.hit = None
  /\ MaxLines \in Nat /\ MaxLoads \in Nat

VARIABLES call,     \* the request each connection works on
          page,     \* window -> its document and what it shows
          baseline, \* window -> the last snapshot stored
          active,   \* is the recorder?
          entries,  \* what it has recorded
          file,     \* the recording saved last
          script,   \* entries a client has still to replay
          todo,     \* the requests still to come, to whichever connection
          lines,    \* requests read so far
          during,   \* how many recordings were started
          replied,  \* requests whose answer has been written
          due       \* requests the present recording has to hold

recorder == <<active, entries, during>>
vars     == <<call, page, baseline, recorder, file, script, todo, lines, replied, due>>

Fields == {"value", "checked", "disabled"}

Idle == [pc |-> "idle", req |-> None, id |-> 0, before |-> {}, in |-> 0, entry |-> None,
         ok |-> FALSE, ran |-> None, old |-> None, new |-> None, diff |-> None]

Becomes(c, next) == call' = [call EXCEPT ![c] = next]

Label(w) == IF w = None THEN Main ELSE w
Win(c)   == Label(call[c].req.window)

-----------------------------------------------------------------------------
(* compute_diff. Elements are the same when role, name and depth are       *)
(* ("key"); several of one key are paired in the order they appear in.     *)

Same(a, b) == a.key = b.key

Rank(els, i) == Cardinality({j \in 1 .. i : Same(els[j], els[i])})

\* Mutant: pairs by position in the whole snapshot.
PairsByIndex(old, new) ==
  {p \in (DOMAIN old) \X (DOMAIN new) : p[1] = p[2] /\ Same(old[p[1]], new[p[2]])}
Pairs(old, new) ==
  {p \in (DOMAIN old) \X (DOMAIN new) : /\ Same(old[p[1]], new[p[2]])
                                    /\ Rank(old, p[1]) = Rank(new, p[2])}

Differences(a, b) == {f \in Fields : a[f] # b[f]}

\* An element is what makes it the same and what may change about it. (Refs,
\* which are new in each snapshot, are left out.)
ASSUME ElementAssumption ==
  \A d, e \in Doms : \A i \in DOMAIN d, j \in DOMAIN e :
    Same(d[i], e[j]) /\ Differences(d[i], e[j]) = {} => d[i] = e[j]

ComputeDiff(old, new) ==
  LET pairs == Pairs(old, new) IN
  [removed |-> (DOMAIN old) \ {p[1] : p \in pairs},
   added   |-> (DOMAIN new) \ {p[2] : p \in pairs},
   changed |-> {p \in pairs : Differences(old[p[1]], new[p[2]]) # {}}]

-----------------------------------------------------------------------------
Init ==
  /\ call = [c \in Clients |-> Idle]
  /\ \E d \in Doms : page = [w \in Windows |-> [doc |-> 0, dom |-> d, quiet |-> TRUE]]
  /\ baseline = [w \in Windows |-> None]
  /\ active = FALSE /\ entries = <<>> /\ during = 0
  /\ file = <<>> /\ script = [c \in Clients |-> <<>>]
  /\ todo \in Stories /\ lines = 0 /\ replied = {} /\ due = {}

\* A line with a request (handle_connection). A line that is none is answered
\* with an error, and an oversized one ends the connection: nothing else
\* changes, and the next connection starts anew.
Read(c, req, entry) ==
  /\ call[c].pc = "idle"
  /\ lines < MaxLines
  /\ lines' = lines + 1
  /\ Becomes(c, [Idle EXCEPT !.pc = "read", !.req = req, !.id = lines + 1, !.before = replied,
                             !.in = IF active THEN during ELSE 0, !.entry = entry])

Ask(c) ==
  /\ script[c] = <<>>
  /\ todo # <<>>
  /\ Read(c, Head(todo), None)
  /\ todo' = Tail(todo)
  /\ UNCHANGED <<page, baseline, recorder, file, script, replied, due>>

Fail(c)    == Becomes(c, [call[c] EXCEPT !.pc = "answer", !.ok = FALSE])
Succeed(c) == Becomes(c, [call[c] EXCEPT !.pc = "ok"])

BadParams(req) ==
  \/ req.params \in {"list", "unlabelled"}
  \/ req.params = "untimed" /\ req.method \in {"wait", "watch"}

Refuse(c) ==
  /\ call[c].pc = "read"
  /\ BadParams(call[c].req) \/ call[c].req.method \notin Known
  /\ Fail(c)
  /\ UNCHANGED <<page, baseline, recorder, file, script, todo, lines, replied, due>>

Taken(c, methods) == call[c].pc = "read" /\ ~BadParams(call[c].req)
                                         /\ call[c].req.method \in methods

\* What is answered without the page. The parts it is left to may fail.
Answer(c) ==
  /\ Taken(c, {"ping", "windows.list", "record.status"} \cup Elsewhere)
  /\ \/ Succeed(c)
     \/ call[c].req.method \notin {"ping", "record.status"} /\ Fail(c)
  /\ UNCHANGED <<page, baseline, recorder, file, script, todo, lines, replied, due>>

StartRecording(c) ==
  /\ Taken(c, {"record.start"})
  /\ active' = TRUE /\ entries' = <<>> /\ during' = during + 1
  /\ due' = {}
  /\ Succeed(c)
  /\ UNCHANGED <<page, baseline, file, script, todo, lines, replied>>

\* run_record_command writes what it gets to a file.
StopRecording(c) ==
  /\ Taken(c, {"record.stop"})
  /\ IF active
     THEN /\ active' = FALSE /\ entries' = <<>>
          /\ file' = entries
          /\ Succeed(c)
     ELSE Fail(c) /\ UNCHANGED <<active, entries, file>>
  /\ UNCHANGED <<page, baseline, during, script, todo, lines, replied, due>>

AddEntry(c) ==
  /\ Taken(c, {"record.add"})
  /\ entries' = IF active THEN Append(entries, Added) ELSE entries
  /\ Succeed(c)
  /\ UNCHANGED <<page, baseline, active, during, file, script, todo, lines, replied, due>>

\* handle_diff takes the reference of the request, or the stored baseline.
Reference(c) ==
  IF call[c].req.ref # None THEN [dom |-> call[c].req.ref, window |-> None, doc |-> 0]
                            ELSE baseline[Win(c)]

Submit(c) ==
  /\ Taken(c, Evaluated \cup {"diff"})
  /\ IF call[c].req.method = "diff" /\ Reference(c) = None
     THEN Fail(c)
     ELSE Becomes(c, [call[c] EXCEPT !.pc = "eval",
                                     !.old = IF call[c].req.method = "diff" THEN Reference(c) ELSE None])
  /\ UNCHANGED <<page, baseline, recorder, file, script, todo, lines, replied, due>>

\* The page runs the script. Its result is on its way from then on. (A wait may
\* be one for an expression.)
Run(c) ==
  LET w == Win(c) IN
  /\ call[c].pc = "eval"
  /\ IF "app" \in Changes(call[c].req.method, {"expression"})
     THEN \E d \in Doms : page' = [page EXCEPT ![w].dom = d]
     ELSE page' = page
  /\ Becomes(c, [call[c] EXCEPT !.pc = "ran", !.ran = w,
                                !.new = IF call[c].req.method \in {"snapshot", "diff"}
                                        THEN [dom |-> page[w].dom, window |-> w, doc |-> page[w].doc]
                                        ELSE None])
  /\ UNCHANGED <<baseline, recorder, file, script, todo, lines, replied, due>>

\* It fails, or its result is not heard of in time, or is none to compare with.
\* (A script that runs after that: EvalEngine.)
RunFails(c) ==
  /\ call[c].pc \in {"eval", "ran"}
  /\ Fail(c)
  /\ UNCHANGED <<page, baseline, recorder, file, script, todo, lines, replied, due>>

\* Mutant: stored under the label as the request gives it.
StoreAsGiven(c) ==
  baseline' = IF call[c].new = None THEN baseline
              ELSE (call[c].req.window :> call[c].new) @@ baseline
Store(c) ==
  baseline' = IF call[c].new = None THEN baseline
              ELSE [baseline EXCEPT ![Win(c)] = call[c].new]

\* The result is there: a snapshot becomes the window's baseline.
Finish(c) ==
  /\ call[c].pc = "ran"
  /\ Store(c)
  /\ Becomes(c, [call[c] EXCEPT !.pc = "ok",
                                !.diff = IF call[c].old = None THEN None
                                         ELSE ComputeDiff(call[c].old.dom, call[c].new.dom)])
  /\ UNCHANGED <<page, recorder, file, script, todo, lines, replied, due>>

\* The end of dispatch: is_active, then record, under the lock twice.
Look(c) ==
  /\ call[c].pc = "ok"
  /\ Becomes(c, [call[c] EXCEPT !.pc = IF active THEN "record" ELSE "answer", !.ok = TRUE])
  /\ UNCHANGED <<page, baseline, recorder, file, script, todo, lines, replied, due>>

\* Mutant: the parameters are the ones the bridge gets, without the window.
EntryOfEval(c) == [action |-> call[c].req.method, window |-> None,
                   id |-> call[c].id, before |-> call[c].before, hit |-> call[c].ran]
Entry(c) == [action |-> call[c].req.method, window |-> call[c].req.window,
             id |-> call[c].id, before |-> call[c].before, hit |-> call[c].ran]

\* Mutant: what the client can replay is kept.
KeptIfReplayable(c) == active /\ call[c].req.method \in Replayable
Kept(c) == active /\ call[c].req.method \in Recordable

Record(c) ==
  /\ call[c].pc = "record"
  /\ entries' = IF Kept(c) THEN Append(entries, Entry(c)) ELSE entries
  /\ Becomes(c, [call[c] EXCEPT !.pc = "answer"])
  /\ UNCHANGED <<page, baseline, active, during, file, script, todo, lines, replied, due>>

\* The answer is written, unless the client has gone.
Reply(c) ==
  /\ call[c].pc = "answer"
  /\ call' = [call EXCEPT ![c] = Idle]
  /\ replied' = replied \cup {call[c].id}
  /\ due' = IF /\ call[c].ok /\ call[c].req.method \in Recordable
               /\ active /\ call[c].in = during
            THEN due \cup {call[c].id} ELSE due
  /\ UNCHANGED <<page, baseline, recorder, file, script, todo, lines>>

ReplyFails(c) ==
  /\ call[c].pc = "answer"
  /\ call' = [call EXCEPT ![c] = Idle]
  /\ UNCHANGED <<page, baseline, recorder, file, script, todo, lines, replied, due>>

Step(c) == \/ Ask(c) \/ Refuse(c) \/ Answer(c)
           \/ StartRecording(c) \/ StopRecording(c) \/ AddEntry(c) \/ Submit(c)
           \/ Run(c) \/ RunFails(c) \/ Finish(c) \/ Look(c) \/ Record(c)
           \/ Reply(c) \/ ReplyFails(c)

-----------------------------------------------------------------------------
(* run_replay_command: the saved entries, one call after the other, the    *)
(* ones it does not know to be safe left out.                              *)

BeginReplay(c) ==
  /\ call[c].pc = "idle" /\ script[c] = <<>>
  /\ file # <<>>
  /\ script' = [script EXCEPT ![c] = file]
  /\ file' = <<>>
  /\ UNCHANGED <<call, page, baseline, recorder, todo, lines, replied, due>>

Skip(c) ==
  /\ call[c].pc = "idle" /\ script[c] # <<>>
  /\ Head(script[c]).action \notin Replayable
  /\ script' = [script EXCEPT ![c] = Tail(@)]
  /\ UNCHANGED <<call, page, baseline, recorder, file, todo, lines, replied, due>>

\* The window the entry has, or the one the user wants instead.
Scope(c, entry) == IF Override[c] = None THEN entry.window ELSE Override[c]

Repeat(c) ==
  LET entry == Head(script[c]) IN
  /\ script[c] # <<>>
  /\ entry.action \in Replayable
  /\ Read(c, [method |-> entry.action, window |-> Scope(c, entry), ref |-> None,
              params |-> "named"], entry)
  /\ script' = [script EXCEPT ![c] = Tail(@)]
  /\ UNCHANGED <<page, baseline, recorder, file, todo, replied, due>>

Replay(c) == BeginReplay(c) \/ Skip(c) \/ Repeat(c)

-----------------------------------------------------------------------------
(* on_page_load: the window's baseline is forgotten, and an eval of its    *)
(* that has not returned fails.                                            *)

AtWork(w) == {c \in Clients : call[c].pc \in {"eval", "ran"} /\ Win(c) = w}

\* Mutant: only what is pending is forgotten.
ForgetNothing(w) == UNCHANGED baseline
Forget(w) == baseline' = [baseline EXCEPT ![w] = None]

Load(w) ==
  /\ page[w].doc < MaxLoads
  /\ \E d \in Doms :
       page' = [page EXCEPT ![w] = [doc |-> @.doc + 1, dom |-> d, quiet |-> AtWork(w) = {}]]
  /\ Forget(w)
  /\ call' = [c \in Clients |->
                IF c \in AtWork(w) /\ call[c].pc = "eval"
                THEN [call[c] EXCEPT !.pc = "answer", !.ok = FALSE] ELSE call[c]]
  /\ UNCHANGED <<recorder, file, script, todo, lines, replied, due>>

Next == (\E c \in Clients : Step(c) \/ Replay(c)) \/ (\E w \in Windows : Load(w))

Spec == Init /\ [][Next]_vars

-----------------------------------------------------------------------------
(* Properties.                                                             *)

PCs   == {"idle", "read", "eval", "ran", "ok", "record", "answer"}
Diffs == [removed : SUBSET Nat, added : SUBSET Nat, changed : SUBSET (Nat \X Nat)]
Calls == [pc : PCs, req : Requests \cup {None}, id : 0 .. MaxLines, before : SUBSET (1 .. MaxLines),
          in : Nat, entry : Entries \cup {None}, ok : BOOLEAN, ran : Windows \cup {None},
          old : Snapshots \cup {None}, new : Snapshots \cup {None}, diff : Diffs \cup {None}]
Pages == [doc : 0 .. MaxLoads, dom : Doms, quiet : BOOLEAN]

TypeOK ==
  /\ call \in [Clients -> Calls]
  /\ page \in [Windows -> Pages]
  /\ baseline \in [Windows -> Snapshots \cup {None}]
  /\ active \in BOOLEAN /\ during \in Nat
  /\ entries \in Seq(Entries) /\ file \in Seq(Entries)
  /\ script \in [Clients -> Seq(Entries)]
  /\ todo \in Seq(Requests)
  /\ lines \in 0 .. MaxLines
  /\ replied \cup due \subseteq 1 .. MaxLines

\* A recording holds each action that was asked for and answered while it
\* ran, once, and an action asked for after another was answered comes after
\* it, whatever else the connections do (the end of handler::dispatch,
\* recorder.rs).
RecordingIsComplete ==
  LET ids == {entries[i].id : i \in DOMAIN entries} IN
  /\ active => due \subseteq ids
  /\ ~active => entries = <<>>
  /\ \A i, j \in DOMAIN entries :
       i < j => /\ entries[j].id \notin entries[i].before
                /\ entries[i].id = 0 \/ entries[i].id # entries[j].id

\* How many of an element d leaves in the old snapshot, and how many of those
\* in the new one it has not brought there.
Left(d, old, e)    == Cardinality({i \in DOMAIN old : old[i] = e})
                   - Cardinality({i \in d.removed : old[i] = e})
                   - Cardinality({p \in d.changed : old[p[1]] = e})
Unmoved(d, new, e) == Cardinality({i \in DOMAIN new : new[i] = e})
                   - Cardinality({i \in d.added : new[i] = e})
                   - Cardinality({p \in d.changed : new[p[2]] = e})

\* The difference d leads from one snapshot to the other: of every element
\* there are as many as there were, less the removed ones and the old sides of
\* the changed ones, with the added ones and the new sides; changes are changes
\* of one element; and no element is both removed and added.
Explains(d, old, new) ==
  /\ \A e \in {old[i] : i \in DOMAIN old} \cup {new[i] : i \in DOMAIN new} :
       Left(d, old, e) = Unmoved(d, new, e)
  /\ \A p \in d.changed : Same(old[p[1]], new[p[2]])
  /\ \A i \in d.removed, j \in d.added : ~Same(old[i], new[j])

\* What diff answers leads from its reference to the page of the window it
\* was asked about (diff.rs). A baseline is one of the same window.
DiffExplains ==
  \A c \in Clients : call[c].diff # None =>
    /\ Explains(call[c].diff, call[c].old.dom, call[c].new.dom)
    /\ call[c].new.window = Win(c)
    /\ call[c].req.ref = None => call[c].old.window = Win(c)

\* The baseline of a window is a snapshot of the document it shows, unless a
\* snapshot was under way when that document began to load: its result is
\* stored afterwards (forget_window, store_snapshot).
BaselineOfThisDocument ==
  \A w \in Windows :
    (page[w].quiet /\ baseline[w] # None) => /\ baseline[w].doc = page[w].doc
                                             /\ baseline[w].window = w

\* A replayed action runs in the window the recorded one ran in
\* (Recorder::record keeps the original window scope), or in the one given for
\* the replay (run_replay_command).
ReplayHitsItsWindow ==
  \A c \in Clients :
    LET entry == call[c].entry IN
    entry # None => \/ call[c].ran = None
                    \/ Override[c] = None /\ (entry.hit = None \/ call[c].ran = entry.hit)
                    \/ Override[c] # None /\ call[c].ran = Override[c]
=============================================================================
