----------------------------- MODULE EvalEngine -----------------------------
(***************************************************************************)
(* The evaluation engine of the plugin (eval.rs), the request path that    *)
(* drives it (handler.rs), and the page-load, window and IPC callbacks     *)
(* that feed it (lib.rs).                                                  *)
(*                                                                         *)
(* Three kinds of actors share the engine's mutex-protected maps:          *)
(*   - one tokio task per request, which registers an id, reads the URL of *)
(*     its target webview, checks it against the authorized origin, binds  *)
(*     the request to (window, origin), queues the script and waits;       *)
(*   - the host's event loop, which revokes a window on navigation start   *)
(*     and destruction (forget_window, one lock section per map) and opens *)
(*     a handshake when a page has finished loading;                       *)
(*   - the __callback command, which completes a handshake or resolves a   *)
(*     request.                                                            *)
(* Every action below is one lock section (or one call with no engine      *)
(* state), so any interleaving of the actors between sections is explored. *)
(*                                                                         *)
(* An id is registered once and never reused, so a request stands for its  *)
(* id and its nonce; a handshake nonce is the generation of the document   *)
(* whose load created it, which is equally unique for a window.            *)
(***************************************************************************)
EXTENDS Naturals, Sequences

CONSTANTS Windows,    \* webview labels
          Origins,    \* origins a page of the application can have
          Requests,   \* evaluation requests, named by their id
          MaxDoc,     \* bound: documents a window label may go through
          None        \* no origin, no window

ASSUME EvalAssumption == /\ None \notin Windows
                         /\ None \notin Origins
                         /\ MaxDoc \in Nat

VARIABLES doc,        \* the webview: current document of each window
          events,     \* host events of each window not yet handled, in order
          page,       \* the last event of each window the host has handled
          main,       \* the event loop: the forget_window call in progress
          handshakes, \* engine: the open handshake of each window
          allowed,    \* engine: the authorized origin of each window
          holding,    \* the callback inside complete_handshake, if any
          pending,    \* engine: the pending map, by request
          chan,       \* the oneshot channel of each request
          pc,         \* where each request's task is
          target,     \* the window each request addresses
          url,        \* the origin each request's task has read
          scripts,    \* evals queued to webviews and not yet run
          hscripts,   \* handshake evals queued and not yet run
          ran,        \* where each request's script has run, if it has
          live,       \* requests whose script is still running in a page
          ipc,        \* result callbacks on their way to the host
          hipc,       \* handshake callbacks on their way to the host
          answer      \* what each request has been answered

webview == <<doc, events, scripts, hscripts, ran, live, ipc, hipc>>
host    == <<page, main, handshakes, allowed, holding>>
task    == <<pc, target, url, answer>>
vars    == <<webview, host, pending, chan, task>>

-----------------------------------------------------------------------------
(* Values.                                                                 *)

MaybeOrigin == Origins \cup {None}
MaybeWindow == Windows \cup {None}

\* A document: `alive` is false while no window has the label; a window whose
\* first page has not committed shows about:blank, which has no origin.
Document  == [gen: Nat, origin: MaybeOrigin, alive: BOOLEAN, loaded: BOOLEAN]
PageEvent == [kind: {"none", "started", "finished", "destroyed"},
              gen: Nat, origin: MaybeOrigin]
NoPage    == [kind |-> "none", gen |-> 0, origin |-> None]

Handshake   == [nonce: Nat, origin: MaybeOrigin]
NoHandshake == [nonce |-> 0, origin |-> None]
Holder      == [win: MaybeWindow, origin: MaybeOrigin]
NoHolder    == [win |-> None, origin |-> None]

MainStep == [step: {"idle", "handshakes", "allowed", "pending"}, win: MaybeWindow]
Idle     == [step |-> "idle", win |-> None]

\* What a script can deliver, and what the engine itself can put in a channel.
Results  == {"ok", "jsError"}
Outcomes == Results \cup {"originChanged", "destroyed"}
\* What a caller can see: notReady is RPC -32002, the other failures -32603.
Answers  == Outcomes \cup {"notReady", "evalFailed", "timeout"}

Site   == [win: MaybeWindow, gen: Nat, origin: MaybeOrigin]
NoSite == [win |-> None, gen |-> 0, origin |-> None]

HandshakeMsg == [win: Windows, nonce: Nat, origin: MaybeOrigin]
ResultMsg    == [req: Requests, win: Windows, kind: Results]

PCs == {"idle", "registered", "located", "checked", "bound", "ready",
        "waiting", "expired", "refused", "failed", "done"}

Init ==
  /\ doc = [w \in Windows |-> [gen |-> 0, origin |-> None, alive |-> TRUE, loaded |-> TRUE]]
  /\ events = [w \in Windows |-> <<>>]
  /\ page = [w \in Windows |-> NoPage]
  /\ main = Idle
  /\ handshakes = [w \in Windows |-> NoHandshake]
  /\ allowed = [w \in Windows |-> None]
  /\ holding = NoHolder
  /\ pending = [r \in Requests |-> "absent"]
  /\ chan = [r \in Requests |-> "empty"]
  /\ pc = [r \in Requests |-> "idle"]
  /\ target = [r \in Requests |-> None]
  /\ url = [r \in Requests |-> None]
  /\ scripts = {}
  /\ hscripts = {}
  /\ ran = [r \in Requests |-> NoSite]
  /\ live = {}
  /\ ipc = {}
  /\ hipc = {}
  /\ answer = [r \in Requests |-> "none"]

-----------------------------------------------------------------------------
(* The request's task: handle_eval_method, the eval hook, EvalEngine::wait. *)

\* register: a fresh id with no source; nonce(id), which panics if the id is
\* absent, is read while the task is still in "registered".
Register(r, w) ==
  /\ pc[r] = "idle"
  /\ pc' = [pc EXCEPT ![r] = "registered"]
  /\ target' = [target EXCEPT ![r] = w]
  /\ pending' = [pending EXCEPT ![r] = "unbound"]
  /\ UNCHANGED <<webview, host, chan, url, answer>>

\* The eval hook resolves the label and reads the webview's URL. A missing
\* window fails the call; about:blank is refused as not ready.
ReadUrl(r) ==
  /\ pc[r] = "registered"
  /\ LET d == doc[target[r]] IN
       /\ pc' = [pc EXCEPT ![r] = IF ~d.alive THEN "failed"
                                  ELSE IF d.origin = None THEN "refused"
                                  ELSE "located"]
       /\ url' = [url EXCEPT ![r] = d.origin]
  /\ UNCHANGED <<webview, host, pending, chan, target, answer>>

\* check_origin: the URL must be the authorized origin of the window.
CheckOrigin(r) ==
  /\ pc[r] = "located"
  /\ pc' = [pc EXCEPT ![r] = IF allowed[target[r]] = url[r] THEN "checked" ELSE "refused"]
  /\ UNCHANGED <<webview, host, pending, chan, target, url, answer>>

\* bind_source: from here on the request belongs to (target[r], url[r]).
BindSource(r) ==
  /\ pc[r] = "checked"
  /\ IF pending[r] = "absent"
     THEN /\ pc' = [pc EXCEPT ![r] = "failed"]
          /\ UNCHANGED pending
     ELSE /\ pc' = [pc EXCEPT ![r] = "bound"]
          /\ pending' = [pending EXCEPT ![r] = "bound"]
  /\ UNCHANGED <<webview, host, chan, target, url, answer>>

\* pending_nonce: a request cancelled since it was bound is not executed.
PendingNonce(r) ==
  /\ pc[r] = "bound"
  /\ pc' = [pc EXCEPT ![r] = IF pending[r] = "absent" THEN "failed" ELSE "ready"]
  /\ UNCHANGED <<webview, host, pending, chan, target, url, answer>>

\* Mutant: the entry is checked after the script was handed to the webview.
QueueEvalThenCheck(r) ==
  /\ pc[r] = "ready"
  /\ scripts' = IF doc[target[r]].alive THEN scripts \cup {r} ELSE scripts
  /\ pc' = [pc EXCEPT ![r] = IF pending[r] = "absent" THEN "failed" ELSE "waiting"]
  /\ UNCHANGED <<doc, events, hscripts, ran, live, ipc, hipc, host,
                 pending, chan, target, url, answer>>

\* target.eval queues the pinned script. On a window that is gone the runtime
\* either reports an error or accepts the script and drops it.
QueueEval(r) ==
  /\ pc[r] = "ready"
  /\ \/ /\ doc[target[r]].alive
        /\ scripts' = scripts \cup {r}
        /\ pc' = [pc EXCEPT ![r] = "waiting"]
     \/ /\ ~doc[target[r]].alive
        /\ \E p \in {"failed", "waiting"}: pc' = [pc EXCEPT ![r] = p]
        /\ UNCHANGED scripts
  /\ UNCHANGED <<doc, events, hscripts, ran, live, ipc, hipc, host,
                 pending, chan, target, url, answer>>

\* An eval hook that failed: resolve(id, Err) empties the entry, and the
\* caller sees -32002 for a refusal and -32603 for anything else.
ReportFailure(r) ==
  /\ pc[r] \in {"refused", "failed"}
  /\ pc' = [pc EXCEPT ![r] = "done"]
  /\ answer' = [answer EXCEPT ![r] = IF pc[r] = "refused" THEN "notReady" ELSE "evalFailed"]
  /\ pending' = [pending EXCEPT ![r] = "absent"]
  /\ UNCHANGED <<webview, host, chan, target, url>>

\* wait: the channel has a value. The timeout future polls it before the
\* clock, so a value that is there always wins; PendingGuard then drops.
Receive(r) ==
  /\ pc[r] = "waiting"
  /\ chan[r] # "empty"
  /\ pc' = [pc EXCEPT ![r] = "done"]
  /\ answer' = [answer EXCEPT ![r] = chan[r]]
  /\ pending' = [pending EXCEPT ![r] = "absent"]
  /\ UNCHANGED <<webview, host, chan, target, url>>

\* Mutant: the clock starts when the script does.
TimeoutOnceRun(r) ==
  /\ pc[r] = "waiting"
  /\ chan[r] = "empty"
  /\ ran[r] # NoSite
  /\ pc' = [pc EXCEPT ![r] = "expired"]
  /\ UNCHANGED <<webview, host, pending, chan, target, url, answer>>

\* wait: the deadline passes on an empty channel ...
Timeout(r) ==
  /\ pc[r] = "waiting"
  /\ chan[r] = "empty"
  /\ pc' = [pc EXCEPT ![r] = "expired"]
  /\ UNCHANGED <<webview, host, pending, chan, target, url, answer>>

\* Mutant: the caller gets whatever the channel holds.
DropGuardReadsChannel(r) ==
  /\ pc[r] = "expired"
  /\ pc' = [pc EXCEPT ![r] = "done"]
  /\ answer' = [answer EXCEPT ![r] = chan[r]]
  /\ pending' = [pending EXCEPT ![r] = "absent"]
  /\ UNCHANGED <<webview, host, chan, target, url>>

\* ... and PendingGuard takes the lock only afterwards, so an answer may still
\* have been sent in between; the receiver is gone and nobody reads it.
DropGuard(r) ==
  /\ pc[r] = "expired"
  /\ pc' = [pc EXCEPT ![r] = "done"]
  /\ answer' = [answer EXCEPT ![r] = "timeout"]
  /\ pending' = [pending EXCEPT ![r] = "absent"]
  /\ UNCHANGED <<webview, host, chan, target, url>>

-----------------------------------------------------------------------------
(* The webview runtime (external): documents, queued evals, messages.      *)

\* A document commits: the scripts of the previous one stop. Evals already
\* queued stay queued and will run in whichever document is current then.
Navigate(w, o) ==
  /\ doc[w].alive
  /\ doc[w].gen < MaxDoc
  /\ doc' = [doc EXCEPT ![w] = [gen |-> @.gen + 1, origin |-> o, alive |-> TRUE, loaded |-> FALSE]]
  /\ events' = [events EXCEPT ![w] =
                  Append(@, [kind |-> "started", gen |-> doc[w].gen + 1, origin |-> o])]
  /\ live' = {r \in live : ran[r].win # w}
  /\ UNCHANGED <<scripts, hscripts, ran, ipc, hipc, host, pending, chan, task>>

FinishLoad(w) ==
  /\ doc[w].alive
  /\ ~doc[w].loaded
  /\ doc' = [doc EXCEPT ![w].loaded = TRUE]
  /\ events' = [events EXCEPT ![w] =
                  Append(@, [kind |-> "finished", gen |-> doc[w].gen, origin |-> doc[w].origin])]
  /\ UNCHANGED <<scripts, hscripts, ran, live, ipc, hipc, host, pending, chan, task>>

\* Destroying a window drops everything queued to it or sent by it.
Destroy(w) ==
  /\ doc[w].alive
  /\ doc[w].gen < MaxDoc
  /\ doc' = [doc EXCEPT ![w] = [gen |-> @.gen + 1, origin |-> None, alive |-> FALSE, loaded |-> TRUE]]
  /\ events' = [events EXCEPT ![w] =
                  Append(@, [kind |-> "destroyed", gen |-> doc[w].gen + 1, origin |-> None])]
  /\ live' = {r \in live : ran[r].win # w}
  /\ scripts' = {r \in scripts : target[r] # w}
  /\ hscripts' = {m \in hscripts : m.win # w}
  /\ ipc' = {m \in ipc : m.win # w}
  /\ hipc' = {m \in hipc : m.win # w}
  /\ UNCHANGED <<ran, host, pending, chan, task>>

\* The application may reuse a label once the host has handled Destroyed.
Create(w) ==
  /\ ~doc[w].alive
  /\ doc[w].gen < MaxDoc
  /\ events[w] = <<>>
  /\ main.win # w
  /\ doc' = [doc EXCEPT ![w] = [gen |-> @.gen + 1, origin |-> None, alive |-> TRUE, loaded |-> TRUE]]
  /\ UNCHANGED <<events, scripts, hscripts, ran, live, ipc, hipc, host, pending, chan, task>>

\* A queued eval runs: the pin compares the document's origin with the one the
\* request was bound to before any of the requested script executes.
RunPinned(r) ==
  /\ r \in scripts
  /\ scripts' = scripts \ {r}
  /\ LET d == doc[target[r]] IN
       IF d.origin = url[r]
       THEN /\ ran' = [ran EXCEPT ![r] = [win |-> target[r], gen |-> d.gen, origin |-> d.origin]]
            /\ live' = live \cup {r}
            /\ UNCHANGED ipc
       ELSE /\ ipc' = ipc \cup {[req |-> r, win |-> target[r], kind |-> "jsError"]}
            /\ UNCHANGED <<ran, live>>
  /\ UNCHANGED <<doc, events, hscripts, hipc, host, pending, chan, task>>

\* wrap_script: the awaited expression settles and its value or its exception
\* is sent to __callback with the request's id and nonce.
Settle(r) ==
  /\ r \in live
  /\ live' = live \ {r}
  /\ \E k \in Results: ipc' = ipc \cup {[req |-> r, win |-> ran[r].win, kind |-> k]}
  /\ UNCHANGED <<doc, events, scripts, hscripts, ran, hipc, host, pending, chan, task>>

\* The handshake eval runs in the current document; it reports only when that
\* document's origin is the one the handshake was opened for.
RunHandshake(m) ==
  /\ m \in hscripts
  /\ hscripts' = hscripts \ {m}
  /\ hipc' = IF doc[m.win].origin = m.origin THEN hipc \cup {m} ELSE hipc
  /\ UNCHANGED <<doc, events, scripts, ran, live, ipc, host, pending, chan, task>>

-----------------------------------------------------------------------------
(* The host: page-load and window events, the __callback command.          *)

\* PageLoadEvent::Started and WindowEvent::Destroyed call forget_window.
HandleRevoke(w) ==
  /\ main.step = "idle"
  /\ events[w] # <<>>
  /\ Head(events[w]).kind \in {"started", "destroyed"}
  /\ events' = [events EXCEPT ![w] = Tail(@)]
  /\ page' = [page EXCEPT ![w] = Head(events[w])]
  /\ main' = [step |-> "handshakes", win |-> w]
  /\ UNCHANGED <<doc, scripts, hscripts, ran, live, ipc, hipc,
                 handshakes, allowed, holding, pending, chan, task>>

\* Mutant: complete_handshake gives up the map's lock before it authorizes.
ForgetHandshakesUnlocked ==
  /\ main.step = "handshakes"
  /\ handshakes' = [handshakes EXCEPT ![main.win] = NoHandshake]
  /\ main' = [main EXCEPT !.step = "allowed"]
  /\ UNCHANGED <<webview, page, allowed, holding, pending, chan, task>>

ForgetHandshakes ==
  /\ main.step = "handshakes"
  /\ holding = NoHolder
  /\ handshakes' = [handshakes EXCEPT ![main.win] = NoHandshake]
  /\ main' = [main EXCEPT !.step = "allowed"]
  /\ UNCHANGED <<webview, page, allowed, holding, pending, chan, task>>

\* (forget_window also drops the baseline of the window, which no request reads.)
ForgetAllowed ==
  /\ main.step = "allowed"
  /\ allowed' = [allowed EXCEPT ![main.win] = None]
  /\ main' = [main EXCEPT !.step = "pending"]
  /\ UNCHANGED <<webview, page, handshakes, holding, pending, chan, task>>


\* Every pending request bound to the window fails with "Window was destroyed".
ForgetPending ==
  /\ main.step = "pending"
  /\ LET gone == {r \in Requests : pending[r] = "bound" /\ target[r] = main.win} IN
       /\ pending' = [r \in Requests |-> IF r \in gone THEN "absent" ELSE pending[r]]
       /\ chan' = [r \in Requests |-> IF r \in gone THEN "destroyed" ELSE chan[r]]
  /\ main' = Idle
  /\ UNCHANGED <<webview, page, handshakes, allowed, holding, task>>

\* PageLoadEvent::Finished: begin_handshake replaces the window's open
\* handshake and its script is queued to the webview.
HandleFinished(w) ==
  /\ main.step = "idle"
  /\ events[w] # <<>>
  /\ Head(events[w]).kind = "finished"
  /\ holding = NoHolder
  /\ events' = [events EXCEPT ![w] = Tail(@)]
  /\ page' = [page EXCEPT ![w] = Head(events[w])]
  /\ LET e == Head(events[w]) IN
       /\ handshakes' = [handshakes EXCEPT ![w] = [nonce |-> e.gen, origin |-> e.origin]]
       /\ hscripts' = IF doc[w].alive
                      THEN hscripts \cup {[win |-> w, nonce |-> e.gen, origin |-> e.origin]}
                      ELSE hscripts
  /\ UNCHANGED <<doc, scripts, ran, live, ipc, hipc, main, allowed, holding, pending, chan, task>>

\* __callback with id 0: the reported URL must have the origin the webview has
\* now, and complete_handshake accepts only the window's open token. The token
\* is removed under the handshakes lock, which is kept while authorizing.
TakeHandshake(m) ==
  /\ m \in hipc
  /\ holding = NoHolder
  /\ hipc' = hipc \ {m}
  /\ LET accepted == /\ doc[m.win].origin = m.origin
                     /\ handshakes[m.win].nonce = m.nonce
                     /\ handshakes[m.win].origin = m.origin
     IN IF accepted
        THEN /\ handshakes' = [handshakes EXCEPT ![m.win] = NoHandshake]
             /\ holding' = [win |-> m.win, origin |-> m.origin]
        ELSE UNCHANGED <<handshakes, holding>>
  /\ UNCHANGED <<doc, events, scripts, hscripts, ran, live, ipc, page, main, allowed,
                 pending, chan, task>>

\* authorize, still inside complete_handshake.
Authorize ==
  /\ holding # NoHolder
  /\ allowed' = [allowed EXCEPT ![holding.win] = holding.origin]
  /\ holding' = NoHolder
  /\ UNCHANGED <<webview, page, main, handshakes, pending, chan, task>>

\* Mutant: the nonce is not compared.
AcceptsAnyNonce(r, w, nonceMatches) ==
  /\ pending[r] = "bound"
  /\ target[r] = w

\* resolve_from: a result delivered by window w, whose current origin is o,
\* counts only with the request's nonce and from the window it is bound to.
Accepts(r, w, nonceMatches) ==
  /\ pending[r] = "bound"
  /\ nonceMatches
  /\ target[r] = w

ResolveFrom(r, w, o, nonceMatches, kind) ==
  IF Accepts(r, w, nonceMatches)
  THEN /\ pending' = [pending EXCEPT ![r] = "absent"]
       /\ chan' = [chan EXCEPT ![r] = IF url[r] = o THEN kind ELSE "originChanged"]
  ELSE UNCHANGED <<pending, chan>>

HandleResult(m) ==
  /\ m \in ipc
  /\ ipc' = ipc \ {m}
  /\ ResolveFrom(m.req, m.win, doc[m.win].origin, TRUE, m.kind)
  /\ UNCHANGED <<doc, events, scripts, hscripts, ran, live, hipc, host, task>>

\* Any page may invoke __callback with an id of its own choosing; it cannot
\* know the nonce.
StrayCallback(r, w) ==
  /\ doc[w].alive
  /\ ResolveFrom(r, w, doc[w].origin, FALSE, "ok")
  /\ UNCHANGED <<webview, host, task>>

-----------------------------------------------------------------------------
TaskStep(r) ==
  \/ ReadUrl(r)
  \/ CheckOrigin(r)
  \/ BindSource(r)
  \/ PendingNonce(r)
  \/ QueueEval(r)
  \/ ReportFailure(r)
  \/ Receive(r)
  \/ Timeout(r)
  \/ DropGuard(r)

WebviewStep ==
  \/ \E w \in Windows, o \in Origins: Navigate(w, o)
  \/ \E w \in Windows: FinishLoad(w) \/ Destroy(w) \/ Create(w)
  \/ \E r \in Requests: RunPinned(r) \/ Settle(r)
  \/ \E m \in hscripts: RunHandshake(m)

ForgetStep == ForgetHandshakes \/ ForgetAllowed \/ ForgetPending

HostStep ==
  \/ \E w \in Windows: HandleRevoke(w) \/ HandleFinished(w)
  \/ ForgetStep
  \/ \E m \in hipc: TakeHandshake(m)
  \/ Authorize
  \/ \E m \in ipc: HandleResult(m)
  \/ \E r \in Requests, w \in Windows: StrayCallback(r, w)

Next ==
  \/ \E r \in Requests, w \in Windows: Register(r, w)
  \/ \E r \in Requests: TaskStep(r)
  \/ WebviewStep
  \/ HostStep

Spec == Init /\ [][Next]_vars

\* A spawned task is always polled again and its timer always fires, and the
\* event loop finishes the call it is in. Pages owe nothing: a script may hang,
\* a document may never finish loading, a callback may never be sent.
Fairness ==
  /\ \A r \in Requests: WF_vars(TaskStep(r))
  /\ WF_vars(ForgetStep)
  /\ WF_vars(Authorize)

FairSpec == Spec /\ Fairness

-----------------------------------------------------------------------------
(* Properties.                                                             *)

TypeOK ==
  /\ doc \in [Windows -> Document]
  /\ events \in [Windows -> Seq(PageEvent)]
  /\ page \in [Windows -> PageEvent]
  /\ main \in MainStep
  /\ handshakes \in [Windows -> Handshake]
  /\ allowed \in [Windows -> MaybeOrigin]
  /\ holding \in Holder
  /\ pending \in [Requests -> {"absent", "unbound", "bound"}]
  /\ chan \in [Requests -> Outcomes \cup {"empty"}]
  /\ pc \in [Requests -> PCs]
  /\ target \in [Requests -> MaybeWindow]
  /\ url \in [Requests -> MaybeOrigin]
  /\ scripts \subseteq Requests
  /\ hscripts \subseteq HandshakeMsg
  /\ ran \in [Requests -> Site]
  /\ live \subseteq Requests
  /\ ipc \subseteq ResultMsg
  /\ hipc \subseteq HandshakeMsg
  /\ answer \in [Requests -> Answers \cup {"none"}]

\* A request stays in the pending map, unbound, from registration until its
\* own task binds or gives it up: neither a revocation, nor a callback that
\* guesses its id, can take it away. (EvalEngine::nonce panics, and bind_source
\* fails, on an id that is not there.)
RegisteredIsPending ==
  \A r \in Requests:
    pc[r] \in {"registered", "located", "checked", "refused"} => pending[r] = "unbound"

\* An answer is sent by whoever removes the request's entry from the map, so
\* a second callback, a revocation and a callback, or a callback after the
\* deadline never produce two answers; and no entry outlives its task.
AnsweredOnce ==
  \A r \in Requests: /\ chan[r] # "empty" => pending[r] = "absent"
                     /\ pc[r] \in {"idle", "done"} => pending[r] = "absent"

\* A call refused with -32002, which clients retry by themselves, or failed by
\* the eval hook has not run its script and never will.
FailedCallNeverRuns ==
  \A r \in Requests:
    answer[r] \in {"notReady", "evalFailed"} => ran[r] = NoSite /\ r \notin scripts

\* A successful result comes from the request's own script, executed in the
\* window it addressed, in a document of the origin it was authorized for.
OkFromPinnedPage ==
  \A r \in Requests:
    chan[r] = "ok" => /\ ran[r].win = target[r]
                      /\ ran[r].origin = url[r]
                      /\ url[r] # None

\* A window is authorized only between the end of a page load and the next
\* revocation, and for the origin of that page; while the host is revoking it
\* the old authorization may stand until its section of the map is reached.
AuthorizedOnlyWhileLoaded ==
  \A w \in Windows:
    allowed[w] # None =>
      \/ page[w].kind = "finished" /\ page[w].origin = allowed[w]
      \/ main.win = w /\ main.step \in {"handshakes", "allowed"}

\* Every request is answered, whatever the pages do: a result, a revocation or
\* the deadline ends the wait.
EveryRequestAnswered ==
  \A r \in Requests: pc[r] = "registered" ~> answer[r] # "none"

-----------------------------------------------------------------------------
(* The engine implements the contract its callers rely on.                 *)

Contract == INSTANCE EvalContract WITH
              opened   <- {r \in Requests : pc[r] # "idle"},
              executed <- {r \in Requests : ran[r] # NoSite},
              verdict  <- answer

\* At-most-once execution and one truthful answer per request (EvalContract).
ImplementsContract == Contract!CSpec
=============================================================================
