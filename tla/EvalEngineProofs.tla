-------------------------- MODULE EvalEngineProofs --------------------------
(***************************************************************************)
(* Theorems of EvalEngine, for any windows, origins, requests and bound.   *)
(***************************************************************************)
EXTENDS EvalEngine, TLAPS

\* A request whose script has been handed to the webview.
Queued(r) == pc[r] \in {"waiting", "expired", "done"}

\* The life of a script: queued at most once, by a task that has read and
\* checked an origin, and never for a call that has already failed;
QueuedInv ==
  \A r \in scripts: /\ Queued(r)
                    /\ ran[r] = NoSite
                    /\ url[r] # None
                    /\ answer[r] \notin {"notReady", "evalFailed"}

\* run at most once, in the window and origin it is pinned to;
RanInv ==
  \A r \in Requests: ran[r] # NoSite => /\ Queued(r)
                                        /\ ran[r].win = target[r]
                                        /\ ran[r].origin = url[r]
                                        /\ url[r] # None
                                        /\ answer[r] \notin {"notReady", "evalFailed"}

\* and the only source of a successful result.
SourceInv ==
  /\ \A r \in live: ran[r] # NoSite
  /\ \A m \in ipc: m.kind = "ok" => ran[m.req] # NoSite
  /\ \A r \in Requests: chan[r] = "ok" => ran[r] # NoSite

ScriptInv == QueuedInv /\ RanInv /\ SourceInv

\* A task past its check has a window and an origin; only a finished task has
\* an answer; a task that has not started has an empty channel.
TaskInv ==
  \A r \in Requests:
    /\ pc[r] # "idle" => target[r] \in Windows
    /\ pc[r] \in {"located", "checked", "bound", "ready", "waiting", "expired"} => url[r] # None
    /\ answer[r] # "none" <=> pc[r] = "done"
    /\ pc[r] = "idle" => chan[r] = "empty"

\* The inductive strengthening of the request properties.
RequestInv == /\ TaskInv
              /\ ScriptInv
              /\ RegisteredIsPending
              /\ AnsweredOnce

-----------------------------------------------------------------------------
(* Type correctness.                                                       *)

\* Every step keeps every variable in its type; a task that has started has a
\* window, which is what its reads of the webview need.
LEMMA TypeStep ==
  ASSUME TypeOK, TaskInv, ScriptInv, [Next]_vars
  PROVE  TypeOK'
  <1> USE EvalAssumption DEF TypeOK, MaybeOrigin, MaybeWindow, webview, host, task, vars
  <1>1. ASSUME NEW r \in Requests, NEW w \in Windows, Register(r, w) PROVE TypeOK'
    BY <1>1 DEF Register, PCs
  <1>2. ASSUME NEW r \in Requests, ReadUrl(r) PROVE TypeOK'
    BY <1>2 DEF ReadUrl, PCs, Document, TaskInv
  <1>3. ASSUME NEW r \in Requests, CheckOrigin(r) PROVE TypeOK'
    BY <1>3 DEF CheckOrigin, PCs
  <1>4. ASSUME NEW r \in Requests, BindSource(r) PROVE TypeOK'
    <2>1. pc' \in [Requests -> PCs]
      BY <1>4 DEF BindSource, PCs
    <2>2. pending' \in [Requests -> {"absent", "unbound", "bound"}]
      BY <1>4, <2>1 DEF BindSource
    <2> QED
      BY <1>4, <2>1, <2>2 DEF BindSource
  <1>5. ASSUME NEW r \in Requests, PendingNonce(r) PROVE TypeOK'
    BY <1>5 DEF PendingNonce, PCs
  <1>6. ASSUME NEW r \in Requests, QueueEval(r) PROVE TypeOK'
    <2>1. scripts' \in SUBSET Requests
      BY <1>6 DEF QueueEval
    <2>2. pc' \in [Requests -> PCs]
      <3>1. PICK p \in {"failed", "waiting"}: pc' = [pc EXCEPT ![r] = p]
        BY <1>6 DEF QueueEval
      <3> QED
        BY <3>1 DEF PCs
    <2>3. UNCHANGED <<doc, events, hscripts, ran, live, ipc, hipc, host, pending, chan, target, url, answer>>
      BY <1>6 DEF QueueEval
    <2> HIDE DEF QueueEval
    <2> QED
      BY <2>1, <2>2, <2>3
  <1>7. ASSUME NEW r \in Requests, ReportFailure(r) PROVE TypeOK'
    BY <1>7 DEF ReportFailure, PCs, Answers
  <1>8. ASSUME NEW r \in Requests, Receive(r) PROVE TypeOK'
    <2>1. pc' \in [Requests -> PCs]
      BY <1>8 DEF Receive, PCs
    <2>2. answer' \in [Requests -> Answers \cup {"none"}]
      BY <1>8, <2>1 DEF Receive, Answers
    <2>3. pending' \in [Requests -> {"absent", "unbound", "bound"}]
      BY <1>8, <2>1, <2>2 DEF Receive
    <2> QED
      BY <1>8, <2>1, <2>2, <2>3 DEF Receive
  <1>9. ASSUME NEW r \in Requests, Timeout(r) PROVE TypeOK'
    BY <1>9 DEF Timeout, PCs
  <1>10. ASSUME NEW r \in Requests, DropGuard(r) PROVE TypeOK'
    BY <1>10 DEF DropGuard, PCs, Answers
  <1>11. ASSUME NEW r \in Requests, RunPinned(r) PROVE TypeOK'
    <2>1. target[r] \in Windows
      BY <1>11 DEF RunPinned, ScriptInv, QueuedInv, Queued, TaskInv
    <2>2. [win |-> target[r], gen |-> doc[target[r]].gen, origin |-> doc[target[r]].origin] \in Site
      BY <2>1 DEF Site, Document
    <2>3. [req |-> r, win |-> target[r], kind |-> "jsError"] \in ResultMsg
      BY <2>1 DEF ResultMsg, Results
    <2>4. CASE doc[target[r]].origin = url[r]
      <3>1. ran' \in [Requests -> Site]
        BY <1>11, <2>2, <2>4 DEF RunPinned
      <3>2. scripts' \in SUBSET Requests /\ live' \in SUBSET Requests /\ ipc' = ipc
        BY <1>11, <2>4 DEF RunPinned
      <3> QED
        BY <1>11, <3>1, <3>2 DEF RunPinned
    <2>5. CASE doc[target[r]].origin # url[r]
      BY <1>11, <2>3, <2>5 DEF RunPinned
    <2> QED
      BY <2>4, <2>5
  <1>12. ASSUME NEW r \in Requests, Settle(r) PROVE TypeOK'
    <2>1. ran[r].win \in Windows
      BY <1>12 DEF Settle, ScriptInv, RanInv, SourceInv, Queued, TaskInv
    <2>2. \A k \in Results: [req |-> r, win |-> ran[r].win, kind |-> k] \in ResultMsg
      BY <2>1 DEF ResultMsg
    <2> QED
      BY <1>12, <2>2 DEF Settle
  <1>13. ASSUME NEW w \in Windows, NEW o \in Origins, Navigate(w, o) PROVE TypeOK'
    <2>1. doc' \in [Windows -> Document]
      BY <1>13 DEF Navigate, Document
    <2>2. [kind |-> "started", gen |-> doc[w].gen + 1, origin |-> o] \in PageEvent
      BY <1>13, <2>1 DEF Navigate, Document, PageEvent
    <2>3. events' \in [Windows -> Seq(PageEvent)]
      BY <1>13, <2>1, <2>2 DEF Navigate
    <2>4. live' \in SUBSET Requests
      BY <1>13, <2>1, <2>2, <2>3 DEF Navigate
    <2> QED
      BY <1>13, <2>1, <2>2, <2>3, <2>4 DEF Navigate
  <1>14. ASSUME NEW w \in Windows, FinishLoad(w) PROVE TypeOK'
    <2>1. doc' \in [Windows -> Document]
      <3>1. doc[w] \in Document
        OBVIOUS
      <3>2. [doc[w] EXCEPT !.loaded = TRUE] \in Document
        BY <3>1 DEF Document
      <3> QED
        BY <1>14, <3>2 DEF FinishLoad
    <2>2. [kind |-> "finished", gen |-> doc[w].gen, origin |-> doc[w].origin] \in PageEvent
      BY <1>14, <2>1 DEF FinishLoad, Document, PageEvent
    <2>3. events' \in [Windows -> Seq(PageEvent)]
      BY <1>14, <2>1, <2>2 DEF FinishLoad
    <2> QED
      BY <1>14, <2>1, <2>2, <2>3 DEF FinishLoad
  <1>15. ASSUME NEW w \in Windows, Destroy(w) PROVE TypeOK'
    <2>1. doc' \in [Windows -> Document]
      BY <1>15 DEF Destroy, Document
    <2>2. [kind |-> "destroyed", gen |-> doc[w].gen + 1, origin |-> None] \in PageEvent
      BY <1>15, <2>1 DEF Destroy, Document, PageEvent
    <2>3. events' \in [Windows -> Seq(PageEvent)]
      BY <1>15, <2>1, <2>2 DEF Destroy
    <2>4. live' \in SUBSET Requests /\ scripts' \in SUBSET Requests
      BY <1>15, <2>1, <2>2, <2>3 DEF Destroy
    <2>5. ipc' \in SUBSET ResultMsg
      BY <1>15, <2>1, <2>2, <2>3, <2>4 DEF Destroy
    <2>6. hscripts' \in SUBSET HandshakeMsg /\ hipc' \in SUBSET HandshakeMsg
      BY <1>15, <2>1, <2>2, <2>3, <2>4, <2>5 DEF Destroy
    <2> QED
      BY <1>15, <2>1, <2>2, <2>3, <2>4, <2>5, <2>6 DEF Destroy
  <1>16. ASSUME NEW w \in Windows, Create(w) PROVE TypeOK'
    <2>1. doc' \in [Windows -> Document]
      BY <1>16 DEF Create, Document
    <2> QED
      BY <1>16, <2>1 DEF Create
  <1>17. ASSUME NEW w \in Windows, HandleRevoke(w) PROVE TypeOK'
    <2>1. Head(events[w]) \in PageEvent
      BY <1>17 DEF HandleRevoke
    <2>2. events' \in [Windows -> Seq(PageEvent)]
      BY <1>17, <2>1 DEF HandleRevoke
    <2>3. page' \in [Windows -> PageEvent]
      BY <1>17, <2>1, <2>2 DEF HandleRevoke
    <2>4. main' \in MainStep
      BY <1>17, <2>1, <2>2, <2>3 DEF HandleRevoke, MainStep
    <2> QED
      BY <1>17, <2>1, <2>2, <2>3, <2>4 DEF HandleRevoke
  <1>18. ASSUME NEW w \in Windows, HandleFinished(w) PROVE TypeOK'
    <2> DEFINE e == Head(events[w])
    <2>1. e \in PageEvent
      BY <1>18 DEF HandleFinished
    <2>2. [nonce |-> e.gen, origin |-> e.origin] \in Handshake
      BY <2>1 DEF Handshake, PageEvent
    <2>3. [win |-> w, nonce |-> e.gen, origin |-> e.origin] \in HandshakeMsg
      BY <2>1 DEF HandshakeMsg, PageEvent
    <2>4. events' \in [Windows -> Seq(PageEvent)]
      BY <1>18, <2>1 DEF HandleFinished
    <2>5. page' \in [Windows -> PageEvent]
      BY <1>18, <2>1 DEF HandleFinished
    <2>6. handshakes' \in [Windows -> Handshake]
      BY <1>18, <2>2 DEF HandleFinished
    <2>7. hscripts' \in SUBSET HandshakeMsg
      BY <1>18, <2>3 DEF HandleFinished
    <2> QED
      BY <1>18, <2>4, <2>5, <2>6, <2>7 DEF HandleFinished
  <1>19. ASSUME NEW m \in hscripts, RunHandshake(m) PROVE TypeOK'
    BY <1>19 DEF RunHandshake
  <1>20. ASSUME NEW m \in hipc, TakeHandshake(m) PROVE TypeOK'
    <2>1. m \in HandshakeMsg
      OBVIOUS
    <2>2. NoHandshake \in Handshake
      BY DEF NoHandshake, Handshake
    <2>3. [win |-> m.win, origin |-> m.origin] \in Holder
      BY <2>1 DEF Holder, HandshakeMsg
    <2>4. handshakes' \in [Windows -> Handshake] /\ holding' \in Holder
      BY <1>20, <2>2, <2>3 DEF TakeHandshake
    <2> QED
      BY <1>20, <2>4 DEF TakeHandshake
  <1>21. ASSUME Authorize PROVE TypeOK'
    BY <1>21 DEF Authorize, Holder, NoHolder
  <1>22. ASSUME ForgetHandshakes PROVE TypeOK'
    BY <1>22 DEF ForgetHandshakes, NoHandshake, Handshake, MainStep
  <1>23. ASSUME ForgetAllowed PROVE TypeOK'
    BY <1>23 DEF ForgetAllowed, MainStep
  <1>24. ASSUME ForgetPending PROVE TypeOK'
    <2>1. pending' \in [Requests -> {"absent", "unbound", "bound"}]
      BY <1>24 DEF ForgetPending
    <2>2. chan' \in [Requests -> Outcomes \cup {"empty"}]
      BY <1>24, <2>1 DEF ForgetPending, Outcomes, Results
    <2>3. main' \in MainStep
      BY <1>24, <2>1, <2>2 DEF ForgetPending, MainStep, Idle
    <2> QED
      BY <1>24, <2>1, <2>2, <2>3 DEF ForgetPending
  <1>25. ASSUME NEW m \in ipc, HandleResult(m) PROVE TypeOK'
    <2>1. m.req \in Requests /\ m.kind \in Outcomes
      BY DEF ResultMsg, Outcomes
    <2>2. pending' \in [Requests -> {"absent", "unbound", "bound"}]
      <3>1. pending' \in {pending, [pending EXCEPT ![m.req] = "absent"]}
        BY <1>25 DEF HandleResult, ResolveFrom
      <3> QED
        BY <2>1, <3>1
    <2>3. chan' \in [Requests -> Outcomes \cup {"empty"}]
      BY <1>25, <2>1 DEF HandleResult, ResolveFrom, Outcomes
    <2>4. ipc' \subseteq ipc
      BY <1>25 DEF HandleResult
    <2>5. UNCHANGED <<doc, events, scripts, hscripts, ran, live, hipc, host, task>>
      BY <1>25 DEF HandleResult
    <2> QED
      BY <2>2, <2>3, <2>4, <2>5
  <1>26. ASSUME NEW r \in Requests, NEW w \in Windows, StrayCallback(r, w) PROVE TypeOK'
    <2>1. UNCHANGED <<webview, host, task, pending, chan>>
      BY <1>26 DEF StrayCallback, ResolveFrom, Accepts
    <2> QED
      BY <2>1
  <1>27. CASE UNCHANGED vars
    BY <1>27, SMTT(30)
  <1> QED
    BY <1>1, <1>2, <1>3, <1>4, <1>5, <1>6, <1>7, <1>8, <1>9, <1>10, <1>11, <1>12, <1>13, <1>14, <1>15, <1>16, <1>17, <1>18, <1>19, <1>20, <1>21, <1>22, <1>23, <1>24, <1>25, <1>26, <1>27 DEF Next, TaskStep, WebviewStep, HostStep, ForgetStep
-----------------------------------------------------------------------------
(* The request's life.                                                     *)

\* Every step of a task, a page or the host keeps the request invariant.
LEMMA RequestStep ==
  ASSUME TypeOK, RequestInv, [Next]_vars
  PROVE  RequestInv'
  <1> USE EvalAssumption DEF TypeOK, RequestInv, TaskInv, ScriptInv, QueuedInv, RanInv, SourceInv, RegisteredIsPending,
          AnsweredOnce, Queued, PCs, MaybeOrigin, MaybeWindow, webview, host, task, vars
  <1>1. ASSUME NEW r \in Requests, NEW w \in Windows, Register(r, w) PROVE RequestInv'
    BY <1>1 DEF Register
  <1>2. ASSUME NEW r \in Requests, ReadUrl(r) PROVE RequestInv'
    BY <1>2 DEF ReadUrl, Document
  <1>3. ASSUME NEW r \in Requests, CheckOrigin(r) PROVE RequestInv'
    BY <1>3 DEF CheckOrigin
  <1>4. ASSUME NEW r \in Requests, BindSource(r) PROVE RequestInv'
    <2>1. TaskInv'
      BY <1>4 DEF BindSource
    <2>2. ScriptInv'
      <3>1. ~Queued(r) /\ \A q \in Requests \ {r}: pc'[q] = pc[q]
        BY <1>4 DEF BindSource
      <3>2. scripts' = scripts /\ ran' = ran /\ url' = url /\ target' = target /\ answer' = answer
        BY <1>4 DEF BindSource
      <3>3. QueuedInv' /\ RanInv'
        BY <3>1, <3>2
      <3>4. SourceInv'
        BY <1>4 DEF BindSource
      <3> QED
        BY <3>3, <3>4
    <2>3. RegisteredIsPending'
      BY <1>4 DEF BindSource
    <2>4. AnsweredOnce'
      BY <1>4 DEF BindSource
    <2> QED
      BY <2>1, <2>2, <2>3, <2>4
  <1>5. ASSUME NEW r \in Requests, PendingNonce(r) PROVE RequestInv'
    BY <1>5 DEF PendingNonce
  <1>6. ASSUME NEW r \in Requests, QueueEval(r) PROVE RequestInv'
    <2>1. TaskInv'
      BY <1>6 DEF QueueEval
    <2>2. ScriptInv'
      <3>1. pc[r] = "ready" /\ scripts' \in {scripts, scripts \cup {r}}
        BY <1>6 DEF QueueEval
      <3>2. pc'[r] \in {"waiting", "failed"} /\ (pc'[r] = "failed" => scripts' = scripts)
        BY <1>6 DEF QueueEval
      <3>3. \A q \in Requests \ {r}: pc'[q] = pc[q]
        BY <1>6 DEF QueueEval
      <3>4. UNCHANGED <<ran, live, ipc, chan, target, url, answer>>
        BY <1>6 DEF QueueEval
      <3>5. url[r] # None /\ answer[r] = "none" /\ ran[r] = NoSite /\ r \notin scripts
        BY <3>1
      <3> HIDE DEF TypeOK, TaskInv
      <3>6. QueuedInv'
        <4>1. \A q \in scripts': (q \in scripts /\ q # r) \/ (q = r /\ pc'[r] = "waiting")
          BY <3>1, <3>2, <3>5
        <4>2. \A q \in scripts: q # r => q \in Requests /\ pc'[q] = pc[q]
          BY <3>3 DEF TypeOK
        <4> HIDE DEF RanInv, SourceInv
        <4> QED
          BY <3>4, <3>5, <4>1, <4>2
      <3>7. RanInv'
        BY <3>1, <3>3, <3>4, <3>5
      <3>8. SourceInv'
        BY <3>4
      <3> QED
        BY <3>6, <3>7, <3>8
    <2>3. RegisteredIsPending'
      BY <1>6 DEF QueueEval
    <2>4. AnsweredOnce'
      BY <1>6 DEF QueueEval
    <2> QED
      BY <2>1, <2>2, <2>3, <2>4
  <1>7. ASSUME NEW r \in Requests, ReportFailure(r) PROVE RequestInv'
    BY <1>7 DEF ReportFailure
  <1>8. ASSUME NEW r \in Requests, Receive(r) PROVE RequestInv'
    <2>1. /\ pc[r] = "waiting" /\ pc'[r] = "done"
          /\ answer'[r] \notin {"none", "notReady", "evalFailed"}
      <3>1. pc[r] = "waiting" /\ chan[r] \in Outcomes /\ pc'[r] = "done" /\ answer'[r] = chan[r]
        BY <1>8 DEF Receive
      <3> QED
        BY <3>1 DEF Outcomes, Results
    <2>2. \A q \in Requests \ {r}: pc'[q] = pc[q] /\ answer'[q] = answer[q]
      BY <1>8 DEF Receive
    <2>3. UNCHANGED <<chan, target, url, scripts, ran, live, ipc>>
      BY <1>8 DEF Receive
    <2>4. TaskInv'
      <3> HIDE DEF TypeOK, ScriptInv, QueuedInv, RanInv, SourceInv, RegisteredIsPending, AnsweredOnce
      <3> QED
        BY <2>1, <2>2, <2>3
    <2>5. ScriptInv'
      <3>1. QueuedInv'
        <4>1. scripts \subseteq Requests
          OBVIOUS
        <4> HIDE DEF TypeOK, TaskInv, RanInv, SourceInv
        <4> QED
          BY <2>1, <2>2, <2>3, <4>1
      <3>2. RanInv'
        <4> HIDE DEF TypeOK, TaskInv, SourceInv, QueuedInv
        <4> QED
          BY <2>1, <2>2, <2>3
      <3>3. SourceInv'
        BY <2>3
      <3> QED
        BY <3>1, <3>2, <3>3
    <2>6. RegisteredIsPending'
      BY <1>8 DEF Receive, Outcomes, Results
    <2>7. AnsweredOnce'
      BY <1>8 DEF Receive, Outcomes, Results
    <2> QED
      BY <2>4, <2>5, <2>6, <2>7
  <1>9. ASSUME NEW r \in Requests, Timeout(r) PROVE RequestInv'
    BY <1>9 DEF Timeout
  <1>10. ASSUME NEW r \in Requests, DropGuard(r) PROVE RequestInv'
    BY <1>10 DEF DropGuard
  <1>11. ASSUME NEW r \in Requests, RunPinned(r) PROVE RequestInv'
    <2>1. TaskInv'
      BY <1>11 DEF RunPinned, NoSite
    <2>2. ScriptInv'
      <3>1. QueuedInv'
        BY <1>11 DEF RunPinned, NoSite
      <3>2. RanInv'
        BY <1>11 DEF RunPinned, NoSite
      <3>3. SourceInv'
        <4>1. CASE doc[target[r]].origin = url[r]
          <5>1. ran'[r] # NoSite
            BY <1>11, <4>1 DEF RunPinned, NoSite
          <5>2. \A q \in Requests \ {r}: ran'[q] = ran[q]
            BY <1>11, <4>1 DEF RunPinned
          <5>3. live' = live \cup {r} /\ ipc' = ipc /\ chan' = chan
            BY <1>11, <4>1 DEF RunPinned
          <5>4. \A m \in ipc: m.req \in Requests
            BY DEF ResultMsg
          <5> QED
            BY <5>1, <5>2, <5>3, <5>4
        <4>2. CASE doc[target[r]].origin # url[r]
          BY <1>11, <4>2 DEF RunPinned
        <4> QED
          BY <4>1, <4>2
      <3> QED
        BY <3>1, <3>2, <3>3
    <2>3. RegisteredIsPending'
      BY <1>11 DEF RunPinned, NoSite
    <2>4. AnsweredOnce'
      BY <1>11 DEF RunPinned, NoSite
    <2> QED
      BY <2>1, <2>2, <2>3, <2>4
  <1>12. ASSUME NEW r \in Requests, Settle(r) PROVE RequestInv'
    BY <1>12 DEF Settle
  <1>13. ASSUME NEW w \in Windows, NEW o \in Origins, Navigate(w, o) PROVE RequestInv'
    BY <1>13 DEF Navigate
  <1>14. ASSUME NEW w \in Windows, FinishLoad(w) PROVE RequestInv'
    BY <1>14 DEF FinishLoad
  <1>15. ASSUME NEW w \in Windows, Destroy(w) PROVE RequestInv'
    BY <1>15 DEF Destroy
  <1>16. ASSUME NEW w \in Windows, Create(w) PROVE RequestInv'
    BY <1>16 DEF Create
  <1>17. ASSUME NEW w \in Windows, HandleRevoke(w) PROVE RequestInv'
    BY <1>17 DEF HandleRevoke
  <1>18. ASSUME NEW w \in Windows, HandleFinished(w) PROVE RequestInv'
    BY <1>18 DEF HandleFinished
  <1>19. ASSUME NEW m \in hscripts, RunHandshake(m) PROVE RequestInv'
    BY <1>19 DEF RunHandshake
  <1>20. ASSUME NEW m \in hipc, TakeHandshake(m) PROVE RequestInv'
    BY <1>20 DEF TakeHandshake
  <1>21. ASSUME Authorize PROVE RequestInv'
    BY <1>21 DEF Authorize
  <1>22. ASSUME ForgetHandshakes PROVE RequestInv'
    BY <1>22 DEF ForgetHandshakes
  <1>23. ASSUME ForgetAllowed PROVE RequestInv'
    BY <1>23 DEF ForgetAllowed
  <1>24. ASSUME ForgetPending PROVE RequestInv'
    BY <1>24 DEF ForgetPending
  <1>25. ASSUME NEW m \in ipc, HandleResult(m) PROVE RequestInv'
    BY <1>25 DEF HandleResult, ResolveFrom, Accepts, ResultMsg
  <1>26. ASSUME NEW r \in Requests, NEW w \in Windows, StrayCallback(r, w) PROVE RequestInv'
    BY <1>26 DEF StrayCallback, ResolveFrom, Accepts
  <1>27. CASE UNCHANGED vars
    BY <1>27, SMTT(30)
  <1> QED
    BY <1>1, <1>2, <1>3, <1>4, <1>5, <1>6, <1>7, <1>8, <1>9, <1>10, <1>11, <1>12, <1>13, <1>14, <1>15, <1>16, <1>17, <1>18, <1>19, <1>20, <1>21, <1>22, <1>23, <1>24, <1>25, <1>26, <1>27 DEF Next, TaskStep, WebviewStep, HostStep, ForgetStep
\* The initial state satisfies types and the request invariant.
LEMMA RequestInit == Init => TypeOK /\ RequestInv
  <1> SUFFICES ASSUME Init PROVE TypeOK /\ RequestInv
    OBVIOUS
  <1>1. TypeOK
    BY DEF Init, TypeOK, MaybeOrigin, MaybeWindow, Document, PageEvent, NoPage, Handshake,
           NoHandshake, Holder, NoHolder, MainStep, Idle, Outcomes, Results, Answers, Site,
           NoSite, HandshakeMsg, ResultMsg, PCs
  <1>2. RequestInv
    BY DEF Init, RequestInv, TaskInv, ScriptInv, QueuedInv, RanInv, SourceInv,
           RegisteredIsPending, AnsweredOnce
  <1> QED
    BY <1>1, <1>2

\* Types and the request invariant hold in every reachable state.
THEOREM RequestCorrect == Spec => [](TypeOK /\ RequestInv)
  <1>1. TypeOK /\ RequestInv /\ [Next]_vars => (TypeOK /\ RequestInv)'
    BY TypeStep, RequestStep DEF RequestInv
  <1> QED
    BY <1>1, RequestInit, PTL DEF Spec

\* The pending map, the channels, the tasks, the engine's other maps and the
\* webview keep their types.
THEOREM TypeCorrect == Spec => []TypeOK
  BY RequestCorrect, PTL

\* Nothing but its own task takes a registered request out of the map.
THEOREM RegistrationHolds == Spec => []RegisteredIsPending
  <1>1. TypeOK /\ RequestInv => RegisteredIsPending
    BY DEF RequestInv
  <1> QED
    BY <1>1, RequestCorrect, PTL

\* One answer per request, and no entry left behind by a finished one.
THEOREM SingleAnswer == Spec => []AnsweredOnce
  <1>1. TypeOK /\ RequestInv => AnsweredOnce
    BY DEF RequestInv
  <1> QED
    BY <1>1, RequestCorrect, PTL

\* Retrying a refused call cannot execute its script twice.
THEOREM RefusalIsSafeToRetry == Spec => []FailedCallNeverRuns
  <1>1. TypeOK /\ RequestInv => FailedCallNeverRuns
    BY DEF RequestInv, ScriptInv, QueuedInv, RanInv, FailedCallNeverRuns
  <1> QED
    BY <1>1, RequestCorrect, PTL

\* A successful result is that of the request's own script, in its window and
\* its origin.
THEOREM ResultsArePinned == Spec => []OkFromPinnedPage
  <1>1. TypeOK /\ RequestInv => OkFromPinnedPage
    BY DEF RequestInv, ScriptInv, RanInv, SourceInv, OkFromPinnedPage
  <1> QED
    BY <1>1, RequestCorrect, PTL

-----------------------------------------------------------------------------
(* The contract.                                                           *)

\* Every step is a step of the contract or leaves what it sees unchanged.
LEMMA ContractStep ==
  ASSUME TypeOK, RequestInv, [Next]_vars
  PROVE  [Contract!CNext]_(Contract!cvars)
  <1> DEFINE opened == {r \in Requests : pc[r] # "idle"}
             executed == {r \in Requests : ran[r] # NoSite}
  <1> USE DEF TypeOK, RequestInv, TaskInv, ScriptInv, QueuedInv, RanInv, SourceInv, Queued, PCs,
              webview, host, task, vars
  <1>1. ASSUME NEW r \in Requests, NEW w \in Windows, Register(r, w)
        PROVE  Contract!Open(r)
    BY <1>1 DEF Register, Contract!Open
  <1>2. ASSUME NEW r \in Requests, RunPinned(r), doc[target[r]].origin = url[r]
        PROVE  Contract!Execute(r)
    <2>1. ran'[r] # NoSite /\ \A q \in Requests \ {r}: ran'[q] = ran[q]
      <3>1. ran'[r] = [win |-> target[r], gen |-> doc[target[r]].gen, origin |-> doc[target[r]].origin]
        BY <1>2 DEF RunPinned
      <3>3. target[r] # None
        BY <1>2, EvalAssumption DEF RunPinned
      <3>2. \A q \in Requests \ {r}: ran'[q] = ran[q]
        BY <1>2 DEF RunPinned
      <3> QED
        BY <3>1, <3>2, <3>3 DEF NoSite
    <2>2. pc' = pc /\ answer' = answer /\ r \in scripts
      BY <1>2 DEF RunPinned
    <2>3. executed' = executed \cup {r}
      BY <2>1
    <2>4. r \in opened \ executed /\ opened' = opened
      BY <2>2
    <2>5. answer[r] \notin {"notReady", "evalFailed"}
      BY <2>2
    <2> HIDE DEF TypeOK, RequestInv
    <2> QED
      BY <2>2, <2>3, <2>4, <2>5 DEF Contract!Execute, Contract!NotRunAnswers
  <1>3. ASSUME NEW r \in Requests, ReportFailure(r)
        PROVE  \E a \in {"notReady", "evalFailed"}: Contract!AnswerWith(r, a)
    BY <1>3 DEF ReportFailure, Contract!AnswerWith, Contract!RanAnswers, Contract!NotRunAnswers
  <1>4. ASSUME NEW r \in Requests, Receive(r)
        PROVE  \E a \in Outcomes: Contract!AnswerWith(r, a)
    <2>1. chan[r] \in Outcomes
      BY <1>4 DEF Receive
    <2>2. Contract!AnswerWith(r, chan[r])
      BY <1>4, <2>1 DEF Receive, Outcomes, Results, Contract!AnswerWith, Contract!RanAnswers,
                        Contract!NotRunAnswers
    <2> QED
      BY <2>1, <2>2
  <1>5. ASSUME NEW r \in Requests, DropGuard(r)
        PROVE  Contract!AnswerWith(r, "timeout")
    BY <1>5 DEF DropGuard, Contract!AnswerWith, Contract!RanAnswers, Contract!NotRunAnswers
  <1>6. ASSUME pc' = pc \/ \E r \in Requests: pc[r] # "idle" /\ \E p \in PCs \ {"idle"}: pc' = [pc EXCEPT ![r] = p],
               ran' = ran, answer' = answer
        PROVE  UNCHANGED Contract!cvars
    BY <1>6 DEF Contract!cvars
  <1>7. ASSUME NEW r \in Requests,
               \/ ReadUrl(r) \/ CheckOrigin(r) \/ BindSource(r)
               \/ PendingNonce(r) \/ QueueEval(r) \/ Timeout(r)
        PROVE  UNCHANGED Contract!cvars
    <2>1. ran' = ran /\ answer' = answer
      BY <1>7 DEF ReadUrl, CheckOrigin, BindSource, PendingNonce, QueueEval, Timeout
    <2>2. pc[r] # "idle" /\ \E p \in PCs \ {"idle"}: pc' = [pc EXCEPT ![r] = p]
      BY <1>7 DEF ReadUrl, CheckOrigin, BindSource, PendingNonce, QueueEval, Timeout
    <2> QED
      BY <1>6, <2>1, <2>2
  <1>8. ASSUME \/ \E w \in Windows, o \in Origins: Navigate(w, o)
               \/ \E w \in Windows: FinishLoad(w) \/ Destroy(w) \/ Create(w)
               \/ \E r \in Requests: Settle(r)
               \/ \E r \in Requests: RunPinned(r) /\ doc[target[r]].origin # url[r]
               \/ \E m \in hscripts: RunHandshake(m)
               \/ HostStep
        PROVE  UNCHANGED Contract!cvars
    <2>1. ran' = ran /\ answer' = answer /\ pc' = pc
      BY <1>8 DEF Navigate, FinishLoad, Destroy, Create, Settle, RunPinned, RunHandshake, HostStep,
                  HandleRevoke, HandleFinished, ForgetStep, ForgetHandshakes, ForgetAllowed,
                  ForgetPending, TakeHandshake, Authorize, HandleResult, StrayCallback
    <2> HIDE DEF TypeOK, RequestInv
    <2> QED
      BY <1>6, <2>1
  <1>9. CASE UNCHANGED vars
    <2> HIDE DEF TypeOK, RequestInv
    <2> QED
      BY <1>6, <1>9
  <1> QED
    BY <1>1, <1>2, <1>3, <1>4, <1>5, <1>7, <1>8, <1>9
       DEF Next, TaskStep, WebviewStep, Contract!CNext, Contract!RanAnswers,
           Contract!NotRunAnswers, Contract!OpenAnswers, Outcomes, Results

\* The engine implements EvalContract: scripts run at most once and answers
\* agree with what was run.
THEOREM ContractHolds == Spec => ImplementsContract
  <1>1. Init => Contract!CInit
    BY DEF Init, Contract!CInit
  <1> QED
    BY <1>1, ContractStep, RequestCorrect, PTL DEF Spec, ImplementsContract, Contract!CSpec
-----------------------------------------------------------------------------
(* Authorization.                                                          *)

Loaded(w, o) == page[w].kind = "finished" /\ page[w].origin = o

\* The event before the i-th of those waiting for the host.
Before(w, i) == IF i = 1 THEN page[w] ELSE events[w][i - 1]

\* The load of a document finishes after it has started, and only once.
WaitingInv(w) ==
  /\ \A i \in 1 .. Len(events[w]):
       events[w][i].kind = "finished" => /\ Before(w, i).kind = "started"
                                         /\ events[w][i].origin # None
  /\ ~doc[w].loaded => /\ Before(w, Len(events[w]) + 1).kind = "started"
                       /\ doc[w].origin # None

EventInv == \A w \in Windows: WaitingInv(w)

\* A handshake is open only for the page that has finished loading, until the
\* revocation reaches the handshake map; so is the callback completing it.
HandshakeInv ==
  /\ \A w \in Windows: handshakes[w].origin # None =>
       \/ Loaded(w, handshakes[w].origin)
       \/ main.win = w /\ main.step = "handshakes"
  /\ holding # NoHolder =>
       /\ holding.win \in Windows
       /\ \/ Loaded(holding.win, holding.origin)
          \/ main.win = holding.win /\ main.step = "handshakes"
  /\ \A m \in hscripts \cup hipc: m.origin # None

AuthInv == EventInv /\ HandshakeInv /\ AuthorizedOnlyWhileLoaded

\* Every step keeps the authorization invariant.
LEMMA AuthStep ==
  ASSUME TypeOK, AuthInv, [Next]_vars
  PROVE  AuthInv'
  <1> USE EvalAssumption DEF AuthInv, webview, host, task, vars
  <1>1. ASSUME UNCHANGED <<doc, events, page>> PROVE EventInv'
    BY <1>1 DEF EventInv, WaitingInv, Before
  <1>2. ASSUME UNCHANGED <<page, main, handshakes, allowed, holding, hscripts>>,
               hipc' \subseteq hipc \cup hscripts
        PROVE  HandshakeInv' /\ AuthorizedOnlyWhileLoaded'
    BY <1>2 DEF HandshakeInv, AuthorizedOnlyWhileLoaded, Loaded
  <1>3. ASSUME NEW r \in Requests,
               \/ \E w \in Windows: Register(r, w) \/ StrayCallback(r, w)
               \/ TaskStep(r) \/ RunPinned(r) \/ Settle(r)
        PROVE  AuthInv'
    <2>1. UNCHANGED <<doc, events, page, main, handshakes, allowed, holding, hscripts, hipc>>
      BY <1>3 DEF Register, StrayCallback, TaskStep, ReadUrl, CheckOrigin, BindSource, PendingNonce,
                  QueueEval, ReportFailure, Receive, Timeout, DropGuard, RunPinned, Settle
    <2> QED
      BY <1>1, <1>2, <2>1
  <1>4. ASSUME NEW m \in ipc, HandleResult(m) PROVE AuthInv'
    BY <1>1, <1>2, <1>4 DEF HandleResult
  <1>5. ASSUME NEW w \in Windows,
               NEW e \in PageEvent, events' = [events EXCEPT ![w] = Append(@, e)],
               page' = page,
               e.kind = "finished" => Before(w, Len(events[w]) + 1).kind = "started" /\ e.origin # None,
               \A v \in Windows \ {w}: doc'[v] = doc[v],
               ~doc'[w].loaded => e.kind = "started" /\ doc'[w].origin # None
        PROVE  EventInv'
    <2>0. PICK n \in Nat: n = Len(events[w])
      BY DEF TypeOK
    <2>1. /\ Len(events'[w]) = n + 1
          /\ \A i \in 1 .. n: events'[w][i] = events[w][i]
          /\ events'[w][n + 1] = e
      BY <1>5, <2>0 DEF TypeOK
    <2>2. \A i \in 1 .. n + 1: Before(w, i)' = Before(w, i)
      BY <1>5, <2>0, <2>1 DEF Before
    <2>3. Before(w, n + 2)' = e
      BY <2>1 DEF Before
    <2>4. \A i \in 1 .. n + 1: events'[w][i].kind = "finished" =>
            Before(w, i)'.kind = "started" /\ events'[w][i].origin # None
      BY <1>5, <2>0, <2>1, <2>2 DEF EventInv, WaitingInv
    <2>5. ~doc'[w].loaded => Before(w, n + 2)'.kind = "started" /\ doc'[w].origin # None
      BY <1>5, <2>3
    <2>6. WaitingInv(w)'
      BY <2>1, <2>4, <2>5 DEF WaitingInv
    <2>7. ASSUME NEW v \in Windows \ {w} PROVE WaitingInv(v)'
      <3>1. events'[v] = events[v] /\ page'[v] = page[v] /\ doc'[v] = doc[v]
        BY <1>5, <2>7 DEF TypeOK
      <3> QED
        BY <2>7, <3>1 DEF EventInv, WaitingInv, Before
    <2> QED
      BY <2>6, <2>7 DEF EventInv
  <1>6. ASSUME NEW w \in Windows, events[w] # <<>>, doc' = doc,
               events' = [events EXCEPT ![w] = Tail(@)],
               page' = [page EXCEPT ![w] = Head(events[w])]
        PROVE  EventInv'
    <2>0. PICK n \in Nat: n + 1 = Len(events[w])
      <3>1. Len(events[w]) \in Nat /\ Len(events[w]) # 0
        BY <1>6 DEF TypeOK
      <3>2. \A l \in Nat: l # 0 => l - 1 \in Nat /\ (l - 1) + 1 = l
        OBVIOUS
      <3> QED
        BY <3>1, <3>2
    <2>1. /\ Len(events'[w]) = n
          /\ \A i \in 1 .. n: events'[w][i] = events[w][i + 1]
          /\ page'[w] = events[w][1]
      BY <1>6, <2>0 DEF TypeOK
    <2>2. \A i \in 1 .. n + 1: Before(w, i)' = Before(w, i + 1)
      BY <2>1 DEF Before
    <2>3. ASSUME NEW i \in 1 .. n, events'[w][i].kind = "finished"
          PROVE  Before(w, i)'.kind = "started" /\ events'[w][i].origin # None
      <3>1. i + 1 \in 1 .. Len(events[w])
        BY <2>0
      <3>3. events'[w][i] = events[w][i + 1]
        BY <2>1
      <3>2. Before(w, i)' = Before(w, i + 1)
        BY <2>2
      <3> QED
        BY <2>3, <3>1, <3>2, <3>3 DEF EventInv, WaitingInv
    <2>4. ASSUME ~doc[w].loaded
          PROVE  Before(w, n + 1)'.kind = "started" /\ doc[w].origin # None
      <3>1. Before(w, n + 1)' = Before(w, Len(events[w]) + 1)
        BY <2>0, <2>2
      <3> QED
        BY <2>4, <3>1 DEF EventInv, WaitingInv
    <2>5. WaitingInv(w)'
      BY <1>6, <2>1, <2>3, <2>4 DEF WaitingInv
    <2>6. ASSUME NEW v \in Windows \ {w} PROVE WaitingInv(v)'
      <3>1. events'[v] = events[v] /\ page'[v] = page[v] /\ doc'[v] = doc[v]
        BY <1>6, <2>6 DEF TypeOK
      <3> QED
        BY <2>6, <3>1 DEF EventInv, WaitingInv, Before
    <2> QED
      BY <2>5, <2>6 DEF EventInv
  <1>7. ASSUME NEW w \in Windows, NEW o \in Origins, Navigate(w, o) PROVE AuthInv'
    <2>1. EventInv'
      <3>1. doc'[w].origin # None /\ \A v \in Windows \ {w}: doc'[v] = doc[v]
        BY <1>7 DEF Navigate, TypeOK
      <3>2. [kind |-> "started", gen |-> doc[w].gen + 1, origin |-> o] \in PageEvent
        BY DEF PageEvent, TypeOK, Document, MaybeOrigin
      <3> QED
        BY <1>5, <1>7, <3>1, <3>2 DEF Navigate
    <2> QED
      BY <1>2, <1>7, <2>1 DEF Navigate
  <1>8. ASSUME NEW w \in Windows, FinishLoad(w) PROVE AuthInv'
    <2>1. EventInv'
      <3>1. doc'[w].loaded /\ \A v \in Windows \ {w}: doc'[v] = doc[v]
        BY <1>8 DEF FinishLoad, TypeOK, Document
      <3>2. [kind |-> "finished", gen |-> doc[w].gen, origin |-> doc[w].origin] \in PageEvent
        BY DEF PageEvent, TypeOK, Document, MaybeOrigin
      <3>3. Before(w, Len(events[w]) + 1).kind = "started" /\ doc[w].origin # None
        BY <1>8 DEF FinishLoad, EventInv, WaitingInv
      <3> QED
        BY <1>5, <1>8, <3>1, <3>2, <3>3 DEF FinishLoad
    <2> QED
      BY <1>2, <1>8, <2>1 DEF FinishLoad
  <1>9. ASSUME NEW w \in Windows, Destroy(w) PROVE AuthInv'
    <2>1. EventInv'
      <3>1. doc'[w].loaded /\ \A v \in Windows \ {w}: doc'[v] = doc[v]
        BY <1>9 DEF Destroy, TypeOK
      <3>2. [kind |-> "destroyed", gen |-> doc[w].gen + 1, origin |-> None] \in PageEvent
        BY DEF PageEvent, TypeOK, Document, MaybeOrigin
      <3> QED
        BY <1>5, <1>9, <3>1, <3>2 DEF Destroy
    <2> QED
      BY <1>9, <2>1 DEF Destroy, HandshakeInv, AuthorizedOnlyWhileLoaded, Loaded
  <1>10. ASSUME NEW w \in Windows, Create(w) PROVE AuthInv'
    <2>1. EventInv'
      BY <1>10 DEF Create, EventInv, WaitingInv, Before, TypeOK
    <2> QED
      BY <1>2, <1>10, <2>1 DEF Create
  <1>11. ASSUME NEW m \in hscripts, RunHandshake(m) PROVE AuthInv'
    BY <1>1, <1>11 DEF RunHandshake, HandshakeInv, AuthorizedOnlyWhileLoaded, Loaded
  <1>12. ASSUME NEW w \in Windows, HandleRevoke(w) PROVE AuthInv'
    <2>1. EventInv'
      BY <1>6, <1>12 DEF HandleRevoke
    <2>2. \A v \in Windows \ {w}: page'[v] = page[v]
      BY <1>12 DEF HandleRevoke, TypeOK
    <2>3. main.step = "idle" /\ main' = [step |-> "handshakes", win |-> w]
      BY <1>12 DEF HandleRevoke
    <2> QED
      BY <1>12, <2>1, <2>2, <2>3
         DEF HandleRevoke, HandshakeInv, AuthorizedOnlyWhileLoaded, Loaded
  <1>13. ASSUME NEW w \in Windows, HandleFinished(w) PROVE AuthInv'
    <2> DEFINE e == Head(events[w])
    <2>1. EventInv'
      BY <1>6, <1>13 DEF HandleFinished
    <2>2. e = events[w][1] /\ 1 \in 1 .. Len(events[w])
      BY <1>13 DEF HandleFinished, TypeOK
    <2>3. page[w].kind = "started" /\ e.kind = "finished" /\ e.origin # None
      BY <1>13, <2>2 DEF HandleFinished, EventInv, WaitingInv, Before
    <2>4. page'[w] = e /\ \A v \in Windows \ {w}: page'[v] = page[v]
      BY <1>13 DEF HandleFinished, TypeOK
    <2>5. handshakes'[w].origin = e.origin
          /\ \A v \in Windows \ {w}: handshakes'[v] = handshakes[v]
      BY <1>13 DEF HandleFinished, TypeOK
    <2>6. main' = main /\ main.step = "idle" /\ holding' = NoHolder /\ allowed' = allowed
      BY <1>13 DEF HandleFinished
    <2>7. allowed[w] = None
      BY <2>3, <2>6 DEF AuthorizedOnlyWhileLoaded
    <2>8. hipc' = hipc /\ \A m \in hscripts': m \in hscripts \/ m.origin = e.origin
      BY <1>13 DEF HandleFinished
    <2>9. HandshakeInv'
      BY <2>3, <2>4, <2>5, <2>6, <2>8 DEF HandshakeInv, Loaded
    <2> QED
      BY <2>1, <2>4, <2>6, <2>7, <2>9 DEF AuthorizedOnlyWhileLoaded
  <1>14. ASSUME NEW m \in hipc, TakeHandshake(m) PROVE AuthInv'
    <2>1. EventInv'
      BY <1>1, <1>14 DEF TakeHandshake
    <2>2. m.origin # None /\ m.win \in Windows
      BY DEF HandshakeInv, TypeOK, HandshakeMsg
    <2>3. UNCHANGED <<page, main, allowed, hscripts>> /\ hipc' \subseteq hipc
      BY <1>14 DEF TakeHandshake
    <2>4. CASE UNCHANGED <<handshakes, holding>>
      BY <2>1, <2>3, <2>4 DEF HandshakeInv, AuthorizedOnlyWhileLoaded, Loaded
    <2>5. CASE /\ handshakes[m.win].origin = m.origin
               /\ handshakes' = [handshakes EXCEPT ![m.win] = NoHandshake]
               /\ holding' = [win |-> m.win, origin |-> m.origin]
      <3>1. handshakes'[m.win].origin = None
            /\ \A v \in Windows \ {m.win}: handshakes'[v] = handshakes[v]
        BY <2>2, <2>5 DEF TypeOK, NoHandshake
      <3> QED
        BY <2>1, <2>2, <2>3, <2>5, <3>1 DEF HandshakeInv, AuthorizedOnlyWhileLoaded, Loaded
    <2> QED
      BY <1>14, <2>4, <2>5 DEF TakeHandshake
  <1>15. ASSUME Authorize PROVE AuthInv'
    <2>1. EventInv'
      BY <1>1, <1>15 DEF Authorize
    <2>2. holding.win \in Windows
      BY <1>15 DEF Authorize, HandshakeInv
    <2>3. allowed'[holding.win] = holding.origin
          /\ \A v \in Windows \ {holding.win}: allowed'[v] = allowed[v]
      BY <1>15, <2>2 DEF Authorize, TypeOK
    <2> QED
      BY <1>15, <2>1, <2>2, <2>3
         DEF Authorize, HandshakeInv, AuthorizedOnlyWhileLoaded, Loaded
  <1>16. ASSUME ForgetHandshakes PROVE AuthInv'
    <2>1. EventInv'
      BY <1>1, <1>16 DEF ForgetHandshakes
    <2>2. \A v \in Windows: v = main.win => handshakes'[v].origin = None
      BY <1>16 DEF ForgetHandshakes, TypeOK, NoHandshake
    <2>3. \A v \in Windows: v # main.win => handshakes'[v] = handshakes[v]
      BY <1>16 DEF ForgetHandshakes, TypeOK
    <2>4. main'.win = main.win /\ main'.step = "allowed" /\ main.step = "handshakes"
      BY <1>16 DEF ForgetHandshakes, TypeOK, MainStep
    <2> QED
      BY <1>16, <2>1, <2>2, <2>3, <2>4
         DEF ForgetHandshakes, HandshakeInv, AuthorizedOnlyWhileLoaded, Loaded
  <1>17. ASSUME ForgetAllowed PROVE AuthInv'
    <2>1. EventInv'
      BY <1>1, <1>17 DEF ForgetAllowed
    <2>2. \A v \in Windows: allowed'[v] = IF v = main.win THEN None ELSE allowed[v]
      BY <1>17 DEF ForgetAllowed, TypeOK
    <2>3. main'.win = main.win /\ main'.step = "pending" /\ main.step = "allowed"
      BY <1>17 DEF ForgetAllowed, TypeOK, MainStep
    <2> QED
      BY <1>17, <2>1, <2>2, <2>3
         DEF ForgetAllowed, HandshakeInv, AuthorizedOnlyWhileLoaded, Loaded
  <1>18. ASSUME ForgetPending PROVE AuthInv'
    BY <1>1, <1>18 DEF ForgetPending, HandshakeInv, AuthorizedOnlyWhileLoaded, Loaded
  <1>19. CASE UNCHANGED vars
    BY <1>1, <1>2, <1>19
  <1> QED
    BY <1>3, <1>4, <1>7, <1>8, <1>9, <1>10, <1>11, <1>12, <1>13, <1>14, <1>15, <1>16, <1>17,
       <1>18, <1>19 DEF Next, WebviewStep, HostStep, ForgetStep

\* A window is authorized only while the page it was authorized for is loaded,
\* although revocation, page loads and callbacks interleave lock by lock.
THEOREM AuthorizationIsFresh == Spec => []AuthorizedOnlyWhileLoaded
  <1>1. Init => AuthInv
    BY DEF Init, AuthInv, EventInv, WaitingInv, HandshakeInv, AuthorizedOnlyWhileLoaded, NoHandshake,
           NoHolder
  <1>2. TypeOK /\ AuthInv /\ [Next]_vars => AuthInv'
    BY AuthStep
  <1>3. AuthInv => AuthorizedOnlyWhileLoaded
    BY DEF AuthInv
  <1> QED
    BY <1>1, <1>2, <1>3, TypeCorrect, PTL DEF Spec
=============================================================================
