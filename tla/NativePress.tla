----------------------------- MODULE NativePress -----------------------------
(***************************************************************************)
(* The press method on macOS: handle_press (handler.rs), the injection     *)
(* runner on the main thread (macos_keyboard.rs, key.rs) and the bridge's  *)
(* passive keyboard observers (bridge.js).                                 *)
(*                                                                         *)
(* One lock serializes presses from focus to completion. The injection is  *)
(* a closure on the application's main thread that a waiting thread may    *)
(* give up at its deadline; three outcomes of an atomic state decide       *)
(* whether the caller may be told that nothing was injected. The posted    *)
(* events come back twice: to an AppKit monitor and, later, to the page,   *)
(* where WebKit keeps keydowns in order and keyups in order but may        *)
(* deliver a keyup before its keydown.                                     *)
(***************************************************************************)
EXTENDS Naturals, Sequences

CONSTANTS Count,      \* press requests
          Plans,      \* what the requests may be, one for each press
          Windows,    \* webview labels, each with a native window
          None,       \* no window, no press
          MaxMeddling \* bound on what the user and the pages do of their own accord

\* Presses are numbered in the order in which they came to the lock.
Presses == 1 .. Count

\* Has the combo a modifier, and is completion "webview"?
Request == [win: Windows, shifted: BOOLEAN, webview: BOOLEAN]

ASSUME PressAssumption == /\ Count \in Nat
                          /\ Plans \subseteq [Presses -> Request]
                          /\ None \notin Presses \cup Windows
                          /\ MaxMeddling \in Nat

VARIABLES request,    \* what each press asks for
          pc,         \* where each press is
          answer,     \* ok, or the `injected` of the error
          state,      \* the atomic state of each injection
          main,       \* closures queued to the main thread
          running,    \* the injection the main thread is inside of
          monitors,   \* AppKit monitors installed, by marker
          sent,       \* the first message sent to each waiting thread
          got,        \* what that thread has made of it
          posted,     \* how much of each combo was posted
          focused,    \* the key window, None if another application has it
          held,       \* a modifier remains down
          os,         \* posted events not dispatched yet
          down,       \* keydowns on their way to each page, in order
          up,         \* keyups on their way to each page, in order
          obs,        \* the observer of each press in its page
          strayed,    \* presses whose events reached another window or page
          meddled     \* times the focus was moved or a page replaced

thread == <<state, main, running, monitors, sent, got>>
keys   == <<posted, held, os, down, up>>
page   == <<obs, strayed, meddled>>
vars   == <<request, pc, answer, thread, focused, keys, page>>

Codes == {"shift", "key"}
Event == [by: Presses, dir: {"down", "up"}, code: Codes, flags: BOOLEAN]
Closure  == [kind: {"inject", "cleanup"}, by: Presses]
Answers == {"none", "false", "unknown", "true", "ok"}
Observer == [state: {"none", "armed", "acked"},
             pressed: SUBSET Codes, released: SUBSET Codes]
NoObserver == [state |-> "none", pressed |-> {}, released |-> {}]
PCs == {"queued", "focus", "prepare", "submit", "waiting", "cancel",
        "observe", "post", "done"}

Init ==
  /\ request \in Plans
  /\ pc = [p \in Presses |-> "queued"]
  /\ answer = [p \in Presses |-> "none"]
  /\ state = [p \in Presses |-> "pending"]
  /\ main = <<>>
  /\ running = None
  /\ monitors = {}
  /\ sent = [p \in Presses |-> "none"]
  /\ got = [p \in Presses |-> "none"]
  /\ posted = [p \in Presses |-> "nothing"]
  /\ focused = None
  /\ held = FALSE
  /\ os = <<>>
  /\ down = [w \in Windows |-> <<>>]
  /\ up = [w \in Windows |-> <<>>]
  /\ obs = [p \in Presses |-> NoObserver]
  /\ strayed = {}
  /\ meddled = 0

-----------------------------------------------------------------------------
(* handle_press.                                                           *)

\* PRESS_ORDER_LOCK is fair, and held from focus to the answer.
Lock(p) ==
  /\ pc[p] = "queued"
  /\ \A q \in 1 .. (p - 1): pc[q] = "done"
  /\ pc' = [pc EXCEPT ![p] = "focus"]
  /\ UNCHANGED <<request, answer, thread, focused, keys, page>>

\* The press answers, and gives the lock up as it returns.
Finish(p, outcome) ==
  /\ pc' = [pc EXCEPT ![p] = "done"]
  /\ answer' = [answer EXCEPT ![p] = outcome]

Goto(p, next) ==
  /\ pc' = [pc EXCEPT ![p] = next]
  /\ UNCHANGED answer

\* The window is made key and its webview first responder, or focus fails.
Focus(p) ==
  /\ pc[p] = "focus"
  /\ \/ /\ focused' = request[p].win
        /\ Goto(p, IF request[p].webview THEN "prepare" ELSE "submit")
     \/ /\ focused' \in {focused, request[p].win}
        /\ Finish(p, "false")
  /\ UNCHANGED <<request, thread, keys, page>>

\* _preparePress registers an observer in the current page. If the eval fails
\* its script may run all the same.
Prepare(p) ==
  /\ pc[p] = "prepare"
  /\ \/ /\ obs' = [obs EXCEPT ![p].state = "armed"]
        /\ Goto(p, "submit")
     \/ /\ \E s \in {"none", "armed"}: obs' = [obs EXCEPT ![p].state = s]
        /\ Finish(p, "false")
  /\ UNCHANGED <<request, thread, focused, keys, strayed, meddled>>

\* _cancelPress is sent and forgotten; an observer it misses expires.
Dismissed(p) == {obs, [obs EXCEPT ![p] = NoObserver]}

\* The injection is queued to the main thread, unless its loop is gone.
Submit(p) ==
  /\ pc[p] = "submit"
  /\ \/ /\ main' = Append(main, [kind |-> "inject", by |-> p])
        /\ Goto(p, "waiting")
        /\ UNCHANGED obs
     \/ /\ Finish(p, "false")
        /\ obs' \in Dismissed(p)
        /\ UNCHANGED main
  /\ UNCHANGED <<request, state, running, monitors, sent, got, focused, keys, strayed, meddled>>

\* Mutant: the thread waits for a message as long as it takes.
ReceiveOnly(p) == {sent[p]} \ {"none"}
\* recv_timeout: a message that is there, or the deadline.
Received(p) == IF sent[p] = "none" THEN {"timeout"} ELSE {sent[p]}

\* Mutant: the monitor is removed only when it has been heard of.
CleanupHeard(p) == IF sent[p] = "none" THEN main ELSE Append(main, [kind |-> "cleanup", by |-> p])
\* The removal of the monitor is queued behind everything else.
Cleanup(p) == Append(main, [kind |-> "cleanup", by |-> p])

GiveUp(p) ==
  /\ pc[p] = "waiting"
  /\ \E r \in Received(p): got' = [got EXCEPT ![p] = r]
  /\ sent' = [sent EXCEPT ![p] = "none"]
  /\ main' = Cleanup(p)
  /\ Goto(p, "cancel")
  /\ UNCHANGED <<request, state, running, monitors, focused, keys, page>>

\* Mutant: the state is looked at, and left as it is.
LookAtState(p) == state
\* compare_exchange(0, 2): an injection that has not started never will.
CancelPending(p) == [state EXCEPT ![p] = IF @ = "pending" THEN "cancelled" ELSE @]

Cancel(p) ==
  /\ pc[p] = "cancel"
  /\ state' = CancelPending(p)
  /\ IF got[p] = "ok"
     THEN /\ Goto(p, IF request[p].webview THEN "observe" ELSE "post")
          /\ UNCHANGED obs
     ELSE /\ Finish(p, IF state[p] = "pending" THEN "false" ELSE "unknown")
          /\ obs' \in Dismissed(p)
  /\ got' = [got EXCEPT ![p] = "none"]
  /\ UNCHANGED <<request, main, running, monitors, sent, focused, keys, strayed, meddled>>

\* _waitPress: the acknowledgement, or any failure of it or of its eval.
WaitPress(p) ==
  /\ pc[p] = "observe"
  /\ \/ obs[p].state = "acked" /\ Goto(p, "post")
     \/ Finish(p, "true")
  /\ obs' \in Dismissed(p)
  /\ UNCHANGED <<request, thread, focused, keys, strayed, meddled>>

\* waitFor, if there is one, is awaited under the same lock.
Postcondition(p) ==
  /\ pc[p] = "post"
  /\ \E outcome \in {"ok", "true"}: Finish(p, outcome)
  /\ UNCHANGED <<request, thread, focused, keys, page>>

-----------------------------------------------------------------------------
(* The main thread.                                                        *)

\* Only the first message to a thread that still waits is ever read.
Send(p, message) ==
  [sent EXCEPT ![p] = IF @ = "none" /\ pc[p] = "waiting" THEN message ELSE @]

\* Mutant: every injection is monitored.
MonitorAll(p) == monitors \cup {p}
\* Only a delivery to be confirmed is.
Monitored(p) == IF request[p].webview THEN monitors \cup {p} ELSE monitors

\* check_dispatch: the deadline (which may be over), focus and modifiers.
\* Then, for a confirmed delivery, the monitor is installed.
StartInjection ==
  /\ running = None
  /\ main # <<>>
  /\ Head(main).kind = "inject"
  /\ main' = Tail(main)
  /\ LET p == Head(main).by IN
       \/ /\ sent' = Send(p, "err")
          /\ UNCHANGED <<running, monitors>>
       \/ /\ focused = request[p].win
          /\ ~held
          /\ running' = p
          /\ monitors' = Monitored(p)
          /\ UNCHANGED sent
  /\ UNCHANGED <<request, pc, answer, state, got, focused, keys, page>>

ShiftDown(p) == [by |-> p, dir |-> "down", code |-> "shift", flags |-> TRUE]
KeyDown(p)   == [by |-> p, dir |-> "down", code |-> "key", flags |-> request[p].shifted]
KeyUp(p)     == [by |-> p, dir |-> "up", code |-> "key", flags |-> request[p].shifted]
ShiftUp(p)   == [by |-> p, dir |-> "up", code |-> "shift", flags |-> FALSE]

\* What simulate_press posts: modifier, key, and the modifier up again.
Combo(p) == IF request[p].shifted
            THEN <<ShiftDown(p), KeyDown(p), KeyUp(p), ShiftUp(p)>>
            ELSE <<KeyDown(p), KeyUp(p)>>

\* The tap fails, or the release of the modifier, or both.
Broken(p) == IF request[p].shifted
             THEN {<<>>, <<ShiftDown(p), ShiftUp(p)>>, <<ShiftDown(p)>>,
                   <<ShiftDown(p), KeyDown(p), KeyUp(p)>>}
             ELSE {<<>>}

\* The modifier went down, and its release was not posted.
Stuck(s) == /\ \E i \in 1 .. Len(s): s[i].code = "shift" /\ s[i].dir = "down"
            /\ ~ \E i \in 1 .. Len(s): s[i].code = "shift" /\ s[i].dir = "up"

\* compare_exchange(0, 1) and simulate_press. Only an error, or a delivery that
\* need not be confirmed, is reported at once.
Inject ==
  /\ running # None
  /\ running' = None
  /\ LET p == running IN
       \/ /\ state[p] # "pending"
          /\ monitors' = monitors \ {p}
          /\ sent' = Send(p, "err")
          /\ UNCHANGED <<state, keys>>
       \/ /\ state[p] = "pending"
          /\ state' = [state EXCEPT ![p] = "started"]
          /\ \/ /\ os' = os \o Combo(p)
                /\ posted' = [posted EXCEPT ![p] = "all"]
                /\ sent' = IF request[p].webview THEN sent ELSE Send(p, "ok")
                /\ UNCHANGED <<monitors, held>>
             \/ \E s \in Broken(p):
                /\ os' = os \o s
                /\ posted' = [posted EXCEPT ![p] = IF s = <<>> THEN "nothing" ELSE "part"]
                /\ held' = Stuck(s)
                /\ monitors' = monitors \ {p}
                /\ sent' = Send(p, "err")
          /\ UNCHANGED <<down, up>>
  /\ UNCHANGED <<request, pc, answer, main, got, focused, page>>

RemoveMonitor ==
  /\ running = None
  /\ main # <<>>
  /\ Head(main).kind = "cleanup"
  /\ main' = Tail(main)
  /\ monitors' = monitors \ {Head(main).by}
  /\ UNCHANGED <<request, pc, answer, state, running, sent, got, focused, keys, page>>

\* Mutant: a keyup is enough, whether or not modifiers are still down.
AnyKeyUp(e) == e.by \in monitors /\ e.dir = "up"
\* The monitor listens for keyups and modifier changes, and waits for one that
\* leaves no modifier down.
EndsCombo(e) == e.by \in monitors /\ (e.dir = "up" \/ e.code = "shift") /\ ~e.flags

\* AppKit dispatches the next event to the key window: monitors first, then the
\* page. An event for another application is not seen at all.
Dispatch ==
  /\ running = None
  /\ os # <<>>
  /\ os' = Tail(os)
  /\ LET e == Head(os) IN
       /\ IF focused = None
          THEN UNCHANGED <<down, up>>
          ELSE IF e.dir = "down"
          THEN down' = [down EXCEPT ![focused] = Append(@, e.code)] /\ UNCHANGED up
          ELSE up' = [up EXCEPT ![focused] = Append(@, e.code)] /\ UNCHANGED down
       /\ sent' = IF focused # None /\ EndsCombo(e)
                  THEN Send(e.by, IF focused = request[e.by].win THEN "ok" ELSE "err")
                  ELSE sent
       /\ strayed' = IF focused = request[e.by].win THEN strayed ELSE strayed \cup {e.by}
  /\ UNCHANGED <<request, pc, answer, state, main, running, monitors, got,
                 focused, posted, held, obs, meddled>>

-----------------------------------------------------------------------------
(* The page.                                                               *)

\* Mutant: modifiers are left out of account.
MainKeyPair(pressed, released) == "key" \in pressed /\ "key" \in released
\* Both halves of every pair have been seen, and that of a main key.
Complete(pressed, released) == "key" \in pressed /\ pressed = released

Seen(o, pressed, released) ==
  IF Complete(pressed, released)
  THEN [NoObserver EXCEPT !.state = "acked"]
  ELSE [o EXCEPT !.pressed = pressed, !.released = released]

DeliverDown(w) ==
  /\ down[w] # <<>>
  /\ down' = [down EXCEPT ![w] = Tail(@)]
  /\ obs' = [p \in Presses |->
               IF request[p].win = w /\ obs[p].state = "armed"
               THEN Seen(obs[p], obs[p].pressed \cup {Head(down[w])}, obs[p].released)
               ELSE obs[p]]
  /\ UNCHANGED <<request, pc, answer, thread, focused, posted, held, os, up, strayed, meddled>>

DeliverUp(w) ==
  /\ up[w] # <<>>
  /\ up' = [up EXCEPT ![w] = Tail(@)]
  /\ obs' = [p \in Presses |->
               IF request[p].win = w /\ obs[p].state = "armed"
               THEN Seen(obs[p], obs[p].pressed, obs[p].released \cup {Head(up[w])})
               ELSE obs[p]]
  /\ UNCHANGED <<request, pc, answer, thread, focused, posted, held, os, down, strayed, meddled>>

\* The observer's timer forgets it, acknowledged or not.
Expire(p) ==
  /\ obs[p].state # "none"
  /\ obs' = [obs EXCEPT ![p] = NoObserver]
  /\ UNCHANGED <<request, pc, answer, thread, focused, keys, strayed, meddled>>

\* Another document takes the observers with it.
Navigate(w) ==
  /\ meddled < MaxMeddling
  /\ meddled' = meddled + 1
  /\ \E p \in Presses: request[p].win = w /\ obs[p].state # "none"
  /\ obs' = [p \in Presses |-> IF request[p].win = w THEN NoObserver ELSE obs[p]]
  /\ strayed' = strayed \cup {p \in Presses : request[p].win = w /\ obs[p].state # "none"}
  /\ UNCHANGED <<request, pc, answer, thread, focused, keys>>

-----------------------------------------------------------------------------
(* The user: another window gets the keyboard, a stuck modifier is let go. *)

MoveFocus ==
  /\ meddled < MaxMeddling
  /\ meddled' = meddled + 1
  /\ focused' \in (Windows \cup {None}) \ {focused}
  /\ UNCHANGED <<request, pc, answer, thread, keys, obs, strayed>>

LetGo ==
  /\ held
  /\ held' = FALSE
  /\ up' = IF focused = None THEN up ELSE [up EXCEPT ![focused] = Append(@, "shift")]
  /\ UNCHANGED <<request, pc, answer, thread, focused, posted, os, down, page>>

-----------------------------------------------------------------------------
PressStep(p) == \/ Lock(p) \/ Focus(p) \/ Prepare(p) \/ Submit(p)
                \/ GiveUp(p) \/ Cancel(p) \/ WaitPress(p) \/ Postcondition(p)
MainStep == StartInjection \/ Inject \/ RemoveMonitor

Next ==
  \/ \E p \in Presses: PressStep(p) \/ Expire(p)
  \/ MainStep \/ Dispatch
  \/ \E w \in Windows: DeliverDown(w) \/ DeliverUp(w) \/ Navigate(w)
  \/ MoveFocus \/ LetGo

Spec == Init /\ [][Next]_vars

-----------------------------------------------------------------------------
(* Properties.                                                             *)

TypeOK ==
  /\ request \in Plans
  /\ pc \in [Presses -> PCs]
  /\ answer \in [Presses -> Answers]
  /\ state \in [Presses -> {"pending", "started", "cancelled"}]
  /\ main \in Seq(Closure)
  /\ running \in Presses \cup {None}
  /\ monitors \subseteq {p \in Presses : request[p].webview}
  /\ sent \in [Presses -> {"none", "ok", "err"}]
  /\ got \in [Presses -> {"none", "ok", "err", "timeout"}]
  /\ posted \in [Presses -> {"nothing", "part", "all"}]
  /\ focused \in Windows \cup {None}
  /\ held \in BOOLEAN
  /\ os \in Seq(Event)
  /\ down \in [Windows -> Seq(Codes)]
  /\ up \in [Windows -> Seq(Codes)]
  /\ obs \in [Presses -> Observer]
  /\ strayed \subseteq Presses
  /\ meddled \in 0 .. MaxMeddling

\* `injected` in an answer is the truth, now and later: after false nothing of
\* the combo has been or will be posted, and true means that all of it was.
\* Clients rely on it when they decide whether to repeat a key.
InjectedIsTrue ==
  \A p \in Presses:
    /\ answer[p] = "false" => posted[p] = "nothing"
    /\ answer[p] \in {"true", "ok"} => posted[p] = "all"

\* A monitor is not left behind, whichever of the deadline and the main thread
\* was first.
NoMonitorLeft ==
  \A p \in monitors: \/ pc[p] = "waiting"
                     \/ running = p
                     \/ \E i \in 1 .. Len(main) : main[i] = [kind |-> "cleanup", by |-> p]

Undisturbed(p) == answer[p] = "ok" /\ request[p].webview /\ p \notin strayed

\* The next press finds the keyboard quiet if every press before it was
\* acknowledged by its page and nothing drew its events away: no event is on
\* its way any more, so switching windows cannot misdirect one.
NextStartsQuiet ==
  \A p \in Presses:
    pc[p] = "focus" /\ (\A q \in Presses: pc[q] = "done" => Undisturbed(q)) =>
      os = <<>> /\ \A w \in Windows: down[w] = <<>> /\ up[w] = <<>>

\* The lock always passes on: while a press has not been answered, a press or
\* the main thread has a step to take, even if the key never comes back. (Every
\* such step brings its press forward, so all of them are answered.)
NobodyHoldsTheLock ==
  (\E p \in Presses: pc[p] # "done") => ENABLED (MainStep \/ \E p \in Presses: PressStep(p))
=============================================================================
