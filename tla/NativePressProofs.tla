-------------------------- MODULE NativePressProofs --------------------------
(***************************************************************************)
(* Theorems of NativePress, for any number of presses, any requests, any   *)
(* windows and any amount of meddling.                                     *)
(***************************************************************************)
EXTENDS NativePress, SequenceTheorems, TLAPS

\* The injection of a press is queued to the main thread.
InQueue(p) == \E i \in 1 .. Len(main): main[i].kind = "inject" /\ main[i].by = p

\* The cleanup of a press is queued behind position i.
CleanupAfter(i, p) ==
  \E j \in 1 .. Len(main): j > i /\ main[j].kind = "cleanup" /\ main[j].by = p

\* A press that has not submitted its injection has none anywhere; an answer is
\* the last thing a press gives.
PlaceInv ==
  \A p \in Presses:
    /\ pc[p] \in {"queued", "focus", "prepare", "submit"} =>
         state[p] = "pending" /\ ~InQueue(p) /\ running # p
    /\ answer[p] # "none" => pc[p] = "done"

\* An injection is queued at most once, and no more once it is running or over.
OnceInv ==
  /\ \A i, j \in 1 .. Len(main):
       /\ main[i].kind = "inject" /\ main[j].kind = "inject"
       /\ main[i].by = main[j].by
       => i = j
  /\ \A i \in 1 .. Len(main): main[i].kind = "inject" =>
       main[i].by # running /\ state[main[i].by] # "started"
  /\ running # None => state[running] # "started"

\* Whatever was posted was posted by an injection that won the exchange, and a
\* monitor that outlives its injection is that of a complete combo.
PostedInv ==
  /\ \A p \in Presses: posted[p] # "nothing" => state[p] = "started"
  /\ \A i \in 1 .. Len(os): state[os[i].by] = "started"
  /\ \A p \in monitors: state[p] = "started" => posted[p] = "all"

\* Good news comes from a complete combo only.
MessageInv ==
  \A p \in Presses:
    sent[p] = "ok" \/ got[p] = "ok" \/ pc[p] \in {"observe", "post"} => posted[p] = "all"

\* A press that was told that nothing was injected has lost its injection.
RefusedInv ==
  \A p \in Presses: answer[p] = "false" =>
    state[p] = "cancelled" \/ (~InQueue(p) /\ running # p)

InjectionInv == PlaceInv /\ OnceInv /\ PostedInv /\ MessageInv /\ RefusedInv /\ InjectedIsTrue

\* A cleanup follows every injection whose thread no longer waits, whether the
\* injection is queued, running or over with its monitor left.
CleanupInv ==
  /\ \A i \in 1 .. Len(main): main[i].kind = "inject" =>
       pc[main[i].by] = "waiting" \/ CleanupAfter(i, main[i].by)
  /\ running # None => pc[running] = "waiting" \/ CleanupAfter(0, running)
  /\ \A p \in monitors: pc[p] = "waiting" \/ running = p \/ CleanupAfter(0, p)

-----------------------------------------------------------------------------
(* Type correctness.                                                       *)

\* What a combo posts is a sequence of events of its press.
LEMMA ComboType ==
  ASSUME NEW p \in Presses, request \in Plans,
         NEW s \in Broken(p) \cup {Combo(p)}
  PROVE  /\ s \in Seq(Event)
         /\ \A i \in 1 .. Len(s): s[i].by = p
  <1>1. request[p].shifted \in BOOLEAN
    BY PressAssumption DEF Request
  <1>2. /\ ShiftDown(p) \in Event /\ KeyDown(p) \in Event
        /\ KeyUp(p) \in Event /\ ShiftUp(p) \in Event
    BY <1>1 DEF ShiftDown, KeyDown, KeyUp, ShiftUp, Event, Codes
  <1>3. /\ ShiftDown(p).by = p /\ KeyDown(p).by = p
        /\ KeyUp(p).by = p /\ ShiftUp(p).by = p
    BY DEF ShiftDown, KeyDown, KeyUp, ShiftUp
  <1>4. CASE s = <<>>
    BY <1>4
  <1>5. CASE s = <<KeyDown(p), KeyUp(p)>>
    BY <1>2, <1>3, <1>5
  <1>6. CASE s = <<ShiftDown(p)>>
    BY <1>2, <1>3, <1>6
  <1>7. CASE s = <<ShiftDown(p), ShiftUp(p)>>
    BY <1>2, <1>3, <1>7
  <1>8. CASE s = <<ShiftDown(p), KeyDown(p), KeyUp(p)>>
    BY <1>2, <1>3, <1>8
  <1>9. CASE s = <<ShiftDown(p), KeyDown(p), KeyUp(p), ShiftUp(p)>>
    BY <1>2, <1>3, <1>9
  <1> QED
    BY <1>4, <1>5, <1>6, <1>7, <1>8, <1>9 DEF Broken, Combo

\* A message is only ever a good or a bad one.
LEMMA SendType ==
  ASSUME NEW p \in Presses, NEW m \in {"ok", "err"}, sent \in [Presses -> {"none", "ok", "err"}]
  PROVE  Send(p, m) \in [Presses -> {"none", "ok", "err"}]
  BY DEF Send

\* A press goes on to a place of handle_press, or ends with an answer.
LEMMA PlaceType ==
  ASSUME NEW p \in Presses, pc \in [Presses -> PCs], answer \in [Presses -> Answers],
         (\E k \in PCs: Goto(p, k)) \/ (\E a \in Answers: Finish(p, a))
  PROVE  pc' \in [Presses -> PCs] /\ answer' \in [Presses -> Answers]
  <1>1. "done" \in PCs
    BY DEF PCs
  <1> QED
    BY <1>1 DEF Goto, Finish

\* An observer that is installed or missed is an observer still.
LEMMA ObservedType ==
  ASSUME NEW p \in Presses, NEW v \in {"none", "armed"}, obs \in [Presses -> Observer]
  PROVE  [obs EXCEPT ![p].state = v] \in [Presses -> Observer]
  BY DEF Observer

\* Every step keeps every variable in its type.
LEMMA TypeStep ==
  ASSUME TypeOK, [Next]_vars
  PROVE  TypeOK'
  <1> USE PressAssumption DEF TypeOK, thread, keys, page, vars
  <1>0. \A p \in Presses: /\ request[p].win \in Windows
                          /\ request[p].webview \in BOOLEAN
    BY DEF Request
  <1>1. ASSUME NEW p \in Presses, Lock(p) PROVE TypeOK'
    BY <1>1 DEF Lock, PCs
  <1>2. ASSUME NEW p \in Presses, Focus(p) PROVE TypeOK'
    <2>1. focused' \in Windows \cup {None}
      BY <1>0, <1>2 DEF Focus
    <2>2. pc' \in [Presses -> PCs] /\ answer' \in [Presses -> Answers]
      <3>1. \/ \E k \in {"prepare", "submit"}: Goto(p, k)
            \/ Finish(p, "false")
        BY <1>2 DEF Focus
      <3>2. (\E k \in PCs: Goto(p, k)) \/ (\E a \in Answers: Finish(p, a))
        BY <3>1 DEF PCs, Answers
      <3> QED
        BY <3>2, PlaceType
    <2> QED
      BY <1>2, <2>1, <2>2 DEF Focus
  <1>3. ASSUME NEW p \in Presses, Prepare(p) PROVE TypeOK'
    <2>1. obs' \in [Presses -> Observer]
      <3>1. PICK v \in {"none", "armed"}: obs' = [obs EXCEPT ![p].state = v]
        BY <1>3 DEF Prepare
      <3>2. [obs EXCEPT ![p].state = v] \in [Presses -> Observer]
        BY ObservedType
      <3> QED
        BY <3>1, <3>2, Zenon
    <2>2. pc' \in [Presses -> PCs] /\ answer' \in [Presses -> Answers]
      <3>1. \/ \E k \in {"prepare", "submit"}: Goto(p, k)
            \/ Finish(p, "false")
        BY <1>3 DEF Prepare
      <3>2. (\E k \in PCs: Goto(p, k)) \/ (\E a \in Answers: Finish(p, a))
        BY <3>1 DEF PCs, Answers
      <3> QED
        BY <3>2, PlaceType
    <2> QED
      BY <1>3, <2>1, <2>2 DEF Prepare
  <1>d. \A p \in Presses: \A o \in Dismissed(p): o \in [Presses -> Observer]
    <2>1. NoObserver \in Observer
      BY DEF NoObserver, Observer
    <2>2. ASSUME NEW p \in Presses
          PROVE  [obs EXCEPT ![p] = NoObserver] \in [Presses -> Observer]
      BY <2>1
    <2>3. ASSUME NEW p \in Presses, NEW o \in Dismissed(p) PROVE o \in [Presses -> Observer]
      <3>1. o = obs \/ o = [obs EXCEPT ![p] = NoObserver]
        BY DEF Dismissed
      <3> QED
        BY <2>2, <3>1
    <2> QED
      BY <2>3
  <1>4. ASSUME NEW p \in Presses, Submit(p) PROVE TypeOK'
    <2>1. obs' \in [Presses -> Observer]
      BY <1>4, <1>d DEF Submit
    <2>2. pc' \in [Presses -> PCs] /\ answer' \in [Presses -> Answers]
      <3>1. Goto(p, "waiting") \/ Finish(p, "false")
        BY <1>4 DEF Submit
      <3>2. (\E k \in PCs: Goto(p, k)) \/ (\E a \in Answers: Finish(p, a))
        BY <3>1 DEF PCs, Answers
      <3> QED
        BY <3>2, PlaceType
    <2>3. main' \in Seq(Closure)
      <3>1. [kind |-> "inject", by |-> p] \in Closure
        BY DEF Closure
      <3> QED
        <4>1. Append(main, [kind |-> "inject", by |-> p]) \in Seq(Closure)
          BY <3>1
        <4> QED
          BY <1>4, <4>1 DEF Submit
    <2> QED
      BY <1>4, <2>1, <2>2, <2>3 DEF Submit
  <1>5. ASSUME NEW p \in Presses, GiveUp(p) PROVE TypeOK'
    <2>1. got' \in [Presses -> {"none", "ok", "err", "timeout"}]
      BY <1>5 DEF GiveUp, Received
    <2>2. main' \in Seq(Closure)
      BY <1>5 DEF GiveUp, Cleanup, Closure
    <2> QED
      BY <1>5, <2>1, <2>2 DEF GiveUp, Goto, PCs
  <1>6. ASSUME NEW p \in Presses, Cancel(p) PROVE TypeOK'
    <2>1. obs' \in [Presses -> Observer]
      BY <1>6, <1>d DEF Cancel
    <2>2. pc' \in [Presses -> PCs] /\ answer' \in [Presses -> Answers]
      <3>1. \/ \E k \in {"observe", "post"}: Goto(p, k)
            \/ \E a \in {"false", "unknown"}: Finish(p, a)
        BY <1>6 DEF Cancel
      <3>2. (\E k \in PCs: Goto(p, k)) \/ (\E a \in Answers: Finish(p, a))
        BY <3>1 DEF PCs, Answers
      <3> QED
        BY <3>2, PlaceType
    <2>3. state' \in [Presses -> {"pending", "started", "cancelled"}]
      BY <1>6 DEF Cancel, CancelPending
    <2> QED
      BY <1>6, <2>1, <2>2, <2>3 DEF Cancel
  <1>7. ASSUME NEW p \in Presses, WaitPress(p) PROVE TypeOK'
    <2>1. obs' \in [Presses -> Observer]
      BY <1>7, <1>d DEF WaitPress
    <2>2. pc' \in [Presses -> PCs] /\ answer' \in [Presses -> Answers]
      <3>1. Goto(p, "post") \/ Finish(p, "true")
        BY <1>7 DEF WaitPress
      <3>2. (\E k \in PCs: Goto(p, k)) \/ (\E a \in Answers: Finish(p, a))
        BY <3>1 DEF PCs, Answers
      <3> QED
        BY <3>2, PlaceType
    <2> QED
      BY <1>7, <2>1, <2>2 DEF WaitPress
  <1>8. ASSUME NEW p \in Presses, Postcondition(p) PROVE TypeOK'
    BY <1>8 DEF Postcondition, Finish, PCs, Answers
  <1>9. CASE StartInjection
    <2>1. main # <<>> /\ main' = Tail(main) /\ main[1] \in Closure
      BY <1>9 DEF StartInjection
    <2>2. Head(main).by \in Presses /\ main' \in Seq(Closure)
      BY <2>1 DEF Closure
    <2>3. sent' \in [Presses -> {"none", "ok", "err"}]
      BY <1>9, <2>2, SendType DEF StartInjection
    <2>4. running' \in Presses \cup {None}
      BY <1>9, <2>2 DEF StartInjection
    <2>5. monitors' \subseteq {p \in Presses : request[p].webview}
      BY <1>9, <2>2 DEF StartInjection, Monitored
    <2> QED
      BY <1>9, <2>2, <2>3, <2>4, <2>5 DEF StartInjection
  <1>10. CASE Inject
    <2>1. running \in Presses
      BY <1>10 DEF Inject
    <2>2. sent' \in [Presses -> {"none", "ok", "err"}]
      BY <1>10, <2>1, SendType DEF Inject
    <2>3. os' \in Seq(Event)
      <3>1. \A s \in Broken(running) \cup {Combo(running)}: s \in Seq(Event)
        BY <2>1, ComboType
      <3>2. \A s \in Seq(Event): os \o s \in Seq(Event)
        BY ConcatProperties
      <3>3. \/ os' = os
            \/ \E s \in Broken(running) \cup {Combo(running)}: os' = os \o s
        BY <1>10 DEF Inject
      <3> QED
        BY <3>1, <3>2, <3>3
    <2>4. held' \in BOOLEAN
      BY <1>10 DEF Inject, Stuck
    <2>5. /\ state' \in [Presses -> {"pending", "started", "cancelled"}]
          /\ posted' \in [Presses -> {"nothing", "part", "all"}]
          /\ monitors' \subseteq {p \in Presses : request[p].webview}
      BY <1>10, <2>1 DEF Inject
    <2> QED
      BY <1>10, <2>1, <2>2, <2>3, <2>4, <2>5 DEF Inject
  <1>11. CASE RemoveMonitor
    BY <1>11 DEF RemoveMonitor
  <1>12. CASE Dispatch
    <2>1. os[1] \in Event /\ os' \in Seq(Event)
      BY <1>12 DEF Dispatch
    <2>2. os[1].by \in Presses /\ os[1].code \in Codes
      BY <2>1 DEF Event
    <2>3. sent' \in [Presses -> {"none", "ok", "err"}]
      BY <1>12, <2>2, SendType DEF Dispatch
    <2>4. down' \in [Windows -> Seq(Codes)] /\ up' \in [Windows -> Seq(Codes)]
      <3>1. CASE focused = None
        BY <1>12, <3>1 DEF Dispatch
      <3>2. CASE focused # None
        <4>1. /\ [down EXCEPT ![focused] = Append(@, os[1].code)] \in [Windows -> Seq(Codes)]
              /\ [up EXCEPT ![focused] = Append(@, os[1].code)] \in [Windows -> Seq(Codes)]
          BY <2>2, <3>2
        <4>2. \/ down' = [down EXCEPT ![focused] = Append(@, os[1].code)] /\ up' = up
              \/ up' = [up EXCEPT ![focused] = Append(@, os[1].code)] /\ down' = down
          BY <1>12, <3>2 DEF Dispatch
        <4> QED
          BY <4>1, <4>2
      <3> QED
        BY <3>1, <3>2
    <2>5. strayed' \subseteq Presses
      BY <1>12, <2>2 DEF Dispatch
    <2> QED
      BY <1>12, <2>1, <2>3, <2>4, <2>5 DEF Dispatch
  <1>s. ASSUME NEW o \in Observer, NEW P \in SUBSET Codes, NEW R \in SUBSET Codes
        PROVE  Seen(o, P, R) \in Observer
    BY DEF Seen, Observer, NoObserver
  <1>13. ASSUME NEW w \in Windows, DeliverDown(w) PROVE TypeOK'
    <2>1. Head(down[w]) \in Codes /\ down' \in [Windows -> Seq(Codes)]
      BY <1>13 DEF DeliverDown
    <2>2. \A p \in Presses: /\ obs[p].pressed \cup {Head(down[w])} \in SUBSET Codes
                            /\ obs[p].released \in SUBSET Codes
      BY <2>1 DEF Observer
    <2>3. obs' \in [Presses -> Observer]
      BY <1>13, <2>2, <1>s DEF DeliverDown
    <2> QED
      BY <1>13, <2>1, <2>3 DEF DeliverDown
  <1>14. ASSUME NEW w \in Windows, DeliverUp(w) PROVE TypeOK'
    <2>1. Head(up[w]) \in Codes /\ up' \in [Windows -> Seq(Codes)]
      BY <1>14 DEF DeliverUp
    <2>2. \A p \in Presses: /\ obs[p].released \cup {Head(up[w])} \in SUBSET Codes
                            /\ obs[p].pressed \in SUBSET Codes
      BY <2>1 DEF Observer
    <2>3. obs' \in [Presses -> Observer]
      BY <1>14, <2>2, <1>s DEF DeliverUp
    <2> QED
      BY <1>14, <2>1, <2>3 DEF DeliverUp
  <1>15. ASSUME NEW p \in Presses, Expire(p) PROVE TypeOK'
    BY <1>15 DEF Expire, NoObserver, Observer
  <1>16. ASSUME NEW w \in Windows, Navigate(w) PROVE TypeOK'
    <2>1. obs' \in [Presses -> Observer]
      BY <1>16 DEF Navigate, NoObserver, Observer
    <2> QED
      BY <1>16, <2>1 DEF Navigate
  <1>17. CASE MoveFocus
    BY <1>17 DEF MoveFocus
  <1>18. CASE LetGo
    <2>1. up' \in [Windows -> Seq(Codes)]
      <3>1. CASE focused = None
        BY <1>18, <3>1 DEF LetGo
      <3>2. CASE focused # None
        <4>1. [up EXCEPT ![focused] = Append(@, "shift")] \in [Windows -> Seq(Codes)]
          BY <3>2 DEF Codes
        <4> QED
          BY <1>18, <3>2, <4>1 DEF LetGo
      <3> QED
        BY <3>1, <3>2
    <2> QED
      BY <1>18, <2>1 DEF LetGo
  <1>19. CASE UNCHANGED vars
    BY <1>19
  <1> QED
    BY <1>1, <1>2, <1>3, <1>4, <1>5, <1>6, <1>7, <1>8, <1>9, <1>10, <1>11, <1>12,
       <1>13, <1>14, <1>15, <1>16, <1>17, <1>18, <1>19 DEF Next, PressStep, MainStep

\* The state of presses, main thread, keyboard and pages keeps its types.
THEOREM TypeCorrect == Spec => []TypeOK
  <1>1. Init => TypeOK
    <2>1. NoObserver \in Observer
      BY DEF NoObserver, Observer
    <2>2. <<>> \in Seq(Closure) /\ <<>> \in Seq(Event) /\ <<>> \in Seq(Codes)
      OBVIOUS
    <2>3. ASSUME Init PROVE /\ down \in [Windows -> Seq(Codes)]
                            /\ up \in [Windows -> Seq(Codes)]
                            /\ obs \in [Presses -> Observer]
      BY <2>1, <2>2, <2>3 DEF Init
    <2>4. ASSUME Init PROVE pc \in [Presses -> PCs] /\ answer \in [Presses -> Answers]
      BY <2>4 DEF Init, PCs, Answers
    <2>5. ASSUME Init PROVE /\ main \in Seq(Closure) /\ os \in Seq(Event)
                            /\ monitors \subseteq {p \in Presses : request[p].webview}
      BY <2>2, <2>5 DEF Init
    <2>6. ASSUME Init PROVE /\ state \in [Presses -> {"pending", "started", "cancelled"}]
                            /\ sent \in [Presses -> {"none", "ok", "err"}]
                            /\ got \in [Presses -> {"none", "ok", "err", "timeout"}]
                            /\ posted \in [Presses -> {"nothing", "part", "all"}]
      BY <2>6 DEF Init
    <2>7. ASSUME Init PROVE /\ request \in Plans
                            /\ running \in Presses \cup {None} /\ focused \in Windows \cup {None}
                            /\ held \in BOOLEAN /\ strayed \subseteq Presses
                            /\ meddled \in 0 .. MaxMeddling
      <3>1. 0 \in 0 .. MaxMeddling
        BY PressAssumption
      <3>2. running = None /\ focused = None /\ strayed = {} /\ held = FALSE /\ meddled = 0
        BY <2>7 DEF Init
      <3> QED
        BY <2>7, <3>1, <3>2 DEF Init
    <2> QED
      BY <2>3, <2>4, <2>5, <2>6, <2>7 DEF TypeOK
  <1> QED
    BY <1>1, TypeStep, PTL DEF Spec
-----------------------------------------------------------------------------
(* What is said of an injection is true.                                   *)

\* The queue of the main thread, one closure longer.
LEMMA QueueLonger ==
  ASSUME TypeOK, NEW c \in Closure, main' = Append(main, c)
  PROVE  /\ Len(main) \in Nat /\ Len(main') = Len(main) + 1
         /\ \A i \in 1 .. Len(main): main'[i] = main[i]
         /\ main'[Len(main) + 1] = c
  BY DEF TypeOK

\* The queue of the main thread, without its head.
LEMMA QueueShorter ==
  ASSUME TypeOK, main # <<>>, main' = Tail(main)
  PROVE  /\ Len(main) \in Nat \ {0} /\ Len(main') = Len(main) - 1
         /\ \A i \in 1 .. Len(main'): main'[i] = main[i + 1] /\ i + 1 \in 1 .. Len(main)
         /\ Head(main) = main[1] /\ main[1] \in Closure /\ main[1].by \in Presses
  <1>1. main \in Seq(Closure)
    BY DEF TypeOK
  <1>2. Len(main) \in Nat \ {0} /\ Len(main') = Len(main) - 1
    BY <1>1
  <1>3. \A i \in 1 .. Len(main'): main'[i] = main[i + 1] /\ i + 1 \in 1 .. Len(main)
    BY <1>1, <1>2
  <1>4. Head(main) = main[1] /\ main[1] \in Closure
    BY <1>1, <1>2
  <1> QED
    BY <1>2, <1>3, <1>4 DEF Closure

\* Closures and events belong to presses.
LEMMA Owners ==
  ASSUME TypeOK
  PROVE  /\ \A i \in 1 .. Len(main): main[i].by \in Presses
         /\ \A i \in 1 .. Len(os): os[i].by \in Presses
         /\ os # <<>> => os[1] = Head(os) /\ os[1].by \in Presses
  <1>1. \A i \in 1 .. Len(main): main[i] \in Closure
    BY DEF TypeOK
  <1>2. os \in Seq(Event) /\ \A i \in 1 .. Len(os): os[i] \in Event
    BY DEF TypeOK
  <1>3. os # <<>> => os[1] = Head(os) /\ 1 \in 1 .. Len(os)
    BY <1>2
  <1> QED
    BY <1>1, <1>2, <1>3 DEF Closure, Event

\* Steps of the page and of the user have no part in it.
LEMMA InjectionUntouched ==
  ASSUME InjectionInv,
         UNCHANGED <<pc, answer, state, main, running, monitors, sent, got, posted, os>>
  PROVE  InjectionInv'
  BY DEF InjectionInv, PlaceInv, OnceInv, PostedInv, MessageInv, RefusedInv, InjectedIsTrue, InQueue

\* A press that only moves on, to a place it may be at, or to a true answer.
LEMMA InjectionElsewhere ==
  ASSUME TypeOK, InjectionInv, NEW p \in Presses, NEW k \in PCs, NEW a \in Answers,
         pc[p] # "done", pc' = [pc EXCEPT ![p] = k],
         \/ answer' = answer
         \/ k = "done" /\ answer' = [answer EXCEPT ![p] = a],
         k \in {"queued", "focus", "prepare", "submit"} =>
           pc[p] \in {"queued", "focus", "prepare", "submit"},
         k \in {"observe", "post"} => posted[p] = "all",
         a = "false" => pc[p] \in {"queued", "focus", "prepare", "submit"},
         a \in {"ok", "true"} => posted[p] = "all",
         UNCHANGED <<state, main, running, monitors, sent, got, posted, os>>
  PROVE  InjectionInv'
  <1> USE DEF TypeOK, InjectionInv, InQueue
  <1>1. PlaceInv'
    BY DEF PlaceInv
  <1>2. OnceInv' /\ PostedInv'
    BY DEF OnceInv, PostedInv
  <1>3. MessageInv'
    BY DEF MessageInv
  <1>4. RefusedInv'
    BY DEF RefusedInv, PlaceInv
  <1>5. InjectedIsTrue'
    BY DEF InjectedIsTrue, PlaceInv, PostedInv
  <1> QED
    BY <1>1, <1>2, <1>3, <1>4, <1>5

\* Every step keeps what InjectionInv says of threads, queue and combos.
LEMMA InjectionStep ==
  ASSUME TypeOK, InjectionInv, [Next]_vars
  PROVE  InjectionInv'
  <1> USE DEF thread, keys, page
  <1>1. ASSUME NEW p \in Presses, Lock(p) PROVE InjectionInv'
    <2>1. pc[p] = "queued" /\ pc' = [pc EXCEPT ![p] = "focus"] /\ answer' = answer
      BY <1>1 DEF Lock
    <2>2. UNCHANGED <<state, main, running, monitors, sent, got, posted, os>>
      BY <1>1 DEF Lock
    <2>3. "focus" \in PCs /\ "none" \in Answers
      BY DEF PCs, Answers
    <2> QED
      BY <2>1, <2>2, <2>3, InjectionElsewhere
  <1>2. ASSUME NEW p \in Presses, Focus(p) PROVE InjectionInv'
    <2>1. UNCHANGED <<state, main, running, monitors, sent, got, posted, os>>
      BY <1>2 DEF Focus
    <2>2. \/ \E k \in {"prepare", "submit"}: pc' = [pc EXCEPT ![p] = k] /\ answer' = answer
          \/ pc' = [pc EXCEPT ![p] = "done"] /\ answer' = [answer EXCEPT ![p] = "false"]
      BY <1>2 DEF Focus, Goto, Finish
    <2>3. pc[p] = "focus"
      BY <1>2 DEF Focus
    <2> QED
      BY <2>1, <2>2, <2>3, InjectionElsewhere DEF PCs, Answers
  <1>3. ASSUME NEW p \in Presses, Prepare(p) PROVE InjectionInv'
    <2>1. UNCHANGED <<state, main, running, monitors, sent, got, posted, os>>
      BY <1>3 DEF Prepare
    <2>2. \/ pc' = [pc EXCEPT ![p] = "submit"] /\ answer' = answer
          \/ pc' = [pc EXCEPT ![p] = "done"] /\ answer' = [answer EXCEPT ![p] = "false"]
      BY <1>3 DEF Prepare, Goto, Finish
    <2>3. pc[p] = "prepare"
      BY <1>3 DEF Prepare
    <2> QED
      BY <2>1, <2>2, <2>3, InjectionElsewhere DEF PCs, Answers
  <1>4. ASSUME NEW p \in Presses, Submit(p) PROVE InjectionInv'
    <2>1. CASE Finish(p, "false") /\ UNCHANGED main
      <3>1. UNCHANGED <<state, main, running, monitors, sent, got, posted, os>>
        BY <1>4, <2>1 DEF Submit
      <3>2. pc' = [pc EXCEPT ![p] = "done"] /\ answer' = [answer EXCEPT ![p] = "false"]
        BY <2>1 DEF Finish
      <3>3. pc[p] = "submit"
        BY <1>4 DEF Submit
      <3> QED
        BY <3>1, <3>2, <3>3, InjectionElsewhere DEF PCs, Answers
    <2>2. CASE main' = Append(main, [kind |-> "inject", by |-> p]) /\ Goto(p, "waiting")
      <3>1. /\ pc[p] = "submit" /\ pc' = [pc EXCEPT ![p] = "waiting"]
            /\ UNCHANGED <<answer, state, running, monitors, sent, got, posted, os>>
        BY <1>4, <2>2 DEF Submit, Goto
      <3>2. /\ Len(main) \in Nat /\ Len(main') = Len(main) + 1
            /\ \A i \in 1 .. Len(main): main'[i] = main[i]
            /\ main'[Len(main) + 1].kind = "inject" /\ main'[Len(main) + 1].by = p
        <4>1. [kind |-> "inject", by |-> p] \in Closure
          BY DEF Closure
        <4> QED
          BY <2>2, <4>1, QueueLonger
      <3>3. state[p] = "pending" /\ ~InQueue(p) /\ running # p /\ answer[p] = "none"
        BY <3>1 DEF InjectionInv, PlaceInv
      <3>4. \A q \in Presses: q # p => (InQueue(q)' <=> InQueue(q))
        BY <3>2 DEF InQueue
      <3>5. PlaceInv'
        BY <3>1, <3>3, <3>4 DEF InjectionInv, PlaceInv, TypeOK
      <3>6. OnceInv'
        <4>1. \A i \in 1 .. Len(main'): \/ i \in 1 .. Len(main) /\ main'[i] = main[i]
                                        \/ i = Len(main) + 1
          BY <3>2
        <4>2. \A i \in 1 .. Len(main): main[i].kind = "inject" => main[i].by # p
          BY <3>3 DEF InQueue
        <4>3. OnceInv
          BY DEF InjectionInv
        <4>4. \A i, j \in 1 .. Len(main'):
                /\ main'[i].kind = "inject" /\ main'[j].kind = "inject"
                /\ main'[i].by = main'[j].by
                => i = j
          BY <3>2, <4>1, <4>2, <4>3 DEF OnceInv
        <4>5. \A i \in 1 .. Len(main'): main'[i].kind = "inject" =>
                main'[i].by # running /\ state[main'[i].by] # "started"
          BY <3>2, <3>3, <4>1, <4>3 DEF OnceInv
        <4> QED
          BY <3>1, <4>3, <4>4, <4>5 DEF OnceInv
      <3>7. PostedInv' /\ InjectedIsTrue'
        BY <3>1 DEF InjectionInv, PostedInv, InjectedIsTrue
      <3>8. MessageInv'
        BY <3>1 DEF InjectionInv, MessageInv, TypeOK
      <3>9. RefusedInv'
        BY <3>1, <3>3, <3>4 DEF InjectionInv, RefusedInv
      <3> QED
        BY <3>5, <3>6, <3>7, <3>8, <3>9 DEF InjectionInv
    <2> QED
      BY <1>4, <2>1, <2>2 DEF Submit
  <1>5. ASSUME NEW p \in Presses, GiveUp(p) PROVE InjectionInv'
    <2>1. /\ pc[p] = "waiting" /\ pc' = [pc EXCEPT ![p] = "cancel"]
          /\ sent' = [sent EXCEPT ![p] = "none"]
          /\ UNCHANGED <<answer, state, running, monitors, posted, os>>
      BY <1>5 DEF GiveUp, Goto
    <2>2. /\ Len(main) \in Nat /\ Len(main') = Len(main) + 1
          /\ \A i \in 1 .. Len(main): main'[i] = main[i]
          /\ main'[Len(main) + 1].kind = "cleanup"
      <3>1. [kind |-> "cleanup", by |-> p] \in Closure
        BY DEF Closure
      <3> QED
        BY <1>5, <3>1, QueueLonger DEF GiveUp, Cleanup
    <2>3. \A q \in Presses: InQueue(q)' <=> InQueue(q)
      BY <2>2 DEF InQueue
    <2>4. PlaceInv'
      BY <2>1, <2>3 DEF InjectionInv, PlaceInv, TypeOK
    <2>5. OnceInv'
      BY <2>1, <2>2 DEF InjectionInv, OnceInv
    <2>6. PostedInv' /\ InjectedIsTrue'
      BY <2>1 DEF InjectionInv, PostedInv, InjectedIsTrue
    <2>7. MessageInv'
      <3>1. got' = [got EXCEPT ![p] = "timeout"] \/ (sent[p] # "none" /\ got' = [got EXCEPT ![p] = sent[p]])
        BY <1>5 DEF GiveUp, Received
      <3> QED
        BY <2>1, <3>1 DEF InjectionInv, MessageInv, TypeOK
    <2>8. RefusedInv'
      BY <2>1, <2>3 DEF InjectionInv, RefusedInv
    <2> QED
      BY <2>4, <2>5, <2>6, <2>7, <2>8 DEF InjectionInv
  <1>6. ASSUME NEW p \in Presses, Cancel(p) PROVE InjectionInv'
    <2>1. /\ pc[p] = "cancel" /\ answer[p] = "none"
          /\ state' = [state EXCEPT ![p] = IF state[p] = "pending" THEN "cancelled" ELSE state[p]]
          /\ got' = [got EXCEPT ![p] = "none"]
          /\ UNCHANGED <<main, running, monitors, sent, posted, os>>
      BY <1>6 DEF Cancel, CancelPending, InjectionInv, PlaceInv
    <2>2. \/ /\ got[p] = "ok" /\ answer' = answer
             /\ \E k \in {"observe", "post"}: pc' = [pc EXCEPT ![p] = k]
          \/ /\ pc' = [pc EXCEPT ![p] = "done"]
             /\ answer' = [answer EXCEPT ![p] = IF state[p] = "pending" THEN "false" ELSE "unknown"]
      BY <1>6 DEF Cancel, Goto, Finish
    <2>3. \A q \in Presses: InQueue(q)' <=> InQueue(q)
      BY <2>1 DEF InQueue
    <2>4. PlaceInv'
      BY <2>1, <2>2, <2>3 DEF InjectionInv, PlaceInv, TypeOK
    <2>5. \A q \in Presses: state'[q] = "started" <=> state[q] = "started"
      BY <2>1 DEF TypeOK
    <2>6. OnceInv'
      BY <2>1, <2>5 DEF InjectionInv, OnceInv, TypeOK, Closure
    <2>7. PostedInv'
      <3>1. \A i \in 1 .. Len(os): os[i].by \in Presses
        BY Owners
      <3>2. monitors \subseteq Presses
        BY DEF TypeOK
      <3> QED
        BY <2>1, <2>5, <3>1, <3>2 DEF InjectionInv, PostedInv
    <2>8. MessageInv'
      BY <2>1, <2>2 DEF InjectionInv, MessageInv, TypeOK
    <2>9. RefusedInv'
      BY <2>1, <2>2, <2>3 DEF InjectionInv, RefusedInv, TypeOK
    <2>10. InjectedIsTrue'
      BY <2>1, <2>2 DEF InjectionInv, InjectedIsTrue, PostedInv, TypeOK
    <2> QED
      BY <2>4, <2>6, <2>7, <2>8, <2>9, <2>10 DEF InjectionInv
  <1>7. ASSUME NEW p \in Presses, WaitPress(p) PROVE InjectionInv'
    <2>1. UNCHANGED <<state, main, running, monitors, sent, got, posted, os>>
      BY <1>7 DEF WaitPress
    <2>2. \/ pc' = [pc EXCEPT ![p] = "post"] /\ answer' = answer
          \/ pc' = [pc EXCEPT ![p] = "done"] /\ answer' = [answer EXCEPT ![p] = "true"]
      BY <1>7 DEF WaitPress, Goto, Finish
    <2>3. pc[p] = "observe" /\ posted[p] = "all"
      BY <1>7 DEF WaitPress, InjectionInv, MessageInv
    <2> QED
      BY <2>1, <2>2, <2>3, InjectionElsewhere DEF PCs, Answers
  <1>8. ASSUME NEW p \in Presses, Postcondition(p) PROVE InjectionInv'
    <2>1. UNCHANGED <<state, main, running, monitors, sent, got, posted, os>>
      BY <1>8 DEF Postcondition
    <2>2. /\ pc' = [pc EXCEPT ![p] = "done"]
          /\ \E a \in {"ok", "true"}: answer' = [answer EXCEPT ![p] = a]
      BY <1>8 DEF Postcondition, Finish
    <2>3. pc[p] = "post" /\ posted[p] = "all"
      BY <1>8 DEF Postcondition, InjectionInv, MessageInv
    <2> QED
      BY <2>1, <2>2, <2>3, InjectionElsewhere DEF PCs, Answers
  <1>9. CASE StartInjection
    <2>1. /\ main # <<>> /\ main' = Tail(main) /\ running = None /\ main[1].kind = "inject"
          /\ UNCHANGED <<pc, answer, state, got, posted, os>>
      BY <1>9 DEF StartInjection, TypeOK
    <2>q. PICK q \in Presses: q = main[1].by
      BY <2>1, QueueShorter
    <2>2. /\ Len(main) \in Nat \ {0} /\ Len(main') = Len(main) - 1
          /\ \A i \in 1 .. Len(main'): main'[i] = main[i + 1] /\ i + 1 \in 1 .. Len(main)
          /\ Head(main) = main[1]
      BY <2>1, QueueShorter
    <2>3. \/ running' = None /\ monitors' = monitors /\ sent' = Send(q, "err")
          \/ running' = q /\ monitors' \subseteq monitors \cup {q} /\ sent' = sent
      BY <1>9, <2>1, <2>2, <2>q DEF StartInjection, Monitored
    <2>4. InQueue(q) /\ \A p \in Presses: InQueue(p)' => InQueue(p)
      BY <2>1, <2>2, <2>q DEF InQueue
    <2>5. /\ state[q] # "started"
          /\ \A i \in 1 .. Len(main'): main'[i].kind = "inject" => main'[i].by # q
      <3>1. OnceInv /\ 1 \in 1 .. Len(main)
        BY <2>2 DEF InjectionInv
      <3>2. \A i \in 1 .. Len(main): main[i].kind = "inject" /\ main[i].by = q => i = 1
        BY <2>1, <2>q, <3>1 DEF OnceInv
      <3>3. \A i \in 1 .. Len(main'): i + 1 # 1
        BY <2>2
      <3> QED
        BY <2>1, <2>2, <2>q, <3>1, <3>2, <3>3 DEF OnceInv
    <2>6. PlaceInv'
      BY <2>1, <2>3, <2>4, PressAssumption DEF InjectionInv, PlaceInv
    <2>7. OnceInv'
      <3>1. OnceInv
        BY DEF InjectionInv
      <3>2. \A i, j \in 1 .. Len(main'):
              /\ main'[i].kind = "inject" /\ main'[j].kind = "inject"
              /\ main'[i].by = main'[j].by
              => i = j
        BY <2>2, <3>1 DEF OnceInv
      <3>3. \A i \in 1 .. Len(main'): main'[i].kind = "inject" =>
              main'[i].by # running' /\ state'[main'[i].by] # "started"
        <4>1. \A i \in 1 .. Len(main'): main'[i].kind = "inject" =>
                main'[i].by # running /\ state[main'[i].by] # "started" /\ main'[i].by \in Presses
          BY <2>2, <3>1, Owners DEF OnceInv
        <4> QED
          BY <2>1, <2>3, <2>5, <4>1, PressAssumption
      <3>4. running' # None => state'[running'] # "started"
        BY <2>1, <2>3, <2>5
      <3> QED
        BY <3>2, <3>3, <3>4 DEF OnceInv
    <2>8. PostedInv'
      BY <2>1, <2>3, <2>5 DEF InjectionInv, PostedInv
    <2>9. MessageInv'
      BY <2>1, <2>2, <2>3 DEF InjectionInv, MessageInv, Send, TypeOK
    <2>10. RefusedInv'
      BY <2>1, <2>3, <2>4, PressAssumption DEF InjectionInv, RefusedInv
    <2>11. InjectedIsTrue'
      BY <2>1 DEF InjectionInv, InjectedIsTrue
    <2> QED
      BY <2>6, <2>7, <2>8, <2>9, <2>10, <2>11 DEF InjectionInv
  <1>10. CASE Inject
    <2> DEFINE q == running
    <2>1. /\ q \in Presses /\ q # None /\ running' = None
          /\ UNCHANGED <<pc, answer, main, got>>
      BY <1>10 DEF Inject, TypeOK
    <2>2. \A p \in Presses: InQueue(p)' <=> InQueue(p)
      BY <2>1 DEF InQueue
    <2>3. ~InQueue(q) /\ pc[q] \notin {"queued", "focus", "prepare", "submit"}
      BY <2>1 DEF InQueue, InjectionInv, OnceInv, PlaceInv
    <2>4. CASE state[q] # "pending"
      <3>1. /\ monitors' \subseteq monitors /\ sent' = Send(q, "err")
            /\ UNCHANGED <<state, posted, os>>
        BY <1>10, <2>4 DEF Inject
      <3>2. PlaceInv'
        BY <2>1, <2>2, <3>1, PressAssumption DEF InjectionInv, PlaceInv
      <3>3. OnceInv' /\ PostedInv' /\ InjectedIsTrue'
        <4>1. \A i \in 1 .. Len(main): main[i].by \in Presses
          BY Owners
        <4> QED
          BY <2>1, <3>1, <4>1, PressAssumption DEF InjectionInv, OnceInv, PostedInv, InjectedIsTrue
      <3>4. MessageInv'
        BY <2>1, <3>1 DEF InjectionInv, MessageInv, Send, TypeOK
      <3>5. RefusedInv'
        BY <2>1, <2>2, <3>1, PressAssumption DEF InjectionInv, RefusedInv
      <3> QED
        BY <3>2, <3>3, <3>4, <3>5 DEF InjectionInv
    <2>5. CASE state[q] = "pending"
      <3>1. state' = [state EXCEPT ![q] = "started"]
        BY <1>10, <2>5 DEF Inject
      <3>2. \E s \in Broken(q) \cup {Combo(q)}: os' = os \o s
        BY <1>10, <2>5 DEF Inject
      <3>3. \/ /\ posted' = [posted EXCEPT ![q] = "all"]
               /\ sent' = sent \/ sent' = Send(q, "ok")
               /\ monitors' = monitors
            \/ /\ \E v \in {"nothing", "part"}: posted' = [posted EXCEPT ![q] = v]
               /\ sent' = Send(q, "err")
               /\ monitors' = monitors \ {q}
        BY <1>10, <2>5 DEF Inject
      <3>4. \A i \in 1 .. Len(os'): (i \in 1 .. Len(os) /\ os'[i] = os[i]) \/ os'[i].by = q
        <4>1. PICK s \in Broken(q) \cup {Combo(q)}: os' = os \o s
          BY <3>2
        <4>2. s \in Seq(Event) /\ \A i \in 1 .. Len(s): s[i].by = q
          BY <2>1, ComboType DEF TypeOK
        <4>3. os \in Seq(Event)
          BY DEF TypeOK
        <4>4. /\ Len(os) \in Nat /\ Len(s) \in Nat /\ Len(os') = Len(os) + Len(s)
              /\ \A i \in 1 .. Len(os) + Len(s):
                   os'[i] = IF i <= Len(os) THEN os[i] ELSE s[i - Len(os)]
          BY <4>1, <4>2, <4>3, ConcatProperties
        <4> QED
          BY <4>2, <4>4
      <3>5. posted[q] = "nothing" /\ answer[q] \notin {"ok", "true", "false"} /\ sent[q] # "ok"
            /\ got[q] # "ok" /\ pc[q] \notin {"observe", "post"}
        BY <2>1, <2>5, <3>1 DEF InjectionInv, PostedInv, InjectedIsTrue, RefusedInv, MessageInv, TypeOK
      <3> HIDE DEF q
      <3>6. PlaceInv'
        BY <2>1, <2>2, <2>3, <3>1, PressAssumption DEF InjectionInv, PlaceInv, TypeOK
      <3>7. OnceInv'
        <4>1. \A i \in 1 .. Len(main): main[i].by \in Presses
          BY Owners
        <4>2. \A i \in 1 .. Len(main): main[i].kind = "inject" => main[i].by # q
          BY <2>3 DEF InQueue
        <4> QED
          BY <2>1, <3>1, <4>1, <4>2, PressAssumption DEF InjectionInv, OnceInv, TypeOK
      <3>8. PostedInv'
        <4>1. \A i \in 1 .. Len(os): os[i].by \in Presses
          BY Owners
        <4>2. monitors \subseteq Presses
          BY DEF TypeOK
        <4>3. \A i \in 1 .. Len(os'): state'[os'[i].by] = "started"
          <5>1. state'[q] = "started" /\ \A p \in Presses: state[p] = "started" => state'[p] = "started"
            BY <2>1, <3>1 DEF TypeOK
          <5>2. \A i \in 1 .. Len(os): state'[os[i].by] = "started"
            BY <4>1, <5>1 DEF InjectionInv, PostedInv
          <5> QED
            BY <3>4, <5>1, <5>2
        <4>4. \A p \in Presses: posted'[p] # "nothing" => state'[p] = "started"
          BY <2>1, <3>1, <3>3 DEF InjectionInv, PostedInv, TypeOK
        <4>5. \A p \in monitors': state'[p] = "started" => posted'[p] = "all"
          BY <2>1, <3>1, <3>3, <4>2 DEF InjectionInv, PostedInv, TypeOK
        <4> QED
          BY <4>3, <4>4, <4>5 DEF PostedInv
      <3>9. MessageInv'
        <4>1. \A p \in Presses \ {q}: posted'[p] = posted[p] /\ sent'[p] = sent[p]
          BY <2>1, <3>3 DEF Send, TypeOK
        <4>2. posted'[q] = "all" \/ sent'[q] # "ok"
          BY <2>1, <3>3, <3>5 DEF Send, TypeOK
        <4> QED
          BY <2>1, <3>5, <4>1, <4>2 DEF InjectionInv, MessageInv
      <3>10. RefusedInv'
        BY <2>1, <2>2, <3>1, <3>5, PressAssumption DEF InjectionInv, RefusedInv, TypeOK
      <3>11. InjectedIsTrue'
        BY <2>1, <3>3, <3>5 DEF InjectionInv, InjectedIsTrue, TypeOK
      <3> QED
        BY <3>6, <3>7, <3>8, <3>9, <3>10, <3>11 DEF InjectionInv
    <2> QED
      BY <2>4, <2>5
  <1>11. CASE RemoveMonitor
    <2>1. /\ main # <<>> /\ main' = Tail(main) /\ monitors' \subseteq monitors
          /\ UNCHANGED <<pc, answer, state, running, sent, got, posted, os>>
      BY <1>11 DEF RemoveMonitor
    <2>2. /\ Len(main) \in Nat \ {0} /\ Len(main') = Len(main) - 1
          /\ \A i \in 1 .. Len(main'): main'[i] = main[i + 1] /\ i + 1 \in 1 .. Len(main)
      BY <2>1, QueueShorter
    <2>3. \A p \in Presses: InQueue(p)' => InQueue(p)
      BY <2>2 DEF InQueue
    <2>4. OnceInv'
      BY <2>1, <2>2 DEF InjectionInv, OnceInv
    <2> QED
      BY <2>1, <2>3, <2>4
      DEF InjectionInv, PlaceInv, PostedInv, MessageInv, RefusedInv, InjectedIsTrue
  <1>12. CASE Dispatch
    <2>1. /\ os # <<>> /\ os' = Tail(os)
          /\ UNCHANGED <<pc, answer, state, main, running, monitors, got, posted>>
      BY <1>12 DEF Dispatch
    <2>2. os \in Seq(Event) /\ os[1] = Head(os) /\ os[1].by \in Presses
      BY <2>1, Owners DEF TypeOK
    <2>3. \/ sent' = sent
          \/ sent' = Send(os[1].by, "err")
          \/ os[1].by \in monitors /\ sent' = Send(os[1].by, "ok")
      BY <1>12, <2>2 DEF Dispatch, EndsCombo
    <2>4. os[1].by \in monitors => posted[os[1].by] = "all"
      BY <2>1, <2>2 DEF InjectionInv, PostedInv
    <2>5. PostedInv'
      <3>1. \A i \in 1 .. Len(os'): os'[i] = os[i + 1] /\ i + 1 \in 1 .. Len(os)
        BY <2>1, <2>2
      <3> QED
        BY <2>1, <3>1 DEF InjectionInv, PostedInv
    <2>6. MessageInv'
      BY <2>1, <2>2, <2>3, <2>4 DEF InjectionInv, MessageInv, Send, TypeOK
    <2> QED
      BY <2>1, <2>5, <2>6
      DEF InjectionInv, PlaceInv, OnceInv, RefusedInv, InjectedIsTrue, InQueue
  <1>13. ASSUME NEW w \in Windows, DeliverDown(w) \/ DeliverUp(w) \/ Navigate(w)
         PROVE  InjectionInv'
    BY <1>13, InjectionUntouched DEF DeliverDown, DeliverUp, Navigate
  <1>14. ASSUME NEW p \in Presses, Expire(p) PROVE InjectionInv'
    BY <1>14, InjectionUntouched DEF Expire
  <1>15. CASE MoveFocus \/ LetGo \/ UNCHANGED vars
    BY <1>15, InjectionUntouched DEF MoveFocus, LetGo, vars
  <1> QED
    BY <1>1, <1>2, <1>3, <1>4, <1>5, <1>6, <1>7, <1>8, <1>9, <1>10, <1>11, <1>12,
       <1>13, <1>14, <1>15 DEF Next, PressStep, MainStep

\* What an answer says of the injection is true and stays true, for any number
\* of presses: the exchange of the injection's state decides once, and every
\* answer agrees with what it decided.
THEOREM InjectedReported == Spec => []InjectedIsTrue
  <1>1. Init => InjectionInv
    BY PressAssumption DEF Init, InjectionInv, PlaceInv, OnceInv, PostedInv, MessageInv,
                           RefusedInv, InjectedIsTrue, InQueue
  <1>2. TypeOK /\ InjectionInv /\ [Next]_vars => InjectionInv'
    BY InjectionStep
  <1>3. InjectionInv => InjectedIsTrue
    BY DEF InjectionInv
  <1> QED
    BY <1>1, <1>2, <1>3, TypeCorrect, PTL DEF Spec
-----------------------------------------------------------------------------
(* No monitor stays installed.                                             *)

\* Steps that leave queue and monitors alone, and no thread waiting less.
LEMMA CleanupUntouched ==
  ASSUME TypeOK, CleanupInv, UNCHANGED <<main, running, monitors>>,
         \A p \in Presses: pc[p] = "waiting" => pc'[p] = "waiting"
  PROVE  CleanupInv'
  <1>1. monitors \subseteq Presses /\ running \in Presses \cup {None}
    BY DEF TypeOK
  <1>2. \A i \in 1 .. Len(main): main[i].by \in Presses
    BY Owners
  <1> QED
    BY <1>1, <1>2 DEF CleanupInv, CleanupAfter

\* A step that is not from "waiting" leaves no thread waiting less.
LEMMA StillWaiting ==
  ASSUME TypeOK, NEW p \in Presses, pc[p] # "waiting", NEW k \in PCs,
         pc' = [pc EXCEPT ![p] = k]
  PROVE  \A q \in Presses: pc[q] = "waiting" => pc'[q] = "waiting"
  BY DEF TypeOK

\* Every step keeps a cleanup behind every injection that lost its thread.
LEMMA CleanupStep ==
  ASSUME TypeOK, CleanupInv, [Next]_vars
  PROVE  CleanupInv'
  <1> USE DEF thread, keys, page
  <1> DEFINE Left(i, p) ==
        \E j \in 1 .. Len(main'): j > i /\ main'[j].kind = "cleanup" /\ main'[j].by = p
  <1>0. /\ monitors \subseteq Presses /\ running \in Presses \cup {None}
        /\ Len(main) \in Nat
    BY DEF TypeOK
  <1>1. ASSUME NEW p \in Presses, Lock(p) \/ Focus(p) \/ Prepare(p) PROVE CleanupInv'
    <2>1. /\ pc[p] \in {"queued", "focus", "prepare"} /\ UNCHANGED <<main, running, monitors>>
          /\ \E k \in {"focus", "prepare", "submit", "done"}: pc' = [pc EXCEPT ![p] = k]
      BY <1>1 DEF Lock, Focus, Prepare, Goto, Finish
    <2> QED
      BY <2>1, StillWaiting, CleanupUntouched DEF PCs
  <1>2. ASSUME NEW p \in Presses, Cancel(p) \/ WaitPress(p) \/ Postcondition(p)
        PROVE  CleanupInv'
    <2>1. /\ pc[p] \in {"cancel", "observe", "post"} /\ UNCHANGED <<main, running, monitors>>
          /\ \E k \in {"observe", "post", "done"}: pc' = [pc EXCEPT ![p] = k]
      BY <1>2 DEF Cancel, WaitPress, Postcondition, Goto, Finish
    <2> QED
      BY <2>1, StillWaiting, CleanupUntouched DEF PCs
  <1>3. ASSUME NEW p \in Presses, Submit(p) PROVE CleanupInv'
    <2>1. CASE Finish(p, "false") /\ UNCHANGED main
      <3>1. /\ pc[p] = "submit" /\ UNCHANGED <<main, running, monitors>>
            /\ pc' = [pc EXCEPT ![p] = "done"]
        BY <1>3, <2>1 DEF Submit, Finish
      <3> QED
        BY <3>1, StillWaiting, CleanupUntouched DEF PCs
    <2>2. CASE main' = Append(main, [kind |-> "inject", by |-> p]) /\ Goto(p, "waiting")
      <3>1. /\ pc' = [pc EXCEPT ![p] = "waiting"] /\ UNCHANGED <<running, monitors>>
        BY <1>3, <2>2 DEF Submit, Goto
      <3>2. /\ Len(main') = Len(main) + 1
            /\ \A i \in 1 .. Len(main): main'[i] = main[i]
            /\ main'[Len(main) + 1].by = p
        <4>1. [kind |-> "inject", by |-> p] \in Closure
          BY DEF Closure
        <4> QED
          BY <2>2, <4>1, QueueLonger
      <3>3. \A q \in Presses: pc[q] = "waiting" => pc'[q] = "waiting"
        BY <3>1 DEF TypeOK
      <3>4. pc'[p] = "waiting"
        BY <3>1 DEF TypeOK
      <3>5. \A i, q: CleanupAfter(i, q) => Left(i, q)
        BY <1>0, <3>2 DEF CleanupAfter
      <3>6. \A i \in 1 .. Len(main'): i \in 1 .. Len(main) \/ main'[i].by = p
        BY <1>0, <3>2
      <3>7. \A i \in 1 .. Len(main'): main'[i].kind = "inject" =>
              pc'[main'[i].by] = "waiting" \/ Left(i, main'[i].by)
        BY <3>2, <3>3, <3>4, <3>5, <3>6, Owners DEF CleanupInv
      <3>8. running # None => pc'[running] = "waiting" \/ Left(0, running)
        BY <1>0, <3>1, <3>3, <3>5 DEF CleanupInv
      <3>9. \A q \in monitors: pc'[q] = "waiting" \/ running = q \/ Left(0, q)
        BY <1>0, <3>1, <3>3, <3>5 DEF CleanupInv
      <3> QED
        BY <3>1, <3>7, <3>8, <3>9 DEF CleanupInv, CleanupAfter
    <2> QED
      BY <1>3, <2>1, <2>2 DEF Submit
  <1>4. ASSUME NEW p \in Presses, GiveUp(p) PROVE CleanupInv'
    <2>1. /\ pc' = [pc EXCEPT ![p] = "cancel"] /\ UNCHANGED <<running, monitors>>
      BY <1>4 DEF GiveUp, Goto
    <2>2. /\ Len(main') = Len(main) + 1
          /\ \A i \in 1 .. Len(main): main'[i] = main[i]
          /\ main'[Len(main) + 1].kind = "cleanup" /\ main'[Len(main) + 1].by = p
      <3>1. [kind |-> "cleanup", by |-> p] \in Closure
        BY DEF Closure
      <3> QED
        BY <1>4, <3>1, QueueLonger DEF GiveUp, Cleanup
    <2>3. \A q \in Presses \ {p}: pc[q] = "waiting" => pc'[q] = "waiting"
      BY <2>1 DEF TypeOK
    <2>4. \A i, q: CleanupAfter(i, q) => Left(i, q)
      BY <1>0, <2>2 DEF CleanupAfter
    <2>5. \A i \in 0 .. Len(main): Left(i, p)
      BY <1>0, <2>2 DEF CleanupAfter
    <2>6. \A i \in 1 .. Len(main'): main'[i].kind = "inject" => i \in 1 .. Len(main)
      BY <1>0, <2>2
    <2>7. \A i \in 1 .. Len(main'): main'[i].kind = "inject" =>
            pc'[main'[i].by] = "waiting" \/ Left(i, main'[i].by)
      <3> SUFFICES ASSUME NEW i \in 1 .. Len(main'), main'[i].kind = "inject"
                   PROVE  pc'[main'[i].by] = "waiting" \/ Left(i, main'[i].by)
        OBVIOUS
      <3>1. i \in 1 .. Len(main) /\ main'[i] = main[i] /\ i \in 0 .. Len(main)
        BY <1>0, <2>2, <2>6
      <3>2. main[i].by \in Presses /\ (pc[main[i].by] = "waiting" \/ CleanupAfter(i, main[i].by))
        BY <3>1, Owners DEF CleanupInv
      <3>3. CASE main[i].by = p
        BY <2>5, <3>1, <3>3
      <3>4. CASE main[i].by # p
        <4>1. main[i].by \in Presses \ {p}
          BY <3>2, <3>4
        <4> QED
          BY <2>3, <2>4, <3>1, <3>2, <4>1
      <3> QED
        BY <3>3, <3>4
    <2>8. running # None => pc'[running] = "waiting" \/ Left(0, running)
      BY <1>0, <2>1, <2>3, <2>4, <2>5 DEF CleanupInv
    <2>9. \A q \in monitors: pc'[q] = "waiting" \/ running = q \/ Left(0, q)
      BY <1>0, <2>1, <2>3, <2>4, <2>5 DEF CleanupInv
    <2> QED
      BY <2>1, <2>7, <2>8, <2>9 DEF CleanupInv, CleanupAfter
  <1>5. ASSUME main # <<>>, main' = Tail(main), running = None, pc' = pc,
               \/ running' = running /\ monitors' \subseteq monitors
               \/ /\ main[1].kind = "inject"
                  /\ running' = main[1].by /\ monitors' \subseteq monitors \cup {main[1].by},
               main[1].kind = "cleanup" => main[1].by \notin monitors'
        PROVE  CleanupInv'
    <2>1. PICK q \in Presses: q = main[1].by
      BY <1>5, QueueShorter
    <2>2. /\ Len(main) \in Nat \ {0} /\ Len(main') = Len(main) - 1
          /\ \A i \in 1 .. Len(main'): main'[i] = main[i + 1] /\ i + 1 \in 1 .. Len(main)
      BY <1>5, QueueShorter
    <2>3. \A j \in 2 .. Len(main): j - 1 \in 1 .. Len(main') /\ main'[j - 1] = main[j]
      BY <2>2
    <2>4. \A i \in 1 .. Len(main), p \in Presses: CleanupAfter(i, p) => Left(i - 1, p)
      <3> SUFFICES ASSUME NEW i \in 1 .. Len(main), NEW p \in Presses, CleanupAfter(i, p)
                   PROVE  Left(i - 1, p)
        OBVIOUS
      <3>1. PICK j \in 1 .. Len(main): j > i /\ main[j].kind = "cleanup" /\ main[j].by = p
        BY DEF CleanupAfter
      <3>2. j - 1 \in 1 .. Len(main') /\ main'[j - 1] = main[j] /\ j - 1 > i - 1
        BY <2>2, <2>3, <3>1
      <3> QED
        BY <3>1, <3>2 DEF CleanupAfter
    <2>5. \A p \in monitors': CleanupAfter(0, p) => Left(0, p)
      <3> SUFFICES ASSUME NEW p \in monitors', CleanupAfter(0, p) PROVE Left(0, p)
        OBVIOUS
      <3>1. PICK j \in 1 .. Len(main): main[j].kind = "cleanup" /\ main[j].by = p
        BY DEF CleanupAfter
      <3>2. j - 1 \in 1 .. Len(main') /\ main'[j - 1] = main[j] /\ j - 1 > 0
        BY <1>5, <2>2, <2>3, <3>1
      <3> QED
        BY <3>1, <3>2 DEF CleanupAfter
    <2>6. \A i \in 1 .. Len(main'): main'[i].kind = "inject" =>
            pc'[main'[i].by] = "waiting" \/ Left(i, main'[i].by)
      <3> SUFFICES ASSUME NEW i \in 1 .. Len(main'), main'[i].kind = "inject"
                   PROVE  pc'[main'[i].by] = "waiting" \/ Left(i, main'[i].by)
        OBVIOUS
      <3>1. i + 1 \in 1 .. Len(main) /\ main'[i] = main[i + 1] /\ main[i + 1].by \in Presses
        BY <2>2, Owners
      <3>2. pc[main[i + 1].by] = "waiting" \/ CleanupAfter(i + 1, main[i + 1].by)
        BY <3>1 DEF CleanupInv
      <3>3. (i + 1) - 1 = i
        BY <2>2
      <3>4. CleanupAfter(i + 1, main[i + 1].by) => Left((i + 1) - 1, main[i + 1].by)
        BY <2>4, <3>1
      <3>5. Left((i + 1) - 1, main[i + 1].by) = Left(i, main'[i].by)
        BY <3>1, <3>3
      <3> QED
        BY <1>5, <3>1, <3>2, <3>4, <3>5
    <2>7. running' # None => pc'[running'] = "waiting" \/ Left(0, running')
      <3>1. CASE running' = None
        BY <3>1
      <3>2. CASE running' # None
        <4>1. main[1].kind = "inject" /\ running' = q /\ 1 \in 1 .. Len(main)
          BY <1>5, <2>1, <2>2, <3>2
        <4>2. pc[q] = "waiting" \/ CleanupAfter(1, q)
          BY <2>1, <4>1 DEF CleanupInv
        <4> QED
          BY <1>5, <2>4, <4>1, <4>2 DEF CleanupAfter
      <3> QED
        BY <3>1, <3>2
    <2>8. \A p \in monitors': pc'[p] = "waiting" \/ running' = p \/ Left(0, p)
      <3>1. \A p \in monitors' : p \in monitors \/ running' = p
        BY <1>5
      <3> QED
        BY <1>0, <1>5, <2>5, <3>1, PressAssumption DEF CleanupInv
    <2> QED
      BY <2>6, <2>7, <2>8 DEF CleanupInv, CleanupAfter
  <1>6. CASE StartInjection
    BY <1>5, <1>6, QueueShorter DEF StartInjection, Monitored
  <1>7. CASE Inject
    <2>1. /\ UNCHANGED <<main, pc>> /\ running # None /\ running' = None
          /\ monitors' \subseteq monitors
      BY <1>7 DEF Inject
    <2> QED
      BY <2>1 DEF CleanupInv, CleanupAfter
  <1>8. CASE RemoveMonitor
    BY <1>5, <1>8, QueueShorter DEF RemoveMonitor
  <1>9. CASE UNCHANGED <<pc, main, running, monitors>>
    BY <1>9, CleanupUntouched
  <1>10. ASSUME NEW w \in Windows, DeliverDown(w) \/ DeliverUp(w) \/ Navigate(w)
         PROVE  UNCHANGED <<pc, main, running, monitors>>
    BY <1>10 DEF DeliverDown, DeliverUp, Navigate
  <1>11. ASSUME NEW p \in Presses, Expire(p)
         PROVE  UNCHANGED <<pc, main, running, monitors>>
    BY <1>11 DEF Expire
  <1>12. ASSUME Dispatch \/ MoveFocus \/ LetGo \/ UNCHANGED vars
         PROVE  UNCHANGED <<pc, main, running, monitors>>
    BY <1>12 DEF Dispatch, MoveFocus, LetGo, vars
  <1> QED
    BY <1>1, <1>2, <1>3, <1>4, <1>6, <1>7, <1>8, <1>9, <1>10, <1>11, <1>12
    DEF Next, PressStep, MainStep

\* Every monitor is in use or going to be removed, for any number of presses
\* and whichever of a thread's deadline and the main thread is first.
THEOREM MonitorsGo == Spec => []NoMonitorLeft
  <1>1. Init => CleanupInv
    BY DEF Init, CleanupInv
  <1>2. TypeOK /\ CleanupInv /\ [Next]_vars => CleanupInv'
    BY CleanupStep
  <1>3. TypeOK /\ CleanupInv => NoMonitorLeft
    <2>1. ASSUME TypeOK, NEW i \in 1 .. Len(main), NEW p, main[i].kind = "cleanup", main[i].by = p
          PROVE  main[i] = [kind |-> "cleanup", by |-> p]
      <3>1. main[i] \in Closure
        BY <2>1 DEF TypeOK
      <3> QED
        BY <2>1, <3>1 DEF Closure
    <2>2. ASSUME TypeOK, CleanupInv, NEW p \in monitors, pc[p] # "waiting", running # p
          PROVE  \E i \in 1 .. Len(main): main[i] = [kind |-> "cleanup", by |-> p]
      <3>1. PICK i \in 1 .. Len(main): main[i].kind = "cleanup" /\ main[i].by = p
        BY <2>2 DEF CleanupInv, CleanupAfter
      <3> QED
        BY <2>1, <2>2, <3>1
    <2> QED
      BY <2>2 DEF NoMonitorLeft
  <1> QED
    BY <1>1, <1>2, <1>3, TypeCorrect, PTL DEF Spec
-----------------------------------------------------------------------------
(* The next press finds the keyboard quiet.                                *)

\* Every press so far was acknowledged, and nothing drew its events away.
Smooth == \A q \in Presses: pc[q] = "done" => Undisturbed(q)

\* No event is under way, nor will a stuck modifier make one.
Quiet == os = <<>> /\ ~held /\ \A w \in Windows: down[w] = <<>> /\ up[w] = <<>>

\* An observer that is missing, or has seen nothing.
Fresh == {NoObserver, [NoObserver EXCEPT !.state = "armed"]}

\* The codes a combo presses and releases, in order.
Downs(p) == IF request[p].shifted THEN <<"shift", "key">> ELSE <<"key">>
Ups(p)   == IF request[p].shifted THEN <<"key", "shift">> ELSE <<"key">>
Half(p)  == Len(Downs(p))

FirstOf(s, n) == {s[k] : k \in 1 .. n}

\* AppKit has dispatched d keydowns and u keyups of the combo of p, and the page
\* has seen i and j of them.
At(p, d, u, i, j) ==
  /\ i <= d /\ j <= u /\ (u > 0 => d = Half(p))
  /\ os = SubSeq(Combo(p), d + u + 1, 2 * Half(p))
  /\ down[request[p].win] = SubSeq(Downs(p), i + 1, d) /\ obs[p].pressed = FirstOf(Downs(p), i)
  /\ up[request[p].win] = SubSeq(Ups(p), j + 1, u) /\ obs[p].released = FirstOf(Ups(p), j)
Tracks(p) == \E d, u, i, j \in 0 .. Half(p): At(p, d, u, i, j)

\* The combo of p is on its way to its page, and to nowhere else. (Nobody
\* observes it any more if the observer is gone.)
Flow(p) ==
  obs[p].state # "none" =>
    /\ ~held
    /\ \A w \in Windows \ {request[p].win}: down[w] = <<>> /\ up[w] = <<>>
    /\ obs[p].state = "acked" => Quiet
    /\ obs[p].state = "armed" => Tracks(p)

\* What the keyboard is like while p has the lock. Nothing is said of a press
\* that is not confirmed by its page, or whose events went astray.
Clear(p) ==
  /\ pc[p] \in {"focus", "prepare", "submit"} => Quiet /\ obs[p] \in Fresh
  /\ request[p].webview /\ p \notin strayed =>
       /\ pc[p] \in {"waiting", "cancel", "observe"} =>
            /\ posted[p] = "nothing" => Quiet /\ obs[p] \in Fresh
            /\ posted[p] = "all" => Flow(p)
       /\ pc[p] = "post" => Quiet

\* Presses are served in order, one at a time; none has an observer before it
\* prepares one; and between two of them the keyboard is quiet.
QuietInv ==
  /\ \A p, q \in Presses: q < p /\ pc[p] # "queued" => pc[q] = "done"
  /\ \A p \in Presses: pc[p] \in {"queued", "focus", "prepare"} => obs[p] = NoObserver
  /\ Smooth => /\ (\A p \in Presses: pc[p] \in {"queued", "done"}) => Quiet
               /\ \A p \in Presses: Clear(p)

\* One press at a time has the lock, and only of that is anything said.
LEMMA OneAtATime ==
  ASSUME TypeOK, QuietInv, NEW p \in Presses, pc[p] \notin {"queued", "done"}
  PROVE  \A q \in Presses \ {p}: pc[q] \in {"queued", "done"}
  <1>1. ASSUME NEW q \in Presses, q < p PROVE pc[q] = "done"
    BY <1>1 DEF QuietInv
  <1>2. ASSUME NEW q \in Presses, p < q PROVE pc[q] = "queued"
    BY <1>2 DEF QuietInv
  <1>3. \A q \in Presses: q < p \/ p < q \/ q = p
    BY DEF Presses
  <1> QED
    BY <1>1, <1>2, <1>3

LEMMA NothingSaid ==
  ASSUME NEW p \in Presses, pc[p] \in {"queued", "done"}
  PROVE  Clear(p)
  BY DEF Clear

\* The two halves of a combo.
LEMMA ComboHalves ==
  ASSUME TypeOK, NEW p \in Presses
  PROVE  /\ Half(p) \in {1, 2} /\ Downs(p) \in Seq(Codes) /\ Ups(p) \in Seq(Codes)
         /\ Len(Downs(p)) = Half(p) /\ Len(Ups(p)) = Half(p)
         /\ Combo(p) \in Seq(Event) /\ Len(Combo(p)) = 2 * Half(p)
         /\ \A k \in 1 .. Half(p): Combo(p)[k].dir = "down" /\ Combo(p)[k].code = Downs(p)[k]
         /\ \A k \in 1 .. Half(p): Combo(p)[Half(p) + k].dir = "up" /\ Combo(p)[Half(p) + k].code = Ups(p)[k]
         /\ \A k \in 1 .. (2 * Half(p)): Combo(p)[k].by = p
  <1> USE DEF Half, Codes
  <1>1. request \in Plans
    BY DEF TypeOK
  <1>2. Combo(p) \in Seq(Event) /\ \A k \in 1 .. Len(Combo(p)): Combo(p)[k].by = p
    BY <1>1, ComboType
  <1>3. CASE request[p].shifted
    <2>1. Downs(p) = <<"shift", "key">> /\ Ups(p) = <<"key", "shift">>
      BY <1>3 DEF Downs, Ups
    <2>2. Combo(p) = <<ShiftDown(p), KeyDown(p), KeyUp(p), ShiftUp(p)>>
      BY <1>3 DEF Combo
    <2>3. Half(p) = 2 /\ Len(Combo(p)) = 4 /\ Len(Ups(p)) = 2
      BY <2>1, <2>2
    <2>4. /\ Combo(p)[1].dir = "down" /\ Combo(p)[1].code = "shift"
          /\ Combo(p)[2].dir = "down" /\ Combo(p)[2].code = "key"
          /\ Combo(p)[3].dir = "up" /\ Combo(p)[3].code = "key"
          /\ Combo(p)[4].dir = "up" /\ Combo(p)[4].code = "shift"
      BY <2>2 DEF ShiftDown, KeyDown, KeyUp, ShiftUp
    <2>5. \A k \in 1 .. 2: k = 1 \/ k = 2
      OBVIOUS
    <2> QED
      BY <1>2, <2>1, <2>3, <2>4, <2>5
  <1>4. CASE ~request[p].shifted
    <2>1. Downs(p) = <<"key">> /\ Ups(p) = <<"key">>
      BY <1>4 DEF Downs, Ups
    <2>2. Combo(p) = <<KeyDown(p), KeyUp(p)>>
      BY <1>4 DEF Combo
    <2>3. Half(p) = 1 /\ Len(Combo(p)) = 2 /\ Len(Ups(p)) = 1
      BY <2>1, <2>2
    <2>4. /\ Combo(p)[1].dir = "down" /\ Combo(p)[1].code = "key"
          /\ Combo(p)[2].dir = "up" /\ Combo(p)[2].code = "key"
      BY <2>2 DEF KeyDown, KeyUp
    <2>5. \A k \in 1 .. 1: k = 1
      OBVIOUS
    <2> QED
      BY <1>2, <2>1, <2>3, <2>4, <2>5
  <1> QED
    BY <1>3, <1>4

\* An observer is complete when it has seen all of the combo.
LEMMA CompleteIsAll ==
  ASSUME TypeOK, NEW p \in Presses, NEW i \in 0 .. Half(p), NEW j \in 0 .. Half(p),
         Complete(FirstOf(Downs(p), i), FirstOf(Ups(p), j))
  PROVE  i = Half(p) /\ j = Half(p)
  <1> USE DEF Complete, FirstOf, Half
  <1>1. CASE request[p].shifted
    <2>1. Downs(p) = <<"shift", "key">> /\ Ups(p) = <<"key", "shift">>
      BY <1>1 DEF Downs, Ups
    <2>2. i = 2
      <3>1. \E k \in 1 .. i: Downs(p)[k] = "key"
        OBVIOUS
      <3> QED
        BY <2>1, <3>1
    <2>3. \E k \in 1 .. j: Ups(p)[k] = "shift"
      <3>1. Downs(p)[1] = "shift" /\ 1 \in 1 .. i
        BY <2>1, <2>2
      <3>2. "shift" \in {Downs(p)[k] : k \in 1 .. i}
        BY <3>1
      <3> QED
        BY <3>2
    <2> QED
      BY <2>1, <2>2, <2>3
  <1>2. CASE ~request[p].shifted
    <2>1. Downs(p) = <<"key">> /\ Ups(p) = <<"key">>
      BY <1>2 DEF Downs, Ups
    <2>2. (\E k \in 1 .. i: Downs(p)[k] = "key") /\ (\E k \in 1 .. j: Ups(p)[k] = "key")
      OBVIOUS
    <2> QED
      BY <2>1, <2>2
  <1> QED
    BY <1>1, <1>2

LEMMA WindowOf ==
  ASSUME TypeOK, NEW p \in Presses
  PROVE  request[p].win \in Windows /\ obs[p] \in Observer
  BY PressAssumption DEF TypeOK, Request

\* What is left of a sequence becomes less, and what is there more.
LEMMA LessLeft ==
  ASSUME NEW S, NEW q \in Seq(S), NEW m \in Nat, NEW n \in Nat, 1 <= m, m <= n, n <= Len(q)
  PROVE  /\ SubSeq(q, m, n) # <<>>
         /\ Head(SubSeq(q, m, n)) = q[m]
         /\ Tail(SubSeq(q, m, n)) = SubSeq(q, m + 1, n)
  <1>1. m \in 1 .. Len(q) /\ n \in m .. Len(q)
    OBVIOUS
  <1>2. Len(SubSeq(q, m, n)) > 0
    OBVIOUS
  <1> QED
    BY <1>1, <1>2, HeadTailOfSubSeq

LEMMA MoreThere ==
  ASSUME NEW S, NEW q \in Seq(S), NEW m \in Nat, NEW n \in Nat, 1 <= m, m <= n + 1, n + 1 <= Len(q)
  PROVE  Append(SubSeq(q, m, n), q[n + 1]) = SubSeq(q, m, n + 1)
  <1>1. Append(SubSeq(q, m, n), q[n + 1]) \in Seq(S) /\ SubSeq(q, m, n + 1) \in Seq(S)
    OBVIOUS
  <1>2. Len(Append(SubSeq(q, m, n), q[n + 1])) = Len(SubSeq(q, m, n + 1))
    OBVIOUS
  <1>3. \A k \in 1 .. Len(SubSeq(q, m, n + 1)): Append(SubSeq(q, m, n), q[n + 1])[k] = SubSeq(q, m, n + 1)[k]
    OBVIOUS
  <1> QED
    <2> DEFINE a == Append(SubSeq(q, m, n), q[n + 1])
               b == SubSeq(q, m, n + 1)
    <2>1. a \in Seq(S) /\ b \in Seq(S) /\ Len(a) = Len(b) /\ \A k \in 1 .. Len(a): a[k] = b[k]
      BY <1>1, <1>2, <1>3
    <2> HIDE DEF a, b
    <2>2. a = b
      BY <2>1, SeqEqual
    <2> QED
      BY <2>2 DEF a, b

\* Keydowns come first, and an event that is left is one of a half.
LEMMA NextHalf ==
  ASSUME NEW h \in {1, 2}, NEW d \in 0 .. h, NEW u \in 0 .. h, u > 0 => d = h, d + u + 1 <= 2 * h
  PROVE  /\ d < h => u = 0 /\ d + u + 1 \in 1 .. h /\ d + 1 \in 0 .. h
         /\ d = h => u < h /\ d + u + 1 = h + (u + 1) /\ u + 1 \in 1 .. h /\ u + 1 \in 0 .. h
  OBVIOUS

LEMMA SomeLeft ==
  ASSUME NEW h \in {1, 2}, NEW d \in 0 .. h, NEW u \in 0 .. h, NEW s, SubSeq(s, d + u + 1, 2 * h) # <<>>
  PROVE  d + u + 1 <= 2 * h
  <1>1. d + u + 1 \in Int /\ 2 * h \in Int
    OBVIOUS
  <1>2. ~(2 * h < d + u + 1)
    BY <1>1, SubSeqEmpty, Zenon
  <1> QED
    BY <1>1, <1>2

\* The next event of a combo goes to the page.
LEMMA FlowDispatch ==
  ASSUME TypeOK, NEW p \in Presses, Dispatch, Flow(p), focused = request[p].win
  PROVE  Flow(p)'
  <1> SUFFICES ASSUME obs[p].state # "none" PROVE Flow(p)'
    BY DEF Dispatch, Flow, page
  <1>1. PICK w \in Windows: w = request[p].win
    BY WindowOf
  <1>2. w # None /\ focused = w
    BY <1>1, PressAssumption
  <1>3. /\ ~held /\ \A v \in Windows \ {w}: down[v] = <<>> /\ up[v] = <<>>
        /\ obs[p].state = "acked" => Quiet
        /\ obs[p].state = "armed" => Tracks(p)
    BY <1>1 DEF Flow
  <1>4. os # <<>> /\ os' = Tail(os) /\ UNCHANGED <<request, obs, held>>
    BY DEF Dispatch
  <1>5. obs[p].state = "armed"
    BY <1>3, <1>4, WindowOf DEF Quiet, Observer
  <1>6. PICK h: h = Half(p)
    OBVIOUS
  <1>7. PICK d \in 0 .. h, u \in 0 .. h, i \in 0 .. h, j \in 0 .. h: At(p, d, u, i, j)
    BY <1>3, <1>5, <1>6 DEF Tracks
  <1>8. PICK c \in Seq(Event), s \in Seq(Codes), t \in Seq(Codes): c = Combo(p) /\ s = Downs(p) /\ t = Ups(p)
    BY ComboHalves
  <1>9. /\ h \in {1, 2} /\ Len(c) = 2 * h /\ Len(s) = h /\ Len(t) = h
        /\ \A k \in 1 .. h: c[k].dir = "down" /\ c[k].code = s[k]
        /\ \A k \in 1 .. h: c[h + k].dir = "up" /\ c[h + k].code = t[k]
    BY <1>6, <1>8, ComboHalves
  <1>10. /\ i <= d /\ j <= u /\ (u > 0 => d = h)
         /\ os = SubSeq(c, d + u + 1, 2 * h)
         /\ down[w] = SubSeq(s, i + 1, d) /\ obs[p].pressed = FirstOf(s, i)
         /\ up[w] = SubSeq(t, j + 1, u) /\ obs[p].released = FirstOf(t, j)
    BY <1>1, <1>6, <1>7, <1>8 DEF At
  <1>11. d + u + 1 <= 2 * h
    <2>1. SubSeq(c, d + u + 1, 2 * h) # <<>> /\ h \in {1, 2}
      BY <1>4, <1>9, <1>10, Zenon
    <2> QED
      BY <2>1, SomeLeft, Zenon
  <1>12. /\ d < h => u = 0 /\ d + u + 1 \in 1 .. h /\ d + 1 \in 0 .. h
         /\ d = h => u < h /\ d + u + 1 = h + (u + 1) /\ u + 1 \in 1 .. h /\ u + 1 \in 0 .. h
    <2>1. h \in {1, 2} /\ (u > 0 => d = h)
      BY <1>9, <1>10, Zenon
    <2> QED
      BY <1>11, <2>1, NextHalf, Zenon
  <1>13. PICK e: e = Head(os)
    OBVIOUS
  <1>14. e = c[d + u + 1] /\ os' = SubSeq(c, d + u + 2, 2 * h)
    <2>1. PICK m: m = d + u + 1
      OBVIOUS
    <2>2. PICK n: n = 2 * h
      OBVIOUS
    <2>3. m \in Nat /\ n \in Nat /\ 1 <= m /\ m <= n /\ n <= Len(c) /\ m + 1 = d + u + 2
      BY <1>9, <1>11, <2>1, <2>2
    <2>4. Head(SubSeq(c, m, n)) = c[m] /\ Tail(SubSeq(c, m, n)) = SubSeq(c, m + 1, n)
      BY <2>3, LessLeft, Zenon
    <2> QED
      BY <1>4, <1>10, <1>13, <2>1, <2>2, <2>3, <2>4
  <1>15. UNCHANGED <<Combo(p), Downs(p), Ups(p), Half(p)>>
    BY <1>4 DEF Combo, Downs, Ups, Half, ShiftDown, KeyDown, KeyUp, ShiftUp
  <1>16. /\ e.dir = "down" => down' = [down EXCEPT ![w] = Append(down[w], e.code)] /\ up' = up
         /\ e.dir = "up" => up' = [up EXCEPT ![w] = Append(up[w], e.code)] /\ down' = down
    BY <1>2, <1>13 DEF Dispatch
  <1>17. down \in [Windows -> Seq(Codes)] /\ up \in [Windows -> Seq(Codes)]
    BY DEF TypeOK
  <1>18. /\ d < h => Append(SubSeq(s, i + 1, d), s[d + 1]) = SubSeq(s, i + 1, d + 1)
         /\ u < h => Append(SubSeq(t, j + 1, u), t[u + 1]) = SubSeq(t, j + 1, u + 1)
    <2>1. PICK m: m = i + 1
      OBVIOUS
    <2>2. PICK n: n = j + 1
      OBVIOUS
    <2>3. h \in Nat /\ Len(s) = h /\ Len(t) = h /\ i <= d /\ j <= u
      <3>1. h \in {1, 2} => h \in Nat
        OBVIOUS
      <3> QED
        BY <1>9, <1>10, <3>1, Zenon
    <2>4. d \in Nat /\ u \in Nat /\ i \in Nat /\ j \in Nat
      BY <2>3
    <2>5. m \in Nat /\ 1 <= m /\ m <= d + 1 /\ (d < h => d + 1 <= Len(s))
      BY <2>1, <2>3, <2>4
    <2>6. n \in Nat /\ 1 <= n /\ n <= u + 1 /\ (u < h => u + 1 <= Len(t))
      BY <2>2, <2>3, <2>4
    <2>7. d < h => Append(SubSeq(s, m, d), s[d + 1]) = SubSeq(s, m, d + 1)
      BY <2>4, <2>5, MoreThere, Zenon
    <2>8. u < h => Append(SubSeq(t, n, u), t[u + 1]) = SubSeq(t, n, u + 1)
      BY <2>4, <2>6, MoreThere, Zenon
    <2> QED
      BY <2>1, <2>2, <2>7, <2>8, Zenon
  <1>19. CASE d < h
    <2>1. u = 0 /\ d + u + 1 \in 1 .. h /\ d + 1 \in 0 .. h
      BY <1>12, <1>19, Zenon
    <2>2. e.dir = "down" /\ e.code = s[d + 1]
      BY <1>9, <1>14, <2>1
    <2>3. down' = [down EXCEPT ![w] = SubSeq(s, i + 1, d + 1)] /\ up' = up
      BY <1>9, <1>10, <1>16, <1>18, <1>19, <2>2
    <2>4. At(p, d + 1, u, i, j)'
      <3>1. i <= d + 1 /\ j <= u /\ (u > 0 => d + 1 = h)
        BY <1>9, <1>10, <2>1
      <3>2. os' = SubSeq(c, (d + 1) + u + 1, 2 * h)
        <4>1. (d + 1) + u + 1 = d + u + 2
          BY <1>9
        <4> QED
          BY <1>14, <4>1
      <3>3. down'[w] = SubSeq(s, i + 1, d + 1) /\ up'[w] = up[w]
        BY <1>17, <2>3
      <3> QED
        BY <1>1, <1>4, <1>6, <1>8, <1>10, <1>15, <3>1, <3>2, <3>3 DEF At
    <2>5. Tracks(p)'
      BY <1>6, <1>15, <2>1, <2>4 DEF Tracks
    <2> QED
      BY <1>1, <1>3, <1>4, <1>5, <1>17, <2>3, <2>5 DEF Flow
  <1>20. CASE d = h
    <2>1. u < h /\ d + u + 1 = h + (u + 1) /\ u + 1 \in 1 .. h /\ u + 1 \in 0 .. h
      BY <1>12, <1>20, Zenon
    <2>2. e.dir = "up" /\ e.code = t[u + 1]
      <3>1. e = c[h + (u + 1)]
        BY <1>14, <2>1, Zenon
      <3> QED
        BY <1>9, <2>1, <3>1, Zenon
    <2>3. up' = [up EXCEPT ![w] = SubSeq(t, j + 1, u + 1)] /\ down' = down
      BY <1>9, <1>10, <1>16, <1>18, <2>1, <2>2
    <2>4. At(p, d, u + 1, i, j)'
      <3>1. i <= d /\ j <= u + 1 /\ (u + 1 > 0 => d = h)
        BY <1>9, <1>10, <1>20
      <3>2. os' = SubSeq(c, d + (u + 1) + 1, 2 * h)
        <4>1. d + (u + 1) + 1 = d + u + 2
          BY <1>9
        <4> QED
          BY <1>14, <4>1
      <3>3. up'[w] = SubSeq(t, j + 1, u + 1) /\ down'[w] = down[w]
        BY <1>17, <2>3
      <3> QED
        BY <1>1, <1>4, <1>6, <1>8, <1>10, <1>15, <3>1, <3>2, <3>3 DEF At
    <2>5. Tracks(p)'
      BY <1>6, <1>15, <2>1, <2>4 DEF Tracks
    <2> QED
      BY <1>1, <1>3, <1>4, <1>5, <1>17, <2>3, <2>5 DEF Flow
  <1> QED
    BY <1>9, <1>19, <1>20

LEMMA SomeOf ==
  ASSUME NEW S, NEW q \in Seq(S), NEW m \in Nat, NEW n \in Nat, 1 <= m, n = Len(q),
         NEW p, \A k \in 1 .. n: q[k].by = p, SubSeq(q, m, n) # <<>>
  PROVE  Head(SubSeq(q, m, n)).by = p
  <1>1. m <= n
    BY SubSeqEmpty
  <1>2. Head(SubSeq(q, m, n)) = q[m] /\ m \in 1 .. n
    BY <1>1, LessLeft
  <1> QED
    BY <1>2

LEMMA NothingLeft ==
  ASSUME NEW S, NEW q \in Seq(S), NEW h \in {1, 2}
  PROVE  SubSeq(q, h + h + 1, 2 * h) = <<>> /\ SubSeq(q, h + 1, h) = <<>>
  <1>1. \A m, n \in Nat: m > n => SubSeq(q, m, n) = <<>>
    OBVIOUS
  <1>2. h \in Nat /\ h + 1 \in Nat /\ h + h + 1 \in Nat /\ 2 * h \in Nat /\ h + h + 1 > 2 * h /\ h + 1 > h
    OBVIOUS
  <1> QED
    BY <1>1, <1>2, Zenon

\* What the page sees of a combo completes the observer only at its very end.
LEMMA FlowSeen ==
  ASSUME TypeOK, NEW p \in Presses,
         NEW d \in 0 .. Half(p), NEW u \in 0 .. Half(p), NEW i \in 0 .. Half(p), NEW j \in 0 .. Half(p),
         i <= d, j <= u, u > 0 => d = Half(p),
         request' = request, obs[p].state = "armed",
         obs'[p] = Seen(obs[p], FirstOf(Downs(p), i), FirstOf(Ups(p), j)),
         ~held', \A v \in Windows \ {request[p].win}: down'[v] = <<>> /\ up'[v] = <<>>,
         os' = SubSeq(Combo(p), d + u + 1, 2 * Half(p)),
         down'[request[p].win] = SubSeq(Downs(p), i + 1, d),
         up'[request[p].win] = SubSeq(Ups(p), j + 1, u)
  PROVE  Flow(p)'
  <1>1. UNCHANGED <<Combo(p), Downs(p), Ups(p), Half(p)>>
    BY DEF Combo, Downs, Ups, Half, ShiftDown, KeyDown, KeyUp, ShiftUp
  <1>2. obs[p] \in Observer
    BY WindowOf
  <1>3. CASE Complete(FirstOf(Downs(p), i), FirstOf(Ups(p), j))
    <2>1. i = Half(p) /\ j = Half(p)
      BY <1>3, CompleteIsAll, Zenon
    <2>2. Half(p) \in {1, 2}
      BY ComboHalves
    <2>3. d = Half(p) /\ u = Half(p)
      BY <2>1, <2>2
    <2>4. Combo(p) \in Seq(Event) /\ Downs(p) \in Seq(Codes) /\ Ups(p) \in Seq(Codes)
      BY ComboHalves
    <2>5. os' = <<>>
      BY <2>2, <2>3, <2>4, NothingLeft, Zenon
    <2>6. down'[request[p].win] = <<>> /\ up'[request[p].win] = <<>>
      BY <2>1, <2>2, <2>3, <2>4, NothingLeft, Zenon
    <2>7. Quiet'
      BY <2>5, <2>6 DEF Quiet
    <2>8. obs'[p].state = "acked"
      BY <1>3 DEF Seen, NoObserver
    <2> QED
      BY <2>7, <2>8 DEF Flow
  <1>4. CASE ~Complete(FirstOf(Downs(p), i), FirstOf(Ups(p), j))
    <2>1. /\ obs'[p].state = "armed"
          /\ obs'[p].pressed = FirstOf(Downs(p), i)
          /\ obs'[p].released = FirstOf(Ups(p), j)
      BY <1>2, <1>4 DEF Seen, Observer
    <2>2. At(p, d, u, i, j)'
      BY <1>1, <2>1 DEF At
    <2>3. Tracks(p)'
      BY <1>1, <2>2 DEF Tracks
    <2> QED
      BY <2>1, <2>3 DEF Flow
  <1> QED
    BY <1>3, <1>4

\* A page reads the next keydown of a combo, or the next keyup.
LEMMA FlowDeliver ==
  ASSUME TypeOK, NEW p \in Presses, NEW w \in Windows, DeliverDown(w) \/ DeliverUp(w), Flow(p)
  PROVE  Flow(p)'
  <1>1. request' = request /\ os' = os /\ held' = held
    BY DEF DeliverDown, DeliverUp
  <1>2. CASE obs[p].state # "armed"
    <2>1. obs'[p] = obs[p]
      BY <1>2 DEF DeliverDown, DeliverUp
    <2>2. ~Quiet
      BY DEF DeliverDown, DeliverUp, Quiet
    <2>3. obs[p].state = "none"
      BY <1>2, <2>2, WindowOf DEF Flow, Observer
    <2> QED
      BY <2>1, <2>3 DEF Flow
  <1>3. CASE obs[p].state = "armed"
    <2>1. /\ ~held /\ Tracks(p)
          /\ \A v \in Windows \ {request[p].win}: down[v] = <<>> /\ up[v] = <<>>
      BY <1>3 DEF Flow
    <2>2. w = request[p].win
      BY <2>1 DEF DeliverDown, DeliverUp
    <2>3. PICK d \in 0 .. Half(p), u \in 0 .. Half(p), i \in 0 .. Half(p), j \in 0 .. Half(p):
            At(p, d, u, i, j)
      BY <2>1 DEF Tracks
    <2>4. down \in [Windows -> Seq(Codes)] /\ up \in [Windows -> Seq(Codes)]
      BY DEF TypeOK
    <2>5. Half(p) \in {1, 2} /\ Downs(p) \in Seq(Codes) /\ Len(Downs(p)) = Half(p)
          /\ Ups(p) \in Seq(Codes) /\ Len(Ups(p)) = Half(p)
      BY ComboHalves
    <2>6. \A s, n: n \in Nat => FirstOf(s, n) \cup {s[n + 1]} = FirstOf(s, n + 1)
      BY DEF FirstOf
    <2>7. CASE DeliverDown(w)
      <3>1. down[w] = SubSeq(Downs(p), i + 1, d) /\ down[w] # <<>>
        BY <2>2, <2>3, <2>7 DEF At, DeliverDown
      <3>2. i + 1 <= d
        BY <2>5, <3>1, SubSeqEmpty
      <3>3. PICK m: m = i + 1
        OBVIOUS
      <3>4. m \in Nat /\ d \in Nat /\ 1 <= m /\ m <= d /\ d <= Len(Downs(p)) /\ i \in Nat
        BY <2>5, <3>2, <3>3
      <3>5. Head(SubSeq(Downs(p), m, d)) = Downs(p)[m] /\ Tail(SubSeq(Downs(p), m, d)) = SubSeq(Downs(p), m + 1, d)
        BY <2>5, <3>4, LessLeft, Zenon
      <3>6. Head(down[w]) = Downs(p)[m] /\ down'[w] = SubSeq(Downs(p), m + 1, d)
        BY <2>4, <2>7, <3>1, <3>3, <3>5 DEF DeliverDown
      <3>7. obs'[p] = Seen(obs[p], obs[p].pressed \cup {Downs(p)[m]}, obs[p].released)
        BY <1>3, <2>2, <2>7, <3>6 DEF DeliverDown
      <3>8. obs[p].pressed \cup {Downs(p)[m]} = FirstOf(Downs(p), m) /\ obs[p].released = FirstOf(Ups(p), j)
        BY <2>3, <2>6, <3>3, <3>4 DEF At
      <3>9. m \in 0 .. Half(p) /\ m <= d
        BY <2>5, <3>4
      <3>10. /\ j <= u /\ (u > 0 => d = Half(p))
             /\ os = SubSeq(Combo(p), d + u + 1, 2 * Half(p))
             /\ up[request[p].win] = SubSeq(Ups(p), j + 1, u)
        BY <2>3 DEF At
      <3>11. up' = up /\ \A v \in Windows \ {w}: down'[v] = down[v]
        BY <2>7 DEF DeliverDown, TypeOK
      <3> QED
        BY <1>1, <1>3, <2>1, <2>2, <3>6, <3>7, <3>8, <3>9, <3>10, <3>11, FlowSeen, Zenon
    <2>8. CASE DeliverUp(w)
      <3>1. up[w] = SubSeq(Ups(p), j + 1, u) /\ up[w] # <<>>
        BY <2>2, <2>3, <2>8 DEF At, DeliverUp
      <3>2. j + 1 <= u
        BY <2>5, <3>1, SubSeqEmpty
      <3>3. PICK m: m = j + 1
        OBVIOUS
      <3>4. m \in Nat /\ u \in Nat /\ 1 <= m /\ m <= u /\ u <= Len(Ups(p)) /\ j \in Nat
        BY <2>5, <3>2, <3>3
      <3>5. Head(SubSeq(Ups(p), m, u)) = Ups(p)[m] /\ Tail(SubSeq(Ups(p), m, u)) = SubSeq(Ups(p), m + 1, u)
        BY <2>5, <3>4, LessLeft, Zenon
      <3>6. Head(up[w]) = Ups(p)[m] /\ up'[w] = SubSeq(Ups(p), m + 1, u)
        BY <2>4, <2>8, <3>1, <3>3, <3>5 DEF DeliverUp
      <3>7. obs'[p] = Seen(obs[p], obs[p].pressed, obs[p].released \cup {Ups(p)[m]})
        BY <1>3, <2>2, <2>8, <3>6 DEF DeliverUp
      <3>8. obs[p].pressed = FirstOf(Downs(p), i) /\ obs[p].released \cup {Ups(p)[m]} = FirstOf(Ups(p), m)
        BY <2>3, <2>6, <3>3, <3>4 DEF At
      <3>9. m \in 0 .. Half(p) /\ m <= u
        BY <2>5, <3>4
      <3>10. /\ i <= d /\ (u > 0 => d = Half(p))
             /\ os = SubSeq(Combo(p), d + u + 1, 2 * Half(p))
             /\ down[request[p].win] = SubSeq(Downs(p), i + 1, d)
        BY <2>3 DEF At
      <3>11. down' = down /\ \A v \in Windows \ {w}: up'[v] = up[v]
        BY <2>8 DEF DeliverUp, TypeOK
      <3> QED
        BY <1>1, <1>3, <2>1, <2>2, <3>6, <3>7, <3>8, <3>9, <3>10, <3>11, FlowSeen, Zenon
    <2> QED
      BY <2>7, <2>8
  <1> QED
    BY <1>2, <1>3

\* What went well stays well: an answer is final, and what has strayed has.
LEMMA SmoothBack ==
  ASSUME request' = request, strayed \subseteq strayed', Smooth',
         \A q \in Presses: pc[q] = "done" => pc'[q] = "done" /\ answer'[q] = answer[q]
  PROVE  Smooth
  BY DEF Smooth, Undisturbed

\* A step of the thread of press p.
LEMMA QuietMoved ==
  ASSUME TypeOK, QuietInv, NEW p \in Presses, NEW k \in PCs \ {"queued"}, pc[p] # "done",
         pc' = [pc EXCEPT ![p] = k],
         UNCHANGED <<request, os, down, up, held, posted, strayed>>,
         \A q \in Presses \ {p}: obs'[q] = obs[q] /\ answer'[q] = answer[q],
         pc[p] = "queued" => \A q \in 1 .. (p - 1): pc[q] = "done",
         k \in {"focus", "prepare"} => obs'[p] = NoObserver,
         Smooth => Clear(p)',
         k = "done" /\ Smooth /\ Undisturbed(p)' => Quiet
  PROVE  QuietInv'
  <1>1. pc'[p] = k /\ \A q \in Presses \ {p}: pc'[q] = pc[q]
    BY DEF TypeOK
  <1>2. \A q \in Presses: pc[q] = "done" => pc'[q] = "done" /\ answer'[q] = answer[q]
    BY <1>1
  <1>3. \A q \in Presses: q < p => pc[q] = "done"
    <2>1. \A q \in Presses: q < p => q \in 1 .. (p - 1)
      BY DEF Presses
    <2> QED
      BY <2>1 DEF QuietInv
  <1>4. \A q \in Presses: p < q => pc[q] = "queued"
    BY DEF QuietInv
  <1>5. \A q \in Presses \ {p}: q < p \/ p < q
    BY DEF Presses
  <1>6. ASSUME NEW q \in Presses, NEW r \in Presses, q < r, pc'[r] # "queued"
        PROVE  pc'[q] = "done"
    <2>1. CASE r = p
      BY <1>1, <1>3, <1>6, <2>1
    <2>2. CASE r # p
      <3>1. pc[q] = "done"
        BY <1>1, <1>6, <2>2 DEF QuietInv
      <3> QED
        BY <1>2, <3>1
    <2> QED
      BY <2>1, <2>2
  <1>7. \A q \in Presses: pc'[q] \in {"queued", "focus", "prepare"} => obs'[q] = NoObserver
    BY <1>1 DEF QuietInv
  <1>8. ASSUME Smooth' PROVE (\A q \in Presses: pc'[q] \in {"queued", "done"}) => Quiet'
    <2>1. Smooth
      BY <1>2, <1>8, SmoothBack
    <2>2. k = "done" => Undisturbed(p)'
      BY <1>1, <1>8 DEF Smooth
    <2>3. Quiet' = Quiet
      BY DEF Quiet
    <2> QED
      BY <1>1, <2>1, <2>2, <2>3
  <1>9. ASSUME Smooth' PROVE \A q \in Presses: Clear(q)'
    <2>1. Smooth
      BY <1>2, <1>9, SmoothBack
    <2>2. \A q \in Presses \ {p}: pc'[q] \in {"queued", "done"}
      BY <1>1, <1>3, <1>4, <1>5
    <2>3. \A q \in Presses \ {p}: Clear(q)'
      BY <2>2 DEF Clear
    <2> QED
      BY <2>1, <2>3
  <1> QED
    BY <1>6, <1>7, <1>8, <1>9 DEF QuietInv

\* Any other step: the threads stay where they are.
LEMMA QuietStirred ==
  ASSUME TypeOK, QuietInv, UNCHANGED <<request, pc, answer>>, strayed \subseteq strayed',
         \A p \in Presses: obs[p] = NoObserver /\ pc[p] \in {"queued", "focus", "prepare"} => obs'[p] = NoObserver,
         Smooth /\ (\A p \in Presses: pc[p] \in {"queued", "done"}) /\ Quiet => Quiet',
         Smooth => \A p \in Presses: pc[p] \notin {"queued", "done"} /\ Clear(p) => Clear(p)'
  PROVE  QuietInv'
  <1>1. Smooth' => Smooth
    BY SmoothBack
  <1>2. \A p \in Presses: pc[p] \in {"queued", "done"} => Clear(p)'
    BY DEF Clear
  <1> QED
    BY <1>1, <1>2 DEF QuietInv

\* Steps that post nothing, and leave a quiet keyboard quiet.
LEMMA QuietKept ==
  ASSUME TypeOK, QuietInv, UNCHANGED <<request, pc, answer, posted>>, strayed \subseteq strayed',
         Quiet => Quiet',
         \A p \in Presses: obs[p] = NoObserver => obs'[p] = NoObserver,
         \A p \in Presses: Quiet /\ obs[p] \in Fresh => obs'[p] \in Fresh,
         \A p \in Presses: p \notin strayed' /\ Flow(p) => Flow(p)'
  PROVE  QuietInv'
  <1>1. ASSUME NEW p \in Presses, Clear(p) PROVE Clear(p)'
    <2>1. pc'[p] \in {"focus", "prepare", "submit"} => Quiet' /\ obs'[p] \in Fresh
      BY <1>1 DEF Clear
    <2>2. ASSUME request'[p].webview, p \notin strayed'
          PROVE  /\ pc'[p] \in {"waiting", "cancel", "observe"} =>
                      /\ posted'[p] = "nothing" => Quiet' /\ obs'[p] \in Fresh
                      /\ posted'[p] = "all" => Flow(p)'
                 /\ pc'[p] = "post" => Quiet'
      <3>1. request[p].webview /\ p \notin strayed
        BY <2>2
      <3>2. /\ pc[p] \in {"waiting", "cancel", "observe"} =>
                 /\ posted[p] = "nothing" => Quiet /\ obs[p] \in Fresh
                 /\ posted[p] = "all" => Flow(p)
            /\ pc[p] = "post" => Quiet
        BY <1>1, <3>1 DEF Clear
      <3> QED
        BY <2>2, <3>2
    <2>3. Fresh' = Fresh
      BY DEF Fresh, NoObserver
    <2> QED
      BY <2>1, <2>2, <2>3 DEF Clear
  <1> QED
    BY <1>1, QuietStirred

\* The thread of a press takes a step.
LEMMA QuietPress ==
  ASSUME TypeOK, InjectionInv, QuietInv, NEW p \in Presses, PressStep(p)
  PROVE  QuietInv'
  <1> USE DEF thread, keys, page
  <1>0. obs \in [Presses -> Observer] /\ answer \in [Presses -> Answers]
    BY DEF TypeOK
  <1>1. CASE Lock(p)
    <2>1. pc[p] = "queued" /\ pc' = [pc EXCEPT ![p] = "focus"] /\ UNCHANGED <<obs, answer>>
      BY <1>1 DEF Lock
    <2>2. \A q \in 1 .. (p - 1): pc[q] = "done"
      BY <1>1 DEF Lock
    <2>3. UNCHANGED <<request, os, down, up, held, posted, strayed>>
      BY <1>1 DEF Lock
    <2>4. obs[p] = NoObserver
      BY <2>1 DEF QuietInv
    <2>5. \A q \in Presses: pc[q] \in {"queued", "done"}
      <3>1. \A q \in Presses: q < p => q \in 1 .. (p - 1)
        BY DEF Presses
      <3>2. \A q \in Presses: p < q => pc[q] = "queued"
        BY <2>1 DEF QuietInv
      <3>3. \A q \in Presses: q = p \/ q < p \/ p < q
        BY DEF Presses
      <3> QED
        BY <2>1, <2>2, <3>1, <3>2, <3>3
    <2>6. Smooth => Clear(p)'
      <3>1. Smooth => Quiet
        BY <2>5 DEF QuietInv
      <3>2. Quiet' = Quiet
        BY <2>3 DEF Quiet
      <3>3. obs'[p] \in Fresh'
        BY <2>1, <2>4 DEF Fresh
      <3>4. pc'[p] = "focus"
        BY <2>1 DEF TypeOK
      <3> QED
        BY <3>1, <3>2, <3>3, <3>4 DEF Clear
    <2>7. "focus" \in PCs \ {"queued"}
      BY DEF PCs
    <2> QED
      BY <2>1, <2>2, <2>3, <2>4, <2>6, <2>7, QuietMoved
  <1>2. CASE Focus(p)
    <2>1. UNCHANGED <<request, os, down, up, held, posted, strayed>>
      BY <1>2 DEF Focus
    <2>2. PICK k \in {"prepare", "submit", "done"}:
            /\ pc' = [pc EXCEPT ![p] = k]
            /\ k = "done" => answer' = [answer EXCEPT ![p] = "false"]
            /\ k # "done" => answer' = answer
      BY <1>2 DEF Focus, Goto, Finish
    <2>3. pc[p] = "focus" /\ obs' = obs
      BY <1>2 DEF Focus
    <2>4. obs[p] = NoObserver
      BY <2>3 DEF QuietInv
    <2>5. pc'[p] = k /\ (k = "done" => answer'[p] = "false")
      BY <2>2 DEF TypeOK
    <2>6. Smooth => Clear(p)'
      <3>1. Smooth => Quiet
        BY <2>3 DEF QuietInv, Clear
      <3>2. Quiet' = Quiet
        BY <2>1 DEF Quiet
      <3>3. obs'[p] \in Fresh'
        BY <2>3, <2>4 DEF Fresh
      <3> QED
        BY <2>5, <3>1, <3>2, <3>3 DEF Clear
    <2>7. k \in PCs \ {"queued"} /\ (k = "done" => ~Undisturbed(p)')
      BY <2>5 DEF PCs, Undisturbed
    <2>8. \A q \in Presses \ {p}: obs'[q] = obs[q] /\ answer'[q] = answer[q]
      BY <1>0, <2>2, <2>3
    <2> QED
      BY <2>1, <2>2, <2>3, <2>4, <2>6, <2>7, <2>8, QuietMoved
  <1>3. CASE Prepare(p)
    <2>1. UNCHANGED <<request, os, down, up, held, posted, strayed>>
      BY <1>3 DEF Prepare
    <2>2. PICK k \in {"submit", "done"}:
            /\ pc' = [pc EXCEPT ![p] = k]
            /\ k = "done" => answer' = [answer EXCEPT ![p] = "false"]
            /\ k = "submit" => answer' = answer
      BY <1>3 DEF Prepare, Goto, Finish
    <2>3. pc[p] = "prepare" /\ \E s \in {"none", "armed"}: obs' = [obs EXCEPT ![p].state = s]
      BY <1>3 DEF Prepare
    <2>4. obs[p] = NoObserver
      BY <2>3 DEF QuietInv
    <2>5. pc'[p] = k /\ (k = "done" => answer'[p] = "false")
      BY <2>2 DEF TypeOK
    <2>6. Smooth => Clear(p)'
      <3>1. Smooth => Quiet
        BY <2>3 DEF QuietInv, Clear
      <3>2. Quiet' = Quiet
        BY <2>1 DEF Quiet
      <3>3. obs'[p] \in Fresh'
        <4>1. PICK s \in {"none", "armed"}: obs' = [obs EXCEPT ![p].state = s]
          BY <2>3
        <4>2. obs'[p] = [NoObserver EXCEPT !.state = s]
          BY <1>0, <2>4, <4>1
        <4> QED
          BY <4>2 DEF Fresh, NoObserver
      <3> QED
        BY <2>5, <3>1, <3>2, <3>3 DEF Clear
    <2>7. k \in PCs \ {"queued"} /\ (k = "done" => ~Undisturbed(p)')
      BY <2>5 DEF PCs, Undisturbed
    <2>8. \A q \in Presses \ {p}: obs'[q] = obs[q] /\ answer'[q] = answer[q]
      BY <2>2, <2>3 DEF TypeOK
    <2> QED
      BY <2>1, <2>2, <2>3, <2>6, <2>7, <2>8, QuietMoved
  <1>4. CASE Submit(p)
    <2>1. UNCHANGED <<request, os, down, up, held, posted, strayed>>
      BY <1>4 DEF Submit
    <2>2. PICK k \in {"waiting", "done"}:
            /\ pc' = [pc EXCEPT ![p] = k]
            /\ k = "done" => answer' = [answer EXCEPT ![p] = "false"]
            /\ k = "waiting" => answer' = answer /\ obs' = obs
      BY <1>4 DEF Submit, Goto, Finish
    <2>3. pc[p] = "submit" /\ \A q \in Presses \ {p}: obs'[q] = obs[q] /\ answer'[q] = answer[q]
      BY <1>0, <1>4 DEF Submit, Dismissed, Goto, Finish
    <2>4. posted[p] = "nothing"
      BY <2>3 DEF InjectionInv, PlaceInv, PostedInv
    <2>5. pc'[p] = k /\ (k = "done" => answer'[p] = "false")
      BY <2>2 DEF TypeOK
    <2>6. Smooth => Clear(p)'
      <3>1. Smooth => Quiet /\ obs[p] \in Fresh
        BY <2>3 DEF QuietInv, Clear
      <3>2. Quiet' = Quiet /\ posted'[p] = "nothing"
        BY <2>1, <2>4 DEF Quiet
      <3>3. k = "waiting" /\ obs[p] \in Fresh => obs'[p] \in Fresh'
        BY <2>2 DEF Fresh, NoObserver
      <3> QED
        BY <2>5, <3>1, <3>2, <3>3 DEF Clear
    <2>7. k \in PCs \ {"queued", "focus", "prepare"} /\ (k = "done" => ~Undisturbed(p)')
      BY <2>5 DEF PCs, Undisturbed
    <2> QED
      BY <2>1, <2>2, <2>3, <2>6, <2>7, QuietMoved
  <1>5. CASE GiveUp(p)
    <2>1. UNCHANGED <<request, os, down, up, held, posted, strayed, obs, answer>>
      BY <1>5 DEF GiveUp, Goto
    <2>2. pc[p] = "waiting" /\ pc' = [pc EXCEPT ![p] = "cancel"]
      BY <1>5 DEF GiveUp, Goto
    <2>3. pc'[p] = "cancel"
      BY <2>2 DEF TypeOK
    <2>4. Flow(p)' = Flow(p) /\ Quiet' = Quiet /\ Fresh' = Fresh
      BY <2>1 DEF Flow, Quiet, Fresh, Tracks, At, Combo, Downs, Ups, Half,
                  ShiftDown, KeyDown, KeyUp, ShiftUp, NoObserver
    <2>5. Smooth => Clear(p)'
      BY <2>1, <2>2, <2>3, <2>4 DEF QuietInv, Clear
    <2>6. "cancel" \in PCs \ {"queued"}
      BY DEF PCs
    <2> QED
      BY <2>1, <2>2, <2>5, <2>6, QuietMoved
  <1>6. CASE Cancel(p)
    <2>1. UNCHANGED <<request, os, down, up, held, posted, strayed>>
      BY <1>6 DEF Cancel
    <2>2. PICK k \in {"observe", "post", "done"}:
            /\ pc' = [pc EXCEPT ![p] = k]
            /\ k # "done" => answer' = answer /\ obs' = obs
            /\ k = "post" => ~request[p].webview
            /\ k = "done" => \E a \in {"false", "unknown"}: answer' = [answer EXCEPT ![p] = a]
      BY <1>6 DEF Cancel, Goto, Finish
    <2>3. pc[p] = "cancel" /\ \A q \in Presses \ {p}: obs'[q] = obs[q] /\ answer'[q] = answer[q]
      BY <1>0, <1>6 DEF Cancel, Dismissed, Goto, Finish
    <2>4. pc'[p] = k /\ (k = "done" => answer'[p] # "ok")
      BY <2>2 DEF TypeOK
    <2>5. k = "observe" => Flow(p)' = Flow(p) /\ Quiet' = Quiet /\ Fresh' = Fresh
      BY <2>1, <2>2 DEF Flow, Quiet, Fresh, Tracks, At, Combo, Downs, Ups, Half,
                        ShiftDown, KeyDown, KeyUp, ShiftUp, NoObserver
    <2>6. Smooth => Clear(p)'
      BY <2>1, <2>2, <2>3, <2>4, <2>5 DEF QuietInv, Clear
    <2>7. k \in PCs \ {"queued", "focus", "prepare"} /\ (k = "done" => ~Undisturbed(p)')
      BY <2>4 DEF PCs, Undisturbed
    <2> QED
      BY <2>1, <2>2, <2>3, <2>6, <2>7, QuietMoved
  <1>7. CASE WaitPress(p)
    <2>1. UNCHANGED <<request, os, down, up, held, posted, strayed>>
      BY <1>7 DEF WaitPress
    <2>2. PICK k \in {"post", "done"}:
            /\ pc' = [pc EXCEPT ![p] = k]
            /\ k = "post" => answer' = answer /\ obs[p].state = "acked"
            /\ k = "done" => answer' = [answer EXCEPT ![p] = "true"]
      BY <1>7 DEF WaitPress, Goto, Finish
    <2>3. pc[p] = "observe" /\ \A q \in Presses \ {p}: obs'[q] = obs[q] /\ answer'[q] = answer[q]
      BY <1>0, <1>7 DEF WaitPress, Dismissed, Goto, Finish
    <2>4. pc'[p] = k /\ (k = "done" => answer'[p] # "ok")
      BY <2>2 DEF TypeOK
    <2>5. posted[p] = "all"
      BY <2>3 DEF InjectionInv, MessageInv
    <2>6. Smooth => Clear(p)'
      <3>1. Smooth /\ k = "post" /\ request[p].webview /\ p \notin strayed => Quiet
        BY <2>2, <2>3, <2>5 DEF QuietInv, Clear, Flow
      <3>2. Quiet' = Quiet
        BY <2>1 DEF Quiet
      <3> QED
        BY <2>1, <2>4, <3>1, <3>2 DEF Clear
    <2>7. k \in PCs \ {"queued", "focus", "prepare"} /\ (k = "done" => ~Undisturbed(p)')
      BY <2>4 DEF PCs, Undisturbed
    <2> QED
      BY <2>1, <2>2, <2>3, <2>6, <2>7, QuietMoved
  <1>8. CASE Postcondition(p)
    <2>1. UNCHANGED <<request, os, down, up, held, posted, strayed, obs>>
      BY <1>8 DEF Postcondition
    <2>2. pc[p] = "post" /\ pc' = [pc EXCEPT ![p] = "done"]
          /\ \A q \in Presses \ {p}: answer'[q] = answer[q]
      BY <1>8 DEF Postcondition, Finish
    <2>3. pc'[p] = "done"
      BY <2>2 DEF TypeOK
    <2>4. Clear(p)'
      BY <2>3 DEF Clear
    <2>5. Smooth /\ Undisturbed(p)' => Quiet
      BY <2>1, <2>2 DEF QuietInv, Clear, Undisturbed
    <2>6. "done" \in PCs \ {"queued"}
      BY DEF PCs
    <2> QED
      BY <2>1, <2>2, <2>4, <2>5, <2>6, QuietMoved
  <1> QED
    BY <1>1, <1>2, <1>3, <1>4, <1>5, <1>6, <1>7, <1>8 DEF PressStep

\* The keyboard stays as it is, and observers do unless they are gone.
LEMMA FlowSame ==
  ASSUME NEW p \in Presses, UNCHANGED <<request, held, os, down, up>>,
         obs'[p] \in {obs[p], NoObserver}, Flow(p)
  PROVE  Flow(p)'
  <1>1. Quiet' = Quiet
    BY DEF Quiet
  <1>2. CASE obs'[p] = NoObserver
    BY <1>2 DEF Flow, NoObserver
  <1>3. CASE obs'[p] = obs[p]
    <2>1. Combo(p)' = Combo(p) /\ Downs(p)' = Downs(p) /\ Ups(p)' = Ups(p) /\ Half(p)' = Half(p)
      BY DEF Combo, Downs, Ups, Half, ShiftDown, KeyDown, KeyUp, ShiftUp
    <2>2. ASSUME Tracks(p) PROVE Tracks(p)'
      <3>1. PICK d \in 0 .. Half(p), u \in 0 .. Half(p), i \in 0 .. Half(p), j \in 0 .. Half(p):
              At(p, d, u, i, j)
        BY <2>2 DEF Tracks
      <3>2. At(p, d, u, i, j)'
        BY <1>3, <2>1, <3>1 DEF At
      <3> QED
        BY <2>1, <3>2 DEF Tracks
    <2> QED
      BY <1>1, <1>3, <2>2 DEF Flow
  <1> QED
    BY <1>2, <1>3

\* Observers only go away, and the keyboard stays as it is.
LEMMA QuietUntouched ==
  ASSUME TypeOK, QuietInv, UNCHANGED <<request, pc, answer, posted, held, os, down, up>>,
         strayed \subseteq strayed', \A p \in Presses: obs'[p] \in {obs[p], NoObserver}
  PROVE  QuietInv'
  <1>1. Quiet' = Quiet
    BY DEF Quiet
  <1>2. \A p \in Presses: obs[p] \in Fresh => obs'[p] \in Fresh
    BY DEF Fresh
  <1>3. \A p \in Presses: obs[p] = NoObserver => obs'[p] = NoObserver
    OBVIOUS
  <1>4. \A p \in Presses: Flow(p) => Flow(p)'
    BY FlowSame
  <1> QED
    BY <1>1, <1>2, <1>3, <1>4, QuietKept

\* AppKit dispatches an event: to the page of its press, or it has strayed.
LEMMA QuietDispatch ==
  ASSUME TypeOK, QuietInv, Dispatch
  PROVE  QuietInv'
  <1>1. UNCHANGED <<request, pc, answer, posted, held, obs>> /\ os # <<>>
    BY DEF Dispatch
  <1>2. PICK e: e = Head(os)
    OBVIOUS
  <1>3. strayed' = IF focused = request[e.by].win THEN strayed ELSE strayed \cup {e.by}
    BY <1>2 DEF Dispatch
  <1>4. ~Quiet
    BY <1>1 DEF Quiet
  <1>5. ASSUME NEW p \in Presses, p \notin strayed', Flow(p) PROVE Flow(p)'
    <2>1. CASE obs[p].state = "none"
      BY <1>1, <2>1 DEF Flow
    <2>2. CASE obs[p].state # "none"
      <3>1. obs[p].state = "armed"
        BY <1>4, <1>5, <2>2, WindowOf DEF Flow, Observer
      <3>2. PICK d \in 0 .. Half(p), u \in 0 .. Half(p), i \in 0 .. Half(p), j \in 0 .. Half(p):
              At(p, d, u, i, j)
        BY <1>5, <3>1 DEF Flow, Tracks
      <3>3. os = SubSeq(Combo(p), d + u + 1, 2 * Half(p))
        BY <3>2 DEF At
      <3>4. /\ Half(p) \in {1, 2} /\ Combo(p) \in Seq(Event) /\ Len(Combo(p)) = 2 * Half(p)
            /\ \A k \in 1 .. (2 * Half(p)): Combo(p)[k].by = p
        BY ComboHalves
      <3>5. PICK c \in Seq(Event): c = Combo(p)
        BY <3>4
      <3>6. PICK n: n = 2 * Half(p)
        OBVIOUS
      <3>7. PICK m: m = d + u + 1
        OBVIOUS
      <3>8. m \in Nat /\ n \in Nat /\ 1 <= m
        BY <3>4, <3>6, <3>7
      <3>9. e.by = p
        <4>1. n = Len(c) /\ (\A k \in 1 .. n: c[k].by = p) /\ SubSeq(c, m, n) = os
          BY <3>3, <3>4, <3>5, <3>6, <3>7, Zenon
        <4>2. SubSeq(c, m, n) # <<>>
          BY <1>1, <4>1
        <4>3. Head(SubSeq(c, m, n)).by = p
          BY <3>8, <4>1, <4>2, SomeOf, Zenon
        <4> QED
          BY <1>2, <4>1, <4>3
      <3>10. focused = request[p].win
        BY <1>3, <1>5, <3>9
      <3> QED
        BY <1>5, <3>10, FlowDispatch, Zenon
    <2> QED
      BY <2>1, <2>2
  <1>6. strayed \subseteq strayed'
    BY <1>3
  <1> QED
    BY <1>1, <1>4, <1>5, <1>6, QuietKept

\* A page reads a keydown or a keyup.
LEMMA QuietDeliver ==
  ASSUME TypeOK, QuietInv, NEW w \in Windows, DeliverDown(w) \/ DeliverUp(w)
  PROVE  QuietInv'
  <1>1. UNCHANGED <<request, pc, answer, posted, strayed>>
    BY DEF DeliverDown, DeliverUp, thread
  <1>2. ~Quiet
    BY DEF DeliverDown, DeliverUp, Quiet
  <1>3. ASSUME NEW p \in Presses, obs[p] = NoObserver PROVE obs'[p] = NoObserver
    <2>1. obs[p].state # "armed"
      BY <1>3 DEF NoObserver
    <2>2. obs'[p] = obs[p]
      BY <2>1 DEF DeliverDown, DeliverUp
    <2> QED
      BY <1>3, <2>2
  <1>4. \A p \in Presses: Flow(p) => Flow(p)'
    BY FlowDeliver
  <1> QED
    BY <1>1, <1>2, <1>3, <1>4, QuietKept

\* A stuck modifier is let go: the keyboard was not quiet, and nobody relied on it.
LEMMA QuietLetGo ==
  ASSUME TypeOK, QuietInv, LetGo
  PROVE  QuietInv'
  <1>1. UNCHANGED <<request, pc, answer, posted, strayed, obs>> /\ held
    BY DEF LetGo, page
  <1>2. \A p \in Presses: Flow(p) => Flow(p)'
    BY <1>1 DEF Flow
  <1> QED
    BY <1>1, <1>2, QuietKept DEF Quiet

\* A whole combo is posted to a quiet keyboard.
LEMMA FlowStarts ==
  ASSUME TypeOK, NEW p \in Presses, Quiet, obs[p] \in Fresh,
         UNCHANGED <<request, obs, held, down, up>>, os' = os \o Combo(p)
  PROVE  Flow(p)'
  <1>1. Combo(p) \in Seq(Event) /\ Len(Combo(p)) = 2 * Half(p) /\ Half(p) \in {1, 2}
    BY ComboHalves
  <1>2. os' = Combo(p)
    BY <1>1 DEF Quiet
  <1>3. ASSUME obs[p].state = "armed" PROVE Tracks(p)'
    <2>1. obs[p].pressed = {} /\ obs[p].released = {}
      <3>1. PICK n: n = NoObserver
        OBVIOUS
      <3>2. /\ [n EXCEPT !.state = "armed"].pressed = n.pressed
            /\ [n EXCEPT !.state = "armed"].released = n.released
        BY <3>1 DEF NoObserver
      <3>3. n.pressed = {} /\ n.released = {}
        BY <3>1 DEF NoObserver
      <3> QED
        BY <3>1, <3>2, <3>3 DEF Fresh
    <2>2. FirstOf(Downs(p), 0) = {} /\ FirstOf(Ups(p), 0) = {}
      BY DEF FirstOf
    <2>3. Combo(p) = SubSeq(Combo(p), 1, 2 * Half(p))
      BY <1>1
    <2>4. \A s: SubSeq(s, 0 + 1, 0) = <<>>
      <3>1. 0 + 1 \in Int /\ 0 \in Int /\ 0 < 0 + 1
        OBVIOUS
      <3> QED
        BY <3>1, SubSeqEmpty
    <2>5. down[request[p].win] = <<>> /\ up[request[p].win] = <<>>
      BY WindowOf DEF Quiet
    <2>6. UNCHANGED <<Combo(p), Downs(p), Ups(p), Half(p)>>
      BY DEF Combo, Downs, Ups, Half, ShiftDown, KeyDown, KeyUp, ShiftUp
    <2>7. At(p, 0, 0, 0, 0)'
      <3>1. os' = SubSeq(Combo(p), 0 + 0 + 1, 2 * Half(p))
        BY <1>2, <2>3
      <3> QED
        BY <2>1, <2>2, <2>4, <2>5, <2>6, <3>1 DEF At
    <2>8. 0 \in 0 .. Half(p)
      BY <1>1
    <2> QED
      BY <2>6, <2>7, <2>8 DEF Tracks
  <1>4. obs[p].state # "acked"
    BY DEF Fresh, NoObserver
  <1> QED
    BY <1>3, <1>4 DEF Flow, Quiet

\* The injection of a press is posted: whole, in part or not at all.
LEMMA QuietInject ==
  ASSUME TypeOK, InjectionInv, QuietInv, Inject
  PROVE  QuietInv'
  <1>1. PICK p \in Presses: p = running
    BY DEF Inject, TypeOK
  <1>2. UNCHANGED <<request, pc, answer, obs, strayed, down, up>>
    BY DEF Inject, page, keys
  <1>3. CASE state[p] # "pending"
    <2>1. UNCHANGED <<posted, held, os>>
      BY <1>1, <1>3 DEF Inject, keys
    <2> QED
      BY <1>2, <2>1, QuietUntouched
  <1>4. CASE state[p] = "pending"
    <2>1. posted[p] = "nothing"
      BY <1>4 DEF InjectionInv, PostedInv
    <2>2. Smooth => pc[p] \in {"waiting", "cancel"}
      <3>1. pc[p] \notin {"queued", "focus", "prepare", "submit", "observe", "post"}
        BY <1>1, <2>1 DEF InjectionInv, PlaceInv, MessageInv
      <3>2. Smooth /\ pc[p] = "done" => answer[p] = "ok"
        BY DEF Smooth, Undisturbed
      <3>3. answer[p] # "ok"
        BY <2>1 DEF InjectionInv, InjectedIsTrue
      <3> QED
        BY <3>1, <3>2, <3>3 DEF TypeOK, PCs
    <2>3. \/ /\ os' = os \o Combo(p)
             /\ posted' = [posted EXCEPT ![p] = "all"]
             /\ UNCHANGED held
          \/ \E s \in Broken(p):
               /\ os' = os \o s
               /\ posted' = [posted EXCEPT ![p] = IF s = <<>> THEN "nothing" ELSE "part"]
               /\ held' = Stuck(s)
      BY <1>1, <1>4 DEF Inject
    <2>4. ASSUME Smooth, Clear(p), request[p].webview, p \notin strayed
          PROVE  /\ posted'[p] = "nothing" => Quiet' /\ obs[p] \in Fresh
                 /\ posted'[p] = "all" => Flow(p)'
      <3>1. Quiet /\ obs[p] \in Fresh
        BY <2>1, <2>2, <2>4 DEF Clear
      <3>2. ASSUME os' = os \o Combo(p), posted' = [posted EXCEPT ![p] = "all"], held' = held
            PROVE  posted'[p] = "all" /\ Flow(p)'
        BY <1>2, <3>1, <3>2, FlowStarts DEF TypeOK
      <3>3. ASSUME NEW s, os' = os \o s, held' = Stuck(s),
                   posted' = [posted EXCEPT ![p] = IF s = <<>> THEN "nothing" ELSE "part"]
            PROVE  posted'[p] # "all" /\ (posted'[p] = "nothing" => Quiet')
        <4>1. posted'[p] = IF s = <<>> THEN "nothing" ELSE "part"
          BY <3>3 DEF TypeOK
        <4>2. ASSUME s = <<>> PROVE Quiet'
          <5>1. ~Stuck(s)
            BY <4>2 DEF Stuck
          <5>2. os' = <<>>
            BY <3>1, <3>3, <4>2 DEF Quiet
          <5> QED
            BY <1>2, <3>1, <3>3, <5>1, <5>2 DEF Quiet
        <4> QED
          BY <4>1, <4>2
      <3> QED
        BY <2>3, <3>1, <3>2, <3>3
    <2>5. ASSUME Smooth, Clear(p) PROVE Clear(p)'
      <3>1. pc'[p] \in {"waiting", "cancel"}
        BY <1>2, <2>2, <2>5
      <3>2. Fresh' = Fresh
        BY DEF Fresh, NoObserver
      <3> QED
        BY <1>2, <2>4, <2>5, <3>1, <3>2 DEF Clear
    <2>6. Smooth => \A q \in Presses \ {p}: pc[q] \in {"queued", "done"}
      BY <2>2, OneAtATime
    <2> QED
      BY <1>2, <2>2, <2>5, <2>6, QuietStirred
  <1> QED
    BY <1>3, <1>4

LEMMA QuietStep ==
  ASSUME TypeOK, InjectionInv, QuietInv, [Next]_vars
  PROVE  QuietInv'
  <1>1. ASSUME NEW p \in Presses, PressStep(p) PROVE QuietInv'
    BY <1>1, QuietPress
  <1>2. ASSUME NEW p \in Presses, Expire(p) PROVE QuietInv'
    <2>1. obs' = [obs EXCEPT ![p] = NoObserver] /\ obs \in [Presses -> Observer]
      BY <1>2 DEF Expire, TypeOK
    <2>2. \A q \in Presses: obs'[q] \in {obs[q], NoObserver}
      BY <2>1
    <2> QED
      BY <1>2, <2>2, QuietUntouched DEF Expire, keys
  <1>3. CASE StartInjection \/ RemoveMonitor
    BY <1>3, QuietUntouched DEF StartInjection, RemoveMonitor, keys, page
  <1>4. CASE Inject
    BY <1>4, QuietInject
  <1>5. CASE Dispatch
    BY <1>5, QuietDispatch
  <1>6. ASSUME NEW w \in Windows, DeliverDown(w) \/ DeliverUp(w) PROVE QuietInv'
    BY <1>6, QuietDeliver
  <1>7. ASSUME NEW w \in Windows, Navigate(w) PROVE QuietInv'
    BY <1>7, QuietUntouched DEF Navigate, keys
  <1>8. CASE MoveFocus \/ UNCHANGED vars
    BY <1>8, QuietUntouched DEF MoveFocus, vars, keys, page
  <1>9. CASE LetGo
    BY <1>9, QuietLetGo
  <1> QED
    BY <1>1, <1>2, <1>3, <1>4, <1>5, <1>6, <1>7, <1>8, <1>9 DEF Next, MainStep

\* A press that takes the lock after presses that were all acknowledged finds no
\* event under way, for any number of presses, windows and meddlings.
THEOREM StartsQuiet == Spec => []NextStartsQuiet
  <1>1. Init => InjectionInv /\ QuietInv
    <2>1. Init => InjectionInv
      BY PressAssumption DEF Init, InjectionInv, PlaceInv, OnceInv, PostedInv, MessageInv,
                             RefusedInv, InjectedIsTrue, InQueue
    <2>2. Init => QuietInv
      BY DEF Init, QuietInv, Quiet, Clear
    <2> QED
      BY <2>1, <2>2
  <1>2. TypeOK /\ InjectionInv /\ QuietInv /\ [Next]_vars => InjectionInv' /\ QuietInv'
    BY InjectionStep, QuietStep
  <1>3. QuietInv => NextStartsQuiet
    BY DEF QuietInv, NextStartsQuiet, Smooth, Clear, Quiet
  <1> QED
    BY <1>1, <1>2, <1>3, TypeCorrect, PTL DEF Spec
=============================================================================
