-------------------------- MODULE EndpointContract --------------------------
(***************************************************************************)
(* What an endpoint promises to those who look for the application: at     *)
(* most one instance answers at a time, as long as it does the address     *)
(* leads to it, and an address left behind by an instance that is gone     *)
(* stands in nobody's way. The promise becomes void when the endpoint      *)
(* meets what it is not made for.                                          *)
(***************************************************************************)
CONSTANTS Apps,  \* instances of the application
          None

VARIABLES up,   \* the instances that answer
          addr, \* the instance the address leads to
          void  \* nothing is promised any more

cvars == <<up, addr, void>>

Init == up = {} /\ addr = None /\ void = FALSE

\* An instance that is about to answer takes a free or abandoned address.
Claim(i) ==
  /\ up = {}
  /\ addr' = i
  /\ UNCHANGED up

\* It answers, with the address leading to it.
Answer(i) ==
  /\ up = {}
  /\ addr = i
  /\ up' = {i}
  /\ UNCHANGED addr

\* It ends, at once or by an orderly exit; its address may stay behind.
Leave(i) ==
  /\ i \in up
  /\ up' = up \ {i}
  /\ UNCHANGED addr

\* An address is given up only when nobody answers.
Forget ==
  /\ up = {}
  /\ addr # None
  /\ addr' = None
  /\ UNCHANGED up

Promised == Forget \/ \E i \in Apps : Claim(i) \/ Answer(i) \/ Leave(i)

\* The step by which it becomes void is still one of those promised, or none.
Next == /\ void \/ Promised \/ UNCHANGED <<up, addr>>
        /\ void => void'

Spec == Init /\ [][Next]_cvars
=============================================================================
