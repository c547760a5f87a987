---------------------------- MODULE EvalContract ----------------------------
(***************************************************************************)
(* What the evaluation engine promises a caller, whatever happens to the   *)
(* windows: a request is opened once, its script runs at most once and     *)
(* only for an open or a given-up request, and it gets one answer, which   *)
(* agrees with what the script did.                                        *)
(***************************************************************************)
CONSTANTS Requests

VARIABLES opened,    \* requests made
          executed,  \* requests whose script has run
          verdict    \* the answer of each request, or "none"

cvars == <<opened, executed, verdict>>

\* Answers that promise the script has run, and answers that promise it never
\* will; the others (a deadline, a revocation, a JavaScript error, which may be
\* that of the origin pin) promise neither.
RanAnswers == {"ok"}
NotRunAnswers == {"notReady", "evalFailed"}
OpenAnswers == {"jsError", "originChanged", "destroyed", "timeout"}

CInit ==
  /\ opened = {}
  /\ executed = {}
  /\ verdict = [r \in Requests |-> "none"]

Open(r) ==
  /\ r \notin opened
  /\ opened' = opened \cup {r}
  /\ UNCHANGED <<executed, verdict>>

Execute(r) ==
  /\ r \in opened \ executed
  /\ verdict[r] \notin NotRunAnswers
  /\ executed' = executed \cup {r}
  /\ UNCHANGED <<opened, verdict>>

AnswerWith(r, a) ==
  /\ r \in opened
  /\ verdict[r] = "none"
  /\ a \in RanAnswers => r \in executed
  /\ a \in NotRunAnswers => r \notin executed
  /\ verdict' = [verdict EXCEPT ![r] = a]
  /\ UNCHANGED <<opened, executed>>

CNext ==
  \E r \in Requests:
    \/ Open(r)
    \/ Execute(r)
    \/ \E a \in RanAnswers \cup NotRunAnswers \cup OpenAnswers: AnswerWith(r, a)

CSpec == CInit /\ [][CNext]_cvars
=============================================================================
