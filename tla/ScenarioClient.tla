--------------------------- MODULE ScenarioClient ---------------------------
(***************************************************************************)
(* A TOML scenario (scenario.rs) run over one connection of the CLI client *)
(* (client/mod.rs) against the plugin's sequential connection loop         *)
(* (server/mod.rs).                                                        *)
(*                                                                         *)
(* Client::call writes a line and reads exactly one line. A step deadline  *)
(* drops the future of the call wherever it is: before the request left,   *)
(* with half of it written, with the response unread or half read. The     *)
(* next call then continues on the same byte stream.                       *)
(***************************************************************************)
EXTENDS Naturals, Sequences

CONSTANT NumSteps      \* steps of the scenario

ASSUME ScenarioAssumption == NumSteps \in Nat \ {0}

Steps == 1 .. NumSteps
\* Ids start at 1; each step makes its call and, if it fails, one screenshot.
Ids == 1 .. 2 * NumSteps
NullId == 0

VARIABLES timed,     \* steps with a deadline around the call
          failFast,  \* whether steps after a failed one are skipped
          step,      \* the step being run
          mode,      \* whether it is at its own call or at its screenshot
          pc,        \* where the runner is
          nextId,    \* Client.next_id
          own,       \* the id of each step's own call, once it is issued
          outcome,   \* what the report says of each step
          cause,     \* why a step failed
          toServer,  \* request lines on the stream; a garbled one has NullId
          torn,      \* the request stream ends in the middle of a line
          server,    \* the id the server is handling, NullId if none
          toClient,  \* response lines on the stream
          halfRead,  \* the client has consumed part of the first of them
          verdict,   \* what the application answered to each id
          closed     \* the server has closed the connection

runner   == <<step, mode, pc, nextId, own, outcome, cause>>
config   == <<timed, failFast>>
wire     == <<toServer, torn, server, toClient, halfRead, verdict, closed>>
scenario == <<config, runner, wire>>

ScenarioInit ==
  /\ timed \in SUBSET Steps
  /\ failFast \in BOOLEAN
  /\ step = 1
  /\ mode = "call"
  /\ pc = "ready"
  /\ nextId = 1
  /\ own = [i \in Steps |-> NullId]
  /\ outcome = [i \in Steps |-> "none"]
  /\ cause = [i \in Steps |-> "none"]
  /\ toServer = <<>>
  /\ torn = FALSE
  /\ server = NullId
  /\ toClient = <<>>
  /\ halfRead = FALSE
  /\ verdict = [k \in Ids |-> "none"]
  /\ closed = FALSE

Failed == \E i \in Steps: outcome[i] = "failed"

-----------------------------------------------------------------------------
(* The runner: run_scenario_steps and take_failure_screenshot.             *)

\* The next step, or the end of the report.
Advance == /\ mode' = "call"
           /\ step' = step + 1
           /\ pc' = IF step = NumSteps THEN "ended" ELSE "ready"

\* A failed step is reported and a screenshot is attempted, which the local
\* directory may forbid; the outcome of the screenshot itself is ignored.
Fail(why) ==
  IF mode = "call"
  THEN /\ outcome' = [outcome EXCEPT ![step] = "failed"]
       /\ cause' = [cause EXCEPT ![step] = why]
       /\ \/ mode' = "shot" /\ pc' = "ready" /\ UNCHANGED step
          \/ Advance
  ELSE /\ Advance
       /\ UNCHANGED <<outcome, cause>>

Pass ==
  /\ outcome' = IF mode = "call" THEN [outcome EXCEPT ![step] = "passed"] ELSE outcome
  /\ Advance
  /\ UNCHANGED cause

Skipping == failFast /\ Failed

SkipStep ==
  /\ pc = "ready" /\ mode = "call"
  /\ Skipping
  /\ outcome' = [outcome EXCEPT ![step] = "skipped"]
  /\ Advance
  /\ UNCHANGED <<config, wire, nextId, own, cause>>

\* Whether the runner issues a call now: a step it does not skip, a screenshot.
MayCall == pc = "ready" /\ (mode = "call" => ~Skipping)

\* The id is taken before anything can go wrong.
TakeId ==
  /\ nextId' = nextId + 1
  /\ own' = IF mode = "call" THEN [own EXCEPT ![step] = nextId] ELSE own

Deadline == mode = "call" /\ step \in timed

-----------------------------------------------------------------------------
(* Client::call.                                                           *)

\* A complete line is written; behind a torn one it is part of that line.
Write ==
  /\ MayCall
  /\ ~closed
  /\ TakeId
  /\ toServer' = Append(toServer, IF torn THEN NullId ELSE nextId)
  /\ torn' = FALSE
  /\ pc' = "reading"
  /\ UNCHANGED <<config, step, mode, outcome, cause,
                 server, toClient, halfRead, verdict, closed>>

\* The request is too long, or the connection is closed.
WriteFails ==
  /\ MayCall
  /\ TakeId
  /\ \/ Fail("local")
     \/ closed /\ Fail("closed")
  /\ UNCHANGED <<config, wire>>

\* The deadline passes while the socket does not take the (whole) request.
WriteTimesOut ==
  /\ MayCall
  /\ Deadline
  /\ TakeId
  /\ torn' \in {torn, TRUE}
  /\ Fail("deadline")
  /\ UNCHANGED <<config, toServer, server, toClient, halfRead, verdict, closed>>

\* Mutant: the first line there is is taken for the answer.
Correlated(line) == TRUE
\* A response counts only with the id of the request.
IsAnswer(line) == line.id = nextId - 1

\* The rest of a line read by halves is no JSON; a null id is an error of the
\* stream; any other id is a mismatch. An answer may still fail an assertion.
Read ==
  /\ pc = "reading"
  /\ toClient # <<>>
  /\ LET line == Head(toClient) IN
       \/ halfRead /\ Fail("garbled")
       \/ ~halfRead /\ line.id = NullId /\ Fail("garbled")
       \/ ~halfRead /\ line.id # NullId /\ ~IsAnswer(line) /\ Fail("foreign")
       \/ ~halfRead /\ line.id # NullId /\ IsAnswer(line)
          /\ (Fail("app") \/ (line.ok /\ Pass))
  /\ toClient' = Tail(toClient)
  /\ halfRead' = FALSE
  /\ UNCHANGED <<config, nextId, own, toServer, torn, server, verdict, closed>>

ReadEnds ==
  /\ pc = "reading"
  /\ toClient = <<>>
  /\ closed
  /\ Fail("closed")
  /\ UNCHANGED <<config, wire, nextId, own>>

\* The future of read_line is dropped, and what it has consumed is lost.
ReadTimesOut ==
  /\ pc = "reading"
  /\ Deadline
  /\ \/ UNCHANGED halfRead
     \/ toClient # <<>> /\ halfRead' = TRUE
  /\ Fail("deadline")
  /\ UNCHANGED <<config, nextId, own, toServer, torn, server, toClient, verdict, closed>>

\* run_scenario's global timeout drops the whole run.
GlobalTimeout ==
  /\ pc \in {"ready", "reading"}
  /\ pc' = "aborted"
  /\ UNCHANGED <<config, step, mode, nextId, own, outcome, cause, wire>>

-----------------------------------------------------------------------------
(* handle_connection: one line at a time, one response per line.           *)

\* Mutant: a line that does not parse is passed over.
AcceptSilently ==
  /\ server = NullId
  /\ toServer # <<>>
  /\ ~closed
  /\ toServer' = Tail(toServer)
  /\ server' = Head(toServer)
  /\ UNCHANGED <<config, runner, torn, toClient, halfRead, verdict, closed>>

Accept ==
  /\ server = NullId
  /\ toServer # <<>>
  /\ ~closed
  /\ toServer' = Tail(toServer)
  /\ IF Head(toServer) = NullId
     THEN /\ toClient' = Append(toClient, [id |-> NullId, ok |-> FALSE])
          /\ UNCHANGED server
     ELSE /\ server' = Head(toServer)
          /\ UNCHANGED toClient
  /\ UNCHANGED <<config, runner, torn, halfRead, verdict, closed>>

Answer ==
  /\ server # NullId
  /\ ~closed
  /\ \E ok \in BOOLEAN:
       /\ verdict' = [verdict EXCEPT ![server] = IF ok THEN "ok" ELSE "error"]
       /\ toClient' = Append(toClient, [id |-> server, ok |-> ok])
  /\ server' = NullId
  /\ UNCHANGED <<config, runner, toServer, torn, halfRead, closed>>

\* The application exits.
Close ==
  /\ ~closed
  /\ closed' = TRUE
  /\ UNCHANGED <<config, runner, toServer, torn, server, toClient, halfRead, verdict>>

-----------------------------------------------------------------------------
ClientStep == \/ SkipStep
              \/ Write \/ WriteFails \/ WriteTimesOut
              \/ Read \/ ReadEnds \/ ReadTimesOut
ServerStep == Accept \/ Answer

ScenarioNext == ClientStep \/ GlobalTimeout \/ ServerStep \/ Close

ScenarioSpec == ScenarioInit /\ [][ScenarioNext]_scenario

\* The runner goes on as long as it can, and every handler of the plugin is
\* bounded by a timeout of its own.
Fairness == WF_scenario(ClientStep) /\ WF_scenario(ServerStep)
FairScenario == ScenarioSpec /\ Fairness

-----------------------------------------------------------------------------
(* Properties.                                                             *)

\* A step is reported as passed only if the application executed that very
\* step and answered it with success, however many earlier calls were given up
\* with their responses still on the stream.
PassedWasExecuted ==
  \A i \in Steps: outcome[i] = "passed" => own[i] # NullId /\ verdict[own[i]] = "ok"

\* A scenario ends, whatever was lost or left on the stream.
ScenarioEnds == <>(pc \in {"ended", "aborted"})

\* docs/protocol.md: response IDs are authoritative; clients may not assume
\* response order. So a step fails because of its own answer, its own deadline
\* or the stream, and never because of the response to another call.
NoForeignResponse == \A i \in Steps: cause[i] # "foreign"
=============================================================================
