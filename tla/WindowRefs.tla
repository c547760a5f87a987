----------------------------- MODULE WindowRefs -----------------------------
(***************************************************************************)
(* Locators of the Playwright client (window.ts) on one window: they       *)
(* resolve an element to a ref in one round trip and act on that ref in a  *)
(* later one. In between stand the per-window lock (runExclusive), the RPC *)
(* client's map of pending calls (rpc-client.ts), the plugin's sequential  *)
(* connection, and the bridge's table of refs (bridge.js), which every     *)
(* snapshot of the webview starts anew.                                    *)
(*                                                                         *)
(* Elements are numbered in document order; each locator matches one of    *)
(* them. A drag to another element (dragTo) has two locators and resolves  *)
(* one after the other. The application changes its document at any time,  *)
(* so every snapshot and query finds an arbitrary set of elements.         *)
(***************************************************************************)
EXTENDS Naturals, Sequences, FiniteSets

CONSTANTS RoleActs,    \* actions on a role locator: snapshot, act
          QueryActs,   \* actions on a text, label ... locator: query, act
          FilterActs,  \* actions on a filtered selector: query, filter, act
          Drags,       \* those of the actions that are a dragTo
          RoleTargets, \* ... to a role locator
          FilterTargets, \* ... to a filtered one; the others, to a text, label ... one
          QueryCounts, \* count() of a text, label ... locator: query, no lock
          RoleCounts,  \* count() of a role locator, snapshot(): no lock
          Elements,    \* elements of the document: 1 .. n
          None         \* no operation, no element

Locked == RoleActs \cup QueryActs \cup FilterActs
Counts == QueryCounts \cup RoleCounts
Ops    == Locked \cup Counts

ASSUME RefsAssumption == /\ None \notin Ops \cup Elements
                         /\ Locked \cap Counts = {}
                         /\ RoleTargets \cup FilterTargets \subseteq Drags
                         /\ Drags \subseteq Locked
                         /\ Elements \subseteq Nat
                         /\ IsFiniteSet(Elements)

VARIABLES goal,    \* the element each operation's locator matches
          aim,     \* the element the target locator of a drag matches
          refs,    \* bridge: idMap, ref number -> element
          pc,      \* where each operation is
          stage,   \* the call it is at
          held,    \* the refs it has got
          heldTo,  \* the refs of the target it has got
          renewed, \* why the table has been started anew since then, other
                   \* than by the actions of other operations
          hit,     \* the element its action was dispatched to
          drop,    \* the element it dragged to
          queue,   \* the lock: operations in runExclusive, holder first
          wire,    \* requests on the connection
          server,  \* the operation whose request the plugin is handling
          page,    \* calls queued to the webview, in order
          closed   \* the client is disconnected

bridge == <<refs, page>>
client == <<pc, stage, held, heldTo, queue, closed>>
ends   == <<goal, aim, hit, drop>>
vars   == <<ends, bridge, client, renewed, wire, server>>

PCs    == {"idle", "queued", "call", "wait", "done", "failed", "unknownRef"}
Stages == {"resolve", "filter", "target", "targetFilter", "act"}
Causes == {"load", "count", "target"}
Script == [op: Ops, stage: Stages]
Ended  == {"done", "failed", "unknownRef"}

Init ==
  /\ goal \in [Ops -> Elements]
  /\ aim \in {f \in [Ops -> Elements] : \A o \in Ops \ Drags: f[o] = goal[o]}
  /\ refs = <<>>
  /\ pc = [o \in Ops |-> "idle"]
  /\ stage = [o \in Ops |-> "resolve"]
  /\ held = [o \in Ops |-> {}]
  /\ heldTo = [o \in Ops |-> {}]
  /\ renewed = [o \in Ops |-> {}]
  /\ hit = [o \in Ops |-> None]
  /\ drop = [o \in Ops |-> None]
  /\ queue = <<>>
  /\ wire = <<>>
  /\ server = None
  /\ page = <<>>
  /\ closed = FALSE

-----------------------------------------------------------------------------
(* The lock.                                                               *)

\* An action appends itself to the window's promise chain; a count does not.
Enter(o) ==
  /\ pc[o] = "idle"
  /\ IF o \in Locked
     THEN /\ pc' = [pc EXCEPT ![o] = "queued"]
          /\ queue' = Append(queue, o)
     ELSE /\ pc' = [pc EXCEPT ![o] = "call"]
          /\ UNCHANGED queue
  /\ UNCHANGED <<ends, bridge, stage, held, heldTo, closed, renewed, wire, server>>

MyTurn(o) == Head(queue) = o

Proceed(o) ==
  /\ pc[o] = "queued"
  /\ MyTurn(o)
  /\ pc' = [pc EXCEPT ![o] = "call"]
  /\ UNCHANGED <<ends, bridge, stage, held, heldTo, queue, closed, renewed, wire, server>>

\* Mutant: an operation that throws leaves the lock taken.
ReleasedBySuccess(o) == pc[o] = "done"
\* The lock is released in a finally block.
Released(o) == pc[o] \in Ended

Release ==
  /\ queue # <<>>
  /\ Released(Head(queue))
  /\ queue' = Tail(queue)
  /\ UNCHANGED <<ends, bridge, pc, stage, held, heldTo, closed, renewed, wire, server>>

-----------------------------------------------------------------------------
(* HasgardRpcClient.                                                       *)

Send(o) ==
  /\ pc[o] = "call"
  /\ IF closed
     THEN pc' = [pc EXCEPT ![o] = "failed"] /\ UNCHANGED wire
     ELSE pc' = [pc EXCEPT ![o] = "wait"] /\ wire' = Append(wire, o)
  /\ UNCHANGED <<ends, bridge, stage, held, heldTo, queue, closed, renewed, server>>

Waiting == {o \in Ops : pc[o] = "wait"}

\* rejectPending: every call in flight fails.
RejectPending == [o \in Ops |-> IF o \in Waiting THEN "failed" ELSE pc[o]]

\* A line with the id of o's call: its promise settles, or, if that call is
\* not pending any more, the line is unexpected and all the others fail.
Settled(o, p) == IF o \in Waiting THEN [pc EXCEPT ![o] = p] ELSE RejectPending

\* A line that does not parse, or an error without an id.
StrayLine ==
  /\ ~closed
  /\ Waiting # {}
  /\ pc' = RejectPending
  /\ UNCHANGED <<ends, bridge, stage, held, heldTo, queue, closed, renewed, wire, server>>

\* disconnect: what the plugin has not read yet is lost.
Disconnect ==
  /\ ~closed
  /\ closed' = TRUE
  /\ pc' = RejectPending
  /\ wire' = <<>>
  /\ UNCHANGED <<ends, bridge, stage, held, heldTo, queue, renewed, server>>

-----------------------------------------------------------------------------
(* The plugin: one request of a connection at a time, each one an eval.    *)

Submit ==
  /\ server = None
  /\ wire # <<>>
  /\ server' = Head(wire)
  /\ wire' = Tail(wire)
  /\ page' = Append(page, [op |-> Head(wire), stage |-> stage[Head(wire)]])
  /\ UNCHANGED <<ends, refs, client, renewed>>

\* The eval's deadline: the request is answered with an error, and its script
\* stays where it is.
Expire ==
  /\ server # None
  /\ server' = None
  /\ pc' = IF closed THEN pc ELSE Settled(server, "failed")
  /\ UNCHANGED <<ends, bridge, stage, held, heldTo, queue, closed, renewed, wire>>

-----------------------------------------------------------------------------
(* The bridge. Every call runs in one turn of the page's event loop.       *)

\* The locator a call is for, and the element that one matches.
OfTarget(st)     == st \in {"target", "targetFilter"}
Sought(o, st)    == IF OfTarget(st) THEN aim[o] ELSE goal[o]
Snapshots(o, st) == IF OfTarget(st) THEN o \in RoleTargets ELSE o \in RoleActs \cup RoleCounts
Filtered(o, st)  == IF OfTarget(st) THEN o \in FilterTargets ELSE o \in FilterActs

\* What querySelectorAll returns for the elements of S.
InOrder(S) == {s \in [1 .. Cardinality(S) -> S] : \A i, j \in 1 .. Cardinality(S) : i < j => s[i] < s[j]}

\* Mutant: a query starts the table anew.
QueryResets(o, st, present) ==
  InOrder(IF Snapshots(o, st) \/ Filtered(o, st) THEN present ELSE present \cap {Sought(o, st)})

\* Mutant: a query that matches nothing registers a ref all the same.
QueryRegistersNothing(o, st, present) ==
  IF Snapshots(o, st) THEN InOrder(present)
  ELSE {refs \o <<IF Sought(o, st) \in present THEN Sought(o, st) ELSE None>>}

\* The elements among those present that the locator's call registers.
Found(o, st, present) ==
  IF Snapshots(o, st) \/ Filtered(o, st) THEN present ELSE present \cap {Sought(o, st)}

\* The table after o has resolved a locator among the elements present:
\* snapshot starts it anew, query appends what it has matched.
RefsAfter(o, st, present) ==
  {(IF Snapshots(o, st) THEN <<>> ELSE refs) \o s : s \in InOrder(Found(o, st, present))}

\* The refs the operation gets: of a snapshot, those of the elements with its
\* role and name; of a query, all new ones.
Matches(o, st, table) ==
  IF Snapshots(o, st)
  THEN {i \in 1 .. Len(table) : table[i] = Sought(o, st)}
  ELSE Len(refs) + 1 .. Len(table)

\* The call that follows: the filter of a locator, the target of a drag.
After(o, st) ==
  IF st = "resolve" /\ o \in FilterActs THEN "filter"
  ELSE IF st = "target" /\ o \in FilterTargets THEN "targetFilter"
  ELSE IF o \in Drags /\ ~OfTarget(st) THEN "target" ELSE "act"

\* The client gets the refs, unless its call has been given up, and goes on;
\* a locator comes down to exactly one ref in the end.
Deliver(o, st, kept) ==
  LET answered == server = o /\ o \in Waiting /\ ~closed
      filtered == After(o, st) \in {"filter", "targetFilter"}
      enough == o \in Counts \/ (filtered /\ kept # {}) \/ Cardinality(kept) = 1
  IN /\ held' = IF answered /\ ~OfTarget(st) THEN [held EXCEPT ![o] = kept] ELSE held
     /\ heldTo' = IF answered /\ OfTarget(st) THEN [heldTo EXCEPT ![o] = kept] ELSE heldTo
     /\ stage' = IF answered /\ enough /\ o \in Locked
                 THEN [stage EXCEPT ![o] = After(o, st)] ELSE stage
     /\ pc' = IF answered
              THEN [pc EXCEPT ![o] = IF ~enough THEN "failed" ELSE IF o \in Counts THEN "done" ELSE "call"]
              ELSE IF server = o /\ ~closed THEN RejectPending ELSE pc

\* Why the refs d has got are lost, if a snapshot of o is not to spare them.
Cause(o, st, d) ==
  IF ~Snapshots(o, st) THEN {}
  ELSE IF o \in RoleCounts THEN {"count"}
  ELSE IF d = o THEN {"target"} ELSE {}

Renewed(cause) == [d \in Ops |-> IF held[d] = {} THEN {} ELSE renewed[d] \cup cause[d]]

Resolve(o, st) ==
  /\ \E present \in SUBSET Elements: refs' \in RefsAfter(o, st, present)
  /\ Deliver(o, st, Matches(o, st, refs'))
  /\ renewed' = Renewed([d \in Ops |-> Cause(o, st, d)])
  /\ UNCHANGED <<hit, drop>>

Known(S) == S \subseteq 1 .. Len(refs)

\* The call ends in an error or in success for whoever still waits for it.
Over(o, p) == pc' = IF server = o /\ ~closed THEN Settled(o, p) ELSE pc

\* filter looks every ref up again and keeps those whose element still has the
\* text; an unknown one fails the call.
Filter(o, st) ==
  LET given == IF OfTarget(st) THEN heldTo[o] ELSE held[o]
  IN /\ IF Known(given)
        THEN Deliver(o, st, {i \in given : refs[i] = Sought(o, st)})
        ELSE Over(o, "unknownRef") /\ UNCHANGED <<stage, held, heldTo>>
     /\ UNCHANGED <<refs, renewed, hit, drop>>

\* The action takes whatever elements the refs denote now.
Act(o) ==
  /\ IF Known(held[o] \cup heldTo[o])
     THEN /\ \E i \in held[o]: hit' = [hit EXCEPT ![o] = refs[i]]
          /\ IF o \in Drags THEN \E i \in heldTo[o]: drop' = [drop EXCEPT ![o] = refs[i]]
             ELSE UNCHANGED drop
          /\ Over(o, "done")
     ELSE Over(o, "unknownRef") /\ UNCHANGED <<hit, drop>>
  /\ UNCHANGED <<refs, stage, held, heldTo, renewed>>

Execute ==
  /\ page # <<>>
  /\ LET o == Head(page).op
         st == Head(page).stage
     IN /\ \/ st \in {"resolve", "target"} /\ Resolve(o, st)
           \/ st \in {"filter", "targetFilter"} /\ Filter(o, st)
           \/ st = "act" /\ Act(o)
        /\ server' = IF server = o THEN None ELSE server
  /\ page' = Tail(page)
  /\ UNCHANGED <<goal, aim, queue, closed, wire>>

\* The application loads another document, with a bridge of its own.
Reload ==
  /\ refs' = <<>>
  /\ renewed' = Renewed([d \in Ops |-> {"load"}])
  /\ UNCHANGED <<ends, page, client, wire, server>>

-----------------------------------------------------------------------------
OpStep(o) == Enter(o) \/ Proceed(o) \/ Send(o)
PluginStep == Submit \/ Expire

Next ==
  \/ \E o \in Ops: OpStep(o)
  \/ Release
  \/ StrayLine \/ Disconnect
  \/ PluginStep
  \/ Execute \/ Reload

Spec == Init /\ [][Next]_vars

\* Promises that have settled are continued, and the plugin answers every
\* request it has read, at the latest at the deadline.
Fairness ==
  /\ \A o \in Ops: WF_vars(Proceed(o) \/ Send(o))
  /\ WF_vars(Release)
  /\ WF_vars(PluginStep)

FairSpec == Spec /\ Fairness

-----------------------------------------------------------------------------
(* Properties.                                                             *)

TypeOK ==
  /\ goal \in [Ops -> Elements]
  /\ aim \in [Ops -> Elements]
  /\ refs \in Seq(Elements)
  /\ pc \in [Ops -> PCs]
  /\ stage \in [Ops -> Stages]
  /\ held \in [Ops -> SUBSET Nat]
  /\ heldTo \in [Ops -> SUBSET Nat]
  /\ renewed \in [Ops -> SUBSET Causes]
  /\ hit \in [Ops -> Elements \cup {None}]
  /\ drop \in [Ops -> Elements \cup {None}]
  /\ queue \in Seq(Locked)
  /\ wire \in Seq(Ops)
  /\ server \in Ops \cup {None}
  /\ page \in Seq(Script)
  /\ closed \in BOOLEAN

\* An action is dispatched to the element its locator resolved to, and a drag
\* ends on the one its target resolved to, whatever the other actions on the
\* window do, given-up calls that run late included. The refs are lost with
\* their document, with a snapshot that takes no lock (a count by role), and
\* those of a drag's source with the snapshot its own target may take.
HitsItsGoal ==
  \A o \in Ops: /\ hit[o] # None /\ renewed[o] = {} => hit[o] = goal[o]
                /\ drop[o] # None /\ renewed[o] \subseteq {"target"} => drop[o] = aim[o]

\* docs/protocol.md says that refs are valid until the next snapshot and that
\* the lock therefore keeps a locator's snapshot, match and action together.
\* It does not keep a count of a role locator out, and the target of a drag,
\* which is resolved under the same lock, takes the source's ref away.
LockKeepsRefs ==
  \A o \in Ops: hit[o] # None /\ "load" \notin renewed[o] => hit[o] = goal[o]

\* Every operation comes to an end, whatever happens to the others: a failed
\* one, or one whose call was given up, does not keep the lock.
OperationsEnd == \A o \in Ops: pc[o] = "queued" ~> pc[o] \in Ended
=============================================================================
