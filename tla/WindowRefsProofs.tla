-------------------------- MODULE WindowRefsProofs --------------------------
(* Theorems of WindowRefs: the types, and that actions hit what they resolved. *)
EXTENDS WindowRefs, FiniteSetTheorems, TLAPS

-----------------------------------------------------------------------------
(* The inductive invariant.                                                *)

\* An operation with a call under way is at the head of the lock, one that
\* waits for its turn is somewhere in it.
HolderInv ==
  /\ \A o \in Locked: pc[o] = "queued" => \E k \in 1 .. Len(queue): queue[k] = o
  /\ \A o \in Locked: pc[o] \in {"call", "wait"} => queue # <<>> /\ Head(queue) = o

\* The operations whose requests are under way, in the order in which the
\* bridge will execute them.
Pipe == [k \in 1 .. Len(page) + Len(wire) |-> IF k <= Len(page) THEN page[k].op ELSE wire[k - Len(page)]]

\* An operation has one request under way at a time.
PipeInv ==
  /\ \A j, k \in DOMAIN Pipe: Pipe[j] = Pipe[k] => j = k
  /\ \A k \in DOMAIN Pipe: pc[Pipe[k]] \notin {"idle", "queued", "call"}
  /\ \A k \in 1 .. Len(page): page[k].stage = stage[page[k].op]

\* No request of another action is behind that of the holder, and none is ahead
\* of an action that has been told its refs: those that were given up run
\* before the next holder resolves.
OrderInv ==
  \A o \in Locked:
    /\ pc[o] \in {"idle", "queued"} => stage[o] = "resolve"
    /\ pc[o] = "wait" => \A j, k \in DOMAIN Pipe: Pipe[j] = o /\ Pipe[k] \in Locked => k <= j
    /\ stage[o] # "resolve" /\ pc[o] = "call" => \A k \in DOMAIN Pipe: Pipe[k] \notin Locked
    /\ stage[o] # "resolve" => \A j, k \in DOMAIN Pipe: Pipe[j] = o /\ Pipe[k] \in Locked => j <= k

\* The refs of an action still to be executed denote its element, and those of
\* a drag its target.
Bound(o)   == \A i \in held[o]: i \in 1 .. Len(refs) /\ refs[i] = goal[o]
BoundTo(o) == \A i \in heldTo[o]: i \in 1 .. Len(refs) /\ refs[i] = aim[o]

\* An action whose call is under way has its refs, and they are the right ones
\* while nothing has started the table anew that may do so.
UnderWay(o) ==
  /\ stage[o] # "resolve" => held[o] # {}
  /\ stage[o] \in {"target", "targetFilter", "act"} /\ renewed[o] = {} => Bound(o)
  /\ stage[o] = "act" /\ o \in Drags /\ renewed[o] \subseteq {"target"} => BoundTo(o)

Pending(o) == pc[o] = "call" \/ \E k \in DOMAIN Pipe: Pipe[k] = o

HitInv ==
  /\ \A o \in Counts: stage[o] = "resolve"
  /\ \A o \in Ops: hit[o] # None \/ drop[o] # None => stage[o] = "act" /\ held[o] # {}
  /\ \A o \in Locked: Pending(o) => UnderWay(o)

IInv == TypeOK /\ HolderInv /\ PipeInv /\ OrderInv /\ HitInv /\ HitsItsGoal

-----------------------------------------------------------------------------
(* The effects of the steps.                                               *)

\* A call goes on as it was, or is given up or over.
Gives(o) == pc'[o] = pc[o] \/ (pc[o] = "wait" /\ pc'[o] \in Ended)

LEMMA Rejected ==
  ASSUME TypeOK, pc' = RejectPending
  PROVE  pc' \in [Ops -> PCs] /\ \A o \in Ops: Gives(o)
  BY DEF TypeOK, RejectPending, Waiting, Gives, PCs, Ended

LEMMA SettledGives ==
  ASSUME TypeOK, NEW o \in Ops, NEW p \in Ended, pc' = Settled(o, p)
  PROVE  pc' \in [Ops -> PCs] /\ \A d \in Ops: Gives(d)
  <1>1. CASE o \in Waiting
    <2>1. pc' = [pc EXCEPT ![o] = p]
      BY <1>1 DEF Settled
    <2> QED
      BY <1>1, <2>1 DEF TypeOK, Waiting, Gives, PCs, Ended
  <1>2. CASE o \notin Waiting
    BY <1>2, Rejected DEF Settled
  <1> QED
    BY <1>1, <1>2

\* What an operation goes on with is no resolution of its first locator.
LEMMA AfterType ==
  ASSUME NEW o, NEW st
  PROVE  /\ After(o, st) \in {"filter", "target", "targetFilter", "act"}
         /\ st = "filter" => After(o, st) \in {"target", "act"}
         /\ st = "target" => After(o, st) \in {"targetFilter", "act"}
         /\ st = "targetFilter" => After(o, st) = "act"
         /\ After(o, st) = "filter" => o \in FilterActs /\ st = "resolve"
         /\ After(o, st) = "targetFilter" => o \in FilterTargets /\ st = "target"
         /\ After(o, st) \in {"target", "targetFilter", "act"} =>
              ~(o \in FilterActs /\ st = "resolve")
         /\ After(o, st) = "act" /\ o \in Drags => OfTarget(st) /\ ~(o \in FilterTargets /\ st = "target")
  BY DEF After, OfTarget

\* What the client has got after a call that went on.
Gets(o, st, kept) ==
  /\ kept # {}
  /\ OfTarget(st) => heldTo'[o] = kept /\ held'[o] = held[o]
  /\ ~OfTarget(st) => held'[o] = kept

\* The answer reaches the client and lets the action go on, or the operation
\* is over, or the answer reaches nobody.
LEMMA Delivered ==
  ASSUME TypeOK, NEW o \in Ops, NEW st \in Stages, NEW kept \in SUBSET Nat, Deliver(o, st, kept)
  PROVE  /\ pc' \in [Ops -> PCs] /\ stage' \in [Ops -> Stages]
         /\ held' \in [Ops -> SUBSET Nat] /\ heldTo' \in [Ops -> SUBSET Nat]
         /\ \A d \in Ops \ {o}: held'[d] = held[d] /\ heldTo'[d] = heldTo[d]
         /\ \/ stage' = stage /\ \A d \in Ops: Gives(d)
            \/ /\ o \in Locked /\ pc[o] = "wait"
               /\ pc' = [pc EXCEPT ![o] = "call"]
               /\ stage' = [stage EXCEPT ![o] = After(o, st)]
               /\ Gets(o, st, kept)
  <1> DEFINE answered == server = o /\ o \in Waiting /\ ~closed
             filtered == After(o, st) \in {"filter", "targetFilter"}
             enough   == o \in Counts \/ (filtered /\ kept # {}) \/ Cardinality(kept) = 1
  <1>0. /\ pc \in [Ops -> PCs] /\ stage \in [Ops -> Stages]
        /\ held \in [Ops -> SUBSET Nat] /\ heldTo \in [Ops -> SUBSET Nat]
        /\ After(o, st) \in Stages
    BY AfterType DEF TypeOK, Stages
  <1>1. /\ held' = IF answered /\ ~OfTarget(st) THEN [held EXCEPT ![o] = kept] ELSE held
        /\ heldTo' = IF answered /\ OfTarget(st) THEN [heldTo EXCEPT ![o] = kept] ELSE heldTo
        /\ stage' = IF answered /\ enough /\ o \in Locked
                    THEN [stage EXCEPT ![o] = After(o, st)] ELSE stage
        /\ pc' = IF answered
                 THEN [pc EXCEPT ![o] = IF ~enough THEN "failed" ELSE IF o \in Counts THEN "done" ELSE "call"]
                 ELSE IF server = o /\ ~closed THEN RejectPending ELSE pc
    BY DEF Deliver
  <1>2. answered => pc[o] = "wait"
    BY DEF Waiting
  <1>3. enough /\ o \notin Counts => kept # {}
    BY FS_EmptySet
  <1> HIDE DEF answered, enough
  <1>4. /\ held' \in [Ops -> SUBSET Nat] /\ heldTo' \in [Ops -> SUBSET Nat]
        /\ \A d \in Ops \ {o}: held'[d] = held[d] /\ heldTo'[d] = heldTo[d]
    BY <1>0, <1>1
  <1>5. stage' \in [Ops -> Stages]
    BY <1>0, <1>1
  <1>6. CASE ~answered
    <2>1. stage' = stage /\ (pc' = RejectPending \/ pc' = pc)
      BY <1>1, <1>6
    <2> QED
      BY <1>0, <1>4, <1>5, <2>1, Rejected DEF Gives
  <1>7. CASE answered /\ enough /\ o \in Locked
    <2>1. o \notin Counts
      BY <1>7, RefsAssumption
    <2>2. /\ pc' = [pc EXCEPT ![o] = "call"]
          /\ stage' = [stage EXCEPT ![o] = After(o, st)]
      BY <1>1, <1>7, <2>1
    <2>3. Gets(o, st, kept)
      BY <1>0, <1>1, <1>3, <1>7, <2>1 DEF Gets
    <2>4. pc' \in [Ops -> PCs]
      BY <1>0, <2>2 DEF PCs
    <2> QED
      BY <1>2, <1>4, <1>5, <1>7, <2>2, <2>3, <2>4
  <1>8. CASE answered /\ ~(enough /\ o \in Locked)
    <2>1. PICK p \in {"failed", "done"}: pc' = [pc EXCEPT ![o] = p]
      BY <1>1, <1>8 DEF Ops
    <2>2. stage' = stage
      BY <1>1, <1>8
    <2>3. pc' \in [Ops -> PCs] /\ \A d \in Ops: Gives(d)
      BY <1>0, <1>2, <1>8, <2>1 DEF PCs, Gives, Ended
    <2> QED
      BY <1>4, <1>5, <2>2, <2>3
  <1> QED
    BY <1>6, <1>7, <1>8

\* What a resolution leaves in the table, and the refs it returns.
LEMMA Table ==
  ASSUME TypeOK, NEW o \in Ops, NEW st, NEW present \in SUBSET Elements, refs' \in RefsAfter(o, st, present)
  PROVE  /\ refs' \in Seq(Elements)
         /\ Matches(o, st, refs') \subseteq 1 .. Len(refs')
         /\ ~Filtered(o, st) => \A i \in Matches(o, st, refs'): refs'[i] = Sought(o, st)
         /\ ~Snapshots(o, st) => Len(refs) <= Len(refs') /\ \A i \in 1 .. Len(refs): refs'[i] = refs[i]
  <1>0. refs \in Seq(Elements) /\ Sought(o, st) \in Elements
    BY DEF TypeOK, Sought
  <1>1. PICK s \in InOrder(Found(o, st, present)):
          refs' = (IF Snapshots(o, st) THEN <<>> ELSE refs) \o s
    BY DEF RefsAfter
  <1>2. Found(o, st, present) \subseteq Elements /\ Cardinality(Found(o, st, present)) \in Nat
    BY RefsAssumption, FS_Subset, FS_CardinalityType DEF Found
  <1>3. s \in Seq(Found(o, st, present)) /\ s \in Seq(Elements)
    BY <1>2 DEF InOrder
  <1>4. CASE Snapshots(o, st)
    <2>1. refs' = s
      BY <1>1, <1>3, <1>4
    <2> QED
      BY <1>3, <1>4, <2>1 DEF Matches
  <1>5. CASE ~Snapshots(o, st)
    <2>1. refs' = refs \o s
      BY <1>1, <1>5
    <2>2. /\ refs' \in Seq(Elements) /\ Len(refs') = Len(refs) + Len(s)
          /\ Len(refs) \in Nat /\ Len(s) \in Nat
          /\ \A i \in 1 .. Len(refs): refs'[i] = refs[i]
          /\ \A i \in Len(refs) + 1 .. Len(refs'): refs'[i] = s[i - Len(refs)] /\ i - Len(refs) \in 1 .. Len(s)
      BY <1>0, <1>3, <2>1
    <2>3. Matches(o, st, refs') = Len(refs) + 1 .. Len(refs')
      BY <1>5 DEF Matches
    <2>4. ASSUME ~Filtered(o, st), NEW i \in Len(refs) + 1 .. Len(refs') PROVE refs'[i] = Sought(o, st)
      <3>1. s[i - Len(refs)] \in Found(o, st, present)
        BY <1>3, <2>2, <2>4
      <3> QED
        BY <1>5, <2>2, <2>4, <3>1 DEF Found
    <2> QED
      BY <1>5, <2>2, <2>3, <2>4
  <1> QED
    BY <1>4, <1>5

\* The causes for which refs are lost only grow, as long as there are refs.
LEMMA RenewedType ==
  ASSUME TypeOK, NEW cause \in [Ops -> SUBSET Causes], renewed' = Renewed(cause)
  PROVE  /\ renewed' \in [Ops -> SUBSET Causes]
         /\ \A d \in Ops: held[d] # {} => renewed'[d] = renewed[d] \cup cause[d]
  BY DEF TypeOK, Renewed

LEMMA CauseType ==
  ASSUME NEW o \in Ops, NEW st
  PROVE  /\ [d \in Ops |-> Cause(o, st, d)] \in [Ops -> SUBSET Causes]
         /\ \A d \in Ops: Cause(o, st, d) \in SUBSET Causes
  BY DEF Cause, Causes

\* The refs that a call of the bridge has been given.
GivenTo(o, st) == IF OfTarget(st) THEN heldTo[o] ELSE held[o]
Kept(o, st)    == {i \in GivenTo(o, st) : refs[i] = Sought(o, st)}

LEMMA Filters ==
  ASSUME TypeOK, NEW o \in Ops, NEW st, Filter(o, st)
  PROVE  /\ Kept(o, st) \in SUBSET Nat /\ GivenTo(o, st) \in SUBSET Nat
         /\ UNCHANGED <<refs, renewed, hit, drop>>
         /\ Known(GivenTo(o, st)) => Deliver(o, st, Kept(o, st))
         /\ ~Known(GivenTo(o, st)) => Over(o, "unknownRef") /\ UNCHANGED <<stage, held, heldTo>>
  BY DEF TypeOK, Filter, Kept, GivenTo

LEMMA OverGives ==
  ASSUME TypeOK, NEW o \in Ops, NEW p \in Ended, Over(o, p)
  PROVE  pc' \in [Ops -> PCs] /\ \A d \in Ops: Gives(d)
  <1>1. CASE server = o /\ ~closed
    BY <1>1, SettledGives DEF Over
  <1>2. CASE ~(server = o /\ ~closed)
    BY <1>2 DEF Over, TypeOK, Gives
  <1> QED
    BY <1>1, <1>2

\* An action is dispatched to elements that its refs denote, or not at all.
LEMMA Acts ==
  ASSUME TypeOK, NEW o \in Ops, Act(o)
  PROVE  /\ UNCHANGED <<refs, stage, held, heldTo, renewed>>
         /\ pc' \in [Ops -> PCs] /\ \A d \in Ops: Gives(d)
         /\ hit' \in [Ops -> Elements \cup {None}] /\ drop' \in [Ops -> Elements \cup {None}]
         /\ \A d \in Ops \ {o}: hit'[d] = hit[d] /\ drop'[d] = drop[d]
         /\ hit'[o] = hit[o] \/ \E i \in held[o]: i \in 1 .. Len(refs) /\ hit'[o] = refs[i]
         /\ drop'[o] = drop[o] \/ \E i \in heldTo[o]: i \in 1 .. Len(refs) /\ drop'[o] = refs[i]
         /\ o \in Drags \/ drop' = drop
         /\ UNCHANGED <<hit, drop>> \/ held[o] # {}
  <1>0. /\ hit \in [Ops -> Elements \cup {None}] /\ drop \in [Ops -> Elements \cup {None}]
        /\ refs \in Seq(Elements)
    BY DEF TypeOK
  <1>1. UNCHANGED <<refs, stage, held, heldTo, renewed>>
    BY DEF Act
  <1>2. pc' \in [Ops -> PCs] /\ \A d \in Ops: Gives(d)
    <2>1. Over(o, "done") \/ Over(o, "unknownRef")
      BY DEF Act
    <2> QED
      BY <2>1, OverGives DEF Ended
  <1>3. CASE ~Known(held[o] \cup heldTo[o])
    BY <1>0, <1>1, <1>2, <1>3 DEF Act
  <1>4. CASE Known(held[o] \cup heldTo[o])
    <2>1. PICK i \in held[o]: hit' = [hit EXCEPT ![o] = refs[i]]
      BY <1>4 DEF Act
    <2>2. i \in 1 .. Len(refs) /\ refs[i] \in Elements
      BY <1>0, <1>4, <2>1 DEF Known
    <2>3. CASE o \in Drags
      <3>1. PICK j \in heldTo[o]: drop' = [drop EXCEPT ![o] = refs[j]]
        BY <1>4, <2>3 DEF Act
      <3>2. j \in 1 .. Len(refs) /\ refs[j] \in Elements
        BY <1>0, <1>4, <3>1 DEF Known
      <3> QED
        BY <1>0, <1>1, <1>2, <2>1, <2>2, <2>3, <3>1, <3>2
    <2>4. CASE o \notin Drags
      <3>1. drop' = drop
        BY <1>4, <2>4 DEF Act
      <3> QED
        BY <1>0, <1>1, <1>2, <2>1, <2>2, <3>1
    <2> QED
      BY <2>3, <2>4
  <1> QED
    BY <1>3, <1>4

LEMMA TypeStep ==
  ASSUME TypeOK, [Next]_vars
  PROVE  TypeOK'
  <1> USE RefsAssumption DEF client, bridge, ends
  <1>0. /\ goal \in [Ops -> Elements] /\ refs \in Seq(Elements) /\ pc \in [Ops -> PCs]
        /\ stage \in [Ops -> Stages] /\ held \in [Ops -> SUBSET Nat] /\ heldTo \in [Ops -> SUBSET Nat]
        /\ aim \in [Ops -> Elements] /\ renewed \in [Ops -> SUBSET Causes]
        /\ hit \in [Ops -> Elements \cup {None}] /\ drop \in [Ops -> Elements \cup {None}]
        /\ queue \in Seq(Locked) /\ wire \in Seq(Ops)
        /\ server \in Ops \cup {None} /\ page \in Seq(Script) /\ closed \in BOOLEAN
    BY DEF TypeOK
  <1>1. ASSUME NEW o \in Ops, Enter(o) \/ Proceed(o) PROVE TypeOK'
    <2>1. pc' \in [Ops -> PCs]
      BY <1>0, <1>1 DEF Enter, Proceed, PCs
    <2>2. queue' \in Seq(Locked)
      <3>1. (o \in Locked /\ queue' = Append(queue, o)) \/ queue' = queue
        BY <1>1 DEF Enter, Proceed
      <3>2. queue \in Seq(Locked)
        BY <1>0
      <3> QED
        BY ONLY <3>1, <3>2
    <2> QED
      <3>1. UNCHANGED <<ends, refs, page, stage, held, heldTo, closed, renewed, wire, server>>
        BY <1>1 DEF Enter, Proceed
      <3> QED
        BY <1>0, <2>1, <2>2, <3>1 DEF TypeOK
  <1>2. ASSUME NEW o \in Ops, Send(o) PROVE TypeOK'
    <2>1. pc' \in [Ops -> PCs]
      BY <1>0, <1>2 DEF Send, PCs
    <2>2. wire' \in Seq(Ops)
      <3>1. wire' = Append(wire, o) \/ wire' = wire
        BY <1>2 DEF Send
      <3>2. wire \in Seq(Ops) /\ o \in Ops
        BY <1>0
      <3> QED
        BY ONLY <3>1, <3>2
    <2> QED
      <3>1. UNCHANGED <<ends, refs, page, stage, held, heldTo, queue, closed, renewed, server>>
        BY <1>2 DEF Send
      <3> QED
        BY <1>0, <2>1, <2>2, <3>1 DEF TypeOK
  <1>3. CASE Release
    BY <1>0, <1>3 DEF Release, TypeOK
  <1>4. CASE StrayLine \/ Disconnect
    <2>1. pc' \in [Ops -> PCs]
      BY <1>4, Rejected DEF StrayLine, Disconnect
    <2>2. wire' \in Seq(Ops)
      <3>1. wire' = wire \/ wire' = <<>>
        BY <1>4 DEF StrayLine, Disconnect
      <3>2. <<>> \in Seq(Ops)
        OBVIOUS
      <3> QED
        BY <1>0, <3>1, <3>2
    <2>3. closed' \in BOOLEAN
      BY <1>0, <1>4 DEF StrayLine, Disconnect
    <2> QED
      <3>1. UNCHANGED <<ends, refs, page, stage, held, heldTo, queue, renewed, server>>
        BY <1>4 DEF StrayLine, Disconnect
      <3> QED
        BY <1>0, <2>1, <2>2, <2>3, <3>1 DEF TypeOK
  <1>5. CASE Submit
    <2>1. Head(wire) \in Ops /\ Tail(wire) \in Seq(Ops)
      BY <1>0, <1>5 DEF Submit
    <2>2. PICK o \in Ops: o = Head(wire)
      BY <2>1
    <2>3. [op |-> o, stage |-> stage[o]] \in Script
      BY <1>0 DEF Script
    <2>4. page' \in Seq(Script)
      BY <1>0, <1>5, <2>2, <2>3 DEF Submit
    <2> QED
      BY <1>0, <1>5, <2>1, <2>4 DEF Submit, TypeOK
  <1>6. CASE Expire
    <2>1. pc' \in [Ops -> PCs]
      BY <1>0, <1>6, SettledGives DEF Expire, Ended
    <2> QED
      BY <1>0, <1>6, <2>1 DEF Expire, TypeOK
  <1>7. CASE Execute
    <2>1. Head(page) \in Script /\ page' \in Seq(Script)
      BY <1>0, <1>7 DEF Execute
    <2>2. PICK o \in Ops: o = Head(page).op
      BY <2>1 DEF Script
    <2>3. UNCHANGED <<goal, aim, queue, closed, wire>> /\ server' \in Ops \cup {None}
      BY <1>0, <1>7, <2>2 DEF Execute
    <2>4. ASSUME NEW st \in Stages, Resolve(o, st) PROVE TypeOK'
      <3>1. PICK present \in SUBSET Elements: refs' \in RefsAfter(o, st, present)
        BY <2>4 DEF Resolve
      <3>2. refs' \in Seq(Elements) /\ Matches(o, st, refs') \subseteq 1 .. Len(refs')
        BY <3>1, Table
      <3>3. Matches(o, st, refs') \in SUBSET Nat
        BY <3>2
      <3>4. Deliver(o, st, Matches(o, st, refs'))
        BY <2>4 DEF Resolve
      <3>5. /\ pc' \in [Ops -> PCs] /\ stage' \in [Ops -> Stages]
            /\ held' \in [Ops -> SUBSET Nat] /\ heldTo' \in [Ops -> SUBSET Nat]
        BY <3>3, <3>4, Delivered
      <3>6. renewed' \in [Ops -> SUBSET Causes]
        BY <2>4, CauseType, RenewedType DEF Resolve
      <3>7. UNCHANGED <<hit, drop>>
        BY <2>4 DEF Resolve
      <3> QED
        BY <1>0, <2>1, <2>3, <3>2, <3>5, <3>6, <3>7 DEF TypeOK
    <2>5. ASSUME NEW st \in Stages, Filter(o, st) PROVE TypeOK'
      <3>1. UNCHANGED <<refs, renewed, hit, drop>>
        BY <2>5, Filters
      <3>2. CASE Known(GivenTo(o, st))
        <4>1. /\ pc' \in [Ops -> PCs] /\ stage' \in [Ops -> Stages]
              /\ held' \in [Ops -> SUBSET Nat] /\ heldTo' \in [Ops -> SUBSET Nat]
          BY <2>5, <3>2, Filters, Delivered
        <4> QED
          BY <1>0, <2>1, <2>3, <3>1, <4>1 DEF TypeOK
      <3>3. CASE ~Known(GivenTo(o, st))
        <4>1. Over(o, "unknownRef") /\ UNCHANGED <<stage, held, heldTo>>
          BY <2>5, <3>3, Filters
        <4>2. pc' \in [Ops -> PCs]
          BY <4>1, OverGives DEF Ended
        <4> QED
          BY <1>0, <2>1, <2>3, <3>1, <4>1, <4>2 DEF TypeOK
      <3> QED
        BY <3>2, <3>3
    <2>6. CASE Act(o)
      BY <1>0, <2>1, <2>3, <2>6, Acts DEF TypeOK
    <2>7. PICK st \in Stages: st = Head(page).stage
      BY <2>1 DEF Script
    <2> QED
      BY <1>7, <2>2, <2>4, <2>5, <2>6, <2>7 DEF Execute
  <1>8. CASE Reload
    <2>1. renewed' \in [Ops -> SUBSET Causes]
      <3>1. [d \in Ops |-> {"load"}] \in [Ops -> SUBSET Causes]
        BY DEF Causes
      <3> QED
        BY <1>8, <3>1, RenewedType DEF Reload
    <2>2. refs' \in Seq(Elements)
      BY <1>8 DEF Reload
    <2> QED
      BY <1>0, <1>8, <2>1, <2>2 DEF Reload, TypeOK
  <1>9. CASE UNCHANGED vars
    BY <1>0, <1>9 DEF vars, TypeOK
  <1> QED
    BY <1>1, <1>2, <1>3, <1>4, <1>5, <1>6, <1>7, <1>8, <1>9 DEF Next, OpStep, PluginStep

-----------------------------------------------------------------------------
(* The requests under way.                                                 *)

\* The pipe holds operations; those whose script is in the page come first.
LEMMA PipeType ==
  ASSUME TypeOK
  PROVE  /\ Len(page) \in Nat /\ Len(wire) \in Nat
         /\ DOMAIN Pipe = 1 .. Len(page) + Len(wire)
         /\ \A k \in DOMAIN Pipe: Pipe[k] \in Ops
         /\ \A k \in 1 .. Len(page): k \in DOMAIN Pipe /\ Pipe[k] = page[k].op /\ page[k] \in Script
         /\ \A k \in 1 .. Len(wire): Len(page) + k \in DOMAIN Pipe /\ Pipe[Len(page) + k] = wire[k]
  <1>1. /\ Len(page) \in Nat /\ \A k \in 1 .. Len(page): page[k] \in Script
        /\ Len(wire) \in Nat /\ \A k \in 1 .. Len(wire): wire[k] \in Ops
    BY DEF TypeOK
  <1>2. \A k \in 1 .. Len(page): page[k].op \in Ops
    BY <1>1 DEF Script
  <1> QED
    BY <1>1, <1>2 DEF Pipe

\* A request that is sent is the last one.
LEMMA PipeSend ==
  ASSUME TypeOK, NEW o \in Ops, page' = page, wire' = Append(wire, o)
  PROVE  \E n \in Nat: /\ DOMAIN Pipe = 1 .. n /\ DOMAIN Pipe' = 1 .. n + 1
                       /\ \A k \in 1 .. n: Pipe'[k] = Pipe[k]
                       /\ Pipe'[n + 1] = o
  <1>1. wire \in Seq(Ops) /\ Len(page) \in Nat
    BY DEF TypeOK
  <1>2. /\ Len(wire) \in Nat /\ Len(wire') = Len(wire) + 1
        /\ wire'[Len(wire) + 1] = o
        /\ \A k \in 1 .. Len(wire): wire'[k] = wire[k]
    BY <1>1
  <1>3. PICK p \in Nat, w \in Nat: p = Len(page) /\ w = Len(wire)
    BY <1>1, <1>2
  <1>4. DOMAIN Pipe = 1 .. p + w /\ DOMAIN Pipe' = 1 .. (p + w) + 1
    BY <1>2, <1>3 DEF Pipe
  <1>5. \A k \in 1 .. p + w: Pipe'[k] = Pipe[k]
    <2> SUFFICES ASSUME NEW k \in 1 .. p + w PROVE Pipe'[k] = Pipe[k]
      OBVIOUS
    <2>1. k > p => k - p \in 1 .. w
      OBVIOUS
    <2>2. wire'[k - p] = wire[k - p] \/ k <= p
      BY <1>2, <1>3, <2>1
    <2> QED
      BY <1>2, <1>3, <2>2 DEF Pipe
  <1>6. Pipe'[(p + w) + 1] = o
    <2>1. /\ ((p + w) + 1) - p = w + 1 /\ ~((p + w) + 1 <= p)
          /\ (p + w) + 1 \in 1 .. p + (w + 1)
      OBVIOUS
    <2> QED
      BY <1>2, <1>3, <2>1 DEF Pipe
  <1>7. PICK n \in Nat: n = p + w
    OBVIOUS
  <1> WITNESS n \in Nat
  <1> QED
    BY <1>4, <1>5, <1>6, <1>7

\* Handing a request to the page keeps its place.
LEMMA PipeSubmit ==
  ASSUME TypeOK, Submit
  PROVE  Pipe' = Pipe
  <1>1. wire \in Seq(Ops) /\ page \in Seq(Script) /\ wire # <<>>
    BY DEF TypeOK, Submit
  <1>2. PICK m: m = [op |-> Head(wire), stage |-> stage[Head(wire)]]
    OBVIOUS
  <1>3. wire' = Tail(wire) /\ page' = Append(page, m) /\ m.op = Head(wire)
    BY <1>2 DEF Submit
  <1>4. /\ Len(page) \in Nat /\ Len(wire) \in Nat \ {0} /\ Len(wire') = Len(wire) - 1
        /\ Head(wire) = wire[1]
        /\ \A k \in 1 .. Len(wire'): wire'[k] = wire[k + 1]
    BY <1>1, <1>3
  <1>5. /\ Len(page') = Len(page) + 1
        /\ page'[Len(page) + 1] = m
        /\ \A k \in 1 .. Len(page): page'[k] = page[k]
    BY <1>1, <1>3
  <1>6. Len(page') + Len(wire') = Len(page) + Len(wire)
    BY <1>4, <1>5
  <1>7. ASSUME NEW k \in 1 .. Len(page) + Len(wire)
        PROVE  (IF k <= Len(page') THEN page'[k].op ELSE wire'[k - Len(page')])
                 = (IF k <= Len(page) THEN page[k].op ELSE wire[k - Len(page)])
    <2>1. CASE k <= Len(page)
      BY <1>4, <1>5, <2>1
    <2>2. CASE k = Len(page) + 1
      BY <1>3, <1>4, <1>5, <2>2
    <2>3. CASE k > Len(page) + 1
      <3>1. k - Len(page') \in 1 .. Len(wire') /\ (k - Len(page')) + 1 = k - Len(page)
        BY <1>4, <1>5, <2>3
      <3> QED
        BY <1>4, <1>5, <2>3, <3>1
    <2> QED
      BY <1>4, <2>1, <2>2, <2>3
  <1> QED
    BY <1>6, <1>7 DEF Pipe

\* Executing a script takes the first request, and the others move up.
LEMMA PipeExecute ==
  ASSUME TypeOK, page # <<>>, page' = Tail(page), wire' = wire
  PROVE  \E n \in Nat: /\ DOMAIN Pipe = 1 .. n + 1 /\ DOMAIN Pipe' = 1 .. n
                       /\ \A k \in 1 .. n: Pipe'[k] = Pipe[k + 1]
                       /\ Pipe[1] = Head(page).op
  <1>1. page \in Seq(Script) /\ Len(wire) \in Nat
    BY DEF TypeOK
  <1>2. /\ Len(page) \in Nat \ {0} /\ Len(page') = Len(page) - 1
        /\ Head(page) = page[1]
        /\ \A k \in 1 .. Len(page'): page'[k] = page[k + 1]
    BY <1>1
  <1>3. PICK p \in Nat, w \in Nat: p = Len(page') /\ w = Len(wire)
    <2>1. Len(page') \in Nat
      BY <1>2
    <2> QED
      BY <1>1, <2>1
  <1>4. DOMAIN Pipe = 1 .. (p + w) + 1 /\ DOMAIN Pipe' = 1 .. p + w
    BY <1>2, <1>3 DEF Pipe
  <1>5. \A k \in 1 .. p + w: Pipe'[k] = Pipe[k + 1]
    <2> SUFFICES ASSUME NEW k \in 1 .. p + w PROVE Pipe'[k] = Pipe[k + 1]
      OBVIOUS
    <2>1. /\ k + 1 <= p + 1 <=> k <= p
          /\ (k + 1) - (p + 1) = k - p
          /\ k + 1 \in 1 .. (p + 1) + w
          /\ k <= p => k \in 1 .. p
      OBVIOUS
    <2> QED
      BY <1>2, <1>3, <2>1 DEF Pipe
  <1>6. Pipe[1] = Head(page).op
    BY <1>2, <1>3 DEF Pipe
  <1>7. PICK n \in Nat: n = p + w
    OBVIOUS
  <1> WITNESS n \in Nat
  <1> QED
    BY <1>4, <1>5, <1>6, <1>7

\* A disconnect drops those that have not been read.
LEMMA PipeLost ==
  ASSUME TypeOK, page' = page, wire' = <<>>
  PROVE  DOMAIN Pipe' \subseteq DOMAIN Pipe /\ \A k \in DOMAIN Pipe': Pipe'[k] = Pipe[k]
  <1>1. Len(page) \in Nat /\ Len(wire) \in Nat /\ Len(wire') = 0
    BY DEF TypeOK
  <1> QED
    BY <1>1 DEF Pipe

-----------------------------------------------------------------------------
(* What one step of the page does to the operations.                       *)

\* The script at the head is run; its call goes on, or reaches nobody.
LEMMA Executed ==
  ASSUME TypeOK, PipeInv, Execute
  PROVE  \E o \in Ops:
           /\ o = Head(page).op /\ stage[o] = Head(page).stage
           /\ page # <<>> /\ page' = Tail(page)
           /\ UNCHANGED <<goal, aim, queue, closed, wire>>
           /\ \A d \in Ops \ {o}: /\ held'[d] = held[d] /\ heldTo'[d] = heldTo[d]
                                  /\ hit'[d] = hit[d] /\ drop'[d] = drop[d]
           /\ \/ stage' = stage /\ \A d \in Ops: Gives(d)
              \/ /\ o \in Locked /\ pc[o] = "wait" /\ pc' = [pc EXCEPT ![o] = "call"]
                 /\ \E next \in Stages \ {"resolve", stage[o]}: stage' = [stage EXCEPT ![o] = next]
  <1>0. /\ pc \in [Ops -> PCs] /\ stage \in [Ops -> Stages] /\ page \in Seq(Script)
    BY DEF TypeOK
  <1>1. /\ page # <<>> /\ page' = Tail(page) /\ UNCHANGED <<goal, aim, queue, closed, wire>>
        /\ Head(page) = page[1] /\ 1 \in 1 .. Len(page) /\ Head(page) \in Script
    BY <1>0 DEF Execute
  <1>2. PICK o \in Ops: o = Head(page).op /\ stage[o] = Head(page).stage
    BY <1>1 DEF Script, PipeInv
  <1>3. PICK st \in Stages: st = stage[o]
    BY <1>0
  <1>4. st # "act" => After(o, st) \in Stages \ {"resolve", st}
    BY AfterType DEF Stages
  <1>5. CASE st # "act" /\ Resolve(o, st)
    <2>1. PICK present \in SUBSET Elements: refs' \in RefsAfter(o, st, present)
      BY <1>5 DEF Resolve
    <2>2. Matches(o, st, refs') \in SUBSET Nat
      BY <2>1, Table
    <2>3. Deliver(o, st, Matches(o, st, refs')) /\ UNCHANGED <<hit, drop>>
      BY <1>5 DEF Resolve
    <2> QED
      BY <1>1, <1>2, <1>3, <1>4, <1>5, <2>2, <2>3, Delivered
  <1>6. CASE st # "act" /\ Filter(o, st)
    <2>1. CASE Known(GivenTo(o, st))
      <3>1. Deliver(o, st, Kept(o, st)) /\ Kept(o, st) \in SUBSET Nat /\ UNCHANGED <<hit, drop>>
        BY <1>6, <2>1, Filters
      <3> QED
        BY <1>1, <1>2, <1>3, <1>4, <1>6, <3>1, Delivered
    <2>2. CASE ~Known(GivenTo(o, st))
      <3>1. Over(o, "unknownRef") /\ UNCHANGED <<stage, held, heldTo, hit, drop>>
        BY <1>6, <2>2, Filters
      <3>2. \A d \in Ops: Gives(d)
        BY <3>1, OverGives DEF Ended
      <3> QED
        BY <1>1, <1>2, <3>1, <3>2
    <2> QED
      BY <2>1, <2>2
  <1>7. CASE Act(o)
    BY <1>1, <1>2, <1>7, Acts
  <1> QED
    BY <1>2, <1>3, <1>5, <1>6, <1>7 DEF Execute

\* The steps of the client and the plugin that give up calls.
LEMMA GivenUp ==
  ASSUME TypeOK, StrayLine \/ Disconnect \/ Expire
  PROVE  /\ \A o \in Ops: Gives(o)
         /\ UNCHANGED <<goal, aim, refs, page, stage, held, heldTo, queue, renewed, hit, drop>>
         /\ wire' = wire \/ (Disconnect /\ wire' = <<>>)
  <1>1. CASE StrayLine \/ Disconnect
    BY <1>1, Rejected DEF StrayLine, Disconnect, bridge, ends
  <1>2. CASE Expire
    <2>1. pc' = pc \/ pc' = Settled(server, "failed")
      BY <1>2 DEF Expire
    <2>2. server \in Ops
      BY <1>2 DEF Expire, TypeOK
    <2> QED
      BY <1>2, <2>1, <2>2, SettledGives DEF Expire, bridge, ends, Gives, Ended
  <1> QED
    BY <1>1, <1>2

-----------------------------------------------------------------------------
(* The lock.                                                               *)

LEMMA HolderStep ==
  ASSUME TypeOK, HolderInv, PipeInv, [Next]_vars
  PROVE  HolderInv'
  <1>0. /\ pc \in [Ops -> PCs] /\ queue \in Seq(Locked) /\ Locked \subseteq Ops
    BY RefsAssumption DEF TypeOK, Ops
  <1>1. ASSUME queue' = queue,
               \A o \in Locked: /\ pc'[o] = "queued" => pc[o] = "queued"
                                /\ pc'[o] \in {"call", "wait"} => pc[o] \in {"call", "wait"}
        PROVE  HolderInv'
    BY <1>1 DEF HolderInv
  <1>2. ASSUME NEW o \in Ops, Enter(o) PROVE HolderInv'
    <2>1. CASE o \in Locked
      <3>1. /\ pc'[o] = "queued" /\ \A d \in Ops \ {o}: pc'[d] = pc[d]
            /\ queue' = Append(queue, o)
        BY <1>0, <1>2, <2>1 DEF Enter
      <3>2. /\ Len(queue) \in Nat /\ Len(queue') = Len(queue) + 1 /\ queue'[Len(queue) + 1] = o
            /\ \A k \in 1 .. Len(queue): queue'[k] = queue[k] /\ k \in 1 .. Len(queue')
            /\ Len(queue) + 1 \in 1 .. Len(queue')
            /\ queue # <<>> => queue' # <<>> /\ Head(queue') = Head(queue)
        BY <1>0, <2>1, <3>1
      <3> QED
        BY <1>0, <3>1, <3>2 DEF HolderInv
    <2>2. CASE o \notin Locked
      <3>1. queue' = queue /\ \A d \in Ops \ {o}: pc'[d] = pc[d]
        BY <1>0, <1>2, <2>2 DEF Enter
      <3> QED
        BY <1>0, <1>1, <2>2, <3>1
    <2> QED
      BY <2>1, <2>2
  <1>3. ASSUME NEW o \in Ops, Proceed(o) PROVE HolderInv'
    <2>1. /\ pc[o] = "queued" /\ pc'[o] = "call" /\ \A d \in Ops \ {o}: pc'[d] = pc[d]
          /\ queue' = queue /\ Head(queue) = o
      BY <1>0, <1>3 DEF Proceed, MyTurn
    <2>2. o \in Locked => queue # <<>>
      BY <1>0, <2>1 DEF HolderInv
    <2> QED
      BY <1>0, <2>1, <2>2 DEF HolderInv
  <1>4. ASSUME NEW o \in Ops, Send(o) PROVE HolderInv'
    BY <1>0, <1>1, <1>4 DEF Send
  <1>5. CASE Release
    <2>1. /\ queue # <<>> /\ pc[Head(queue)] \in Ended /\ queue' = Tail(queue) /\ pc' = pc
      BY <1>5 DEF Release, Released
    <2>2. /\ Head(queue) = queue[1] /\ Len(queue) \in Nat
          /\ \A k \in 1 .. Len(queue): k # 1 => k - 1 \in 1 .. Len(queue') /\ queue'[k - 1] = queue[k]
      BY <1>0, <2>1
    <2> QED
      BY <2>1, <2>2 DEF HolderInv, Ended
  <1>6. CASE StrayLine \/ Disconnect \/ Expire
    BY <1>0, <1>1, <1>6, GivenUp DEF Gives, Ended
  <1>7. CASE Execute
    BY <1>0, <1>1, <1>7, Executed DEF Gives, Ended
  <1>8. CASE Submit \/ Reload \/ UNCHANGED vars
    BY <1>1, <1>8 DEF Submit, Reload, vars, client
  <1> QED
    BY <1>2, <1>3, <1>4, <1>5, <1>6, <1>7, <1>8 DEF Next, OpStep, PluginStep

-----------------------------------------------------------------------------
(* One request of an operation at a time.                                  *)

LEMMA PipeStep ==
  ASSUME TypeOK, PipeInv, [Next]_vars
  PROVE  PipeInv'
  <1>0. /\ pc \in [Ops -> PCs] /\ stage \in [Ops -> Stages] /\ page \in Seq(Script) /\ wire \in Seq(Ops)
        /\ \A k \in DOMAIN Pipe: Pipe[k] \in Ops
        /\ \A k \in 1 .. Len(page): k \in DOMAIN Pipe /\ Pipe[k] = page[k].op /\ page[k] \in Script
    BY PipeType DEF TypeOK
  <1>1. ASSUME page' = page, stage' = stage, wire' = wire,
               \A o \in Ops: pc'[o] \in {"idle", "queued", "call"} => pc[o] \in {"idle", "queued", "call"}
        PROVE  PipeInv'
    <2>1. Pipe' = Pipe
      BY <1>1 DEF Pipe
    <2> QED
      BY <1>0, <1>1, <2>1 DEF PipeInv
  <1>2. ASSUME NEW o \in Ops, Enter(o) \/ Proceed(o) PROVE PipeInv'
    <2>1. UNCHANGED <<page, stage, wire>>
      BY <1>2 DEF Enter, Proceed, bridge
    <2>2. \A d \in Ops: pc'[d] \in {"idle", "queued", "call"} => pc[d] \in {"idle", "queued", "call"}
      BY <1>0, <1>2 DEF Enter, Proceed
    <2> QED
      BY <1>1, <2>1, <2>2
  <1>3. ASSUME NEW o \in Ops, Send(o) PROVE PipeInv'
    <2>1. /\ pc[o] = "call" /\ pc'[o] \in {"wait", "failed"} /\ \A d \in Ops \ {o}: pc'[d] = pc[d]
          /\ wire' = wire \/ wire' = Append(wire, o)
          /\ page' = page /\ stage' = stage
      BY <1>0, <1>3 DEF Send, bridge
    <2>2. CASE wire' = wire
      BY <1>1, <2>1, <2>2
    <2>3. CASE wire' = Append(wire, o)
      <3>1. PICK n \in Nat: /\ DOMAIN Pipe = 1 .. n /\ DOMAIN Pipe' = 1 .. n + 1
                            /\ \A k \in 1 .. n: Pipe'[k] = Pipe[k]
                            /\ Pipe'[n + 1] = o
        BY <2>1, <2>3, PipeSend
      <3>2. \A k \in 1 .. n: Pipe[k] # o
        BY <2>1, <3>1 DEF PipeInv
      <3>3. \A j \in 1 .. n + 1: j \in 1 .. n \/ j = n + 1
        OBVIOUS
      <3>4. \A j, k \in DOMAIN Pipe': Pipe'[j] = Pipe'[k] => j = k
        BY <3>1, <3>2, <3>3 DEF PipeInv
      <3>5. \A k \in DOMAIN Pipe': pc'[Pipe'[k]] \notin {"idle", "queued", "call"}
        BY <1>0, <2>1, <3>1, <3>2, <3>3 DEF PipeInv
      <3> QED
        BY <2>1, <3>4, <3>5 DEF PipeInv
    <2> QED
      BY <2>1, <2>2, <2>3
  <1>4. CASE StrayLine \/ Disconnect \/ Expire
    <2>1. /\ page' = page /\ stage' = stage /\ \A o \in Ops: Gives(o)
          /\ wire' = wire \/ wire' = <<>>
      BY <1>4, GivenUp
    <2>2. CASE wire' = wire
      BY <1>1, <2>1, <2>2 DEF Gives, Ended
    <2>3. CASE wire' = <<>>
      <3>1. DOMAIN Pipe' \subseteq DOMAIN Pipe /\ \A k \in DOMAIN Pipe': Pipe'[k] = Pipe[k]
        BY <2>1, <2>3, PipeLost
      <3> QED
        BY <1>0, <2>1, <3>1 DEF PipeInv, Gives, Ended
    <2> QED
      BY <2>1, <2>2, <2>3
  <1>5. CASE Submit
    <2>1. Pipe' = Pipe /\ pc' = pc /\ stage' = stage
      BY <1>5, PipeSubmit DEF Submit, client
    <2>2. PICK m: m = [op |-> Head(wire), stage |-> stage[Head(wire)]]
      OBVIOUS
    <2>3. page' = Append(page, m) /\ m.stage = stage[m.op]
      BY <1>5, <2>2 DEF Submit
    <2>4. \A k \in 1 .. Len(page'): page'[k] = m \/ (k \in 1 .. Len(page) /\ page'[k] = page[k])
      BY <1>0, <2>3
    <2> QED
      BY <2>1, <2>3, <2>4 DEF PipeInv
  <1>6. CASE Execute
    <2>1. PICK o \in Ops:
            /\ o = Head(page).op /\ page # <<>> /\ page' = Tail(page) /\ wire' = wire
            /\ \/ stage' = stage /\ \A d \in Ops: Gives(d)
               \/ /\ pc' = [pc EXCEPT ![o] = "call"]
                  /\ \E next \in Stages \ {"resolve", stage[o]}: stage' = [stage EXCEPT ![o] = next]
      BY <1>6, Executed
    <2>2. PICK n \in Nat: /\ DOMAIN Pipe = 1 .. n + 1 /\ DOMAIN Pipe' = 1 .. n
                          /\ \A k \in 1 .. n: Pipe'[k] = Pipe[k + 1]
                          /\ Pipe[1] = o
      BY <2>1, PipeExecute
    <2>3. \A d \in Ops \ {o}: /\ stage'[d] = stage[d]
                              /\ pc'[d] \in {"idle", "queued", "call"} => pc[d] \in {"idle", "queued", "call"}
      BY <1>0, <2>1 DEF Gives, Ended
    <2>4. /\ \A k \in 1 .. n: k + 1 \in 1 .. n + 1 /\ k + 1 # 1
          /\ 1 \in 1 .. n + 1
          /\ \A j, k \in 1 .. n: j + 1 = k + 1 => j = k
      OBVIOUS
    <2>5. \A k \in 1 .. n: Pipe'[k] \in Ops \ {o}
      <3> SUFFICES ASSUME NEW k \in 1 .. n PROVE Pipe'[k] \in Ops \ {o}
        OBVIOUS
      <3>1. Pipe'[k] = Pipe[k + 1] /\ k + 1 \in DOMAIN Pipe /\ 1 \in DOMAIN Pipe /\ k + 1 # 1
        BY <2>2, <2>4
      <3>2. Pipe[k + 1] \in Ops
        BY <1>0, <3>1
      <3>3. Pipe[k + 1] # Pipe[1]
        BY <3>1, Zenon DEF PipeInv
      <3> QED
        BY <2>2, <3>1, <3>2, <3>3
    <2>6. \A k \in 1 .. Len(page'): k + 1 \in 1 .. Len(page) /\ page'[k] = page[k + 1] /\ k + 1 # 1
      BY <1>0, <2>1
    <2>7. \A k \in 1 .. Len(page'): page'[k].op \in Ops \ {o} /\ page'[k].stage = stage[page'[k].op]
      <3> SUFFICES ASSUME NEW k \in 1 .. Len(page')
                   PROVE  page'[k].op \in Ops \ {o} /\ page'[k].stage = stage[page'[k].op]
        OBVIOUS
      <3>1. PICK i \in 1 .. Len(page): page'[k] = page[i] /\ i # 1
        BY <2>6
      <3>2. page[i].op = Pipe[i] /\ Pipe[i] \in Ops /\ i \in DOMAIN Pipe /\ page[i].stage = stage[page[i].op]
        BY <1>0 DEF PipeInv
      <3>3. Pipe[i] # o
        BY <2>2, <2>4, <3>1, <3>2 DEF PipeInv
      <3> QED
        BY <3>1, <3>2, <3>3
    <2>8. \A k \in DOMAIN Pipe': pc'[Pipe'[k]] \notin {"idle", "queued", "call"}
      BY <2>2, <2>3, <2>4, <2>5 DEF PipeInv
    <2>9. \A j, k \in DOMAIN Pipe': Pipe'[j] = Pipe'[k] => j = k
      <3> SUFFICES ASSUME NEW j \in 1 .. n, NEW k \in 1 .. n, Pipe'[j] = Pipe'[k] PROVE j = k
        BY <2>2
      <3>1. j + 1 \in DOMAIN Pipe /\ k + 1 \in DOMAIN Pipe /\ Pipe[j + 1] = Pipe[k + 1]
        BY <2>2, <2>4
      <3>2. j + 1 = k + 1
        BY <3>1, Zenon DEF PipeInv
      <3> QED
        BY <2>4, <3>2
    <2>10. \A k \in 1 .. Len(page'): page'[k].stage = stage'[page'[k].op]
      BY <2>3, <2>7
    <2> QED
      BY <2>8, <2>9, <2>10 DEF PipeInv
  <1>7. CASE Release \/ Reload \/ UNCHANGED vars
    BY <1>1, <1>7 DEF Release, Reload, vars, client, bridge
  <1> QED
    BY <1>2, <1>3, <1>4, <1>5, <1>6, <1>7 DEF Next, OpStep, PluginStep

-----------------------------------------------------------------------------
(* The order of the requests.                                              *)

LEMMA OrderStep ==
  ASSUME TypeOK, HolderInv, PipeInv, OrderInv, [Next]_vars
  PROVE  OrderInv'
  <1>0. /\ pc \in [Ops -> PCs] /\ stage \in [Ops -> Stages]
        /\ Locked \subseteq Ops
        /\ \A k \in DOMAIN Pipe: Pipe[k] \in Ops
    BY PipeType DEF TypeOK, Ops
  <1>1. ASSUME Pipe' = Pipe, stage' = stage,
               \A o \in Locked: /\ pc'[o] \in {"wait", "call"} => pc'[o] = pc[o]
                                /\ pc'[o] \in {"idle", "queued"} => pc[o] \in {"idle", "queued"}
        PROVE  OrderInv'
    BY <1>1 DEF OrderInv
  <1>2. ASSUME NEW o \in Ops, Enter(o) PROVE OrderInv'
    <2>1. Pipe' = Pipe /\ stage' = stage
      BY <1>2 DEF Enter, bridge, Pipe
    <2>2. \A d \in Locked: /\ pc'[d] \in {"wait", "call"} => pc'[d] = pc[d]
                           /\ pc'[d] \in {"idle", "queued"} => pc[d] \in {"idle", "queued"}
      BY <1>0, <1>2 DEF Enter
    <2> QED
      BY <1>1, <2>1, <2>2
  <1>3. ASSUME NEW o \in Ops, Proceed(o) PROVE OrderInv'
    <2>1. Pipe' = Pipe /\ stage' = stage
      BY <1>3 DEF Proceed, bridge, Pipe
    <2>2. pc[o] = "queued" /\ pc'[o] = "call" /\ \A d \in Ops \ {o}: pc'[d] = pc[d]
      BY <1>0, <1>3 DEF Proceed
    <2> QED
      BY <1>0, <2>1, <2>2 DEF OrderInv
  <1>4. ASSUME NEW o \in Ops, Send(o) PROVE OrderInv'
    <2>1. /\ pc[o] = "call" /\ \A d \in Ops \ {o}: pc'[d] = pc[d]
          /\ (pc'[o] = "wait" /\ wire' = Append(wire, o)) \/ (pc'[o] = "failed" /\ wire' = wire)
          /\ page' = page /\ stage' = stage
      BY <1>0, <1>4 DEF Send, bridge
    <2>2. CASE pc'[o] = "failed" /\ wire' = wire
      <3>1. Pipe' = Pipe
        BY <2>1, <2>2 DEF Pipe
      <3> QED
        BY <1>0, <1>1, <2>1, <2>2, <3>1
    <2>3. CASE pc'[o] = "wait" /\ wire' = Append(wire, o)
      <3>1. PICK n \in Nat: /\ DOMAIN Pipe = 1 .. n /\ DOMAIN Pipe' = 1 .. n + 1
                            /\ \A k \in 1 .. n: Pipe'[k] = Pipe[k]
                            /\ Pipe'[n + 1] = o
        BY <2>1, <2>3, PipeSend
      <3>2. /\ \A j \in 1 .. n + 1: j \in 1 .. n \/ j = n + 1
            /\ \A j \in 1 .. n + 1: j <= n + 1
      OBVIOUS
      <3>3. \A k \in 1 .. n: Pipe[k] # o
        BY <2>1, <3>1 DEF PipeInv
      <3>4. CASE o \in Locked
        <4>1. \A d \in Locked \ {o}: pc'[d] \notin {"wait", "call"}
          BY <1>0, <2>1, <3>4 DEF HolderInv
        <4>2. \A j, k \in DOMAIN Pipe': Pipe'[j] = o /\ Pipe'[k] \in Locked => k <= j
          BY <3>1, <3>2, <3>3
        <4>3. stage[o] # "resolve" => \A j, k \in DOMAIN Pipe': Pipe'[j] = o /\ Pipe'[k] \in Locked => j <= k
          BY <2>1, <3>1, <3>2, <3>3, <3>4 DEF OrderInv
        <4>4. ASSUME NEW d \in Locked \ {o}, stage[d] # "resolve",
                     NEW j \in 1 .. n + 1, NEW k \in 1 .. n + 1, Pipe'[j] = d, Pipe'[k] \in Locked
              PROVE  j <= k
          <5>1. j \in 1 .. n /\ Pipe[j] = d
            BY <3>1, <3>2, <4>4
          <5>2. CASE k = n + 1
            BY <5>2
          <5>3. CASE k \in 1 .. n
            BY <3>1, <4>4, <5>1, <5>3 DEF OrderInv
          <5> QED
            BY <3>2, <5>2, <5>3
        <4>5. \A d \in Locked: pc'[d] \in {"idle", "queued"} => stage'[d] = "resolve"
          BY <1>0, <2>1, <2>3 DEF OrderInv
        <4> QED
          BY <1>0, <2>1, <2>3, <3>1, <4>1, <4>2, <4>3, <4>4, <4>5 DEF OrderInv
      <3>5. CASE o \notin Locked
        <4>1. \A d \in Locked: pc'[d] = pc[d] /\ stage'[d] = stage[d]
          BY <1>0, <2>1, <3>5
        <4>2. \A k \in DOMAIN Pipe': Pipe'[k] \in Locked => k \in DOMAIN Pipe /\ Pipe'[k] = Pipe[k]
          BY <3>1, <3>2, <3>5
        <4> QED
          BY <4>1, <4>2 DEF OrderInv
      <3> QED
        BY <3>4, <3>5
    <2> QED
      BY <2>1, <2>2, <2>3
  <1>5. CASE StrayLine \/ Disconnect \/ Expire
    <2>1. /\ page' = page /\ stage' = stage /\ \A o \in Ops: Gives(o)
          /\ wire' = wire \/ wire' = <<>>
      BY <1>5, GivenUp
    <2>2. DOMAIN Pipe' \subseteq DOMAIN Pipe /\ \A k \in DOMAIN Pipe': Pipe'[k] = Pipe[k]
      <3>1. CASE wire' = wire
        BY <2>1, <3>1 DEF Pipe
      <3>2. CASE wire' = <<>>
        BY <2>1, <3>2, PipeLost
      <3> QED
        BY <2>1, <3>1, <3>2
    <2> QED
      BY <1>0, <2>1, <2>2 DEF OrderInv, Gives, Ended
  <1>6. CASE Submit
    <2>1. Pipe' = Pipe /\ pc' = pc /\ stage' = stage
      BY <1>6, PipeSubmit DEF Submit, client
    <2> QED
      BY <1>1, <2>1
  <1>7. CASE Execute
    <2>1. PICK o \in Ops:
            /\ o = Head(page).op /\ page # <<>> /\ page' = Tail(page) /\ wire' = wire
            /\ \/ stage' = stage /\ \A d \in Ops: Gives(d)
               \/ /\ o \in Locked /\ pc[o] = "wait" /\ pc' = [pc EXCEPT ![o] = "call"]
                  /\ \E next \in Stages \ {"resolve", stage[o]}: stage' = [stage EXCEPT ![o] = next]
      BY <1>7, Executed
    <2>2. PICK n \in Nat: /\ DOMAIN Pipe = 1 .. n + 1 /\ DOMAIN Pipe' = 1 .. n
                          /\ \A k \in 1 .. n: Pipe'[k] = Pipe[k + 1]
                          /\ Pipe[1] = o
      BY <2>1, PipeExecute
    <2>3. /\ \A k \in 1 .. n: k + 1 \in 1 .. n + 1
          /\ 1 \in 1 .. n + 1
          /\ \A k \in 1 .. n: ~(k + 1 <= 1)
          /\ \A j, k \in 1 .. n: j + 1 <= k + 1 <=> j <= k
      OBVIOUS
    <2>4. CASE stage' = stage /\ \A d \in Ops: Gives(d)
      <3>1. \A d \in Locked: /\ stage'[d] = stage[d]
                             /\ pc'[d] \in {"wait", "call"} => pc'[d] = pc[d]
                             /\ pc'[d] \in {"idle", "queued"} => pc'[d] = pc[d]
        BY <1>0, <2>4 DEF Gives, Ended
      <3>2. ASSUME NEW d \in Locked, NEW j \in 1 .. n, NEW k \in 1 .. n, Pipe'[j] = d, Pipe'[k] \in Locked
            PROVE  /\ pc'[d] = "wait" => k <= j
                   /\ stage'[d] # "resolve" => j <= k
        <4>1. /\ j + 1 \in DOMAIN Pipe /\ k + 1 \in DOMAIN Pipe
              /\ Pipe[j + 1] = d /\ Pipe[k + 1] \in Locked
          BY <2>2, <2>3, <3>2
        <4>2. /\ pc[d] = "wait" => k + 1 <= j + 1
              /\ stage[d] # "resolve" => j + 1 <= k + 1
          BY <4>1 DEF OrderInv
        <4> QED
          BY <2>3, <3>1, <4>2
      <3>3. ASSUME NEW d \in Locked, stage'[d] # "resolve", pc'[d] = "call", NEW k \in 1 .. n
            PROVE  Pipe'[k] \notin Locked
        BY <2>2, <2>3, <3>1, <3>3 DEF OrderInv
      <3> QED
        BY <2>2, <3>1, <3>2, <3>3 DEF OrderInv
    <2>5. CASE /\ o \in Locked /\ pc[o] = "wait" /\ pc' = [pc EXCEPT ![o] = "call"]
               /\ \E next \in Stages \ {"resolve", stage[o]}: stage' = [stage EXCEPT ![o] = next]
      <3>1. \A k \in DOMAIN Pipe': Pipe'[k] \notin Locked
        BY <2>2, <2>3, <2>5 DEF OrderInv
      <3>2. \A d \in Locked: pc'[d] \in {"idle", "queued"} => stage'[d] = "resolve"
        BY <1>0, <2>5 DEF OrderInv
      <3> QED
        BY <3>1, <3>2 DEF OrderInv
    <2> QED
      BY <2>1, <2>4, <2>5
  <1>8. CASE Release \/ Reload \/ UNCHANGED vars
    <2>1. UNCHANGED <<page, wire, stage, pc>>
      BY <1>8 DEF Release, Reload, vars, client, bridge
    <2>2. Pipe' = Pipe
      BY <2>1 DEF Pipe
    <2> QED
      BY <1>1, <2>1, <2>2
  <1> QED
    BY <1>2, <1>3, <1>4, <1>5, <1>6, <1>7, <1>8 DEF Next, OpStep, PluginStep

-----------------------------------------------------------------------------
(* Actions and their elements.                                             *)

\* An action that goes on with the refs a resolution has given it.
LEMMA ResolvedOn ==
  ASSUME TypeOK, HitInv, NEW o \in Locked, NEW st \in {"resolve", "target"}, st = stage[o], Pending(o),
         Resolve(o, st), goal' = goal, aim' = aim,
         stage' = [stage EXCEPT ![o] = After(o, st)], stage' # stage
  PROVE  UnderWay(o)'
  <1>0. o \in Ops /\ stage \in [Ops -> Stages] /\ renewed \in [Ops -> SUBSET Causes] /\ st \in Stages
    BY DEF TypeOK, Ops, Stages
  <1>1. PICK present \in SUBSET Elements: refs' \in RefsAfter(o, st, present)
    BY DEF Resolve
  <1>2. /\ Matches(o, st, refs') \subseteq 1 .. Len(refs')
        /\ ~Filtered(o, st) => \A i \in Matches(o, st, refs'): refs'[i] = Sought(o, st)
        /\ ~Snapshots(o, st) => Len(refs) <= Len(refs') /\ \A i \in 1 .. Len(refs): refs'[i] = refs[i]
    BY <1>0, <1>1, Table
  <1>3. Gets(o, st, Matches(o, st, refs'))
    <2>1. Deliver(o, st, Matches(o, st, refs')) /\ Matches(o, st, refs') \in SUBSET Nat
      BY <1>2 DEF Resolve
    <2> QED
      BY <1>0, <2>1, Delivered
  <1>4. stage'[o] = After(o, st)
    BY <1>0
  <1>5. CASE st = "resolve"
    <2>1. held'[o] = Matches(o, st, refs') /\ held'[o] # {} /\ ~OfTarget(st)
      BY <1>3, <1>5 DEF Gets, OfTarget
    <2>2. stage'[o] \in {"target", "targetFilter", "act"} => Bound(o)'
      <3>1. stage'[o] \in {"target", "targetFilter", "act"} => ~Filtered(o, st)
        BY <1>4, <1>5, <2>1, AfterType DEF Filtered
      <3> QED
        BY <1>2, <2>1, <3>1 DEF Bound, Sought
    <2>3. ~(stage'[o] = "act" /\ o \in Drags)
      BY <1>4, <2>1, AfterType
    <2> QED
      BY <2>1, <2>2, <2>3 DEF UnderWay
  <1>6. CASE st = "target"
    <2>1. /\ heldTo'[o] = Matches(o, st, refs') /\ held'[o] = held[o] /\ OfTarget(st)
          /\ held[o] # {}
      BY <1>3, <1>6 DEF Gets, OfTarget, HitInv, UnderWay
    <2>2. ASSUME renewed'[o] = {} PROVE Bound(o)'
      <3>1. renewed'[o] = renewed[o] \cup Cause(o, st, o)
        BY <1>0, <2>1, CauseType, RenewedType DEF Resolve
      <3>2. renewed[o] = {} /\ ~Snapshots(o, st)
        BY <2>2, <3>1 DEF Cause
      <3>3. Bound(o)
        BY <1>6, <3>2 DEF HitInv, UnderWay
      <3> QED
        BY <1>2, <2>1, <3>2, <3>3 DEF Bound
    <2>3. ASSUME stage'[o] = "act", o \in Drags PROVE BoundTo(o)'
      <3>1. ~Filtered(o, st)
        BY <1>4, <1>6, <2>1, <2>3, AfterType DEF Filtered
      <3> QED
        BY <1>2, <2>1, <3>1 DEF BoundTo, Sought
    <2> QED
      BY <2>1, <2>2, <2>3 DEF UnderWay
  <1> QED
    BY <1>5, <1>6

\* ... and with those that are left by a filter.
LEMMA FilteredOn ==
  ASSUME TypeOK, HitInv, NEW o \in Locked, NEW st \in {"filter", "targetFilter"}, st = stage[o], Pending(o),
         Filter(o, st), goal' = goal, aim' = aim,
         stage' = [stage EXCEPT ![o] = After(o, st)], stage' # stage
  PROVE  UnderWay(o)'
  <1>0. o \in Ops /\ stage \in [Ops -> Stages] /\ st \in Stages
    BY DEF TypeOK, Ops, Stages
  <1>1. UNCHANGED <<refs, renewed>> /\ Known(GivenTo(o, st))
    BY <1>0, Filters
  <1>2. Gets(o, st, Kept(o, st))
    <2>1. Deliver(o, st, Kept(o, st)) /\ Kept(o, st) \in SUBSET Nat
      BY <1>0, <1>1, Filters
    <2> QED
      BY <1>0, <2>1, Delivered
  <1>3. \A i \in Kept(o, st): i \in 1 .. Len(refs) /\ refs[i] = Sought(o, st)
    BY <1>1 DEF Kept, Known
  <1>4. stage'[o] = After(o, st)
    BY <1>0
  <1>5. CASE st = "filter"
    <2>1. held'[o] = Kept(o, st) /\ held'[o] # {} /\ ~OfTarget(st)
      BY <1>2, <1>5 DEF Gets, OfTarget
    <2>2. Bound(o)'
      BY <1>1, <1>3, <2>1 DEF Bound, Sought
    <2>3. ~(stage'[o] = "act" /\ o \in Drags)
      BY <1>4, <2>1, AfterType
    <2> QED
      BY <2>1, <2>2, <2>3 DEF UnderWay
  <1>6. CASE st = "targetFilter"
    <2>1. /\ heldTo'[o] = Kept(o, st) /\ held'[o] = held[o] /\ OfTarget(st)
          /\ held[o] # {}
      BY <1>2, <1>6 DEF Gets, OfTarget, HitInv, UnderWay
    <2>2. BoundTo(o)'
      BY <1>1, <1>3, <2>1 DEF BoundTo, Sought
    <2>3. ASSUME renewed'[o] = {} PROVE Bound(o)'
      <3>1. Bound(o)
        BY <1>1, <1>6, <2>3 DEF HitInv, UnderWay
      <3> QED
        BY <1>1, <2>1, <3>1 DEF Bound
    <2> QED
      BY <2>1, <2>2, <2>3 DEF UnderWay
  <1> QED
    BY <1>5, <1>6

\* The count of a role locator loses the refs of the others, that of another
\* locator leaves them.
LEMMA CountSpares ==
  ASSUME TypeOK, HitInv, NEW o \in Counts, stage[o] = "resolve", Resolve(o, "resolve"),
         goal' = goal, aim' = aim,
         NEW d \in Locked, Pending(d), stage'[d] = stage[d], held'[d] = held[d], heldTo'[d] = heldTo[d]
  PROVE  UnderWay(d)'
  <1>0. o \in Ops /\ d \in Ops /\ o \notin Locked /\ renewed \in [Ops -> SUBSET Causes]
        /\ Len(refs) \in Nat
    BY RefsAssumption DEF TypeOK, Ops
  <1>1. UnderWay(d)
    BY DEF HitInv, UnderWay
  <1>2. CASE stage[d] = "resolve"
    BY <1>2 DEF UnderWay
  <1>3. CASE stage[d] # "resolve"
    <2>1. held[d] # {} /\ renewed'[d] = renewed[d] \cup Cause(o, "resolve", d)
      BY <1>0, <1>1, <1>3, CauseType, RenewedType DEF Resolve, UnderWay
    <2>2. CASE Snapshots(o, "resolve")
      <3>1. o \in RoleCounts
        BY <1>0, <2>2 DEF Snapshots, OfTarget, Locked
      <3>2. "count" \in renewed'[d]
        BY <2>1, <2>2, <3>1 DEF Cause
      <3> QED
        BY <2>1, <3>2 DEF UnderWay
    <2>3. CASE ~Snapshots(o, "resolve")
      <3>1. PICK present \in SUBSET Elements: refs' \in RefsAfter(o, "resolve", present)
        BY DEF Resolve
      <3>2. Len(refs) <= Len(refs') /\ (\A i \in 1 .. Len(refs): refs'[i] = refs[i]) /\ Len(refs') \in Nat
        <4>1. refs' \in Seq(Elements)
          BY <1>0, <3>1, Table
        <4> QED
          BY <1>0, <2>3, <3>1, <4>1, Table
      <3>3. Bound(d) => Bound(d)'
        BY <1>0, <3>2 DEF Bound
      <3>4. BoundTo(d) => BoundTo(d)'
        BY <1>0, <3>2 DEF BoundTo
      <3>5. renewed'[d] = {} => renewed[d] = {}
        BY <2>1
      <3>6. renewed'[d] \subseteq {"target"} => renewed[d] \subseteq {"target"}
        BY <2>1
      <3> QED
        BY <1>1, <2>1, <3>3, <3>4, <3>5, <3>6 DEF UnderWay
    <2> QED
      BY <2>2, <2>3
  <1> QED
    BY <1>2, <1>3

\* What an operation has hit is not affected by the steps of others.
LEMMA HitsRemain ==
  ASSUME TypeOK, HitInv, HitsItsGoal, NEW d \in Ops, goal' = goal, aim' = aim,
         hit'[d] = hit[d], drop'[d] = drop[d],
         held[d] # {} => renewed[d] \subseteq renewed'[d]
  PROVE  /\ hit'[d] # None /\ renewed'[d] = {} => hit'[d] = goal'[d]
         /\ drop'[d] # None /\ renewed'[d] \subseteq {"target"} => drop'[d] = aim'[d]
  <1>1. hit[d] # None \/ drop[d] # None => renewed[d] \subseteq renewed'[d]
    BY DEF HitInv
  <1>2. hit[d] # None /\ renewed'[d] = {} => renewed[d] = {}
    BY <1>1
  <1>3. drop[d] # None /\ renewed'[d] \subseteq {"target"} => renewed[d] \subseteq {"target"}
    BY <1>1
  <1> QED
    BY <1>2, <1>3 DEF HitsItsGoal

LEMMA HitStep ==
  ASSUME TypeOK, PipeInv, OrderInv, HitInv, HitsItsGoal, [Next]_vars
  PROVE  HitInv' /\ HitsItsGoal'
  <1>0. /\ pc \in [Ops -> PCs] /\ stage \in [Ops -> Stages] /\ held \in [Ops -> SUBSET Nat]
        /\ renewed \in [Ops -> SUBSET Causes]
        /\ hit \in [Ops -> Elements \cup {None}] /\ drop \in [Ops -> Elements \cup {None}]
        /\ Locked \subseteq Ops /\ Counts \subseteq Ops
        /\ \A o \in Ops: o \in Locked \/ o \in Counts
        /\ Locked \cap Counts = {}
        /\ \A k \in DOMAIN Pipe: Pipe[k] \in Ops
    BY PipeType, RefsAssumption DEF TypeOK, Ops
  <1>1. ASSUME UNCHANGED <<goal, aim, held, heldTo, hit, drop, stage>>,
               \/ UNCHANGED <<refs, renewed>>
               \/ \A o \in Ops: held[o] # {} => "load" \in renewed'[o],
               \A o \in Locked: stage[o] # "resolve" /\ Pending(o)' => Pending(o)
        PROVE  HitInv' /\ HitsItsGoal'
    <2>1. CASE UNCHANGED <<refs, renewed>>
      <3>1. HitsItsGoal'
        BY <1>1, <2>1 DEF HitsItsGoal
      <3>2. \A o \in Locked: stage[o] # "resolve" /\ Pending(o)' /\ UnderWay(o) => UnderWay(o)'
        BY <1>1, <2>1 DEF UnderWay, Bound, BoundTo
      <3>3. \A o \in Locked: stage[o] = "resolve" => UnderWay(o)'
        BY <1>1 DEF UnderWay
      <3> QED
        BY <1>1, <3>1, <3>2, <3>3 DEF HitInv
    <2>2. CASE \A o \in Ops: held[o] # {} => "load" \in renewed'[o]
      <3>1. HitsItsGoal'
        BY <1>0, <1>1, <2>2 DEF HitInv, HitsItsGoal
      <3>2. HitInv'
        <4>1. \A o \in Locked: stage[o] # "resolve" /\ UnderWay(o) => UnderWay(o)'
          BY <1>0, <1>1, <2>2 DEF UnderWay
        <4>2. \A o \in Locked: stage[o] = "resolve" => UnderWay(o)'
          BY <1>1 DEF UnderWay
        <4> QED
          BY <1>1, <4>1, <4>2 DEF HitInv
      <3> QED
        BY <3>1, <3>2
    <2> QED
      BY <1>1, <2>1, <2>2
  <1>2. ASSUME NEW o \in Ops, Enter(o) \/ Proceed(o) PROVE HitInv' /\ HitsItsGoal'
    <2>1. UNCHANGED <<goal, aim, held, heldTo, hit, drop, stage, refs, renewed>> /\ Pipe' = Pipe
      BY <1>2 DEF Enter, Proceed, bridge, ends, Pipe
    <2>2. \A d \in Locked: pc'[d] = "call" => pc[d] = "call" \/ pc[d] = "queued"
      BY <1>0, <1>2 DEF Enter, Proceed
    <2>3. \A d \in Locked: stage[d] # "resolve" /\ pc'[d] = "call" => pc[d] = "call"
      BY <2>2 DEF OrderInv
    <2> QED
      BY <1>1, <2>1, <2>3 DEF Pending
  <1>3. ASSUME NEW o \in Ops, Send(o) PROVE HitInv' /\ HitsItsGoal'
    <2>1. /\ pc[o] = "call" /\ pc'[o] # "call" /\ \A d \in Ops \ {o}: pc'[d] = pc[d]
          /\ wire' = Append(wire, o) \/ wire' = wire
          /\ page' = page /\ UNCHANGED <<goal, aim, held, heldTo, hit, drop, stage, refs, renewed>>
      BY <1>0, <1>3 DEF Send, bridge, ends
    <2>2. \A k \in DOMAIN Pipe': Pipe'[k] = o \/ (k \in DOMAIN Pipe /\ Pipe'[k] = Pipe[k])
      <3>1. CASE wire' = Append(wire, o)
        <4>1. PICK n \in Nat: /\ DOMAIN Pipe = 1 .. n /\ DOMAIN Pipe' = 1 .. n + 1
                              /\ \A k \in 1 .. n: Pipe'[k] = Pipe[k]
                              /\ Pipe'[n + 1] = o
          BY <2>1, <3>1, PipeSend
        <4>2. \A j \in 1 .. n + 1: j \in 1 .. n \/ j = n + 1
          OBVIOUS
        <4> QED
          BY <4>1, <4>2
      <3>2. CASE wire' = wire
        BY <2>1, <3>2 DEF Pipe
      <3> QED
        BY <2>1, <3>1, <3>2
    <2>3. \A d \in Locked: Pending(d)' => Pending(d)
      BY <1>0, <2>1, <2>2 DEF Pending
    <2> QED
      BY <1>1, <2>1, <2>3
  <1>4. CASE StrayLine \/ Disconnect \/ Expire
    <2>1. /\ page' = page /\ UNCHANGED <<goal, aim, held, heldTo, hit, drop, stage, refs, renewed>>
          /\ \A o \in Ops: Gives(o)
          /\ wire' = wire \/ wire' = <<>>
      BY <1>4, GivenUp
    <2>2. DOMAIN Pipe' \subseteq DOMAIN Pipe /\ \A k \in DOMAIN Pipe': Pipe'[k] = Pipe[k]
      <3>1. CASE wire' = wire
        BY <2>1, <3>1 DEF Pipe
      <3>2. CASE wire' = <<>>
        BY <2>1, <3>2, PipeLost
      <3> QED
        BY <2>1, <3>1, <3>2
    <2>3. \A d \in Locked: Pending(d)' => Pending(d)
      BY <1>0, <2>1, <2>2 DEF Pending, Gives, Ended
    <2> QED
      BY <1>1, <2>1, <2>3
  <1>5. CASE Submit
    <2>1. Pipe' = Pipe /\ pc' = pc /\ UNCHANGED <<goal, aim, held, heldTo, hit, drop, stage, refs, renewed>>
      BY <1>5, PipeSubmit DEF Submit, client, ends
    <2> QED
      BY <1>1, <2>1 DEF Pending
  <1>6. CASE Execute
    <2>1. PICK o \in Ops:
            /\ o = Head(page).op /\ stage[o] = Head(page).stage
            /\ page # <<>> /\ page' = Tail(page) /\ wire' = wire /\ goal' = goal /\ aim' = aim
            /\ \A d \in Ops \ {o}: /\ held'[d] = held[d] /\ heldTo'[d] = heldTo[d]
                                   /\ hit'[d] = hit[d] /\ drop'[d] = drop[d]
            /\ \/ stage' = stage /\ \A d \in Ops: Gives(d)
               \/ /\ o \in Locked /\ pc[o] = "wait" /\ pc' = [pc EXCEPT ![o] = "call"]
                  /\ \E next \in Stages \ {"resolve", stage[o]}: stage' = [stage EXCEPT ![o] = next]
      BY <1>6, Executed
    <2>2. PICK n \in Nat: /\ DOMAIN Pipe = 1 .. n + 1 /\ DOMAIN Pipe' = 1 .. n
                          /\ \A k \in 1 .. n: Pipe'[k] = Pipe[k + 1]
                          /\ Pipe[1] = o
      BY <2>1, PipeExecute
    <2>3. /\ \A k \in 1 .. n: k + 1 \in 1 .. n + 1 /\ k + 1 # 1
          /\ 1 \in 1 .. n + 1
          /\ \A k \in 1 .. n + 1: k <= 1 => k = 1
      OBVIOUS
    <2>4. \A d \in Ops \ {o}: stage'[d] = stage[d] /\ (Pending(d)' => Pending(d))
      <3>1. \A d \in Ops \ {o}: stage'[d] = stage[d] /\ (pc'[d] = "call" => pc[d] = "call")
        BY <1>0, <2>1 DEF Gives, Ended
      <3>2. \A d \in Ops: (\E k \in DOMAIN Pipe': Pipe'[k] = d) => \E k \in DOMAIN Pipe: Pipe[k] = d
        BY <2>2, <2>3
      <3> QED
        BY <3>1, <3>2 DEF Pending
    <2>5. pc[o] # "call" /\ Pending(o)
      BY <2>2, <2>3 DEF PipeInv, Pending
    <2>6. \A d \in Counts: stage'[d] = "resolve"
      BY <1>0, <2>1 DEF HitInv
    <2>7. ASSUME o \in Locked, NEW d \in Locked \ {o}, stage[d] # "resolve" PROVE ~Pending(d)
      BY <2>2, <2>3, <2>7 DEF Pending, OrderInv
    <2>8. ASSUME stage' = stage PROVE ~Pending(o)'
      <3>1. pc'[o] # "call"
        BY <1>0, <2>1, <2>5, <2>8 DEF Gives, Ended
      <3>2. \A k \in DOMAIN Pipe': Pipe'[k] # o
        <4> SUFFICES ASSUME NEW k \in 1 .. n PROVE Pipe'[k] # o
          BY <2>2
        <4>1. k + 1 \in DOMAIN Pipe /\ 1 \in DOMAIN Pipe /\ k + 1 # 1
          BY <2>2, <2>3
        <4>2. Pipe[k + 1] # Pipe[1]
          BY <4>1, Zenon DEF PipeInv
        <4> QED
          BY <2>2, <4>2
      <3> QED
        BY <3>1, <3>2 DEF Pending
    <2>9. PICK st \in Stages: st = stage[o]
      BY <1>0
    <2>10. \/ st \in {"resolve", "target"} /\ Resolve(o, st)
           \/ st \in {"filter", "targetFilter"} /\ Filter(o, st)
           \/ st = "act" /\ Act(o)
      BY <1>6, <2>1, <2>9 DEF Execute
    <2>11. stage' # stage => stage' = [stage EXCEPT ![o] = After(o, st)]
      <3>1. CASE Resolve(o, st)
        <4>1. PICK present \in SUBSET Elements: refs' \in RefsAfter(o, st, present)
          BY <3>1 DEF Resolve
        <4>2. Matches(o, st, refs') \in SUBSET Nat /\ Deliver(o, st, Matches(o, st, refs'))
          BY <3>1, <4>1, Table DEF Resolve
        <4> QED
          BY <4>2, Delivered
      <3>2. CASE Filter(o, st)
        <4>1. Known(GivenTo(o, st)) => Deliver(o, st, Kept(o, st)) /\ Kept(o, st) \in SUBSET Nat
          BY <3>2, Filters
        <4>2. ~Known(GivenTo(o, st)) => stage' = stage
          BY <3>2, Filters
        <4> QED
          BY <4>1, <4>2, Delivered
      <3>3. CASE Act(o)
        BY <3>3, Acts
      <3> QED
        BY <2>10, <3>1, <3>2, <3>3
    <2>12. ASSUME NEW d \in Locked, Pending(d)' PROVE UnderWay(d)'
      <3>1. CASE d # o /\ o \in Locked
        <4>1. stage'[d] = stage[d] /\ Pending(d)
          BY <1>0, <2>4, <2>12, <3>1
        <4>2. stage'[d] = "resolve"
          BY <2>7, <3>1, <4>1
        <4> QED
          BY <4>2 DEF UnderWay
      <3>2. CASE o \in Counts
        <4>1. d # o /\ stage[o] = "resolve"
          BY <1>0, <3>2 DEF HitInv
        <4>2. Resolve(o, "resolve")
          BY <2>9, <2>10, <4>1
        <4>3. /\ Pending(d) /\ stage'[d] = stage[d]
              /\ held'[d] = held[d] /\ heldTo'[d] = heldTo[d]
          BY <1>0, <2>1, <2>4, <2>12, <4>1
        <4> QED
          BY <2>1, <3>2, <4>1, <4>2, <4>3, CountSpares
      <3>3. CASE d = o
        <4>1. stage' # stage /\ Pending(o)
          <5>1. Pending(o)'
            BY <2>12, <3>3 DEF Pending
          <5> QED
            BY <1>0, <2>1, <2>5, <2>8, <5>1
        <4>2. stage' = [stage EXCEPT ![o] = After(o, st)]
          BY <2>11, <4>1
        <4>3. CASE st \in {"resolve", "target"} /\ Resolve(o, st)
          BY <2>1, <2>9, <2>12, <3>3, <4>1, <4>2, <4>3, ResolvedOn
        <4>4. CASE st \in {"filter", "targetFilter"} /\ Filter(o, st)
          BY <2>1, <2>9, <2>12, <3>3, <4>1, <4>2, <4>4, FilteredOn
        <4>5. CASE Act(o)
          BY <4>1, <4>5, Acts
        <4> QED
          BY <2>10, <4>3, <4>4, <4>5
      <3> QED
        BY <1>0, <3>1, <3>2, <3>3
    <2>13. \A d \in Ops: held[d] # {} => renewed[d] \subseteq renewed'[d]
      <3>1. CASE Resolve(o, st)
        <4>1. renewed' = Renewed([d \in Ops |-> Cause(o, st, d)])
          BY <3>1 DEF Resolve
        <4> QED
          BY <4>1, CauseType, RenewedType
      <3>2. CASE Filter(o, st)
        BY <3>2, Filters
      <3>3. CASE Act(o)
        BY <3>3, Acts
      <3> QED
        BY <2>10, <3>1, <3>2, <3>3
    <2>14. /\ hit'[o] # None \/ drop'[o] # None => stage'[o] = "act" /\ held'[o] # {}
           /\ hit'[o] # None /\ renewed'[o] = {} => hit'[o] = goal'[o]
           /\ drop'[o] # None /\ renewed'[o] \subseteq {"target"} => drop'[o] = aim'[o]
      <3>1. CASE st # "act"
        <4>1. hit' = hit /\ drop' = drop
          BY <2>10, <3>1, Filters DEF Resolve
        <4>2. hit[o] = None /\ drop[o] = None
          BY <2>9, <3>1 DEF HitInv
        <4> QED
          BY <4>1, <4>2
      <3>2. CASE st = "act"
        <4>1. Act(o) /\ o \in Locked
          BY <1>0, <2>9, <2>10, <3>2 DEF HitInv
        <4>2. UNCHANGED <<refs, stage, held, heldTo, renewed>> /\ (UNCHANGED <<hit, drop>> \/ held[o] # {})
          BY <4>1, Acts
        <4>3. /\ renewed[o] = {} => Bound(o)
              /\ o \in Drags /\ renewed[o] \subseteq {"target"} => BoundTo(o)
          BY <2>5, <2>9, <3>2, <4>1 DEF HitInv, UnderWay
        <4>4. hit'[o] = hit[o] \/ (renewed[o] = {} => hit'[o] = goal[o])
          <5>1. hit'[o] = hit[o] \/ \E i \in held[o]: hit'[o] = refs[i]
            BY <4>1, Acts
          <5> QED
            BY <4>3, <5>1 DEF Bound
        <4>5. drop'[o] = drop[o] \/ (renewed[o] \subseteq {"target"} => drop'[o] = aim[o])
          <5>1. /\ drop'[o] = drop[o] \/ \E i \in heldTo[o]: drop'[o] = refs[i]
                /\ o \in Drags \/ drop' = drop
            BY <4>1, Acts
          <5> QED
            BY <4>3, <5>1 DEF BoundTo
        <4>6. hit'[o] # None /\ renewed'[o] = {} => hit'[o] = goal'[o]
          BY <2>1, <4>2, <4>4 DEF HitsItsGoal
        <4>7. drop'[o] # None /\ renewed'[o] \subseteq {"target"} => drop'[o] = aim'[o]
          BY <2>1, <4>2, <4>5 DEF HitsItsGoal
        <4>8. hit'[o] # None \/ drop'[o] # None => stage'[o] = "act" /\ held'[o] # {}
          BY <2>9, <3>2, <4>2 DEF HitInv
        <4> QED
          BY <4>6, <4>7, <4>8
      <3> QED
        BY <3>1, <3>2
    <2>15. HitsItsGoal'
      <3>1. ASSUME NEW d \in Ops
            PROVE  /\ hit'[d] # None /\ renewed'[d] = {} => hit'[d] = goal'[d]
                   /\ drop'[d] # None /\ renewed'[d] \subseteq {"target"} => drop'[d] = aim'[d]
        <4>1. CASE d = o
          BY <2>14, <4>1
        <4>2. CASE d # o
          BY <2>1, <2>13, <4>2, HitsRemain
        <4> QED
          BY <4>1, <4>2
      <3> QED
        BY <3>1 DEF HitsItsGoal
    <2>16. \A d \in Ops: hit'[d] # None \/ drop'[d] # None => stage'[d] = "act" /\ held'[d] # {}
      BY <2>1, <2>4, <2>14 DEF HitInv
    <2> QED
      BY <2>6, <2>12, <2>15, <2>16 DEF HitInv, UnderWay
  <1>7. CASE Release \/ Reload \/ UNCHANGED vars
    <2>1. UNCHANGED <<page, wire, stage, pc, goal, aim, held, heldTo, hit, drop>>
      BY <1>7 DEF Release, Reload, vars, client, bridge, ends
    <2>2. UNCHANGED <<refs, renewed>> \/ \A o \in Ops: held[o] # {} => "load" \in renewed'[o]
      BY <1>7 DEF Release, Reload, Renewed, vars, bridge
    <2>3. Pipe' = Pipe
      BY <2>1 DEF Pipe
    <2> QED
      BY <1>1, <2>1, <2>2, <2>3 DEF Pending
  <1> QED
    BY <1>2, <1>3, <1>4, <1>5, <1>6, <1>7 DEF Next, OpStep, PluginStep

-----------------------------------------------------------------------------
(* The theorems.                                                           *)

LEMMA InvInit == Init => IInv
  <1> SUFFICES ASSUME Init PROVE IInv
    OBVIOUS
  <1>1. /\ goal \in [Ops -> Elements] /\ refs = <<>> /\ queue = <<>> /\ wire = <<>> /\ page = <<>>
        /\ pc = [o \in Ops |-> "idle"] /\ stage = [o \in Ops |-> "resolve"]
        /\ held = [o \in Ops |-> {}] /\ heldTo = [o \in Ops |-> {}] /\ renewed = [o \in Ops |-> {}]
        /\ hit = [o \in Ops |-> None] /\ drop = [o \in Ops |-> None] /\ aim \in [Ops -> Elements]
        /\ server = None /\ closed = FALSE
    BY DEF Init
  <1>2. TypeOK
    <2>1. <<>> \in Seq(Elements) /\ <<>> \in Seq(Ops) /\ <<>> \in Seq(Locked) /\ <<>> \in Seq(Script)
      OBVIOUS
    <2>2. pc \in [Ops -> PCs] /\ stage \in [Ops -> Stages]
      BY <1>1 DEF PCs, Stages
    <2>3. /\ held \in [Ops -> SUBSET Nat] /\ heldTo \in [Ops -> SUBSET Nat]
          /\ hit \in [Ops -> Elements \cup {None}] /\ drop \in [Ops -> Elements \cup {None}]
      BY <1>1
    <2>4. renewed \in [Ops -> SUBSET Causes]
      BY <1>1
    <2> QED
      BY <1>1, <2>1, <2>2, <2>3, <2>4 DEF TypeOK
  <1>3. Pipe = <<>> /\ DOMAIN Pipe = {}
    <2>1. Len(page) = 0 /\ Len(wire) = 0
      BY <1>1
    <2> QED
      BY <2>1 DEF Pipe
  <1>4. Locked \subseteq Ops /\ Counts \subseteq Ops
    BY DEF Ops
  <1>5. HolderInv /\ PipeInv /\ OrderInv
    BY <1>1, <1>3, <1>4 DEF HolderInv, PipeInv, OrderInv
  <1>6. HitInv /\ HitsItsGoal
    BY <1>1, <1>3, <1>4 DEF HitInv, HitsItsGoal, Pending
  <1> QED
    BY <1>2, <1>5, <1>6 DEF IInv

LEMMA InvStep == IInv /\ [Next]_vars => IInv'
  BY TypeStep, HolderStep, PipeStep, OrderStep, HitStep DEF IInv

\* The inductive invariant holds in every state.
THEOREM RefsCorrect == Spec => []IInv
  BY InvInit, InvStep, PTL DEF Spec

\* Every variable keeps its type.
THEOREM TypeCorrect == Spec => []TypeOK
  <1>1. IInv => TypeOK
    BY DEF IInv
  <1> QED
    BY <1>1, RefsCorrect, PTL

\* Every action is dispatched to the element its locator resolved to, and every
\* drag ends on its target, however calls are given up, lines lost and the
\* connection closed (window.ts, rpc-client.ts, bridge.js), for any actions,
\* drags and counts; but not after a load, a count by role, or, for the source
\* of a drag, the snapshot of its target, which lose the refs.
THEOREM ActionsHit == Spec => []HitsItsGoal
  <1>1. IInv => HitsItsGoal
    BY DEF IInv
  <1> QED
    BY <1>1, RefsCorrect, PTL
=============================================================================
