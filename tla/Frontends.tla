----------------------------- MODULE Frontends -----------------------------
(***************************************************************************)
(* The ways into an application: a command of the CLI (main.rs), a tool of *)
(* the MCP server (mcp.rs), a step of a scenario run by either             *)
(* (scenario.rs), and logs that are followed. Each call finds a socket,    *)
(* connects, sends its request and judges the answer; the calls of an MCP  *)
(* server run side by side, and applications come and go meanwhile.        *)
(*                                                                         *)
(* An element is what the calls of a behaviour are about. It is missing,   *)
(* or "on" (visible, checked, its text and value as expected) or "off", in *)
(* each window's page and in a frame there.                                *)
(***************************************************************************)
EXTENDS McpTools, CommandLine, Naturals

CONSTANTS Callers,   \* at most so many calls at once: a bound
          Apps,      \* sockets an application may listen at
          Windows,   \* labels of the windows that are open
          Main,
          Stories,   \* calls to make and where: a bound
          Unframed,  \* <<front, op>> that nobody uses with a frame
          Cap,       \* entries the page's log holds
          None

ASSUME FrontendsAssumption == /\ Main \in Windows /\ Windows \subseteq STRING
                              /\ None \notin Apps \cup STRING
                              /\ Cap \in Nat \ {0}

VARIABLES setup,    \* how the MCP server was started, and what may happen
          todo,     \* calls still to be made
          job,      \* what each caller is at
          sockets,  \* socket files, the newest first
          live,     \* those with an application behind
          attached, \* resolved_socket of the MCP server
          element,  \* <<window, document>> -> the element there
          log,      \* the page's log: its document and the ids it holds
          left      \* events still to come: a bound

world == <<sockets, live, element, log, left>>
vars  == <<setup, todo, job, world, attached>>

Docs     == {"top", "frame"}
Elements == {"missing", "off", "on"}

Served(c)  == c.front \in {"mcp", "mcp_run"}  \* by the MCP server
AStep(c)   == c.front \in {"run", "mcp_run"}
Label(w)   == IF w = None THEN Main ELSE w

-----------------------------------------------------------------------------
(* From a call to its request.                                             *)

TakesOf(c) == CASE c.front = "cli" -> Commands[c.op]
                [] c.front = "mcp" -> McpTakes(c.op)
                [] AStep(c)        -> StepTakes[c.op]

Offers(c) == c.op \in CASE c.front = "cli" -> DOMAIN Commands
                        [] c.front = "mcp" -> DOMAIN Tools
                        [] AStep(c)        -> DOMAIN StepTakes

RowOf(c) == CASE c.front = "cli" -> CliRequests[c.op]
              [] c.front = "mcp" -> McpCalls[c.op]
              [] AStep(c)        -> StepRequests[c.op]

\* window_arg: the caller's window, or the one the MCP server was started for.
AskedWindow(c) == IF c.window = None /\ Served(c) THEN setup.window ELSE c.window

\* Mutant: every command keeps its window to itself when there is a frame.
WithScopeEither(row, c) ==
  [window |-> IF c.frame \/ row.method = "windows.list" THEN None ELSE AskedWindow(c),
   frame  |-> c.frame /\ IF c.front = "mcp" THEN "frame" \in row.passes
                         ELSE "frame" \in row.scope]
\* with_scope. For a tool the frame is one of its arguments.
WithScope(row, c) ==
  [window |-> IF row.method = "windows.list" THEN None ELSE AskedWindow(c),
   frame  |-> c.frame /\ IF c.front = "mcp" THEN "frame" \in row.passes
                         ELSE "frame" \in row.scope]

Given(c) == IF c.op = "wait" THEN Awaited(c.args) ELSE c.args

Tidies(c) == CASE c.front = "cli" -> CliTidies
               [] c.front = "mcp" -> McpTidies
               [] AStep(c)        -> {}

\* An argument as it is sent.
Sent(c, k) == IF k \in c.loose /\ <<c.op, k>> \notin Tidies(c) THEN "loose" ELSE "asked"

RequestOf(c) ==
  LET row   == RowOf(c)
      names == {WireName(a) : a \in Given(c) \cap row.passes}
      scope == WithScope(row, c)
  IN Request(row.method, [k \in names |-> Sent(c, k)] @@ row.fills, scope.window, scope.frame)

\* May a call say in which frame it is meant?
TakesFrame(c) == \/ c.front = "cli"
                 \/ c.front = "mcp" /\ "frame" \in TakesOf(c).may

Fits(c) == Offers(c) /\ TakesOf(c).need \subseteq c.args
                     /\ c.args \subseteq TakesOf(c).need \cup TakesOf(c).may

\* What the parser of the CLI, the tool's own checks or the validation of a
\* scenario turn down, before anything else is done.
Refused(c) ==
  \/ ~(Offers(c) /\ TakesOf(c).need \subseteq c.args)
  \/ c.front = "cli" /\ Contradictory(c.op, c.args)
  \/ c.front = "mcp" /\ c.op = "drag" /\ Contradictory(c.op, c.args)
  \/ c.front = "mcp" /\ c.op \in Dangerous /\ ~setup.dangerous
  \/ c.front = "mcp" /\ c.op = "navigate" /\ "url" \in c.loose
  \/ c.front = "mcp_run" /\ c.socket # None

\* A call is one that can be written down: with arguments that its front end
\* knows, some of them written loosely, and with a frame only where there is a
\* place for it.
Calls == [front: {"cli", "mcp", "run", "mcp_run"}, op: STRING, args: SUBSET STRING,
          loose: SUBSET Loose,
          window: STRING \cup {None}, frame: BOOLEAN, socket: Apps \cup {None}]

Setups == [socket: Apps \cup {None}, window: STRING \cup {None}, dangerous: BOOLEAN,
           old: BOOLEAN, events: SUBSET {"apps", "page", "log"}]

ASSUME StoriesAssumption ==
  \A s \in Stories :
    /\ s.setup \in Setups /\ s.events \in Nat
    /\ s.element \in [Windows \X Docs -> Elements]
    /\ s.sockets \in Seq(Apps) /\ s.live \subseteq {s.sockets[i] : i \in DOMAIN s.sockets}
    /\ \A m, n \in DOMAIN s.sockets : s.sockets[m] = s.sockets[n] => m = n
    /\ s.calls \in Seq(Calls)
    /\ \A i \in DOMAIN s.calls : LET c == s.calls[i] IN
         /\ Offers(c) => c.args \subseteq TakesOf(c).need \cup TakesOf(c).may
         /\ c.loose \subseteq c.args
         /\ c.frame => Offers(c) /\ TakesFrame(c) /\ <<c.front, c.op>> \notin Unframed

-----------------------------------------------------------------------------
Idle == [pc |-> "idle", call |-> None, request |-> None, stage |-> "first", socket |-> None,
         since |-> None, reply |-> None, verdict |-> None, holds |-> FALSE, hits |-> {},
         changes |-> {}, seen |-> 0, first |-> TRUE, got |-> <<>>, shown |-> <<>>,
         kept |-> {}, doc |-> 0]

Becomes(j, new) == job' = [job EXCEPT ![j] = new]

Ended(old, verdict) == [old EXCEPT !.pc = "done", !.verdict = verdict]

Ends(j, verdict) == Becomes(j, Ended(job[j], verdict))

Init ==
  \E s \in Stories :
    /\ setup = s.setup /\ todo = s.calls /\ left = s.events
    /\ element = s.element /\ sockets = s.sockets /\ live = s.live
    /\ job = [j \in Callers |-> Idle]
    /\ attached = None /\ log = [doc |-> 0, lo |-> 1, hi |-> 1]

Ask(j) ==
  /\ job[j].pc = "idle" /\ todo # <<>>
  /\ todo' = Tail(todo)
  /\ Becomes(j, [job[j] EXCEPT !.pc = "asked", !.call = Head(todo), !.since = attached,
                              !.doc = log.doc])
  /\ UNCHANGED <<setup, world, attached>>

Refuse(j) ==
  /\ job[j].pc = "asked"
  /\ Refused(job[j].call)
  /\ Ends(j, "refused")
  /\ UNCHANGED <<setup, todo, world, attached>>

\* The socket the caller names: --socket, [connect] of a scenario, or the one
\* that the MCP server was started with.
Explicit(c) == IF Served(c) THEN setup.socket ELSE c.socket

\* Mutant: every call of a tool looks for the newest.
NewestFor(c) == IF sockets = <<>> THEN None ELSE Head(sockets)
\* connect_client and resolve_socket: of several sockets the newest.
SocketFor(c) ==
  IF Explicit(c) # None THEN Explicit(c)
  ELSE IF Served(c) /\ attached # None THEN attached
  ELSE IF sockets = <<>> THEN None ELSE Head(sockets)

Resolve(j) ==
  /\ job[j].pc = "asked"
  /\ ~Refused(job[j].call)
  /\ LET s == SocketFor(job[j].call) IN
     IF s = None THEN Ends(j, "failed")
     ELSE Becomes(j, [job[j] EXCEPT !.pc = "resolved", !.socket = s])
  /\ UNCHANGED <<setup, todo, world, attached>>

\* The connection is made, or there is nobody at that socket. The MCP server
\* remembers the first one that it found by itself.
Open(j) ==
  LET s == job[j].socket IN
  /\ job[j].pc = "resolved"
  /\ IF s \in live
     THEN /\ Becomes(j, [job[j] EXCEPT !.pc = "ready", !.request = RequestOf(job[j].call)])
          /\ attached' = IF /\ Served(job[j].call) /\ setup.socket = None
                            /\ attached = None
                         THEN s ELSE attached
     ELSE Ends(j, "failed") /\ UNCHANGED attached
  /\ UNCHANGED <<setup, todo, world>>

\* encode_files: a file cannot be read or is too large.
EncodeFails(j) ==
  /\ job[j].pc = "ready"
  /\ job[j].call.op \in {"drop", "set_input_files"}
  /\ Ends(j, "failed")
  /\ UNCHANGED <<setup, todo, world, attached>>

-----------------------------------------------------------------------------
(* What the application does with a request.                               *)

\* The request is about an element, or what a document shows, and not about
\* the page with all that belongs to it.
Aims(req) == \/ req.method \in {"snapshot", "diff", "watch"}
             \/ /\ req.method \in DOMAIN ElementReads
                                  \cup {"wait", "screenshot", "forms.dump"}
                /\ DOMAIN req.params \cap {"target", "selector", "by", "source"} # {}

\* What the plugin answers without a look at a window.
Windowless == Recording \cup {"ping", "windows.list"}

\* Where it is carried out.
PlaceOf(req) ==
  IF req.method = "screenshot_native" /\ "window_id" \in DOMAIN req.params
  THEN <<req.params["window_id"], "page">>
  ELSE <<Label(req.window),
         IF ~Aims(req) THEN "page"
         ELSE IF req.frame /\ req.method \in Framed THEN "frame" ELSE "top">>

ElementAt(req) ==
  LET p == PlaceOf(req) IN element[<<p[1], IF p[2] = "page" THEN "top" ELSE p[2]>>]

\* The bridge's answer. visible and count find nothing to complain of in an
\* element that is not there; storage.get says so.
Answers(req) ==
  LET e == ElementAt(req) IN
  CASE req.method \in {"text", "value", "checked"} /\ e = "missing" -> {"error"}
    [] \/ req.method \in {"visible", "url"}
       \/ req.method \in {"text", "value", "checked"} /\ e # "missing" ->
         {IF e = "on" THEN "yes" ELSE "no", "error"}
    [] req.method = "count" -> {IF e = "missing" THEN "no" ELSE "yes", "error"}
    [] req.method = "storage.get" ->
         {CASE e = "on" -> "yes" [] e = "off" -> "no" [] OTHER -> "absent", "error"}
    [] req.method = "screenshot_native" /\ "window_id" \notin DOMAIN req.params ->
         {"wants_id", "error"} \cup IF setup.old THEN {} ELSE {"yes"}
    [] OTHER -> {"yes", "error"}

\* What the caller of an assertion wants to know, at the place it asked for.
\* An address and what is stored belong to the page.
Claim(c) ==
  LET e == element[<<Label(AskedWindow(c)),
                     IF c.frame /\ c.op \notin {"assert_url", "storage_get"}
                     THEN "frame" ELSE "top">>] IN
  CASE c.op = "assert_hidden" -> e # "on"
    [] c.op \in {"assert_count", "assert_exists"} -> e # "missing"
    [] c.op = "storage_get" -> IF "expected" \in c.args THEN e = "on" ELSE e # "missing"
    [] OTHER -> e = "on"

\* The entries of the log a poll gets.
Since(j) ==
  LET from == IF job[j].seen >= log.lo THEN job[j].seen + 1 ELSE log.lo
      lo   == IF job[j].first /\ "last" \in job[j].call.args /\ log.hi >= from
              THEN log.hi ELSE from
  IN [i \in 1 .. (IF log.hi >= lo THEN log.hi + 1 - lo ELSE 0) |-> <<log.doc, lo + i - 1>>]

\* What is known of a call after an answer.
Answered(j, a) ==
  LET req == job[j].request  c == job[j].call IN
  [job[j] EXCEPT
     !.pc      = "answered",
     !.reply   = a,
     !.holds   = IF job[j].stage = "first" /\ Label(AskedWindow(c)) \in Windows
                 THEN Claim(c) ELSE @,
     !.hits    = IF a = "error" \/ req.method \in Windowless \/ PlaceOf(req)[1] = "asked"
                 THEN @ ELSE @ \cup {PlaceOf(req)},
     !.changes = @ \cup Changes(req.method, DOMAIN req.params),
     !.got     = IF c.op = "logs.follow" THEN Since(j) ELSE <<>>,
     !.kept    = IF c.op = "logs.follow" /\ log.doc = job[j].doc /\ a # "error"
                 THEN @ \cup (log.lo .. log.hi) ELSE @]

Serve(j) ==
  LET req == job[j].request IN
  /\ job[j].pc = "ready"
  /\ \E a \in IF req.method \in Windowless \/ Label(req.window) \in Windows
             THEN Answers(req) \ (IF Unread(req) THEN {"yes"} ELSE {})
             ELSE {"error"} : Becomes(j, Answered(j, a))
  /\ log' = IF req.method = "console.clear" THEN [log EXCEPT !.lo = log.hi + 1] ELSE log
  /\ UNCHANGED <<setup, todo, attached, sockets, live, element, left>>

-----------------------------------------------------------------------------
(* What the caller makes of the answer.                                    *)

Again(j, stage, req) ==
  Becomes(j, [job[j] EXCEPT !.pc = "ready", !.stage = stage, !.request = req])

\* A plugin that wants to know the native window: the CLI asks for the list
\* and repeats its request with the id of the window it is about.
AskForWindows(j) ==
  /\ job[j].pc = "answered" /\ job[j].stage = "first"
  /\ job[j].reply = "wants_id" /\ job[j].call.front = "cli"
  /\ Again(j, "listing", Request("windows.list", Nothing, None, FALSE))
  /\ UNCHANGED <<setup, todo, world, attached>>

Retry(j) ==
  LET c == job[j].call  req == RequestOf(c)  w == Label(c.window) IN
  /\ job[j].pc = "answered" /\ job[j].stage = "listing"
  /\ IF job[j].reply = "error" \/ w \notin Windows THEN Ends(j, "failed")
     ELSE Again(j, "retry", [req EXCEPT !.params = "window_id" :> w @@ @])
  /\ UNCHANGED <<setup, todo, world, attached>>

Assertions == {"assert_text", "assert_contains", "assert_value", "assert_visible",
               "assert_hidden", "assert_checked", "assert_count", "assert_url",
               "assert_exists"}

\* Mutant: what is asserted to be hidden has to be visible.
VerdictUpsideDown(c, reply) ==
  IF reply \in {"error", "wants_id"} THEN "failed" ELSE
  CASE c.op = "assert_exists" -> "passed"
    [] c.op = "storage_get" /\ AStep(c) ->
         IF reply = "yes" \/ (reply = "no" /\ "expected" \notin c.args)
         THEN "passed" ELSE "refuted"
    [] c.op \in Assertions \ {"assert_exists"} -> IF reply = "yes" THEN "passed" ELSE "refuted"
    [] OTHER -> "done"
Verdict(c, reply) ==
  IF reply \in {"error", "wants_id"} THEN "failed" ELSE
  CASE c.op = "assert_exists" -> "passed"
    [] c.op = "assert_hidden" -> IF reply = "no" THEN "passed" ELSE "refuted"
    [] c.op = "storage_get" /\ AStep(c) ->
         IF reply = "yes" \/ (reply = "no" /\ "expected" \notin c.args)
         THEN "passed" ELSE "refuted"
    [] c.op \in Assertions \ {"assert_exists", "assert_hidden"} -> IF reply = "yes" THEN "passed" ELSE "refuted"
    [] OTHER -> "done"

\* The answer to the call itself. A step that fails leaves a screenshot, whose
\* own failure changes nothing.
Judge(j) ==
  LET c == job[j].call  v == Verdict(c, job[j].reply) IN
  /\ job[j].pc = "answered" /\ job[j].stage \in {"first", "retry"}
  /\ c.op # "logs.follow"
  /\ ~(job[j].stage = "first" /\ job[j].reply = "wants_id" /\ c.front = "cli")
  /\ IF AStep(c) /\ v \in {"failed", "refuted"}
     THEN Becomes(j, [job[j] EXCEPT
                        !.pc = "ready", !.stage = "shot", !.verdict = v,
                        !.request = Request("screenshot", Nothing, AskedWindow(c), FALSE)])
     ELSE Ends(j, v)
  /\ UNCHANGED <<setup, todo, world, attached>>

Shot(j) ==
  /\ job[j].pc = "answered" /\ job[j].stage = "shot"
  /\ Ends(j, job[j].verdict)
  /\ UNCHANGED <<setup, todo, world, attached>>

\* Mutant: what has been seen is the first entry of an answer.
LastSeenFirst(j) == job[j].got[1][2]
LastSeen(j) == job[j].got[Len(job[j].got)][2]

\* follow_logs: it shows what it got, and asks again after a while.
Follow(j) ==
  LET got == job[j].got IN
  /\ job[j].pc = "answered" /\ job[j].call.op = "logs.follow"
  /\ IF job[j].reply = "error" THEN Ends(j, "failed")
     ELSE Becomes(j, [job[j] EXCEPT
                        !.pc = "pause", !.shown = @ \o got, !.first = FALSE, !.got = <<>>,
                        !.seen = IF got = <<>> THEN @ ELSE LastSeen(j)])
  /\ UNCHANGED <<setup, todo, world, attached>>

Poll(j) ==
  /\ job[j].pc = "pause"
  /\ Becomes(j, [job[j] EXCEPT !.pc = "ready"])
  /\ UNCHANGED <<setup, todo, world, attached>>

Rest(j) ==
  /\ job[j].pc = "done"
  /\ Becomes(j, Idle)
  /\ UNCHANGED <<setup, todo, world, attached>>

Step(j) == \/ Ask(j) \/ Refuse(j) \/ Resolve(j) \/ Open(j) \/ EncodeFails(j) \/ Serve(j)
           \/ AskForWindows(j) \/ Retry(j) \/ Judge(j) \/ Shot(j)
           \/ Follow(j) \/ Poll(j) \/ Rest(j)

-----------------------------------------------------------------------------
(* Meanwhile.                                                              *)

Happens(kind) == kind \in setup.events /\ left > 0 /\ left' = left - 1

\* The sockets without a's.
Others(a) ==
  IF \A i \in DOMAIN sockets : sockets[i] # a THEN sockets
  ELSE LET i == CHOOSE i \in DOMAIN sockets : sockets[i] = a
       IN SubSeq(sockets, 1, i - 1) \o SubSeq(sockets, i + 1, Len(sockets))

Start(a) ==
  /\ Happens("apps") /\ a \notin live
  /\ live' = live \cup {a} /\ sockets' = <<a>> \o Others(a)
  /\ UNCHANGED <<setup, todo, job, attached, element, log>>

\* An application ends, and leaves its socket behind when it crashes. Its
\* connections end with it.
Stop(a) ==
  /\ Happens("apps") /\ a \in live
  /\ live' = live \ {a} /\ sockets' \in {sockets, Others(a)}
  /\ job' = [j \in Callers |->
               IF job[j].pc \in {"ready", "pause"} /\ job[j].socket = a
               THEN Ended(job[j], IF job[j].stage = "shot" THEN job[j].verdict ELSE "failed")
               ELSE job[j]]
  /\ UNCHANGED <<setup, todo, attached, element, log>>

PageChanges ==
  /\ Happens("page")
  /\ \E p \in Windows \X Docs, e \in Elements : element' = [element EXCEPT ![p] = e]
  /\ UNCHANGED <<setup, todo, job, attached, sockets, live, log>>

\* Mutant: the oldest entry goes when there are already too many.
PageLogsOneMore ==
  /\ Happens("log")
  /\ log' = [log EXCEPT !.hi = @ + 1, !.lo = IF log.hi + 1 - log.lo > Cap THEN @ + 1 ELSE @]
  /\ UNCHANGED <<setup, todo, job, attached, sockets, live, element>>
PageLogs ==
  /\ Happens("log")
  /\ log' = [log EXCEPT !.hi = @ + 1, !.lo = IF log.hi + 1 - log.lo = Cap THEN @ + 1 ELSE @]
  /\ UNCHANGED <<setup, todo, job, attached, sockets, live, element>>

\* A document that is loaded anew counts from 1.
PageLoads ==
  /\ Happens("log")
  /\ log' = [doc |-> log.doc + 1, lo |-> 1, hi |-> 0]
  /\ UNCHANGED <<setup, todo, job, attached, sockets, live, element>>

Next == \/ \E j \in Callers : Step(j)
        \/ \E a \in Apps : Start(a) \/ Stop(a)
        \/ PageChanges \/ PageLogs \/ PageLoads

Spec == Init /\ [][Next]_vars
-----------------------------------------------------------------------------
(* Properties.                                                             *)

Verdicts == {None, "refused", "failed", "refuted", "passed", "done"}
Replies  == {"yes", "no", "absent", "error", "wants_id"}

\* What is known of every call at every time is of its kind, and the page
\* keeps no more of its log than it may (MAX_LOGS).
TypeOK ==
  /\ sockets \in Seq(Apps) /\ live \subseteq {sockets[i] : i \in DOMAIN sockets}
  /\ attached \in Apps \cup {None}
  /\ element \in [Windows \X Docs -> Elements]
  /\ log.hi + 1 - log.lo \in 0 .. Cap
  /\ \A j \in Callers :
       /\ job[j].verdict \in Verdicts
       /\ job[j].stage \in {"first", "listing", "retry", "shot"}
       /\ job[j].socket \in Apps \cup {None}
       /\ job[j].changes \subseteq Aspects
       /\ job[j].pc \in {"resolved", "ready", "answered", "pause"} => job[j].socket # None
       /\ job[j].pc = "answered" => job[j].reply \in Replies

\* Whatever way a call comes, and whatever it asks the application on its way
\* (a list of windows, a screenshot of a failure), it is carried out in the
\* window its caller named, or in the one the server was started for, and in
\* the frame the caller named when it is about an element or what a document
\* shows (with_scope, call_app, frameDocument).
ActsWhereAsked ==
  \A j \in Callers : LET c == job[j].call IN
    c # None => \A h \in job[j].hits :
      /\ h[1] = Label(AskedWindow(c))
      /\ h[2] \in {"page", IF c.frame THEN "frame" ELSE "top"}
      /\ c.frame /\ Aims(RequestOf(c)) => h[2] # "top"

\* Where the front ends disagree about an argument that is written loosely.
Divergent == {<<"scroll", "ref">>, <<"heap_snapshot", "output_path">>}

\* Every argument a caller gives arrives under a name that the method reads,
\* and the same call of the command line, of a tool and of a scenario comes to
\* the same if it is not turned down: what one of them leaves out is what the
\* others fill in. What the front ends disagree about is left out: a scroll's
\* ref with an @, and a relative path for a heap snapshot.
SameRequest ==
  \A j \in Callers : LET c == job[j].call  req == job[j].request IN
    job[j].pc = "ready" /\ job[j].stage = "first" =>
      /\ \A a \in Given(c) \ {"expected"} :
           WireName(a) \in DOMAIN Effective(req).params
             /\ Effective(req).params[WireName(a)] \in
                  {"asked"} \cup IF a \in c.loose THEN {"loose"} ELSE {}
      /\ \A f \in {"cli", "mcp", "run"} : LET d == [c EXCEPT !.front = f] IN
           /\ Offers(d) /\ Fits(d) /\ ~Refused(d)
           /\ \A a \in c.loose : <<c.op, a>> \notin Divergent
           => Effective(RequestOf(d)) = Effective(req)

\* An assertion that passes was true where and when the application looked,
\* and one that is refuted was false. assert_exists is left out: it passes
\* whatever the application answers (scenario.rs).
VerdictsAreTrue ==
  \A j \in Callers : job[j].pc = "done" /\ job[j].call.op # "assert_exists" =>
    /\ job[j].verdict = "passed"  => job[j].holds
    /\ job[j].verdict = "refuted" => ~job[j].holds

\* An MCP server that has found an application talks to that one and to no
\* other from then on, also when a newer one is started (resolved_socket).
StaysAttached ==
  \A j \in Callers :
    /\ job[j].socket # None /\ Served(job[j].call)
    /\ setup.socket = None /\ job[j].since # None
    => job[j].socket = job[j].since

ReadOnly(c) == c.front = "mcp" /\ Offers(c) /\ "read_only" \in Tools[c.op].hints

\* What becomes of the page when a caller waits for an expression is up to it.
ByExpression(c) == IF c.op = "wait" /\ "expression" \in c.args THEN {"app"} ELSE {}

\* A tool that is annotated as read only changes nothing an application or
\* its user would notice: at most the table of refs and the baseline of diff.
\* Only wait can do more, with an expression, which the bridge evaluates.
ReadOnlyToolsOnlyRead ==
  \A j \in Callers : LET c == job[j].call IN
    c # None /\ ReadOnly(c)
    => job[j].changes \subseteq {"refs", "baseline"} \cup ByExpression(c)

\* Whoever follows a log sees its entries in order, none twice, and none of
\* those is left out that a poll found there (follow_logs, consoleLogs): of
\* the document that was there when it began.
FollowShowsEachOnce ==
  \A j \in Callers : LET shown == job[j].shown IN
    /\ \A m, n \in DOMAIN shown : m < n =>
         \/ shown[m][1] < shown[n][1]
         \/ shown[m][1] = shown[n][1] /\ shown[m][2] < shown[n][2]
    /\ job[j].pc = "pause" /\ shown # <<>> =>
         \A id \in job[j].kept :
           id < shown[1][2] \/ <<job[j].doc, id>> \in {shown[i] : i \in DOMAIN shown}
=============================================================================
