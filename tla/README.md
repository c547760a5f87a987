# Formal models of tauri-hasgard

TLA+ models of the Hasgard plugin, its bridge script and its clients, checked
with TLC on small instances and proved with TLAPS for all instances. Paths below are relative to the
repository; `plugin/` is `crates/tauri-plugin-hasgard/`, `cli/` is
`crates/tauri-hasgard-cli/`, `pw/` is `packages/playwright/`.

    tlc -workers 2 -config Host.cfg MCHost       # one run; see the table
    tlapm HostProofs.tla                         # the proofs about one module

## 1. The system

Hasgard lets a test drive a Tauri application from outside. A debug build of
the application loads the plugin, which opens a socket (or named pipe). A client
(CLI, MCP server, Playwright package) sends one JSON-RPC request per line. The
plugin handles a request itself (video, native keys, screenshots, heap), or wraps
it into JavaScript, hands it to a webview and waits until the page calls back.

    client --line--> connection loop --> handler task --> EvalEngine --> webview
       ^                                     |                 ^            |
       +------------- response line ---------+                 +-- __callback (IPC)
                                   host event loop: page loads, window destruction, exit

### Components

| component | state | operations | modelled by |
|---|---|---|---|
| Evaluation engine (`plugin/src/eval.rs`, `lib.rs`, `handler.rs`) | maps `pending`, `handshakes`, `allowed`, one lock each; a oneshot channel per request | register, check origin, bind, queue, wait, `__callback`, handshake, `forget_window` | EvalEngine, EvalContract |
| Connection loop and dispatch (`plugin/src/server/mod.rs`, `handler.rs`) | the request each connection works on | read a line, dispatch, record, write a line | Host, Methods |
| Snapshot baselines and diff (`plugin/src/handler.rs`, `diff.rs`, `eval.rs`) | a baseline per window | snapshot, diff, removal on page load | Host |
| Recorder, replay (`plugin/src/recorder.rs`, `cli/src/main.rs`) | entries, active flag; the saved file | start, record, add, stop, replay | Host |
| Command line (`cli/src/main.rs`, `cli.rs`) | a call under way | arguments, scope, request, socket, retry, assertions, follow | CommandLine, Wire, Frontends |
| MCP server (`cli/src/mcp.rs`) | the socket it pinned, calls side by side | schemas, annotations, requests, assertions | McpTools, Wire, Frontends |
| Scenario runner and CLI client (`cli/src/scenario.rs`, `client/mod.rs`) | report, next id, byte stream | steps with deadlines, fail_fast, failure screenshots | ScenarioClient; what steps send and judge: CommandLine, Frontends |
| Endpoints (`plugin/src/server/unix.rs`, `windows.rs`) | socket file, guard; pipe instances, registry file | bind, replace, remove; create, register, serve, unregister | UnixEndpoint, PipeEndpoint, Endpoints, EndpointContract |
| Process manager and supervisor (`pw/src/process-manager.ts`, `process-supervisor.js`) | child, `initialEndpoint`, `ownedEndpoint` | launch, wait, confirm, stop, clean up | UnixEndpoint |
| Screenshots and heap snapshots (`plugin/src/screenshot/`, `heap.rs`) | temporary files, the inspector, a reply slot | parse, capture, fall back, publish; connect, retry, close | Captures (macOS) |
| Native video (`plugin/src/video.rs`) | map of sessions, `closed` flag, a mutex per worker handle, files | start, stop, status; cancel with a window; shutdown at exit; the worker | VideoSessions |
| Native keyboard input (`plugin/src/handler.rs`, `macos_keyboard.rs`, `key.rs`, bridge observers) | press lock, atomic injection state, monitors, observers | press | NativePress (macOS) |
| Playwright locators, RPC client (`pw/src/window.ts`, `rpc-client.ts`) | per-window promise chain, pending map | resolve, filter, act; drag to a second locator; count; disconnect | WindowRefs |
| Bridge: refs and queries (`plugin/js/bridge.js`) | `idMap`, ref counter | snapshot, query, filter, act on a ref | WindowRefs |
| Bridge: instrumentation (`plugin/js/bridge.js`) | logs, routes, dialogs, watchers | log, follow; route, wait, watch | the log: Frontends; parameters: Wire; the rest: see 5 |
| Display placement, fixture app, benchmarks, release tooling | none that matters | | not modelled |

### What is hard, and what makes each part correct

- **Evaluation engine.** Request tasks, the event loop and IPC callbacks take the
  locks in turn, never all of them at once. Between any two sections a window may
  navigate, be destroyed, or be created again with the same label. Correct means:
  a request has one answer; an answer that invites a retry means the script never
  runs; a successful result is that of the request's own script in the origin it
  was authorized for; authorization does not survive the page.
- **Host.** Connections run side by side and share the recorder, the baselines and
  the pages; the end of `dispatch` looks at the recorder and writes to it in two
  lock sections; a snapshot is stored after its eval has returned. Correct means:
  a recording has every action that was asked for and answered in it, once, in
  order; a diff explains the difference of two snapshots of one window; a
  baseline does not outlive its document; a replay hits the recorded windows, or
  the one it was given.
- **Front ends.** Commands, tools and steps each build the same requests by hand.
  Correct means: the same call comes to the same request, in the window and frame
  that were named; a verdict is true of the element that was meant; an MCP server
  stays with its application; a read-only tool only reads. Not all of this is so: section 3
  names every case in which it is not.
- **Endpoints and processes.** A stale socket is detected, removed and bound anew
  in several steps; an application may crash at each of them; supervisors outlive
  their parents. Correct means: the address leads to the one that answers, nobody
  takes it away from a live one, and nothing stale stays in the way. The servers take no lock, so
  a removal may cross a bind; what is promised is promised up to there.
- **Captures.** Files are written beside their destination and renamed; tools fail
  and fall back; the main thread answers late or never. Correct means: what is at a
  path is whole; nothing temporary stays; the inspector is detached.
- **Video.** A start inserts its session before its worker is ready, a stop joins
  a worker that the event loop may be cancelling, a status holds the map's lock
  while it waits for a worker's. Correct means: no worker is orphaned, a cancelled
  recording is over when the cancellation returns, nothing goes on after exit,
  files are never overwritten, and nothing waits in a circle.
- **Scenario client.** A deadline drops the future of a call anywhere in its
  protocol, and the next call continues on the same bytes. Correct means: what
  the report says passed was executed and answered so.
- **Locators.** Refs are found in one round trip and used in the next; every
  snapshot renumbers them; a drag finds two of them, one after the other. Correct means: an
  action hits the elements it resolved. Three things in the code break this, and no fourth: a
  reload, a count by role outside the lock, and the snapshot that the target of a drag takes.
- **Native press.** A deadline races with a closure on the main thread; the same
  keys come back twice, by AppKit and by WebKit, in different orders. Correct
  means: `injected` is the truth, no monitor stays installed, the next press starts
  with a quiet keyboard, and the lock passes on.

All hazards, each at its line, are listed under `hazards` in PROJECT.json,
including those no property covers.

## 2. Modules

An action stands for one critical section, one await-to-await stretch, one event
callback or one message delivery: what the code does without another actor
coming in between. Values, scripts, selectors, error texts and times are left out;
a deadline is an action that may happen at any moment while its call waits.
A definition introduced as "Mutant" is not part of a specification: it is the
form that a plausible bug would give to the definition after it, and each
property is known to fail for one of them.

**EvalEngine** has one action per lock section. A request's task is Register,
ReadUrl, CheckOrigin, BindSource, PendingNonce, QueueEval, then Receive or Timeout,
DropGuard (the pending guard); or ReportFailure. The event loop is HandleRevoke
followed by ForgetHandshakes, ForgetAllowed, ForgetPending, and HandleFinished; the
callbacks are TakeHandshake, Authorize, HandleResult and StrayCallback. The
webview is external: documents commit, finish loading, are destroyed and created
again (Navigate, FinishLoad, Destroy, Create), and their events reach the host in
order. Tauri runs synchronous commands such as `__callback` on the main thread; the
model lets them come between two sections of `forget_window` all the same, which
only adds behaviours.

**EvalContract** is what a caller may rely on: a request is opened once, executed
at most once, answered once, and the answer agrees with the execution. EvalEngine
implements it under the mapping at its end (`Contract`).

**Methods** lists what `dispatch` knows: which methods go to the bridge and under
which name, which are answered by the plugin, what each changes, which are recorded
(`is_recordable`) and replayed (`is_replayable`). **Host** is every connection's
way through `handle_connection` and `dispatch`: Read, one action per kind of
method, Run (the page), Finish (store and compare), Look and Record (the two
sections on the recorder), Reply. ComputeDiff is the pairing of `compute_diff`.
BeginReplay, Skip and Repeat are a replay, with `--window` (Override) or without.
Its pages are abstract: an action may change a page to any in Doms, and how an eval
reaches the page is EvalEngine's.

**Wire** says what the bridge and the plugin read of the parameters of each method,
and what they take for one that is missing. **CommandLine** and **McpTools** are
tables, one row per command, step or tool: its arguments, its annotations, its
method, the arguments it passes on and the constants it fills in. An argument is sent as
"asked", or as "loose" if it is written in a way that only some take: a ref with an @, a
relative path, a `javascript:` URL. `CliTidies` and `McpTidies` say which front end puts which
of them right, `Refused` which it turns down, `Unread` what the application cannot use. **Frontends**
takes a call through them: Refuse, Resolve and Open (the socket), Serve (the
application), AskForWindows and Retry (a plugin that wants a native window id),
Judge and Shot (assertions, a failure's screenshot), Follow and Poll. Applications
start and stop, pages change and log meanwhile. An element is "missing", "off" or
"on" per window and document. `Aims` says which requests are about a document and not about the
page as a whole: those on an element, snapshot, diff and watch, and a screenshot or form dump of a
selector. **Tables** defines `:>` and `@@` as TLC's module does, since
the provers do not know that one.

**EndpointContract** is what an address promises: at most one instance answers, and
while it does the address leads to it; the promise may become void (`void`), and the step by
which it does is still a promised one. **UnixEndpoint** has one action per system
call of `bind` and of `SocketGuard::drop`, and of the supervisor's watch, confirm and
cleanup; **PipeEndpoint** one per step of the Windows server task, the registry file
and the clients that look it up. **Endpoints** is either of the two, by platform, and
both implement EndpointContract. A socket file is denoted by the instance that made
it. Instances bind, clean up and crash at any time. The history variable `crossed` is set
when a removal and a bind cross (`Crossing`): on Unix, one has found that the socket at the path
may go and has not removed it yet, while another has bound a socket there and does not listen
yet; on Windows, one is about to remove the registry file (`windows.rs:71-92` does so without a
look at whose it is), while another has registered itself there.

**Captures** models screenshot requests from their refusals over enumeration,
writing, the fallback from one tool to the other and the metadata to the rename; and
heap snapshots as calls on the blocking pool and closures on the main thread, with the
inspector's frontend, retries, time limits and late replies. A file's data is the call
whose bytes it holds whole, or Torn.

**VideoSessions** models every operation of `Videos` on tokio's blocking pool,
the worker up to the publication of its file by a link that fails if the name
exists, `cancel_window` and `shutdown` on the event loop, and the join in
`Session::drop` of whoever drops the last reference.

**ScenarioClient** models the run of a scenario over one stream in both
directions, with lines that are torn on writing or consumed by halves on reading.

**WindowRefs** models operations on one window: the promise chain of
`runExclusive`, the pending map with its rejection of every call on an
uncorrelated line, the sequential connection, timeouts after which a script still
runs, and the bridge's table of refs. Elements stand in document order, and any
set of them is present at each snapshot or query. A drag (`dragTo`) has two locators, which it
resolves one after the other under one lock. `renewed` records why the table was started anew
while an operation had refs, other than by another operation under the lock: a reload ("load"), a
count by role, which takes no lock ("count"), or the drag's own target ("target").

**NativePress** models the macOS path of `press`: the order lock, focus, the
observer in the page, the closure on the main thread (StartInjection up to the
atomic exchange, Inject after it), the waiting thread (GiveUp, Cancel), the events
posted (modifier and key), their dispatch by AppKit to the monitor and to the key
window's page, and their delivery there: keydowns in order, keyups in order, in
any order between the two, as the bridge's comment says of WebKit. Presses are
numbered in the order in which they came to the fair lock.

`MC*` modules hold symmetry sets, and the calls, requests or presses to make; EvalEngine,
ScenarioClient, WindowRefs and Endpoints need none.

## 3. Runs

| run | cfg | question | bounds |
|---|---|---|---|
| eval_engine | EvalEngine.cfg | pinned results, fresh authorization, refinement of EvalContract, every request answered | 2 requests, 1 window, 2 origins, 2 documents; 0.24 M states |
| video_sessions | VideoSessions.cfg | safety of recordings | 3 starts, 1 stop, 1 window label reused once, 1 path |
| video_liveness | VideoLiveness.cfg | every call and every cancellation returns | 1 start, 2 stops, 1 status |
| scenario_client | ScenarioClient.cfg | what reports claim is true; scenarios end | 3 steps, any set of them with a deadline, with and without fail_fast |
| window_refs | WindowRefs.cfg | actions hit their goals; operations end | 2 drags: role locator to filtered one, text locator to role locator; 2 elements; 0.4 M states |
| native_press | NativePress.cfg | `injected`, monitors, quiet keyboard, lock | 2 presses, 2 windows, 1 disturbance by user or page; 1 M states |
| endpoints | Endpoints.cfg | refinement of EndpointContract on both platforms; supervisors clean up; nothing stale blocks | 2 instances, 1 of them supervised, 2 clients; 31 k states |
| captures | Captures.cfg | whole files, no temporary ones, no inspector left | 5 calls in three casts of 3, 2 paths, 1 retry; 0.38 M states |
| host | Host.cfg | recordings, diffs, baselines, replays | 2 connections, 2 windows, 7 stories of 3 or 4 requests, 6 lines, 1 page load per window; one connection replays with `--window`, one without; 2.6 M states |
| frontends | Frontends.cfg | same requests, right places, true verdicts, pinned application, truthful annotations, followed logs | every operation with every set of its arguments, tidily written and loosely, 2 windows, 2 callers, 2 applications; 0.2 M states |
| scenario_desync | ScenarioDesync.cfg | finding 1 | 2 steps |
| locked_refs_lost | LockedRefsLost.cfg | finding 2 | a drag from a text locator to a role locator, a count by role, 2 elements |

Why the bounds are enough. Requests of the engine meet only through the maps
of a window, which are per window; two of them show each pair of sections in both
orders, and two documents the revocation of one page and the load of the next.
(The proofs of section 4 cover any number of windows and requests.) Three starts are
the least that lets an old start remove a session, a second insert its own and a
third come upon it. Three steps show a response shifted by one and by two. Two
elements are the least that can be confused, and two operations under the lock the least of which
one may run late into the other; counts by role are left to locked_refs_lost and to the
theorem ActionsHit, which is for any of them, since a third operation makes the run too long. Two presses are consecutive
neighbours, and only neighbours share the keyboard; the three plans combine
completion by page and by AppKit, with and without modifiers, for one window and for
two. Two instances let one crash while binding and the second replace its remains, with or
without the supervisor of the first beside it; the theorems are for any number. Captures meet at a path or at the inspector: each cast has two
that share one or the other and a third beside them. Two connections are the least
that interleave in the two sections of the recorder; the stories are the sequences in
which recordings, actions and diffs matter to each other, each with any split over the
connections, and with replays of what they record. A call of a front end is alone in
most stories, since calls meet only in the socket that is pinned, the page and the
log.

Bounds by name: MaxDoc (documents), MaxNative (native windows), MaxMeddling (focus
changes and page replacements), Casts (which captures are made together, two heap
snapshots never for the same partial file), Attempts
(FRONTEND_ATTEMPTS), Stories (the requests or calls to make), MaxLines (requests in
all), MaxLoads (page loads), Callers (calls at once), Cap (MAX_LOGS) and, in
Frontends, `left` (events still to come). Two constants say what the runs leave out,
and why:

- **Prefixed = TRUE**: the pipe's name is `tauri-hasgard-<identifier>`. Of any other
  name `bind` makes the identifier "unknown" (`windows.rs:376-381`), and `accept_loop`
  derives another pipe from it for every connection after the first
  (`docs/getting-started.md:58` lets the name be chosen). With Prefixed = FALSE
  ImplementsContract fails.
- **Unframed**: operations nobody uses with a frame, the twelve that drop it. See "Further
  disagreements".

ImplementsContract says nothing after a removal has crossed a bind (`crossed`). That is no
assumption about the runs, in which it happens at any time, but the point at which the code
promises nothing any more. Without it TLC finds two ways in which a fresh socket is removed:
an instance that probes between another's bind(2) and listen(2) is refused and takes the file
for stale (`unix.rs:100-103`); a guard compares the inode, another instance binds, and the
guard unlinks (`unix.rs:24-29`, though `unix.rs:12-13` says it "only unlinks its own
socket, not one created by an overlapping instance").

CHECK_DEADLOCK is off since all these systems may rightly come to rest: requests are
finite in number.

### Fairness

Only steps the runtime owes are fair, each weakly. For the engine these are the steps of
a request's task (tokio polls ready tasks; `EvalEngine::wait` is bounded by a
timeout), the sections of a `forget_window` that has begun, and the second half of
`complete_handshake`. Pages owe nothing: they need not run scripts, call
back or finish loading. For video they are the blocking threads, the worker, whose children
all run under deadlines, and the event loop. For the scenario they are
the runner and the connection loop, whose handlers are all bounded. For
locators they are settled promises and the connection loop, whose evals end at
their deadline. For endpoints they are the system calls of a bind or a cleanup that
has begun, the timers and messages of a supervisor, and a spawned server task; starts,
ends, crashes and clients come when they like. NativePress states "the lock passes on"
without fairness: in every state with an unanswered press, a press or the main thread
can take a step, and each step brings its press forward. Captures, Host and Frontends
state no liveness.

### Findings

1. **scenario_desync.** After one step's deadline, the next call reads the late response and
   fails with "Response ID mismatch", and so do all after it, though
   `docs/protocol.md:10` says clients may not assume response order.
   What the report calls passed is still true (PassedWasExecuted).
2. **locked_refs_lost.** The lock of `docs/protocol.md:139` does not keep the refs of an action.
   `dragTo` (`window.ts:1099-1105`) resolves its source, then its target, and if that is a role
   locator its snapshot numbers the refs anew (`bridge.js:720-721`): the drag takes another
   element, or ends in an error. A source by text or label meets this even if the
   document does not change. And `count()` of a role locator
   (`window.ts:1163`), with `waitFor` which polls it, takes its snapshot outside the lock, between
   another operation's resolution and its action. TLC shows the drag, and the count with
   Drags = {}. HitsItsGoal excepts both, and a reload, by name.

Further disagreements that the modelling showed, for which there is no run:

- **Frames.** Twelve operations of the front ends take a frame and act in the top document; with
  any one of them left out of Unframed TLC finds ActsWhereAsked violated. `drop` and
  `set-input-files` of the command line (`main.rs:937-953`), and its `drag`
  (`bridge.js:1364-1373`); the tools `clear`, `assert_visible`, `assert_hidden` and
  `assert_checked`, which advertise `frame` and do not send it; and of the command line
  `snapshot`, `diff` and `watch`, whose scope is the window alone (`main.rs:460`, `:498`, `:523`),
  and `screenshot` and `forms` with a selector, which the bridge looks up in
  `document` (`bridge.js:1960-1962`, `:2028-2032`). `cli.rs:19` and `CHANGELOG.md:187-188` say
  that `--frame` scopes element operations; nothing says that it is dropped elsewhere.
- **Loose arguments.** SameRequest holds but for two (`Divergent`), and fails if either is allowed.
  `scroll` of the command line and of a scenario send their ref as it is written
  (`main.rs:671-677`, `scenario.rs:269-284`), the tool strips a leading @ (`mcp.rs:1388-1393`), and
  the bridge looks up the exact string (`bridge.js:955-959`): `@e1` works as a tool call and is
  an unknown ref in a shell, also in the scripts that an export writes (`main.rs:1331`). And
  `heap-snapshot` makes its path absolute (`main.rs:403`), the tool does not (`mcp.rs:383`), and
  the plugin turns relative paths down (`heap.rs:373-383`). The tool `navigate` turns down
  `javascript:` URLs (`mcp.rs:721-734`), the command and a scenario send them.
- **Read-only.** The tool `wait` is annotated as read-only (`mcp.rs:1174`) and takes an expression,
  which the bridge evaluates at every poll (`bridge.js:1752`), so that it may do what `eval`
  does. ReadOnlyToolsOnlyRead excepts it by name (ByExpression) and fails without that. `diff` is
  annotated read-only though it replaces the baseline: the property lets refs and baselines be.
- `check_origin` and `bind_source` are two sections (`lib.rs:189`, `:191`). A revocation
  between them fails the pending requests that are bound, not this one, against
  `docs/protocol.md:153-154`. The origin pin in the script still keeps it from running in
  another origin (OkFromPinnedPage).
- `video.start` resolves the native id before its blocking call starts
  (`handler.rs:227`). A window destroyed in between leaves nothing to cancel, and the
  recording starts on an id that may be reused, against `docs/protocol.md:185`.
- A late modifier keyup from a press with native completion makes the sets of codes
  differ in size for good (`bridge.js:2155`): the next press is not acknowledged although
  its own pair is complete. `docs/protocol.md:72-73` says only paired keyups count.
- The step `assert-exists` passes for a selector that matches nothing
  (`scenario.rs:366-372`: it asks for `visible`, which answers false and not an error,
  `bridge.js:1551-1553`). VerdictsAreTrue leaves it out.
- Two heap snapshots at a time whose paths differ in their extensions at most write the same
  partial file (`heap.rs:357-363`), which a screenshot's temporary name avoids by a counter
  (`ipc.rs:354-369`). Casts leaves this out.
- The step `check` is implemented (`scenario.rs:265`) and turned down by `validate_step`.
- Recorded `dblclick`, `hover`, `focus` and `blur` are skipped by replay; `wheel` and
  `setInputFiles` are never recorded.
- `newest_socket_in_dir` may choose the newest socket though nobody listens there. An MCP
  server that has pinned an application never looks for another one when that is gone,
  and two first calls at the same time may go to different ones.
- Whoever follows a log after a reload asks for ids above those of the old document
  and misses entries until the new ones have passed them.
- Two concurrent actions are recorded in the order in which they end.
- A snapshot under way when a page loads may be stored as the baseline of the page that
  replaced its own (BaselineOfThisDocument makes that exception).

Refs carry no document generation, and the code promises nothing of refs kept across a reload:
the runs have the reloads, and HitsItsGoal excepts what they cost (`renewed`).

## 4. Proofs

Each of the nine state machines below has its proofs in a module `*Proofs`; those of
ScenarioClient are in the last part of FrontendsProofs, since both are ways to run the steps of
a scenario. All theorems hold for any values of the constants that satisfy the module's ASSUME;
hypotheses beyond that are named here. The assumptions say that the constants are what they stand for
(None is no window, no call and no file; counts are naturals; the calls of two kinds are
distinct; the calls of Frontends can be written down). TLC evaluates each of them. Three
restrict the program, and each restates what the runs leave out, too (section 3): Prefixed,
Unframed, and, in NamesAssumption, heap snapshots made together for names
that differ in their extensions at most.

| proofs | invariants of the runs proved | implementation | hypotheses beyond the ASSUME |
|---|---|---|---|
| EvalEngineProofs | TypeOK, OkFromPinnedPage, AuthorizedOnlyWhileLoaded; RegisteredIsPending, AnsweredOnce, FailedCallNeverRuns | EvalContract | |
| VideoSessionsProofs | TypeOK, NoOrphanWorker, CancelledIsOver, NeverOverwrites (a step property) | | |
| EndpointsProofs | TypeOK, SupervisorCleansUp | EndpointContract, up to a crossing | Prefixed (the implementation only) |
| HostProofs | TypeOK, RecordingIsComplete, DiffExplains, BaselineOfThisDocument, ReplayHitsItsWindow | | |
| CapturesProofs | TypeOK, PublishedWhole, NoTempLeft, InspectorDetached | | |
| FrontendsProofs, Frontends | TypeOK, StaysAttached, ReadOnlyToolsOnlyRead, FollowShowsEachOnce, ActsWhereAsked, VerdictsAreTrue | | Ignored ⊆ Unframed (the last two; the others: none) |
| FrontendsProofs, ScenarioClient | PassedWasExecuted | | |
| WindowRefsProofs | TypeOK, HitsItsGoal | | |
| NativePressProofs | TypeOK, InjectedIsTrue, NoMonitorLeft, NextStartsQuiet | | |

The inductive invariant of a module is `IInv` (ScenarioInv for ScenarioClient) unless it says otherwise below, and a lemma
per part and action (`...Step`) shows that it is preserved.

### EvalEngine

EvalEngineProofs proves the invariants of eval_engine, three more (RegistrationHolds,
SingleAnswer, RefusalIsSafeToRetry) and that EvalEngine implements EvalContract, from
EvalAssumption alone.

- **TypeOK** is inductive together with RequestInv, since reads of a task's window need
  it to have one (TaskInv).
- **RequestInv** strengthens the request properties. AnsweredOnce and
  FailedCallNeverRuns are not inductive by themselves: that a refused call has not run
  follows only from where a script can come from. TaskInv relates a task's
  place to what it has read, QueuedInv says a queued script belongs to a task past its
  checks and has not run, RanInv ties an execution to the window and origin of its request,
  and SourceInv says a successful result, in flight or in a channel, has an execution
  behind it. LEMMA RequestStep takes one step per action.
- **ContractHolds** maps each step to a step of EvalContract or to a stutter
  (LEMMA ContractStep): QueueEval and the others stutter, RunPinned is Execute, Register
  is Open, DropGuard and ReportFailure are AnswerWith; the preconditions come from RequestInv.
- **AuthorizationIsFresh** needs AuthInv: events of a window wait in an order in which
  a load finishes only after it started (EventInv), and an open handshake, or a callback
  inside `complete_handshake`, belongs to the page that finished loading, until the
  revocation reaches it (HandshakeInv). The callback keeps the handshake lock while it
  authorizes; the mutant that lets it go breaks exactly this.

### NativePress

NativePressProofs proves, for any number of presses, any windows and requests and any
amount of meddling, from PressAssumption alone:

- **TypeCorrect**, which is inductive as it stands (LEMMA TypeStep).
- **InjectedReported**: `injected` in an answer is true, and stays true. InjectedIsTrue needs
  InjectionInv: an injection is queued at most once and is gone once it has started
  (OnceInv), a press before its submission has none (PlaceInv), only a winner of the
  exchange posts, and a monitor that outlives its injection belongs to a complete combo
  (PostedInv), so a good message implies a complete combo (MessageInv), and a refused press
  was cancelled or has no injection left (RefusedInv).
- **MonitorsGo**: NoMonitorLeft follows from CleanupInv: behind every injection whose thread
  has given up, queued, running or over, there is a cleanup in the main thread's queue.
- **StartsQuiet**: NextStartsQuiet speaks of the moment a press takes the lock, but what it
  says there is decided by all the events of the press before. QuietInv follows them: presses
  have the lock in turn, no press has an observer before it prepares one, and, as long as all
  earlier presses went well (`Smooth`), the combo of the present one is tracked event by
  event. `At(p, d, u, i, j)` says that AppKit has dispatched d keydowns and u keyups and the page
  has seen i and j of them, and what the keyboard, the queues of the pages and the observer
  look like then; an observer acknowledges only when i and j are all there are, so that
  nothing is under way. Each action moves one of the four numbers (FlowDispatch, FlowDeliver)
  or leaves them.

### VideoSessions

The four theorems rest on one question: who can reach the handle of a running worker?

- **MainInv**: the event loop holds sessions only while it cancels or shuts down; it has
  aborted what it is going to join, and after `closed` was set nothing is left in the map.
- **CallInv** places the calls. A start has no worker before it inserts its session, and it
  takes its session back by label only when its worker has failed; a stop or status that has
  come to a session refers to it, and has joined it by the time it is back.
- **WorkerInv**: the handle of a running worker has been taken by exactly the thread that
  joins it, or it can be taken from its session, which is in the map or in the hands of the
  event loop; it is in those hands if it was aborted.

WorkersAreJoined is WorkerInv with the observation that a session in the map is referred to.
CancellationIsFinal needs all three: when the event loop is through it holds nothing
(MainInv), so what it aborted no longer runs (WorkerInv). PublishedForGood needs types only:
the link fails if the name exists.

### Endpoints

- **UnixInv** says that an instance does not run before it was spawned nor after its
  process group was stopped (SupInv), that who has listened and not closed is listening
  (ListenInv), and that SupervisorCleansUp holds: it needs neither hypothesis nor `crossed`.
- What the contract needs holds until a removal has crossed a bind (**Uncrossed**). FileInv says that the
  path leads to whoever listens or is about to, and that nobody listens while somebody is about to
  remove a file. Each system call of one instance is compared with where
  every other instance and supervisor may be at that moment; what would break it is a
  crossing, and is noted in that very step. EntryInv is the same for the registry.
- WaitingInv says that a server task has a pipe instance from its creation until its loop ends, and
  NameInv, with Prefixed, that only one instance has the name.
- **ContractHolds** maps each step of either half to EndpointContract: a step that crosses
  still keeps the promise (Promised or a stutter), and after it nothing is promised. The promise
  cannot be kept longer: TLC shows a violation within a few steps of a crossing (section 3).

### Host

- **HostCorrect**: RecordingIsComplete is about answers that were written, but the recorder takes
  a request two lock sections earlier. RecordInv accounts (`Accounted`) for every request from
  the moment it is read: not yet in the entries and not due, or answered and in them; it says in
  which recording the request was read (`in`), so that an entry of an old request in a later
  recording is harmless. IdInv keeps requests apart: an id is used once and answered once.
- BaselineInv and DiffInv give **BaselineFresh**: what a page has returned is of its present
  document, or the page was loaded meanwhile and is not `quiet`; so is what is stored.
- ReplayInv gives **ReplayInWindow**: every entry names the window it ran in, in the recorder, in
  the file, in a script and in the request that repeats it, unless the replay was given another.
- **DiffsExplain** has two halves. ComparedInv says that an answer of diff is ComputeDiff of the
  reference taken at submission and the page that ran the script, both of the window asked about.
  DiffsExplained is about ComputeDiff alone, for any two snapshots: elements that are the same
  have the ranks from 1 to their number, each once (RankOwn, RankOnto), so no element has two
  partners (OnePartner), and of two that are the same one has a partner (Paired); what is neither
  removed nor changed corresponds one to one to what is neither added nor changed (Balanced,
  with the cardinalities of FiniteSetTheorems). ElementAssumption says that an element is its key and
  its fields; refs are left out.

The method "other" stands for every method the plugin does not know.

### Captures

- FileInv says that a temporary name leads to the file of a call that has yet to rename or to
  remove it, that a path leads to what was there before or to the file of a call that is done,
  and that a file is whole from `metadata` on. It needs LiveApart: calls that are made together
  have temporary names of their own. For heap snapshots, whose temporary name is the path with
  another extension, NamesAssumption states it; the other temporary names are unique.
  **WholeOrOld** and **CleanedUp** follow.
- **Detached**: InspectorInv says that while the inspector is connected, a snapshot is under way, a
  close is posted, or the main thread never heard of one (Cared). A late reply of an earlier
  attempt cannot disturb it since a request is posted once per attempt (RequestInv).

### Frontends

The theorems hold for any number of calls and callers, any applications, sockets and windows, any
arguments a command, tool or step can be given, a log of any size and any interference.
None of the invariants is inductive by itself: they speak of what an answer was, of where a
request went, or of what was shown, and each of these was decided steps before.

- **WorldTyped** is about what calls share: a socket file occurs once, the log spans at most Cap
  entries, a call yet to come has arguments its front end knows.
- **JobInv** follows a call at work: its type by place (JobTyped), its request, which is that of
  its words, the list of windows, that request with a native id, or a screenshot (RequestOK);
  the socket it goes to, which is the one that was pinned if the server pins (AttachOK); what it
  has changed (ReadsOK); and what it has read and shown of the log (FollowOK).
- ReadsOK asks of every tool of the table whether its annotation is true. The lemmas on the tables
  go row by row: the method each row makes (MethodOf...), what this method changes, and that a
  row with `read_only` makes none that changes more. What `wait` may do depends on its arguments:
  a request has an expression only if its call has one (ExpressionAsked), and only then it may
  change the page, which ReadOnlyToolsOnlyRead says.
- FollowOK: an entry shown is older than the next one asked for, entries of one document are a run of ids,
  and what a poll saw and did not show is older than the first entry shown. Between two polls
  the log only grows, is cut at its front, or starts anew (Grows).
- **Told** adds where a call has been (HitsOK) and what its caller will hear (VerdictOK): the claim an
  assertion makes is evaluated when the application answers, and the verdict on that answer agrees with
  it, whatever happens to the page, the application or other calls between the answer and the report.
  It rests on what the tables say of an assertion in each front end: which method it calls, and what the
  bridge answers for an element that is missing, off or on (Answers), as `Verdict` reads it.

Told is not inductive without a hypothesis: Ignored are the twelve operations that drop the
frame they were given (section 3), and **CallsActWhereAsked** and **NoVerdictIsFalse** hold if nobody uses
those with a frame. The hypothesis is as weak as it can be: with any one of the twelve left out of
Unframed TLC finds ActsWhereAsked violated. The other five theorems do without it. The step
`assert_exists` is left out of VerdictsAreTrue, as section 3 says.

### ScenarioClient

**PassedIsTrue** holds although responses may be read late. RequestsInv says that the ids on the stream,
in the runner's hands, in the server's and on the wire, increase, that each request is on its
way once, and that none of them has been answered; ResponsesInv that a success on the way back
is the application's verdict on its id; RunnerInv which ids a step may take (two at most, for
its call and its screenshot). A response that is read as the step's own has the step's id, so
it is the answer to the step's request, whatever deadlines left on the stream.

### WindowRefs

- **ActionsHit** is for any operations: actions, drags, and counts of either kind. Who waits for a
  call is at the head of the lock's queue (HolderInv). Yet a call given up at its deadline still
  runs, so the lock does not say what the page does. OrderInv does: the requests under way form
  one queue (`Pipe`, what the connection and the page hold), and none of another
  action is behind that of the holder, nor ahead of an action that has been told its refs.
  So between resolution and action only three things start the table anew: a reload, a count by
  role, whose requests stand anywhere in `Pipe`, and the target of the drag itself; all three are
  in `renewed`. Queries only append to it. As long as none of them happened the refs held
  are bound to the goal, and those of the target to the aim (HitInv), and the target's own
  snapshot does not disturb the latter.
- `RefsAfter` is a set of tables, one for each order of the elements found; there is exactly one
  since elements stand in document order (`InOrder`). Written so, the proofs need no induction over
  the length of a table.

### Only model-checked

- The liveness properties (EveryRequestAnswered, EverybodyReturns, ScenarioEnds, OperationsEnd,
  StaleNeverBlocks), and NobodyHoldsTheLock, which speaks of ENABLED, are out of the
  prover's reach.
- SameRequest of Frontends compares the tables of three front ends, for every operation and every set
  of its arguments, and expands to thousands of single comparisons. It has no state in it that
  matters and no constant to generalise over, and TLC evaluates every one of them.
- The cases that the hypotheses exclude are shown to fail by TLC, see section 3.

## 5. Not modelled, and plan

Left out for good: the formats of `output.rs` and `style.rs`, the export of recordings as
shell scripts, the syntax of scenarios and their JUnit report, key names and layouts, image and video encoding, the
access control lists of the pipe, display placement, benchmarks, fixture and release
scripts. They hold no state beyond one call. The heap capture on Windows and native keys
on other platforms run the same requests through other system calls and are left
out, as are the retries of a supervisor's cleanup after errors of the file system.

In order:

1. **BridgeRuntime**: what runs inside the page, of which only the log is modelled:
   routes with limited use against requests in flight, waits and watches with their timers,
   the dialog policy.
2. Composition: EvalContract under Host, WindowRefs and NativePress in the place of their
   own pages and deadlines.
3. Proofs: the refinements that the composition of 2 brings.
