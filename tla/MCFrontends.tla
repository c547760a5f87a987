---------------------------- MODULE MCFrontends ----------------------------
EXTENDS Frontends

T == INSTANCE TLC

Fronts == {"cli", "mcp", "run", "mcp_run"}

Call(front, op, args) ==
  [front |-> front, op |-> op, args |-> args, loose |-> {}, window |-> None, frame |-> FALSE,
   socket |-> None]

Everywhere(e) == [p \in Windows \X Docs |-> e]

Quiet == [socket |-> None, window |-> None, dangerous |-> TRUE, old |-> FALSE, events |-> {}]

Story(calls) == [setup |-> Quiet, calls |-> calls, events |-> 0, element |-> Everywhere("on"),
                 sockets |-> <<"a">>, live |-> {"a"}]

\* Every call with every choice of its arguments that is accepted.
OpsOf(front) == CASE front = "cli" -> DOMAIN Commands
                  [] front = "mcp" -> DOMAIN Tools
                  [] OTHER         -> DOMAIN StepTakes

CallsOf(front) ==
  UNION {LET takes == TakesOf(Call(front, op, {}))
         IN {Call(front, op, takes.need \cup some) : some \in SUBSET (takes.may \ {"frame"})}
           : op \in OpsOf(front)}

Plain == {c \in UNION {CallsOf(f) : f \in {"cli", "mcp", "run"}} :
            c.op # "logs.follow"
              /\ ~(c.front = "cli" /\ Contradictory(c.op, c.args))
              /\ ~(c.op = "drag" /\ Contradictory(c.op, c.args))}

Placed == {[c EXCEPT !.window = w, !.frame = f] :
             c \in Plain, w \in {None, "settings"}, f \in BOOLEAN}

Singles == {Story(<<c>>) : c \in {d \in Placed :
              d.frame => TakesFrame(d) /\ <<d.front, d.op>> \notin Unframed}}

\* What can be written in another way, written so.
Loosely == {Story(<<[c EXCEPT !.loose = c.args \cap Loose]>>) :
              c \in {d \in Plain : d.args \cap Loose # {}}}

\* An element that differs from place to place.
Mixed == {[p \in Windows \X Docs |->
             IF p = <<"main", "top">> THEN e ELSE IF p[1] = "main" THEN f ELSE g]
             : e, f, g \in Elements}

Judged == {c \in Plain : c.op \in Assertions \cup {"storage_get"}}

Checks == {[Story(<<[c EXCEPT !.window = w, !.frame = f]>>) EXCEPT !.element = e] :
             c \in Judged, w \in {None, "settings"},
             f \in {FALSE}, e \in Mixed}
  \cup {[Story(<<[c EXCEPT !.frame = TRUE]>>) EXCEPT !.element = e] :
             c \in {d \in Judged : TakesFrame(d) /\ <<d.front, d.op>> \notin Unframed}, e \in Mixed}

Shoot(front) == Call(front, "screenshot_native", {"output_path"})

Text(front) == Call(front, "assert_text", {"target", "expected"})

\* Plugins that want an id, windows that are not there, tools that are off,
\* calls that are turned down, servers started for a window or a socket.
Odd ==
  {[Story(<<[Shoot(f) EXCEPT !.window = w]>>) EXCEPT !.setup.old = o] :
     f \in {"cli", "mcp"}, o \in BOOLEAN, w \in {None, "settings", "ghost"}}
  \cup {[Story(<<Call("mcp", t, McpTakes(t).need)>>) EXCEPT !.setup.dangerous = FALSE] :
     t \in Dangerous \cup {"click"}}
  \cup {Story(<<c>>) : c \in {Call("cli", "drag", {"source"}), Call("mcp", "drag", {"source"}),
          Call("run", "swipe", {}), Call("cli", "wait", {"expression", "gone"}),
          [Text("mcp_run") EXCEPT !.socket = "a"], [Text("run") EXCEPT !.socket = "a"],
          Call("mcp_run", "click", {"target"})}}
  \cup {[Story(<<Text(f), Text(f)>>) EXCEPT !.setup.window = "settings", !.setup.socket = s,
                                            !.sockets = <<"b", "a">>, !.live = l] :
     f \in {"mcp", "mcp_run"}, s \in Apps \cup {None}, l \in {{"a"}, {"a", "b"}}}

\* Two calls of a server side by side while applications come and go, and
\* while the page changes.
Busy ==
  {[Story(<<Text(f), Text("mcp"), Text(f)>>)
      EXCEPT !.setup.events = {k}, !.events = 2, !.element = Everywhere("off")] :
     f \in {"mcp", "mcp_run"}, k \in {"apps", "page"}}
  \cup {[Story(<<Text("cli"), Shoot("cli")>>) EXCEPT !.setup.events = {"apps"}, !.events = 2,
                                                     !.setup.old = TRUE]}

Watched ==
  {[Story(<<Call("cli", "logs.follow", last), Call("cli", "logs.clear", {})>>)
      EXCEPT !.setup.events = {"log"}, !.events = 4] : last \in {{}, {"last"}}}

Perms == T!Permutations(Callers)

MCStories == Singles \cup Loosely \cup Checks \cup Odd \cup Busy \cup Watched

ASSUME CallsFit ==
  \A s \in Singles : \A i \in DOMAIN s.calls : Fits(s.calls[i])

MCUnframed == {<<"cli", "drop">>, <<"cli", "set_input_files">>, <<"cli", "drag">>,
               <<"mcp", "clear">>, <<"mcp", "assert_visible">>, <<"mcp", "assert_hidden">>,
               <<"mcp", "assert_checked">>, <<"cli", "snapshot">>, <<"cli", "diff">>,
               <<"cli", "watch">>, <<"cli", "screenshot">>, <<"cli", "forms">>}
=============================================================================
