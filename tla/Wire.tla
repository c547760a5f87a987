-------------------------------- MODULE Wire --------------------------------
(***************************************************************************)
(* A request on the wire, and what the application makes of it: which      *)
(* parameters each method reads, and what it takes for one that is not     *)
(* there. A parameter a caller has given has the value "asked", or "loose" *)
(* where it can be written in another way and arrives as it was written;   *)
(* others are constants that a client adds on its own. A target ("@ref", a *)
(* selector or coordinates: target_params) is one parameter.               *)
(***************************************************************************)
EXTENDS Methods, FiniteSets, Sequences

Nothing == <<>>

Target == {"target"}

\* What the caller of an operation must give, and what it may.
Takes(need, may) == [need |-> need, may |-> may]

Absent == "absent"

\* What can be written in another way: a ref with an @ before it, a path that
\* is relative, a URL that is a script.
Loose == {"ref", "output_path", "url"}

\* The names a caller uses, where the wire has others.
WireName(a) ==
  CASE a = "wait_for"         -> "waitFor"     [] a = "prompt_text"  -> "promptText"
    [] a = "delta_x"          -> "deltaX"      [] a = "delta_y"      -> "deltaY"
    [] a = "content_type"     -> "contentType" [] a = "failed"       -> "failedOnly"
    [] a = "require_mutation" -> "requireMutation"
    [] OTHER -> a

Without(names) == [k \in names |-> Absent]

\* What the bridge's operations on elements read.
ElementReads ==
  "query"   :> ("exact" :> "false" @@ Without({"by", "value"}))
  @@ "click" :> ("button" :> "left" @@ "clickCount" :> "1"
                 @@ Without({"target", "modifiers", "position"}))
  @@ [m \in {"fill", "select"} |-> Without({"target", "value"})]
  @@ "type"   :> Without({"target", "text"})
  @@ "check"  :> ("checked" :> "toggled" @@ Without({"target"}))
  @@ "scroll" :> ("direction" :> "down" @@ "amount" :> "300" @@ Without({"ref"}))
  @@ "drag"   :> Without({"source", "target", "offset"})
  @@ [m \in {"drop", "setInputFiles"} |-> Without({"target", "files"})]
  @@ "wheel"  :> ("deltaX" :> "0" @@ "deltaY" :> "0" @@ Without({"target"}))
  @@ [m \in {"text", "html", "value", "attrs", "visible", "checked", "disabled",
             "boundingBox", "hover", "focus", "blur"} |-> Without({"target"})]
  @@ "count"  :> Without({"selector"})

\* What its other operations read.
PageReads ==
  "snapshot"    :> ("interactive" :> "false" @@ "depth" :> "255" @@ Without({"selector"}))
  @@ "navigate" :> Without({"url"})
  @@ "eval"     :> Without({"script"})
  @@ "ipc"      :> Without({"command", "args"})
  @@ "wait"     :> ("gone" :> "false" @@ "timeout" :> "10000" @@ "poll" :> "50"
                    @@ Without({"target", "selector", "expression"}))
  @@ "watch"    :> ("timeout" :> "10000" @@ "stable" :> "300"
                    @@ "requireMutation" :> "false" @@ Without({"selector"}))
  @@ [m \in {"screenshot", "forms.dump"} |-> Without({"selector"})]
  @@ "storage.set" :> ("session" :> "false" @@ Without({"key", "value"}))
  @@ "storage.get" :> ("session" :> "false" @@ Without({"key"}))
  @@ [m \in {"storage.list", "storage.clear"} |-> "session" :> "false"]

\* What its logs, dialogs and routes read.
RuleReads ==
  "console.getLogs" :> Without({"level", "last"})
  @@ "network.getRequests" :> ("failedOnly" :> "false" @@ Without({"filter", "last"}))
  @@ "dialog.handle" :> Without({"action", "promptText"})
  @@ "route.add" :> ("action" :> "fulfill" @@ "status" :> "200" @@ "body" :> "empty"
                     @@ "contentType" :> "text/plain"
                     @@ Without({"pattern", "method", "times"}))

\* What the plugin itself reads.
PluginReads ==
  "diff" :> ("interactive" :> "false" @@ "depth" :> "255"
             @@ Without({"selector", "reference"}))
  @@ "press" :> ("completion" :> "webview" @@ "timeout" :> "10000"
                 @@ Without({"key", "waitFor"}))
  @@ "video.start" :> ("fps" :> "5" @@ "max_duration_ms" :> "60000"
                       @@ Without({"output_path"}))
  @@ "heap.snapshot" :> Without({"output_path"})
  @@ "screenshot_native" :> ("format" :> "png" @@ Without({"window_id", "output_path"}))

Reads == ElementReads @@ PageReads @@ RuleReads @@ PluginReads

\* build_wait_params: an expression is waited for before a selector, and that
\* before a target; what belongs to the others is left out.
Awaited(args) ==
  IF "expression" \in args THEN args \cap {"expression", "poll", "timeout"}
  ELSE args \ ({"poll"} \cup IF "selector" \in args THEN {"target"} ELSE {})

\* The methods for which the bridge looks into the frame a request names.
Framed == (DOMAIN ElementReads \ {"drag", "scroll"}) \cup {"snapshot", "wait"}

\* The table of refs knows them without an @ (requireEl), and files are only
\* written to absolute paths (heap.rs, video.rs, ipc.rs).
Unread(req) == \E k \in {"ref", "output_path"} \cap DOMAIN req.params : req.params[k] = "loose"

Request(method, params, window, frame) ==
  [method |-> method, params |-> params, window |-> window, frame |-> frame]

\* What a request comes to. A null is as good as no parameter.
Effective(req) ==
  LET reads == IF req.method \in DOMAIN Reads THEN Reads[req.method] ELSE Nothing IN
  [method |-> req.method,
   params |-> [k \in DOMAIN reads |->
                 IF k \in DOMAIN req.params THEN req.params[k] ELSE reads[k]]]
=============================================================================
