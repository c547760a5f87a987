---------------------------- MODULE CommandLine ----------------------------
(***************************************************************************)
(* The commands of the CLI and the steps of a scenario: what each takes    *)
(* and the request it makes. They are named as the MCP tools that do the   *)
(* same, and so are their arguments (--state on is checked, --file files,  *)
(* --output output_path, timeout_ms a step's timeout).                     *)
(***************************************************************************)
EXTENDS Wire

ViewCommands ==
  [c \in {"windows", "ping", "state"} |-> Takes({}, {})]
  @@ "snapshot" :> Takes({}, {"interactive", "selector", "depth"})
  @@ "diff"  :> Takes({}, {"reference", "interactive", "selector", "depth"})
  @@ "query" :> Takes({"by", "value"}, {"exact"})
  @@ "click" :> Takes({"target"}, {"modifiers", "button", "clickCount", "position"})
  @@ [c \in {"dblclick", "hover", "focus", "blur", "disabled", "bounding_box", "clear"}
        |-> Takes({"target"}, {})]
  @@ "fill"  :> Takes({"target", "value"}, {})

InputCommands ==
  "set_input_files" :> Takes({"target", "files"}, {})
  @@ "wheel" :> Takes({}, {"target", "delta_x", "delta_y"})
  @@ "type"  :> Takes({"target", "text"}, {})
  @@ "press" :> Takes({"key"}, {"completion", "wait_for", "timeout"})
  @@ "select" :> Takes({"target", "value"}, {})
  @@ "check" :> Takes({"target"}, {"checked"})
  @@ "scroll" :> Takes({"direction"}, {"amount", "ref"})
  @@ "drag"  :> Takes({"source"}, {"target", "offset"})
  @@ "drop"  :> Takes({"target", "files"}, {})
  @@ [c \in {"text", "value", "attrs"} |-> Takes({"target"}, {})]
  @@ "html"  :> Takes({}, {"target"})
  @@ "eval"  :> Takes({"script"}, {})
  @@ "ipc"   :> Takes({"command"}, {"args"})

PageCommands ==
  "screenshot" :> Takes({}, {"selector"})
  @@ "screenshot_native" :> Takes({"output_path"}, {"window_id", "format"})
  @@ "heap_snapshot" :> Takes({"output_path"}, {})
  @@ "navigate" :> Takes({"url"}, {})
  @@ [c \in {"url", "title"} |-> Takes({}, {})]
  @@ "wait"  :> Takes({}, {"target", "selector", "expression", "poll", "gone", "timeout"})
  @@ "watch" :> Takes({}, {"selector", "timeout", "stable", "require_mutation"})
  @@ "logs"  :> Takes({}, {"level", "last"})
  @@ "network" :> Takes({}, {"filter", "failed", "last"})
  @@ [c \in {"logs.clear", "network.clear"} |-> Takes({}, {})]
  @@ "logs.follow" :> Takes({}, {"last"})

OtherCommands ==
  [c \in {"assert_text", "assert_value", "assert_contains"} |-> Takes({"target", "expected"}, {})]
  @@ [c \in {"assert_visible", "assert_hidden", "assert_checked"} |-> Takes({"target"}, {})]
  @@ "assert_count" :> Takes({"selector", "expected"}, {})
  @@ "assert_url" :> Takes({"expected"}, {})
  @@ "storage_get" :> Takes({"key"}, {"session"})
  @@ "storage_set" :> Takes({"key", "value"}, {"session"})
  @@ [c \in {"storage_list", "storage_clear"} |-> Takes({}, {"session"})]
  @@ "forms" :> Takes({}, {"selector"})
  @@ "dialog.accept" :> Takes({}, {"prompt_text"})
  @@ [c \in {"dialog.dismiss", "dialog.list", "dialog.clear", "route.list", "route.clear"}
        |-> Takes({}, {})]
  @@ "route.fulfill" :> Takes({"pattern"}, {"status", "body", "content_type", "method", "times"})
  @@ "route.abort" :> Takes({"pattern"}, {"method", "times"})
  @@ "video_start" :> Takes({"output_path"}, {"fps", "max_duration_ms"})
  @@ [c \in {"video_stop", "video_status", "record_start", "record_stop", "record_status"}
        |-> Takes({}, {})]

Commands == ViewCommands @@ InputCommands @@ PageCommands @@ OtherCommands

\* What the parser does not let through together, or alone (conflicts_with,
\* requires; drag wants a target or an offset).
Contradictory(op, args) ==
  \/ op = "wait" /\ "expression" \in args /\ args \cap {"selector", "gone"} # {}
  \/ op = "wait" /\ "poll" \in args /\ "expression" \notin args
  \/ op = "press" /\ "timeout" \in args /\ "wait_for" \notin args
  \/ op = "drag" /\ Cardinality(args \cap {"target", "offset"}) # 1

-----------------------------------------------------------------------------
(* run_command and the functions it calls. "scope" is what with_scope adds *)
(* of the window and the frame that the caller names.                      *)

Sends(method, scope, passes, fills) ==
  [method |-> method, scope |-> scope, passes |-> passes, fills |-> fills]

Whole  == {"window", "frame"}
Window == {"window"}

CliCalls ==
  "windows" :> Sends("windows.list", {}, {}, Nothing)
  @@ [c \in {"ping", "state", "url", "title"} |-> Sends(c, Whole, {}, Nothing)]
  @@ "screenshot" :> Sends("screenshot", Whole, {"selector"}, Nothing)
  @@ "screenshot_native" :> Sends("screenshot_native", Window,
                                  {"output_path", "window_id", "format"}, "format" :> "png")
  @@ "heap_snapshot" :> Sends("heap.snapshot", Whole, {"output_path"}, Nothing)
  @@ "navigate" :> Sends("navigate", Whole, {"url"}, Nothing)
  @@ "wait" :> Sends("wait", Whole,
                     {"target", "selector", "expression", "poll", "gone", "timeout"},
                     "timeout" :> "10000")
  @@ "video_start" :> Sends("video.start", Whole, {"output_path", "fps", "max_duration_ms"},
                            "fps" :> "5" @@ "max_duration_ms" :> "60000")
  @@ "video_stop" :> Sends("video.stop", Whole, {}, Nothing)
  @@ "video_status" :> Sends("video.status", Whole, {}, Nothing)

CliReads ==
  "snapshot" :> Sends("snapshot", Window, {"interactive", "selector", "depth"},
                      "interactive" :> "false")
  @@ "watch" :> Sends("watch", Window, {"selector", "timeout", "stable", "require_mutation"},
                      "timeout" :> "10000" @@ "stable" :> "300")
  @@ "diff"  :> Sends("diff", Window, {"interactive", "selector", "depth", "reference"},
                      "interactive" :> "false")
  @@ "eval"  :> Sends("eval", Whole, {"script"}, Nothing)

\* Mutant: the content type under the name that the option has.
CliRoutesUnnamed ==
  "route.fulfill" :> Sends("route.add", Whole, {"pattern", "status", "body", "method", "times"},
                           "action" :> "fulfill" @@ "status" :> "200" @@ "body" :> "empty")
  @@ "route.abort" :> Sends("route.add", Whole, {"pattern", "method", "times"},
                            "action" :> "abort")
  @@ "route.list"  :> Sends("route.list", Whole, {}, Nothing)
  @@ "route.clear" :> Sends("route.clear", Whole, {}, Nothing)
CliRoutes ==
  "route.fulfill" :> Sends("route.add", Whole, {"pattern", "status", "body", "content_type",
                                                "method", "times"},
                           "action" :> "fulfill" @@ "status" :> "200" @@ "body" :> "empty"
                           @@ "contentType" :> "text/plain")
  @@ "route.abort" :> Sends("route.add", Whole, {"pattern", "method", "times"},
                            "action" :> "abort")
  @@ "route.list"  :> Sends("route.list", Whole, {}, Nothing)
  @@ "route.clear" :> Sends("route.clear", Whole, {}, Nothing)

CliGestures ==
  "query" :> Sends("query", Whole, {"by", "value", "exact"}, "exact" :> "false")
  @@ "click" :> Sends("click", Whole, {"target", "modifiers", "button", "clickCount", "position"},
                      Nothing)
  @@ "dblclick" :> Sends("click", Whole, Target, "clickCount" :> "2")
  @@ [c \in {"hover", "focus", "blur", "disabled", "text", "html", "value", "attrs"}
        |-> Sends(c, Whole, Target, Nothing)]
  @@ "bounding_box" :> Sends("boundingBox", Whole, Target, Nothing)
  @@ "clear" :> Sends("fill", Whole, Target, "value" :> "empty")
  @@ "wheel" :> Sends("wheel", Whole, {"target", "delta_x", "delta_y"},
                      "deltaX" :> "0" @@ "deltaY" :> "0")
  @@ "dialog.accept" :> Sends("dialog.handle", Whole, {"prompt_text"}, "action" :> "accept")
  @@ "dialog.dismiss" :> Sends("dialog.handle", Whole, {}, "action" :> "dismiss")
  @@ "dialog.list" :> Sends("dialog.list", Whole, {}, Nothing)
  @@ "dialog.clear" :> Sends("dialog.clear", Whole, {}, Nothing)
  @@ [c \in {"fill", "select"} |-> Sends(c, Whole, {"target", "value"}, Nothing)]
  @@ "type"  :> Sends("type", Whole, {"target", "text"}, Nothing)
  @@ "press" :> Sends("press", Whole, {"key", "completion", "wait_for", "timeout"}, Nothing)
  @@ "check" :> Sends("check", Whole, {"target", "checked"}, Nothing)
  @@ "scroll" :> Sends("scroll", Whole, {"direction", "amount", "ref"}, Nothing)
  @@ "drag"  :> Sends("drag", Whole, {"source", "target", "offset"}, Nothing)

CliAssertions ==
  [c \in {"assert_text", "assert_contains"} |-> Sends("text", Whole, Target, Nothing)]
  @@ "assert_value" :> Sends("value", Whole, Target, Nothing)
  @@ [c \in {"assert_visible", "assert_hidden"} |-> Sends("visible", Whole, Target, Nothing)]
  @@ "assert_checked" :> Sends("checked", Whole, Target, Nothing)
  @@ "assert_count" :> Sends("count", Whole, {"selector"}, Nothing)
  @@ "assert_url" :> Sends("url", Whole, {}, Nothing)

CliStores ==
  "ipc" :> Sends("ipc", Window, {"command", "args"}, Nothing)
  @@ "logs" :> Sends("console.getLogs", Window, {"level", "last"}, Nothing)
  @@ "logs.clear" :> Sends("console.clear", Window, {}, Nothing)
  @@ "network" :> Sends("network.getRequests", Window, {"filter", "failed", "last"}, Nothing)
  @@ "network.clear" :> Sends("network.clear", Window, {}, Nothing)
  @@ "forms" :> Sends("forms.dump", Whole, {"selector"}, Nothing)
  @@ "storage_get" :> Sends("storage.get", Window, {"key", "session"}, "session" :> "false")
  @@ "storage_set" :> Sends("storage.set", Window, {"key", "value", "session"},
                            "session" :> "false")
  @@ "storage_list"  :> Sends("storage.list", Window, {"session"}, "session" :> "false")
  @@ "storage_clear" :> Sends("storage.clear", Window, {"session"}, "session" :> "false")
  @@ "drop" :> Sends("drop", Window, {"target", "files"}, Nothing)
  @@ "set_input_files" :> Sends("setInputFiles", Window, {"target", "files"}, Nothing)

CliRecorder ==
  "record_start" :> Sends("record.start", Whole, {}, Nothing)
  @@ "record_stop"   :> Sends("record.stop", Whole, {}, Nothing)
  @@ "record_status" :> Sends("record.status", Whole, {}, Nothing)

\* What a command puts into the form the application wants: the path of a heap
\* snapshot is made absolute. Every other argument is sent as it is given.
CliTidies == {<<"heap_snapshot", "output_path">>}

\* follow_logs and follow_network poll with what they have seen last.
CliFollow == "logs.follow" :> Sends("console.getLogs", Window, {"last"}, Nothing)

CliRequests == CliCalls @@ CliReads @@ CliRoutes @@ CliGestures @@ CliAssertions
               @@ CliStores @@ CliRecorder @@ CliFollow

-----------------------------------------------------------------------------
(* The steps of a scenario: what validate_step requires, what a step may   *)
(* have besides, and what dispatch_step sends.                             *)

StepTakes ==
  [s \in {"click", "assert_exists", "assert_visible", "assert_hidden"} |-> Takes({"target"}, {})]
  @@ [s \in {"fill", "select"} |-> Takes({"target", "value"}, {})]
  @@ "type"  :> Takes({"target", "text"}, {})
  @@ "press" :> Takes({"key"}, {})
  @@ "storage_get" :> Takes({"key"}, {"session", "expected"})
  @@ "navigate" :> Takes({"url"}, {})
  @@ "eval"  :> Takes({"script"}, {})
  @@ [s \in {"assert_text", "assert_value"} |-> Takes({"target", "expected"}, {})]
  @@ "assert_url" :> Takes({"expected"}, {})
  @@ "scroll" :> Takes({}, {"direction", "amount", "ref"})
  @@ "wait"  :> Takes({}, {"target", "selector", "gone", "timeout"})
  @@ "watch" :> Takes({}, {"selector", "timeout", "stable", "require_mutation"})
  @@ "screenshot" :> Takes({}, {"selector"})

StepGestures ==
  "click" :> Sends("click", Window, Target, Nothing)
  @@ [s \in {"fill", "select"} |-> Sends(s, Window, {"target", "value"}, Nothing)]
  @@ "type"  :> Sends("type", Window, {"target", "text"}, Nothing)
  @@ "press" :> Sends("press", Window, {"key"}, Nothing)
  @@ "scroll" :> Sends("scroll", Window, {"direction", "amount", "ref"}, "direction" :> "down")
  @@ "navigate" :> Sends("navigate", Window, {"url"}, Nothing)
  @@ "wait"  :> Sends("wait", Window, {"target", "selector", "gone", "timeout"},
                      "timeout" :> "10000")
  @@ "watch" :> Sends("watch", Window, {"selector", "timeout", "stable", "require_mutation"},
                      "timeout" :> "10000" @@ "stable" :> "300")

StepChecks ==
  "eval" :> Sends("eval", Window, {"script"}, Nothing)
  @@ "screenshot" :> Sends("screenshot", Window, {"selector"}, Nothing)
  @@ "storage_get" :> Sends("storage.get", Window, {"key", "session"}, "session" :> "false")
  @@ "assert_text" :> Sends("text", Window, Target, Nothing)
  @@ [s \in {"assert_exists", "assert_visible", "assert_hidden"}
        |-> Sends("visible", Window, Target, Nothing)]
  @@ "assert_value" :> Sends("value", Window, Target, Nothing)
  @@ "assert_url" :> Sends("url", Window, {}, Nothing)

StepRequests == StepGestures @@ StepChecks
=============================================================================
