------------------------------ MODULE McpTools ------------------------------
(***************************************************************************)
(* The tools of the MCP server: what each takes (its schema), what it      *)
(* claims to be (its annotations), and the request it makes of a call.     *)
(* A tool that does several things by an "action" or a "clear" argument is *)
(* listed once for each. Every tool but windows also takes a window.       *)
(***************************************************************************)
EXTENDS Wire

TargetSchemas ==
  "empty"    :> Takes({}, {})
  @@ "target"   :> Takes({"target"}, {"frame"})
  @@ "click"    :> Takes({"target"}, {"modifiers", "button", "clickCount", "frame", "position"})
  @@ "query"    :> Takes({"by", "value"}, {"exact"})
  @@ "check"    :> Takes({"target"}, {"checked"})
  @@ "optional_target" :> Takes({}, {"target"})
  @@ "expected" :> Takes({"expected"}, {})
  @@ "expected_target" :> Takes({"target", "expected"}, {})
  @@ "snapshot" :> Takes({}, {"interactive", "selector", "depth"})
  @@ "diff"     :> Takes({}, {"interactive", "selector", "depth", "reference"})

GestureSchemas ==
  "fill"     :> Takes({"target", "value"}, {})
  @@ "type"  :> Takes({"target", "text"}, {})
  @@ "press" :> Takes({"key"}, {"completion", "wait_for", "timeout"})
  @@ "scroll" :> Takes({}, {"direction", "amount", "ref"})
  @@ "drag"  :> Takes({"source"}, {"target", "offset"})
  @@ "files" :> Takes({"target", "files"}, {})
  @@ "wheel" :> Takes({}, {"target", "delta_x", "delta_y"})
  @@ "dialog.accept" :> Takes({}, {"prompt_text"})
  @@ "route.fulfill" :> Takes({"pattern"}, {"status", "body", "content_type", "method", "times"})
  @@ "route.abort"   :> Takes({"pattern"}, {"method", "times"})

PageSchemas ==
  "eval"     :> Takes({"script"}, {})
  @@ "ipc"   :> Takes({"command"}, {"args"})
  @@ "native" :> Takes({"output_path"}, {"window_id", "format"})
  @@ "selector" :> Takes({}, {"selector"})
  @@ "navigate" :> Takes({"url"}, {})
  @@ "wait"  :> Takes({}, {"target", "selector", "expression", "poll", "gone", "timeout"})
  @@ "watch" :> Takes({}, {"selector", "timeout", "stable", "require_mutation"})
  @@ "logs"  :> Takes({}, {"level", "last"})
  @@ "network" :> Takes({}, {"filter", "failed", "last"})
  @@ "session" :> Takes({}, {"session"})
  @@ "storage_get" :> Takes({"key"}, {"session"})
  @@ "storage_set" :> Takes({"key", "value"}, {"session"})
  @@ "count" :> Takes({"selector", "expected"}, {})

OutputSchemas ==
  "video"  :> Takes({"output_path"}, {"fps", "max_duration_ms"})
  @@ "heap" :> Takes({"output_path"}, {})

Schemas == TargetSchemas @@ GestureSchemas @@ PageSchemas @@ OutputSchemas

-----------------------------------------------------------------------------
(* ToolSpec: a schema and the annotations that are set.                    *)

Tool(schema, hints) == [schema |-> schema, hints |-> hints]

R  == {"read_only"}
RI == {"read_only", "idempotent"}
I  == {"idempotent"}
D  == {"destructive"}

ToolsAttrsToDrop ==
  [t \in {"attrs", "bounding_box", "disabled"} |-> Tool("target", RI)]
  @@ [t \in {"blur", "clear"} |-> Tool("target", I)]
  @@ "check" :> Tool("check", {}) @@ "click" :> Tool("click", {})
  @@ "dblclick" :> Tool("target", {}) @@ "diff" :> Tool("diff", RI)
  @@ "drag"  :> Tool("drag", {})
  @@ [t \in {"route.fulfill", "route.abort"} |-> Tool(t, {})]
  @@ [t \in {"route.list", "route.clear"} |-> Tool("empty", {})]
  @@ "dialog.accept" :> Tool("dialog.accept", I)
  @@ [t \in {"dialog.dismiss", "dialog.list", "dialog.clear"} |-> Tool("empty", I)]
  @@ "set_input_files" :> Tool("files", I) @@ "drop" :> Tool("files", {})
  @@ "wheel" :> Tool("wheel", {})

\* Mutant: reading a log is taken for all that the tool does.
LogToolsCareless ==
  "logs" :> Tool("logs", R) @@ "logs.clear" :> Tool("empty", R)
  @@ "network" :> Tool("network", R) @@ "network.clear" :> Tool("empty", R)
LogTools ==
  "logs" :> Tool("logs", {}) @@ "logs.clear" :> Tool("empty", {})
  @@ "network" :> Tool("network", {}) @@ "network.clear" :> Tool("empty", {})

ToolsEvalToRecord ==
  "eval" :> Tool("eval", D) @@ "ipc" :> Tool("ipc", D) @@ "fill" :> Tool("fill", I)
  @@ [t \in {"focus", "hover"} |-> Tool("target", I)]
  @@ "forms" :> Tool("selector", RI) @@ "html" :> Tool("optional_target", RI)
  @@ "navigate" :> Tool("navigate", {}) @@ "press" :> Tool("press", {})
  @@ "query" :> Tool("query", RI) @@ "heap_snapshot" :> Tool("heap", {})
  @@ [t \in {"ping", "record_status"} |-> Tool("empty", RI)]
  @@ "video_start" :> Tool("video", {}) @@ "video_status" :> Tool("empty", R)
  @@ [t \in {"video_stop", "record_stop"} |-> Tool("empty", {})]
  @@ "record_start" :> Tool("empty", I)

ToolsScreenshotToWatch ==
  "screenshot" :> Tool("selector", R) @@ "screenshot_native" :> Tool("native", {})
  @@ "scroll" :> Tool("scroll", {}) @@ "select" :> Tool("fill", I)
  @@ "snapshot" :> Tool("snapshot", RI)
  @@ [t \in {"state", "title", "url"} |-> Tool("empty", RI)]
  @@ "storage_clear" :> Tool("session", D \cup I)
  @@ "storage_get" :> Tool("storage_get", RI) @@ "storage_list" :> Tool("session", RI)
  @@ "storage_set" :> Tool("storage_set", I)
  @@ [t \in {"text", "value"} |-> Tool("target", RI)]
  @@ "type" :> Tool("type", {}) @@ "wait" :> Tool("wait", R) @@ "watch" :> Tool("watch", R)

ToolsWindowsToAssert ==
  "windows" :> Tool("empty", RI)
  @@ [t \in {"assert_checked", "assert_hidden", "assert_visible"} |-> Tool("target", RI)]
  @@ [t \in {"assert_contains", "assert_text", "assert_value"} |-> Tool("expected_target", RI)]
  @@ "assert_count" :> Tool("count", RI) @@ "assert_url" :> Tool("expected", RI)

Tools == ToolsAttrsToDrop @@ LogTools @@ ToolsEvalToRecord @@ ToolsScreenshotToWatch @@ ToolsWindowsToAssert

McpTakes(op) == Schemas[Tools[op].schema]

\* DANGEROUS_MCP_TOOLS, off unless the environment enables them.
Dangerous == {"drop", "eval", "ipc"}

-----------------------------------------------------------------------------
(* call_tool_by_name and the functions it calls: the method, the arguments *)
(* passed on, and the constants sent for those the caller leaves out.      *)

Makes(method, passes, fills) == [method |-> method, passes |-> passes, fills |-> fills]

\* optional_ref: a ref loses the @ before it. Every other argument is sent as it
\* is given.
McpTidies == {<<"scroll", "ref">>}

McpElementCalls ==
  "ping" :> Makes("ping", {}, Nothing)
  @@ "windows" :> Makes("windows.list", {}, Nothing)
  @@ "state" :> Makes("state", {}, Nothing)
  @@ "snapshot" :> Makes("snapshot", {"interactive", "selector", "depth"},
                         "interactive" :> "false")
  @@ "diff" :> Makes("diff", {"interactive", "selector", "depth", "reference"},
                     "interactive" :> "false")
  @@ "query" :> Makes("query", {"by", "value", "exact"}, "exact" :> "false")
  @@ "click" :> Makes("click", {"target", "modifiers", "button", "clickCount",
                                "position", "frame"}, Nothing)
  @@ [t \in {"fill", "select"} |-> Makes(t, {"target", "value"}, Nothing)]
  @@ "type"  :> Makes("type", {"target", "text"}, Nothing)
  @@ "press" :> Makes("press", {"key", "completion", "wait_for", "timeout"}, Nothing)
  @@ "check" :> Makes("check", {"target", "checked"}, Nothing)
  @@ "dblclick" :> Makes("click", {"target", "modifiers", "button", "position", "frame"},
                         "clickCount" :> "2")
  @@ [t \in {"hover", "focus", "blur", "disabled"} |-> Makes(t, {"target", "frame"}, Nothing)]
  @@ "bounding_box" :> Makes("boundingBox", {"target", "frame"}, Nothing)
  @@ "scroll" :> Makes("scroll", {"direction", "amount", "ref"}, "direction" :> "down")
  @@ "drag"   :> Makes("drag", {"source", "target", "offset"}, Nothing)

McpPageCalls ==
  "clear" :> Makes("fill", Target, "value" :> "empty")
  @@ "wheel" :> Makes("wheel", {"target", "delta_x", "delta_y"},
                      "deltaX" :> "0" @@ "deltaY" :> "0")
  @@ [t \in {"text", "value", "attrs"} |-> Makes(t, {"target", "frame"}, Nothing)]
  @@ "html" :> Makes("html", Target, Nothing)
  @@ "eval" :> Makes("eval", {"script"}, Nothing)
  @@ "ipc"  :> Makes("ipc", {"command", "args"}, Nothing)
  @@ "screenshot" :> Makes("screenshot", {"selector"}, Nothing)
  @@ "screenshot_native" :> Makes("screenshot_native",
                                  {"output_path", "window_id", "format"}, Nothing)
  @@ "navigate" :> Makes("navigate", {"url"}, Nothing)
  @@ [t \in {"url", "title"} |-> Makes(t, {}, Nothing)]
  @@ "wait"  :> Makes("wait", {"target", "selector", "expression", "poll", "gone", "timeout"},
                      "timeout" :> "10000")
  @@ "watch" :> Makes("watch", {"selector", "timeout", "stable", "require_mutation"},
                      "timeout" :> "10000" @@ "stable" :> "300")

McpStoreCalls ==
  "storage_get" :> Makes("storage.get", {"key", "session"}, "session" :> "false")
  @@ "storage_set" :> Makes("storage.set", {"key", "value", "session"}, "session" :> "false")
  @@ "storage_list" :> Makes("storage.list", {"session"}, "session" :> "false")
  @@ "storage_clear" :> Makes("storage.clear", {"session"}, "session" :> "false")
  @@ "forms" :> Makes("forms.dump", {"selector"}, Nothing)
  @@ "video_start" :> Makes("video.start", {"output_path", "fps", "max_duration_ms"}, Nothing)
  @@ "heap_snapshot" :> Makes("heap.snapshot", {"output_path"}, Nothing)
  @@ "video_stop" :> Makes("video.stop", {}, Nothing)
  @@ "video_status" :> Makes("video.status", {}, Nothing)
  @@ "record_start" :> Makes("record.start", {}, Nothing)
  @@ "record_stop" :> Makes("record.stop", {}, Nothing)
  @@ "record_status" :> Makes("record.status", {}, Nothing)

McpFamilies ==
  "logs" :> Makes("console.getLogs", {"level", "last"}, Nothing)
  @@ "logs.clear" :> Makes("console.clear", {}, Nothing)
  @@ "network" :> Makes("network.getRequests", {"filter", "last", "failed"}, Nothing)
  @@ "network.clear" :> Makes("network.clear", {}, Nothing)
  @@ "drop" :> Makes("drop", {"target", "files"}, Nothing)
  @@ "set_input_files" :> Makes("setInputFiles", {"target", "files"}, Nothing)
  @@ "dialog.accept"  :> Makes("dialog.handle", {"prompt_text"}, "action" :> "accept")
  @@ "dialog.dismiss" :> Makes("dialog.handle", {}, "action" :> "dismiss")
  @@ "dialog.list"  :> Makes("dialog.list", {}, Nothing)
  @@ "dialog.clear" :> Makes("dialog.clear", {}, Nothing)
  @@ "route.fulfill" :> Makes("route.add", {"pattern", "status", "body", "content_type",
                                            "method", "times"}, "action" :> "fulfill")
  @@ "route.abort" :> Makes("route.add", {"pattern", "method", "times"}, "action" :> "abort")
  @@ "route.list"  :> Makes("route.list", {}, Nothing)
  @@ "route.clear" :> Makes("route.clear", {}, Nothing)

McpAssertions ==
  [t \in {"assert_text", "assert_contains"} |-> Makes("text", Target, Nothing)]
  @@ "assert_value" :> Makes("value", Target, Nothing)
  @@ [t \in {"assert_visible", "assert_hidden"} |-> Makes("visible", Target, Nothing)]
  @@ "assert_checked" :> Makes("checked", Target, Nothing)
  @@ "assert_count" :> Makes("count", {"selector"}, Nothing)
  @@ "assert_url" :> Makes("url", {}, Nothing)

McpCalls == McpElementCalls @@ McpPageCalls @@ McpStoreCalls @@ McpFamilies @@ McpAssertions
=============================================================================
