------------------------------ MODULE Methods ------------------------------
(***************************************************************************)
(* The plugin's methods (the match of handler::dispatch): which of them    *)
(* are evaluated in the page and under which name, what each may change    *)
(* there and in the plugin, which the recorder keeps (is_recordable) and   *)
(* which the client replays (is_replayable).                               *)
(***************************************************************************)
EXTENDS Tables

\* Evaluated in the page under their own name.
Bridged ==
  {"snapshot", "query", "filter", "click", "fill", "type", "select", "check",
   "scroll", "drag", "drop", "text", "html", "value", "attrs", "eval", "ipc",
   "navigate", "url", "title", "visible", "count", "checked", "disabled",
   "boundingBox", "blur", "hover", "dblclick", "setInputFiles", "wheel",
   "focus", "state", "wait", "watch", "screenshot"}

\* The others the page answers, with the name of the bridge's function.
Renamed ==
  "console.getLogs" :> "consoleLogs"         @@ "console.clear" :> "clearLogs"
  @@ "network.getRequests" :> "networkRequests" @@ "network.clear" :> "clearNetwork"
  @@ "storage.get" :> "storageGet"   @@ "storage.set" :> "storageSet"
  @@ "storage.list" :> "storageList" @@ "storage.clear" :> "storageClear"
  @@ "forms.dump" :> "formDump"
  @@ "dialog.list" :> "dialogs"      @@ "dialog.clear" :> "clearDialogs"
  @@ "dialog.handle" :> "handleDialogs"
  @@ "route.add" :> "route" @@ "route.list" :> "routes" @@ "route.clear" :> "clearRoutes"

Recording == {"record.start", "record.stop", "record.status", "record.add"}

\* Answered by other parts of the plugin.
Elsewhere == {"press", "screenshot_native", "heap.snapshot",
              "video.start", "video.stop", "video.status"}

Evaluated == Bridged \cup DOMAIN Renamed
Known     == Evaluated \cup Recording \cup Elsewhere \cup {"ping", "windows.list", "diff"}

BridgeName(m) == IF m \in Bridged THEN m ELSE Renamed[m]

\* What a call may change, by its method and the names of its parameters: the
\* application (its page, what it stores), the rules set up in the page, its
\* logs, the table of refs, and the plugin's recorder, baselines, recordings of
\* video and files. An expression that is waited for is run as a script, at
\* every poll.
Aspects == {"app", "storage", "rules", "logs", "refs",
            "recorder", "baseline", "video", "files"}

Gestures == {"click", "dblclick", "fill", "type", "press", "select", "check",
             "scroll", "drag", "drop", "navigate", "hover", "focus", "blur",
             "wheel", "setInputFiles", "eval", "ipc"}

Changes(m, params) ==
  CASE m \in Gestures                             -> {"app"}
    [] m = "wait" /\ "expression" \in params      -> {"app"}
    [] m \in {"storage.set", "storage.clear"}     -> {"storage"}
    [] m \in {"dialog.handle", "route.add",
              "route.clear"}                      -> {"rules"}
    [] m \in {"console.clear", "network.clear",
              "dialog.clear"}                     -> {"logs"}
    [] m \in {"query", "filter"}                  -> {"refs"}
    [] m \in {"snapshot", "diff"}                 -> {"refs", "baseline"}
    [] m \in Recording \ {"record.status"}        -> {"recorder"}
    [] m \in {"video.start", "video.stop"}        -> {"video", "files"}
    [] m \in {"screenshot_native",
              "heap.snapshot"}                    -> {"files"}
    [] OTHER                                      -> {}

Recordable == {"click", "dblclick", "fill", "type", "press", "select", "check",
               "scroll", "drag", "drop", "navigate", "hover", "focus", "blur"}

Replayable == {"click", "fill", "type", "press", "select", "check", "scroll",
               "drag", "drop", "navigate", "snapshot", "wait", "eval"}
=============================================================================
