-------------------------- MODULE FrontendsProofs --------------------------
(***************************************************************************)
(* Theorems of Frontends, for any calls, callers, applications and         *)
(* windows, and, at the end, of ScenarioClient, for scenarios of any       *)
(* length: the two ways to run the steps of a scenario.                    *)
(***************************************************************************)
EXTENDS Frontends, ScenarioClient, SequenceTheorems, TLAPS

-----------------------------------------------------------------------------
(* Tables.                                                                 *)

LEMMA MergedLeft ==
  ASSUME NEW f, NEW g, NEW x \in DOMAIN f
  PROVE  x \in DOMAIN Merged(f, g) /\ Merged(f, g)[x] = f[x]
  BY DEF Merged

LEMMA MergedRight ==
  ASSUME NEW f, NEW g, NEW x \in DOMAIN g, x \notin DOMAIN f
  PROVE  x \in DOMAIN Merged(f, g) /\ Merged(f, g)[x] = g[x]
  BY DEF Merged

LEMMA MergedOnly ==
  ASSUME NEW f, NEW g, NEW x \in DOMAIN Merged(f, g)
  PROVE  x \in DOMAIN f \/ x \in DOMAIN g
  BY DEF Merged

\* A row of two tables together is one of the first or, if that has none for
\* it, of the second.
LEMMA RowLeft ==
  ASSUME NEW f, NEW g, NEW x \in DOMAIN f
  PROVE  x \in DOMAIN (f @@ g) /\ (f @@ g)[x] = f[x]
  BY MergedLeft DEF @@

LEMMA RowRight ==
  ASSUME NEW f, NEW g, NEW x \in DOMAIN g, x \notin DOMAIN f
  PROVE  x \in DOMAIN (f @@ g) /\ (f @@ g)[x] = g[x]
  BY MergedRight DEF @@

LEMMA RowOnly ==
  ASSUME NEW f, NEW g, NEW x \in DOMAIN (f @@ g)
  PROVE  x \in DOMAIN f \/ x \in DOMAIN g
  BY MergedOnly DEF @@

LEMMA Row ==
  ASSUME NEW d, NEW e
  PROVE  DOMAIN (d :> e) = {d} /\ (d :> e)[d] = e
  BY DEF :>

\* The constants that clients add on their own: none of them names an element
\* or a native window.
FillNames ==
  {"exact", "clickCount", "value", "deltaX", "deltaY", "action", "status", "body",
   "contentType", "timeout", "stable", "interactive", "session", "format", "direction",
   "fps", "max_duration_ms"}

FillValues ==
  {"false", "2", "empty", "0", "accept", "dismiss", "fulfill", "abort", "200",
   "text/plain", "10000", "300", "png", "down", "5", "60000"}

Fills == UNION {[names -> FillValues] : names \in SUBSET FillNames}

LEMMA FillsHave ==
  ASSUME NEW f \in Fills
  PROVE  DOMAIN f \subseteq FillNames /\ \A k \in DOMAIN f : f[k] \in FillValues
<1>1. PICK names \in SUBSET FillNames : f \in [names -> FillValues]
  BY DEF Fills
<1> QED BY <1>1

LEMMA FillsAre ==
  ASSUME NEW f, f = [k \in DOMAIN f |-> f[k]], DOMAIN f \subseteq FillNames,
         \A k \in DOMAIN f : f[k] \in FillValues
  PROVE  f \in Fills
<1>1. f \in [DOMAIN f -> FillValues]
  OBVIOUS
<1> QED BY <1>1 DEF Fills

LEMMA OneFill ==
  ASSUME NEW d, NEW e, d \in FillNames, e \in FillValues
  PROVE  d :> e \in Fills
<1>1. d :> e \in [{d} -> FillValues]
  BY DEF :>
<1> QED BY <1>1 DEF Fills

LEMMA MoreFills ==
  ASSUME NEW f, NEW g, f \in Fills, g \in Fills
  PROVE  f @@ g \in Fills
<1>1. Merged(f, g) = [k \in DOMAIN Merged(f, g) |-> Merged(f, g)[k]]
  BY DEF Merged
<1>2. f @@ g = [k \in DOMAIN (f @@ g) |-> (f @@ g)[k]]
  BY <1>1 DEF @@
<1>3. ASSUME NEW k \in DOMAIN (f @@ g)
      PROVE  k \in FillNames /\ (f @@ g)[k] \in FillValues
  <2>1. CASE k \in DOMAIN f
    BY <2>1, RowLeft, FillsHave
  <2>2. CASE k \notin DOMAIN f
    BY <2>2, RowOnly, RowRight, FillsHave
  <2> QED BY <2>1, <2>2
<1> QED BY <1>2, <1>3, FillsAre

LEMMA NoFills == Nothing \in Fills
<1>1. Nothing \in Seq(FillValues) /\ Len(Nothing) = 0
  BY EmptySeq, Zenon DEF Nothing
<1>2. Nothing \in [1 .. 0 -> FillValues]
  BY <1>1, LenProperties
<1>3. 1 .. 0 = {}
  OBVIOUS
<1> QED BY <1>2, <1>3, Zenon DEF Fills

LEMMA RowsDomain ==
  ASSUME NEW f, NEW g
  PROVE  \A x : x \in DOMAIN (f @@ g) <=> x \in DOMAIN f \/ x \in DOMAIN g
  BY RowOnly, RowLeft, RowRight

LEMMA RowDomain ==
  ASSUME NEW d, NEW e
  PROVE  \A x : x \in DOMAIN (d :> e) <=> x = d
  BY DEF :>

-----------------------------------------------------------------------------
(* What the requests have in common, whoever makes them.                   *)

ElementMethods ==
  {"query", "click", "fill", "select", "type", "check", "scroll", "drag", "drop",
   "setInputFiles", "wheel", "text", "html", "value", "attrs", "visible", "checked",
   "disabled", "boundingBox", "hover", "focus", "blur", "count"}

LEMMA ElementReadsDomain == \A m : m \in DOMAIN ElementReads <=> m \in ElementMethods
  BY RowsDomain, RowDomain, SMT DEF ElementReads, ElementMethods

LEMMA RenamedDomain ==
  \A m : m \in DOMAIN Renamed <=>
         m \in {"console.getLogs", "console.clear", "network.getRequests", "network.clear",
                "storage.get", "storage.set", "storage.list", "storage.clear", "forms.dump",
                "dialog.list", "dialog.clear", "dialog.handle", "route.add", "route.list",
                "route.clear"}
  BY RowsDomain, RowDomain, SMT DEF Renamed

\* What an assertion looks at, and how it says at which element.
LooksAt(op, row) ==
  /\ op = "logs.follow" => row.method # "screenshot_native"
  /\ op \in {"assert_text", "assert_contains"} => row.method = "text"
  /\ op = "assert_value" => row.method = "value"
  /\ op \in {"assert_visible", "assert_hidden"} => row.method = "visible"
  /\ op = "assert_checked" => row.method = "checked"
  /\ op = "assert_count" => row.method = "count" /\ "selector" \in row.passes
  /\ op = "assert_url" => row.method = "url"
  /\ op = "storage_get" => row.method = "storage.get"
  /\ op \in {"assert_text", "assert_contains", "assert_value", "assert_visible",
             "assert_hidden", "assert_checked"} => "target" \in row.passes

Typed(row) == row.method \in Known /\ row.fills \in Fills

\* Methods that look at a document, or at an element there, in the page alone.
PageViews == {"snapshot", "diff", "watch", "screenshot", "forms.dump"}

\* Commands that keep the frame they are given to themselves.
Unscoped == {"drop", "set_input_files", "drag", "snapshot", "diff", "watch", "screenshot",
             "forms"}

\* A command with a frame acts there: the frame is sent, and the bridge looks
\* into it for the element.
InFrame(row, sent) ==
  /\ row.method \notin PageViews
  /\ row.method \in ElementMethods \cup {"wait"} =>
       \/ "frame" \in sent /\ row.method \notin {"drag", "scroll"}
       \/ row.passes \cap {"target", "selector", "by", "source"} = {}

CliRow(op, row) ==
  /\ Typed(row) /\ LooksAt(op, row)
  /\ op \notin Unscoped => InFrame(row, row.scope)

CliRows(table) == \A op \in DOMAIN table : CliRow(op, table[op])

LEMMA CliRowsMore ==
  ASSUME NEW f, NEW g, CliRows(f), CliRows(g)
  PROVE  CliRows(f @@ g)
<1> SUFFICES ASSUME NEW op \in DOMAIN (f @@ g)
             PROVE  CliRow(op, (f @@ g)[op])
  BY DEF CliRows
<1>1. CASE op \in DOMAIN f
  BY <1>1, RowLeft DEF CliRows
<1>2. CASE op \notin DOMAIN f
  BY <1>2, RowOnly, RowRight DEF CliRows
<1> QED BY <1>1, <1>2

LEMMA CliRowsOne ==
  ASSUME NEW d, NEW e, CliRow(d, e)
  PROVE  CliRows(d :> e)
  BY DEF CliRows, :>

LEMMA CliRowSends ==
  ASSUME NEW op, NEW method, NEW scope, NEW passes, NEW fills,
         method \in Known, fills \in Fills,
         op = "logs.follow" => method # "screenshot_native",
         op \in {"assert_text", "assert_contains"} => method = "text",
         op = "assert_value" => method = "value",
         op \in {"assert_visible", "assert_hidden"} => method = "visible",
         op = "assert_checked" => method = "checked",
         op = "assert_count" => method = "count" /\ "selector" \in passes,
         op = "assert_url" => method = "url",
         op = "storage_get" => method = "storage.get",
         op \in {"assert_text", "assert_contains", "assert_value", "assert_visible",
                 "assert_hidden", "assert_checked"} => "target" \in passes,
         \/ op \in {"drop", "set_input_files", "drag", "snapshot", "diff", "watch",
                   "screenshot", "forms"}
         \/ method \notin {"snapshot", "diff", "watch", "screenshot", "forms.dump"},
         \/ op \in {"drop", "set_input_files", "drag", "snapshot", "diff", "watch",
                   "screenshot", "forms"}
         \/ method \notin ElementMethods \cup {"wait"}
         \/ "frame" \in scope /\ method \notin {"drag", "scroll"}
         \/ passes \cap {"target", "selector", "by", "source"} = {}
  PROVE  CliRow(op, Sends(method, scope, passes, fills))
  BY SMT DEF CliRow, Typed, LooksAt, InFrame, Sends, Unscoped, PageViews

LEMMA CliCallsRows == CliRows(CliCalls)
<1> USE RenamedDomain DEF Whole, Target, Window, ElementMethods, Known, Evaluated, Bridged,
        Recording, Elsewhere, FillNames, FillValues
<1>1. CliRows([c \in {"ping", "state", "url", "title"} |-> Sends(c, Whole, {}, Nothing)])
  <2>1. \A c \in {"ping", "state", "url", "title"} : CliRow(c, Sends(c, Whole, {}, Nothing))
    BY CliRowSends, NoFills, SMT
  <2> QED BY <2>1 DEF CliRows
<1> QED BY <1>1, CliRowsMore, CliRowsOne, CliRowSends, NoFills, OneFill, MoreFills, SMT
        DEF CliCalls

LEMMA CliReadsRows == CliRows(CliReads)
<1> USE RenamedDomain DEF Whole, Target, Window, ElementMethods, Known, Evaluated, Bridged,
        Recording, Elsewhere, FillNames, FillValues
<1> QED BY CliRowsMore, CliRowsOne, CliRowSends, NoFills, OneFill, MoreFills, SMT
        DEF CliReads

LEMMA CliRoutesRows == CliRows(CliRoutes)
<1> USE RenamedDomain DEF Whole, Target, Window, ElementMethods, Known, Evaluated, Bridged,
        Recording, Elsewhere, FillNames, FillValues
<1> QED BY CliRowsMore, CliRowsOne, CliRowSends, NoFills, OneFill, MoreFills, SMT
        DEF CliRoutes

LEMMA CliGesturesRows == CliRows(CliGestures)
<1> USE RenamedDomain DEF Whole, Target, Window, ElementMethods, Known, Evaluated, Bridged,
        Recording, Elsewhere, FillNames, FillValues
<1>1. CliRows([c \in {"hover", "focus", "blur", "disabled", "text", "html", "value", "attrs"} |-> Sends(c, Whole, Target, Nothing)])
  <2>1. \A c \in {"hover", "focus", "blur", "disabled", "text", "html", "value", "attrs"} : CliRow(c, Sends(c, Whole, Target, Nothing))
    BY CliRowSends, NoFills, SMT
  <2> QED BY <2>1 DEF CliRows
<1>2. CliRows([c \in {"fill", "select"} |-> Sends(c, Whole, {"target", "value"}, Nothing)])
  <2>1. \A c \in {"fill", "select"} : CliRow(c, Sends(c, Whole, {"target", "value"}, Nothing))
    BY CliRowSends, NoFills, SMT
  <2> QED BY <2>1 DEF CliRows
<1> QED BY <1>1, <1>2, CliRowsMore, CliRowsOne, CliRowSends, NoFills, OneFill, MoreFills, SMT
        DEF CliGestures

LEMMA CliAssertionsRows == CliRows(CliAssertions)
<1> USE RenamedDomain DEF Whole, Target, Window, ElementMethods, Known, Evaluated, Bridged,
        Recording, Elsewhere, FillNames, FillValues
<1>1. CliRows([c \in {"assert_text", "assert_contains"} |-> Sends("text", Whole, Target, Nothing)])
  <2>1. \A c \in {"assert_text", "assert_contains"} : CliRow(c, Sends("text", Whole, Target, Nothing))
    BY CliRowSends, NoFills, SMT
  <2> QED BY <2>1 DEF CliRows
<1>2. CliRows([c \in {"assert_visible", "assert_hidden"} |-> Sends("visible", Whole, Target, Nothing)])
  <2>1. \A c \in {"assert_visible", "assert_hidden"} : CliRow(c, Sends("visible", Whole, Target, Nothing))
    BY CliRowSends, NoFills, SMT
  <2> QED BY <2>1 DEF CliRows
<1> QED BY <1>1, <1>2, CliRowsMore, CliRowsOne, CliRowSends, NoFills, OneFill, MoreFills, SMT
        DEF CliAssertions

LEMMA CliStoresRows == CliRows(CliStores)
<1> USE RenamedDomain DEF Whole, Target, Window, ElementMethods, Known, Evaluated, Bridged,
        Recording, Elsewhere, FillNames, FillValues
<1> QED BY CliRowsMore, CliRowsOne, CliRowSends, NoFills, OneFill, MoreFills, SMT
        DEF CliStores

LEMMA CliRecorderRows == CliRows(CliRecorder)
<1> USE RenamedDomain DEF Whole, Target, Window, ElementMethods, Known, Evaluated, Bridged,
        Recording, Elsewhere, FillNames, FillValues
<1> QED BY CliRowsMore, CliRowsOne, CliRowSends, NoFills, OneFill, MoreFills, SMT
        DEF CliRecorder

LEMMA CliFollowRows == CliRows(CliFollow)
<1> USE RenamedDomain DEF Whole, Target, Window, ElementMethods, Known, Evaluated, Bridged,
        Recording, Elsewhere, FillNames, FillValues
<1> QED BY CliRowsMore, CliRowsOne, CliRowSends, NoFills, OneFill, MoreFills, SMT
        DEF CliFollow

LEMMA CliRequestsRows == CliRows(CliRequests)
  BY CliCallsRows, CliReadsRows, CliRoutesRows, CliGesturesRows, CliAssertionsRows,
     CliStoresRows, CliRecorderRows, CliFollowRows, CliRowsMore DEF CliRequests
-----------------------------------------------------------------------------
(* The steps of a scenario have no frame.                                  *)

StepRow(op, row) == Typed(row) /\ LooksAt(op, row)

StepRows(table) == \A op \in DOMAIN table : StepRow(op, table[op])

LEMMA StepRowsMore ==
  ASSUME NEW f, NEW g, StepRows(f), StepRows(g)
  PROVE  StepRows(f @@ g)
<1> SUFFICES ASSUME NEW op \in DOMAIN (f @@ g)
             PROVE  StepRow(op, (f @@ g)[op])
  BY DEF StepRows
<1>1. CASE op \in DOMAIN f
  BY <1>1, RowLeft DEF StepRows
<1>2. CASE op \notin DOMAIN f
  BY <1>2, RowOnly, RowRight DEF StepRows
<1> QED BY <1>1, <1>2

LEMMA StepRowsOne ==
  ASSUME NEW d, NEW e, StepRow(d, e)
  PROVE  StepRows(d :> e)
  BY DEF StepRows, :>

LEMMA StepRowSends ==
  ASSUME NEW op, NEW method, NEW scope, NEW passes, NEW fills,
         method \in Known, fills \in Fills,
         op = "logs.follow" => method # "screenshot_native",
         op \in {"assert_text", "assert_contains"} => method = "text",
         op = "assert_value" => method = "value",
         op \in {"assert_visible", "assert_hidden"} => method = "visible",
         op = "assert_checked" => method = "checked",
         op = "assert_count" => method = "count" /\ "selector" \in passes,
         op = "assert_url" => method = "url",
         op = "storage_get" => method = "storage.get",
         op \in {"assert_text", "assert_contains", "assert_value", "assert_visible",
                 "assert_hidden", "assert_checked"} => "target" \in passes
  PROVE  StepRow(op, Sends(method, scope, passes, fills))
  BY SMT DEF StepRow, Typed, LooksAt, Sends

LEMMA StepGesturesRows == StepRows(StepGestures)
<1> USE RenamedDomain DEF Whole, Target, Window, ElementMethods, Known, Evaluated, Bridged,
        Recording, Elsewhere, FillNames, FillValues
<1>1. StepRows([s \in {"fill", "select"} |-> Sends(s, Window, {"target", "value"}, Nothing)])
  <2>1. \A s \in {"fill", "select"} : StepRow(s, Sends(s, Window, {"target", "value"}, Nothing))
    BY StepRowSends, NoFills, SMT
  <2> QED BY <2>1 DEF StepRows
<1> QED BY <1>1, StepRowsMore, StepRowsOne, StepRowSends, NoFills, OneFill, MoreFills, SMT
        DEF StepGestures

LEMMA StepChecksRows == StepRows(StepChecks)
<1> USE RenamedDomain DEF Whole, Target, Window, ElementMethods, Known, Evaluated, Bridged,
        Recording, Elsewhere, FillNames, FillValues
<1>1. StepRows([s \in {"assert_exists", "assert_visible", "assert_hidden"} |-> Sends("visible", Window, Target, Nothing)])
  <2>1. \A s \in {"assert_exists", "assert_visible", "assert_hidden"} : StepRow(s, Sends("visible", Window, Target, Nothing))
    BY StepRowSends, NoFills, SMT
  <2> QED BY <2>1 DEF StepRows
<1> QED BY <1>1, StepRowsMore, StepRowsOne, StepRowSends, NoFills, OneFill, MoreFills, SMT
        DEF StepChecks

LEMMA StepRequestsRows == StepRows(StepRequests)
  BY StepGesturesRows, StepChecksRows, StepRowsMore DEF StepRequests

-----------------------------------------------------------------------------
(* The tools of the MCP server.                                            *)

\* Tools whose schema has a frame, and those that are annotated as read only.
FrameTools ==
  {"attrs", "bounding_box", "disabled", "blur", "clear", "click", "dblclick", "focus",
   "hover", "assert_checked", "assert_hidden", "assert_visible", "text", "value"}

ReadOnlyTools ==
  {"attrs", "bounding_box", "disabled", "diff", "forms", "html", "query", "ping",
   "record_status", "video_status", "screenshot", "snapshot", "state", "title", "url",
   "storage_get", "storage_list", "text", "value", "wait", "watch", "windows",
   "assert_checked", "assert_hidden", "assert_visible", "assert_contains", "assert_text",
   "assert_value", "assert_count", "assert_url"}

\* Methods that change nothing but the table of refs and the baseline.
QuietMethods ==
  {"attrs", "boundingBox", "disabled", "diff", "forms.dump", "html", "query", "ping",
   "record.status", "video.status", "screenshot", "snapshot", "state", "title", "url",
   "storage.get", "storage.list", "text", "value", "wait", "watch", "windows.list",
   "visible", "checked", "count"}

LEMMA QuietMethodsAreQuiet ==
  ASSUME NEW m \in QuietMethods, NEW params
  PROVE  Changes(m, params) \subseteq
           {"refs", "baseline"} \cup IF m = "wait" /\ "expression" \in params
                                    THEN {"app"} ELSE {}
  BY DEF QuietMethods, Changes, Gestures, Recording

MakesRow(op, row) ==
  /\ Typed(row) /\ LooksAt(op, row)
  /\ op \in FrameTools \ {"clear", "assert_checked", "assert_hidden", "assert_visible"}
       => InFrame(row, row.passes)
  /\ op \in ReadOnlyTools => row.method \in QuietMethods
  /\ row.method = "wait" => op = "wait"

MakesRows(table) == \A op \in DOMAIN table : MakesRow(op, table[op])

LEMMA MakesRowsMore ==
  ASSUME NEW f, NEW g, MakesRows(f), MakesRows(g)
  PROVE  MakesRows(f @@ g)
<1> SUFFICES ASSUME NEW op \in DOMAIN (f @@ g)
             PROVE  MakesRow(op, (f @@ g)[op])
  BY DEF MakesRows
<1>1. CASE op \in DOMAIN f
  BY <1>1, RowLeft DEF MakesRows
<1>2. CASE op \notin DOMAIN f
  BY <1>2, RowOnly, RowRight DEF MakesRows
<1> QED BY <1>1, <1>2

LEMMA MakesRowsOne ==
  ASSUME NEW d, NEW e, MakesRow(d, e)
  PROVE  MakesRows(d :> e)
  BY DEF MakesRows, :>

LEMMA MakesRowMakes ==
  ASSUME NEW op, NEW method, NEW passes, NEW fills,
         method \in Known, fills \in Fills,
         op = "logs.follow" => method # "screenshot_native",
         op \in {"assert_text", "assert_contains"} => method = "text",
         op = "assert_value" => method = "value",
         op \in {"assert_visible", "assert_hidden"} => method = "visible",
         op = "assert_checked" => method = "checked",
         op = "assert_count" => method = "count" /\ "selector" \in passes,
         op = "assert_url" => method = "url",
         op = "storage_get" => method = "storage.get",
         op \in {"assert_text", "assert_contains", "assert_value", "assert_visible",
                 "assert_hidden", "assert_checked"} => "target" \in passes,
         \/ op \notin FrameTools \ {"clear", "assert_checked", "assert_hidden", "assert_visible"}
         \/ method \notin ElementMethods \cup {"wait"}
         \/ "frame" \in passes /\ method \notin {"drag", "scroll"},
         \/ op \notin FrameTools \ {"clear", "assert_checked", "assert_hidden", "assert_visible"}
         \/ method \notin {"snapshot", "diff", "watch", "screenshot", "forms.dump"},
         op \in ReadOnlyTools => method \in QuietMethods,
         method = "wait" => op = "wait"
  PROVE  MakesRow(op, Makes(method, passes, fills))
  BY SMT DEF MakesRow, Typed, LooksAt, InFrame, Makes, PageViews

LEMMA McpElementCallsRows == MakesRows(McpElementCalls)
<1> USE RenamedDomain DEF Target, ElementMethods, Known, Evaluated, Bridged, Recording,
        Elsewhere, FillNames, FillValues, FrameTools, ReadOnlyTools, QuietMethods
<1>1. MakesRows([t \in {"fill", "select"} |-> Makes(t, {"target", "value"}, Nothing)])
  <2>1. \A t \in {"fill", "select"} : MakesRow(t, Makes(t, {"target", "value"}, Nothing))
    BY MakesRowMakes, NoFills, SMT
  <2> QED BY <2>1 DEF MakesRows
<1>2. MakesRows([t \in {"hover", "focus", "blur", "disabled"} |-> Makes(t, {"target", "frame"}, Nothing)])
  <2>1. \A t \in {"hover", "focus", "blur", "disabled"} : MakesRow(t, Makes(t, {"target", "frame"}, Nothing))
    BY MakesRowMakes, NoFills, SMT
  <2> QED BY <2>1 DEF MakesRows
<1> QED BY <1>1, <1>2, MakesRowsMore, MakesRowsOne, MakesRowMakes, NoFills, OneFill, MoreFills, SMT
        DEF McpElementCalls

LEMMA McpPageCallsRows == MakesRows(McpPageCalls)
<1> USE RenamedDomain DEF Target, ElementMethods, Known, Evaluated, Bridged, Recording,
        Elsewhere, FillNames, FillValues, FrameTools, ReadOnlyTools, QuietMethods
<1>1. MakesRows([t \in {"text", "value", "attrs"} |-> Makes(t, {"target", "frame"}, Nothing)])
  <2>1. \A t \in {"text", "value", "attrs"} : MakesRow(t, Makes(t, {"target", "frame"}, Nothing))
    BY MakesRowMakes, NoFills, SMT
  <2> QED BY <2>1 DEF MakesRows
<1>2. MakesRows([t \in {"url", "title"} |-> Makes(t, {}, Nothing)])
  <2>1. \A t \in {"url", "title"} : MakesRow(t, Makes(t, {}, Nothing))
    BY MakesRowMakes, NoFills, SMT
  <2> QED BY <2>1 DEF MakesRows
<1> QED BY <1>1, <1>2, MakesRowsMore, MakesRowsOne, MakesRowMakes, NoFills, OneFill, MoreFills, SMT
        DEF McpPageCalls

LEMMA McpStoreCallsRows == MakesRows(McpStoreCalls)
<1> USE RenamedDomain DEF Target, ElementMethods, Known, Evaluated, Bridged, Recording,
        Elsewhere, FillNames, FillValues, FrameTools, ReadOnlyTools, QuietMethods
<1> QED BY MakesRowsMore, MakesRowsOne, MakesRowMakes, NoFills, OneFill, MoreFills, SMT
        DEF McpStoreCalls

LEMMA McpFamiliesRows == MakesRows(McpFamilies)
<1> USE RenamedDomain DEF Target, ElementMethods, Known, Evaluated, Bridged, Recording,
        Elsewhere, FillNames, FillValues, FrameTools, ReadOnlyTools, QuietMethods
<1> QED BY MakesRowsMore, MakesRowsOne, MakesRowMakes, NoFills, OneFill, MoreFills, SMT
        DEF McpFamilies

LEMMA McpAssertionsRows == MakesRows(McpAssertions)
<1> USE RenamedDomain DEF Target, ElementMethods, Known, Evaluated, Bridged, Recording,
        Elsewhere, FillNames, FillValues, FrameTools, ReadOnlyTools, QuietMethods
<1>1. MakesRows([t \in {"assert_text", "assert_contains"} |-> Makes("text", Target, Nothing)])
  <2>1. \A t \in {"assert_text", "assert_contains"} : MakesRow(t, Makes("text", Target, Nothing))
    BY MakesRowMakes, NoFills, SMT
  <2> QED BY <2>1 DEF MakesRows
<1>2. MakesRows([t \in {"assert_visible", "assert_hidden"} |-> Makes("visible", Target, Nothing)])
  <2>1. \A t \in {"assert_visible", "assert_hidden"} : MakesRow(t, Makes("visible", Target, Nothing))
    BY MakesRowMakes, NoFills, SMT
  <2> QED BY <2>1 DEF MakesRows
<1> QED BY <1>1, <1>2, MakesRowsMore, MakesRowsOne, MakesRowMakes, NoFills, OneFill, MoreFills, SMT
        DEF McpAssertions

LEMMA McpCallsRows == MakesRows(McpCalls)
  BY McpElementCallsRows, McpPageCallsRows, McpStoreCallsRows, McpFamiliesRows,
     McpAssertionsRows, MakesRowsMore DEF McpCalls

\* The tools that take a frame or claim to read only, and what those that
\* assert must be given.
SchemaNames ==
  {"empty", "target", "click", "query", "check", "optional_target", "expected",
   "expected_target", "snapshot", "diff", "fill", "type", "press", "scroll", "drag", "files",
   "wheel", "dialog.accept", "route.fulfill", "route.abort", "eval", "ipc", "native",
   "selector", "navigate", "wait", "watch", "logs", "network", "session", "storage_get",
   "storage_set", "count", "video", "heap"}

ToolRow(op, tool) ==
  /\ tool.schema \in SchemaNames
  /\ tool.schema \in {"target", "click"} => op \in FrameTools
  /\ "read_only" \in tool.hints => op \in ReadOnlyTools
  /\ op \in {"assert_text", "assert_contains", "assert_value"}
       => tool.schema = "expected_target"
  /\ op \in {"assert_visible", "assert_hidden", "assert_checked"} => tool.schema = "target"
  /\ op = "assert_count" => tool.schema = "count"

ToolRows(table) == \A op \in DOMAIN table : ToolRow(op, table[op])

LEMMA ToolRowsMore ==
  ASSUME NEW f, NEW g, ToolRows(f), ToolRows(g)
  PROVE  ToolRows(f @@ g)
<1> SUFFICES ASSUME NEW op \in DOMAIN (f @@ g)
             PROVE  ToolRow(op, (f @@ g)[op])
  BY DEF ToolRows
<1>1. CASE op \in DOMAIN f
  BY <1>1, RowLeft DEF ToolRows
<1>2. CASE op \notin DOMAIN f
  BY <1>2, RowOnly, RowRight DEF ToolRows
<1> QED BY <1>1, <1>2

LEMMA ToolRowsOne ==
  ASSUME NEW d, NEW e, ToolRow(d, e)
  PROVE  ToolRows(d :> e)
  BY DEF ToolRows, :>

LEMMA ToolRowTool ==
  ASSUME NEW op, NEW schema, NEW hints,
         schema \in SchemaNames,
         schema \in {"target", "click"} => op \in FrameTools,
         "read_only" \in hints => op \in ReadOnlyTools,
         op \in {"assert_text", "assert_contains", "assert_value"}
           => schema = "expected_target",
         op \in {"assert_visible", "assert_hidden", "assert_checked"} => schema = "target",
         op = "assert_count" => schema = "count"
  PROVE  ToolRow(op, Tool(schema, hints))
  BY SMT DEF ToolRow, Tool

LEMMA ToolsAttrsToDropRows == ToolRows(ToolsAttrsToDrop)
<1> USE DEF SchemaNames, FrameTools, ReadOnlyTools, R, RI, I, D
<1>1. ToolRows([t \in {"attrs", "bounding_box", "disabled"} |-> Tool("target", RI)])
  <2>1. \A t \in {"attrs", "bounding_box", "disabled"} : ToolRow(t, Tool("target", RI))
    BY ToolRowTool, SMT
  <2> QED BY <2>1 DEF ToolRows
<1>2. ToolRows([t \in {"blur", "clear"} |-> Tool("target", I)])
  <2>1. \A t \in {"blur", "clear"} : ToolRow(t, Tool("target", I))
    BY ToolRowTool, SMT
  <2> QED BY <2>1 DEF ToolRows
<1>3. ToolRows([t \in {"route.fulfill", "route.abort"} |-> Tool(t, {})])
  <2>1. \A t \in {"route.fulfill", "route.abort"} : ToolRow(t, Tool(t, {}))
    BY ToolRowTool, SMT
  <2> QED BY <2>1 DEF ToolRows
<1>4. ToolRows([t \in {"route.list", "route.clear"} |-> Tool("empty", {})])
  <2>1. \A t \in {"route.list", "route.clear"} : ToolRow(t, Tool("empty", {}))
    BY ToolRowTool, SMT
  <2> QED BY <2>1 DEF ToolRows
<1>5. ToolRows([t \in {"dialog.dismiss", "dialog.list", "dialog.clear"} |-> Tool("empty", I)])
  <2>1. \A t \in {"dialog.dismiss", "dialog.list", "dialog.clear"} : ToolRow(t, Tool("empty", I))
    BY ToolRowTool, SMT
  <2> QED BY <2>1 DEF ToolRows
<1> QED BY <1>1, <1>2, <1>3, <1>4, <1>5, ToolRowsMore, ToolRowsOne, ToolRowTool, SMT
        DEF ToolsAttrsToDrop

LEMMA LogToolsRows == ToolRows(LogTools)
<1> USE DEF SchemaNames, FrameTools, ReadOnlyTools, R, RI, I, D
<1> QED BY ToolRowsMore, ToolRowsOne, ToolRowTool, SMT
        DEF LogTools

LEMMA ToolsEvalToRecordRows == ToolRows(ToolsEvalToRecord)
<1> USE DEF SchemaNames, FrameTools, ReadOnlyTools, R, RI, I, D
<1>1. ToolRows([t \in {"focus", "hover"} |-> Tool("target", I)])
  <2>1. \A t \in {"focus", "hover"} : ToolRow(t, Tool("target", I))
    BY ToolRowTool, SMT
  <2> QED BY <2>1 DEF ToolRows
<1>2. ToolRows([t \in {"ping", "record_status"} |-> Tool("empty", RI)])
  <2>1. \A t \in {"ping", "record_status"} : ToolRow(t, Tool("empty", RI))
    BY ToolRowTool, SMT
  <2> QED BY <2>1 DEF ToolRows
<1>3. ToolRows([t \in {"video_stop", "record_stop"} |-> Tool("empty", {})])
  <2>1. \A t \in {"video_stop", "record_stop"} : ToolRow(t, Tool("empty", {}))
    BY ToolRowTool, SMT
  <2> QED BY <2>1 DEF ToolRows
<1> QED BY <1>1, <1>2, <1>3, ToolRowsMore, ToolRowsOne, ToolRowTool, SMT
        DEF ToolsEvalToRecord

LEMMA ToolsScreenshotToWatchRows == ToolRows(ToolsScreenshotToWatch)
<1> USE DEF SchemaNames, FrameTools, ReadOnlyTools, R, RI, I, D
<1>1. ToolRows([t \in {"state", "title", "url"} |-> Tool("empty", RI)])
  <2>1. \A t \in {"state", "title", "url"} : ToolRow(t, Tool("empty", RI))
    BY ToolRowTool, SMT
  <2> QED BY <2>1 DEF ToolRows
<1>2. ToolRows([t \in {"text", "value"} |-> Tool("target", RI)])
  <2>1. \A t \in {"text", "value"} : ToolRow(t, Tool("target", RI))
    BY ToolRowTool, SMT
  <2> QED BY <2>1 DEF ToolRows
<1> QED BY <1>1, <1>2, ToolRowsMore, ToolRowsOne, ToolRowTool, SMT
        DEF ToolsScreenshotToWatch

LEMMA ToolsWindowsToAssertRows == ToolRows(ToolsWindowsToAssert)
<1> USE DEF SchemaNames, FrameTools, ReadOnlyTools, R, RI, I, D
<1>1. ToolRows([t \in {"assert_checked", "assert_hidden", "assert_visible"} |-> Tool("target", RI)])
  <2>1. \A t \in {"assert_checked", "assert_hidden", "assert_visible"} : ToolRow(t, Tool("target", RI))
    BY ToolRowTool, SMT
  <2> QED BY <2>1 DEF ToolRows
<1>2. ToolRows([t \in {"assert_contains", "assert_text", "assert_value"} |-> Tool("expected_target", RI)])
  <2>1. \A t \in {"assert_contains", "assert_text", "assert_value"} : ToolRow(t, Tool("expected_target", RI))
    BY ToolRowTool, SMT
  <2> QED BY <2>1 DEF ToolRows
<1> QED BY <1>1, <1>2, ToolRowsMore, ToolRowsOne, ToolRowTool, SMT
        DEF ToolsWindowsToAssert

LEMMA ToolsRows == ToolRows(Tools)
  BY ToolsAttrsToDropRows, LogToolsRows, ToolsEvalToRecordRows, ToolsScreenshotToWatchRows,
     ToolsWindowsToAssertRows, ToolRowsMore DEF Tools

SchemaRow(name, takes) ==
  /\ "frame" \in takes.may => name \in {"target", "click"}
  /\ name \in {"target", "expected_target"} => "target" \in takes.need
  /\ name = "count" => "selector" \in takes.need

SchemaRows(table) == \A op \in DOMAIN table : SchemaRow(op, table[op])

LEMMA SchemaRowsMore ==
  ASSUME NEW f, NEW g, SchemaRows(f), SchemaRows(g)
  PROVE  SchemaRows(f @@ g)
<1> SUFFICES ASSUME NEW op \in DOMAIN (f @@ g)
             PROVE  SchemaRow(op, (f @@ g)[op])
  BY DEF SchemaRows
<1>1. CASE op \in DOMAIN f
  BY <1>1, RowLeft DEF SchemaRows
<1>2. CASE op \notin DOMAIN f
  BY <1>2, RowOnly, RowRight DEF SchemaRows
<1> QED BY <1>1, <1>2

LEMMA SchemaRowsOne ==
  ASSUME NEW d, NEW e, SchemaRow(d, e)
  PROVE  SchemaRows(d :> e)
  BY DEF SchemaRows, :>

LEMMA SchemaRowTakes ==
  ASSUME NEW name, NEW need, NEW may,
         "frame" \in may => name \in {"target", "click"},
         name \in {"target", "expected_target"} => "target" \in need,
         name = "count" => "selector" \in need
  PROVE  SchemaRow(name, Takes(need, may))
  BY SMT DEF SchemaRow, Takes

LEMMA TargetSchemasRows == SchemaRows(TargetSchemas)
  BY SchemaRowsMore, SchemaRowsOne, SchemaRowTakes, SMT DEF TargetSchemas

LEMMA GestureSchemasRows == SchemaRows(GestureSchemas)
  BY SchemaRowsMore, SchemaRowsOne, SchemaRowTakes, SMT DEF GestureSchemas

LEMMA PageSchemasRows == SchemaRows(PageSchemas)
  BY SchemaRowsMore, SchemaRowsOne, SchemaRowTakes, SMT DEF PageSchemas

LEMMA OutputSchemasRows == SchemaRows(OutputSchemas)
  BY SchemaRowsMore, SchemaRowsOne, SchemaRowTakes, SMT DEF OutputSchemas

LEMMA SchemasRows == SchemaRows(Schemas)
  BY TargetSchemasRows, GestureSchemasRows, PageSchemasRows, OutputSchemasRows,
     SchemaRowsMore DEF Schemas

LEMMA SchemasDomain == \A s \in SchemaNames : s \in DOMAIN Schemas
<1>1. {"empty", "target", "click", "query", "check", "optional_target", "expected",
       "expected_target", "snapshot", "diff"} \subseteq DOMAIN TargetSchemas
  BY RowsDomain, RowDomain, SMT DEF TargetSchemas
<1>2. {"fill", "type", "press", "scroll", "drag", "files", "wheel", "dialog.accept",
       "route.fulfill", "route.abort"} \subseteq DOMAIN GestureSchemas
  BY RowsDomain, RowDomain, SMT DEF GestureSchemas
<1>3. {"eval", "ipc", "native", "selector", "navigate", "wait", "watch", "logs", "network",
       "session", "storage_get", "storage_set", "count"} \subseteq DOMAIN PageSchemas
  BY RowsDomain, RowDomain, SMT DEF PageSchemas
<1>4. {"video", "heap"} \subseteq DOMAIN OutputSchemas
  BY RowsDomain, RowDomain, SMT DEF OutputSchemas
<1>5. \A s : \/ s \in DOMAIN TargetSchemas \/ s \in DOMAIN GestureSchemas
            \/ s \in DOMAIN PageSchemas \/ s \in DOMAIN OutputSchemas
            => s \in DOMAIN Schemas
  BY RowsDomain, SMT DEF Schemas
<1> QED BY <1>1, <1>2, <1>3, <1>4, <1>5, SMT DEF SchemaNames

-----------------------------------------------------------------------------
(* What commands and steps that assert must be given.                      *)

TakeRow(op, takes) ==
  /\ op \in {"assert_text", "assert_contains", "assert_value", "assert_visible",
             "assert_hidden", "assert_checked"} => "target" \in takes.need
  /\ op = "assert_count" => "selector" \in takes.need

TakeRows(table) == \A op \in DOMAIN table : TakeRow(op, table[op])

LEMMA TakeRowsMore ==
  ASSUME NEW f, NEW g, TakeRows(f), TakeRows(g)
  PROVE  TakeRows(f @@ g)
<1> SUFFICES ASSUME NEW op \in DOMAIN (f @@ g)
             PROVE  TakeRow(op, (f @@ g)[op])
  BY DEF TakeRows
<1>1. CASE op \in DOMAIN f
  BY <1>1, RowLeft DEF TakeRows
<1>2. CASE op \notin DOMAIN f
  BY <1>2, RowOnly, RowRight DEF TakeRows
<1> QED BY <1>1, <1>2

LEMMA TakeRowsOne ==
  ASSUME NEW d, NEW e, TakeRow(d, e)
  PROVE  TakeRows(d :> e)
  BY DEF TakeRows, :>

LEMMA TakeRowTakes ==
  ASSUME NEW op, NEW need, NEW may,
         op \in {"assert_text", "assert_contains", "assert_value", "assert_visible",
                "assert_hidden", "assert_checked"} => "target" \in need,
         op = "assert_count" => "selector" \in need
  PROVE  TakeRow(op, Takes(need, may))
  BY SMT DEF TakeRow, Takes

LEMMA ViewCommandsRows == TakeRows(ViewCommands)
<1>1. TakeRows([c \in {"windows", "ping", "state"} |-> Takes({}, {})])
  <2>1. \A c \in {"windows", "ping", "state"} : TakeRow(c, Takes({}, {}))
    BY TakeRowTakes, SMT
  <2> QED BY <2>1 DEF TakeRows
<1>2. TakeRows([c \in {"dblclick", "hover", "focus", "blur", "disabled", "bounding_box", "clear"} |-> Takes({"target"}, {})])
  <2>1. \A c \in {"dblclick", "hover", "focus", "blur", "disabled", "bounding_box", "clear"} : TakeRow(c, Takes({"target"}, {}))
    BY TakeRowTakes, SMT
  <2> QED BY <2>1 DEF TakeRows
<1> QED BY <1>1, <1>2, TakeRowsMore, TakeRowsOne, TakeRowTakes, SMT
        DEF ViewCommands

LEMMA InputCommandsRows == TakeRows(InputCommands)
<1>1. TakeRows([c \in {"text", "value", "attrs"} |-> Takes({"target"}, {})])
  <2>1. \A c \in {"text", "value", "attrs"} : TakeRow(c, Takes({"target"}, {}))
    BY TakeRowTakes, SMT
  <2> QED BY <2>1 DEF TakeRows
<1> QED BY <1>1, TakeRowsMore, TakeRowsOne, TakeRowTakes, SMT
        DEF InputCommands

LEMMA PageCommandsRows == TakeRows(PageCommands)
<1>1. TakeRows([c \in {"url", "title"} |-> Takes({}, {})])
  <2>1. \A c \in {"url", "title"} : TakeRow(c, Takes({}, {}))
    BY TakeRowTakes, SMT
  <2> QED BY <2>1 DEF TakeRows
<1>2. TakeRows([c \in {"logs.clear", "network.clear"} |-> Takes({}, {})])
  <2>1. \A c \in {"logs.clear", "network.clear"} : TakeRow(c, Takes({}, {}))
    BY TakeRowTakes, SMT
  <2> QED BY <2>1 DEF TakeRows
<1> QED BY <1>1, <1>2, TakeRowsMore, TakeRowsOne, TakeRowTakes, SMT
        DEF PageCommands

LEMMA OtherCommandsRows == TakeRows(OtherCommands)
<1>1. TakeRows([c \in {"assert_text", "assert_value", "assert_contains"} |-> Takes({"target", "expected"}, {})])
  <2>1. \A c \in {"assert_text", "assert_value", "assert_contains"} : TakeRow(c, Takes({"target", "expected"}, {}))
    BY TakeRowTakes, SMT
  <2> QED BY <2>1 DEF TakeRows
<1>2. TakeRows([c \in {"assert_visible", "assert_hidden", "assert_checked"} |-> Takes({"target"}, {})])
  <2>1. \A c \in {"assert_visible", "assert_hidden", "assert_checked"} : TakeRow(c, Takes({"target"}, {}))
    BY TakeRowTakes, SMT
  <2> QED BY <2>1 DEF TakeRows
<1>3. TakeRows([c \in {"storage_list", "storage_clear"} |-> Takes({}, {"session"})])
  <2>1. \A c \in {"storage_list", "storage_clear"} : TakeRow(c, Takes({}, {"session"}))
    BY TakeRowTakes, SMT
  <2> QED BY <2>1 DEF TakeRows
<1>4. TakeRows([c \in {"dialog.dismiss", "dialog.list", "dialog.clear", "route.list", "route.clear"} |-> Takes({}, {})])
  <2>1. \A c \in {"dialog.dismiss", "dialog.list", "dialog.clear", "route.list", "route.clear"} : TakeRow(c, Takes({}, {}))
    BY TakeRowTakes, SMT
  <2> QED BY <2>1 DEF TakeRows
<1>5. TakeRows([c \in {"video_stop", "video_status", "record_start", "record_stop", "record_status"} |-> Takes({}, {})])
  <2>1. \A c \in {"video_stop", "video_status", "record_start", "record_stop", "record_status"} : TakeRow(c, Takes({}, {}))
    BY TakeRowTakes, SMT
  <2> QED BY <2>1 DEF TakeRows
<1> QED BY <1>1, <1>2, <1>3, <1>4, <1>5, TakeRowsMore, TakeRowsOne, TakeRowTakes, SMT
        DEF OtherCommands

LEMMA CommandsRows == TakeRows(Commands)
  BY ViewCommandsRows, InputCommandsRows, PageCommandsRows, OtherCommandsRows, TakeRowsMore
     DEF Commands

LEMMA StepTakesRows == TakeRows(StepTakes)
<1>1. TakeRows([s \in {"click", "assert_exists", "assert_visible", "assert_hidden"} |-> Takes({"target"}, {})])
  <2>1. \A s \in {"click", "assert_exists", "assert_visible", "assert_hidden"} : TakeRow(s, Takes({"target"}, {}))
    BY TakeRowTakes, SMT
  <2> QED BY <2>1 DEF TakeRows
<1>2. TakeRows([s \in {"fill", "select"} |-> Takes({"target", "value"}, {})])
  <2>1. \A s \in {"fill", "select"} : TakeRow(s, Takes({"target", "value"}, {}))
    BY TakeRowTakes, SMT
  <2> QED BY <2>1 DEF TakeRows
<1>3. TakeRows([s \in {"assert_text", "assert_value"} |-> Takes({"target", "expected"}, {})])
  <2>1. \A s \in {"assert_text", "assert_value"} : TakeRow(s, Takes({"target", "expected"}, {}))
    BY TakeRowTakes, SMT
  <2> QED BY <2>1 DEF TakeRows
<1> QED BY <1>1, <1>2, <1>3, TakeRowsMore, TakeRowsOne, TakeRowTakes, SMT
        DEF StepTakes

\* Whatever may be called has a request.
CommandNames ==
  {"assert_checked", "assert_contains", "assert_count", "assert_hidden", "assert_text",
   "assert_url", "assert_value", "assert_visible", "attrs", "blur", "bounding_box", "check",
   "clear", "click", "dblclick", "dialog.accept", "dialog.clear", "dialog.dismiss",
   "dialog.list", "diff", "disabled", "drag", "drop", "eval", "fill", "focus", "forms",
   "heap_snapshot", "hover", "html", "ipc", "logs", "logs.clear", "logs.follow", "navigate",
   "network", "network.clear", "ping", "press", "query", "record_start", "record_status",
   "record_stop", "route.abort", "route.clear", "route.fulfill", "route.list", "screenshot",
   "screenshot_native", "scroll", "select", "set_input_files", "snapshot", "state",
   "storage_clear", "storage_get", "storage_list", "storage_set", "text", "title", "type",
   "url", "value", "video_start", "video_status", "video_stop", "wait", "watch", "wheel",
   "windows"}

LEMMA CommandsNames == \A op : op \in DOMAIN Commands => op \in CommandNames
<1>1. \A op : op \in DOMAIN ViewCommands => op \in CommandNames
  BY RowsDomain, RowDomain, SMT DEF ViewCommands, CommandNames
<1>2. \A op : op \in DOMAIN InputCommands => op \in CommandNames
  BY RowsDomain, RowDomain, SMT DEF InputCommands, CommandNames
<1>3. \A op : op \in DOMAIN PageCommands => op \in CommandNames
  BY RowsDomain, RowDomain, SMT DEF PageCommands, CommandNames
<1>4. \A op : op \in DOMAIN OtherCommands => op \in CommandNames
  BY RowsDomain, RowDomain, SMT DEF OtherCommands, CommandNames
<1> QED BY <1>1, <1>2, <1>3, <1>4, RowsDomain, SMT DEF Commands

LEMMA CliRequestsNames == \A op \in CommandNames : op \in DOMAIN CliRequests
<1>1. \A op : op \in {"windows", "ping", "state", "url", "title", "screenshot",
                      "screenshot_native", "heap_snapshot", "navigate", "wait",
                      "video_start", "video_stop", "video_status"}
           => op \in DOMAIN CliCalls
  BY RowsDomain, RowDomain, SMT DEF CliCalls
<1>2. \A op : op \in {"snapshot", "watch", "diff", "eval"}
           => op \in DOMAIN CliReads
  BY RowsDomain, RowDomain, SMT DEF CliReads
<1>3. \A op : op \in {"route.fulfill", "route.abort", "route.list", "route.clear"}
           => op \in DOMAIN CliRoutes
  BY RowsDomain, RowDomain, SMT DEF CliRoutes
<1>4. \A op : op \in {"query", "click", "dblclick", "hover", "focus", "blur", "disabled",
                      "text", "html", "value", "attrs", "bounding_box", "clear", "wheel",
                      "dialog.accept", "dialog.dismiss", "dialog.list", "dialog.clear",
                      "fill", "select", "type", "press", "check", "scroll", "drag"}
           => op \in DOMAIN CliGestures
  BY RowsDomain, RowDomain, SMT DEF CliGestures
<1>5. \A op : op \in {"assert_text", "assert_contains", "assert_value", "assert_visible",
                      "assert_hidden", "assert_checked", "assert_count", "assert_url"}
           => op \in DOMAIN CliAssertions
  BY RowsDomain, RowDomain, SMT DEF CliAssertions
<1>6. \A op : op \in {"ipc", "logs", "logs.clear", "network", "network.clear", "forms",
                      "storage_get", "storage_set", "storage_list", "storage_clear", "drop",
                      "set_input_files"}
           => op \in DOMAIN CliStores
  BY RowsDomain, RowDomain, SMT DEF CliStores
<1>7. \A op : op \in {"record_start", "record_stop", "record_status"}
           => op \in DOMAIN CliRecorder
  BY RowsDomain, RowDomain, SMT DEF CliRecorder
<1>8. \A op : op \in {"logs.follow"}
           => op \in DOMAIN CliFollow
  BY RowsDomain, RowDomain, SMT DEF CliFollow
<1>9. \A op : \/ op \in DOMAIN CliCalls
              \/ op \in DOMAIN CliReads
              \/ op \in DOMAIN CliRoutes
              \/ op \in DOMAIN CliGestures
              \/ op \in DOMAIN CliAssertions
              \/ op \in DOMAIN CliStores
              \/ op \in DOMAIN CliRecorder
              \/ op \in DOMAIN CliFollow
            => op \in DOMAIN CliRequests
  BY RowsDomain, SMT DEF CliRequests
<1> QED BY <1>1, <1>2, <1>3, <1>4, <1>5, <1>6, <1>7, <1>8, <1>9, SMT DEF CommandNames

ToolNames ==
  {"assert_checked", "assert_contains", "assert_count", "assert_hidden", "assert_text",
   "assert_url", "assert_value", "assert_visible", "attrs", "blur", "bounding_box", "check",
   "clear", "click", "dblclick", "dialog.accept", "dialog.clear", "dialog.dismiss",
   "dialog.list", "diff", "disabled", "drag", "drop", "eval", "fill", "focus", "forms",
   "heap_snapshot", "hover", "html", "ipc", "logs", "logs.clear", "navigate", "network",
   "network.clear", "ping", "press", "query", "record_start", "record_status",
   "record_stop", "route.abort", "route.clear", "route.fulfill", "route.list", "screenshot",
   "screenshot_native", "scroll", "select", "set_input_files", "snapshot", "state",
   "storage_clear", "storage_get", "storage_list", "storage_set", "text", "title", "type",
   "url", "value", "video_start", "video_status", "video_stop", "wait", "watch", "wheel",
   "windows"}

LEMMA ToolsNames == \A op : op \in DOMAIN Tools => op \in ToolNames
<1>1. \A op : op \in DOMAIN ToolsAttrsToDrop => op \in ToolNames
  BY RowsDomain, RowDomain, SMT DEF ToolsAttrsToDrop, ToolNames
<1>2. \A op : op \in DOMAIN LogTools => op \in ToolNames
  BY RowsDomain, RowDomain, SMT DEF LogTools, ToolNames
<1>3. \A op : op \in DOMAIN ToolsEvalToRecord => op \in ToolNames
  BY RowsDomain, RowDomain, SMT DEF ToolsEvalToRecord, ToolNames
<1>4. \A op : op \in DOMAIN ToolsScreenshotToWatch => op \in ToolNames
  BY RowsDomain, RowDomain, SMT DEF ToolsScreenshotToWatch, ToolNames
<1>5. \A op : op \in DOMAIN ToolsWindowsToAssert => op \in ToolNames
  BY RowsDomain, RowDomain, SMT DEF ToolsWindowsToAssert, ToolNames
<1> QED BY <1>1, <1>2, <1>3, <1>4, <1>5, RowsDomain, SMT DEF Tools

LEMMA McpCallsNames == \A op \in ToolNames : op \in DOMAIN McpCalls
<1>1. \A op : op \in {"ping", "windows", "state", "snapshot", "diff", "query", "click",
                      "fill", "select", "type", "press", "check", "dblclick", "hover",
                      "focus", "blur", "disabled", "bounding_box", "scroll", "drag"}
           => op \in DOMAIN McpElementCalls
  BY RowsDomain, RowDomain, SMT DEF McpElementCalls
<1>2. \A op : op \in {"clear", "wheel", "text", "value", "attrs", "html", "eval", "ipc",
                      "screenshot", "screenshot_native", "navigate", "url", "title", "wait",
                      "watch"}
           => op \in DOMAIN McpPageCalls
  BY RowsDomain, RowDomain, SMT DEF McpPageCalls
<1>3. \A op : op \in {"storage_get", "storage_set", "storage_list", "storage_clear",
                      "forms", "video_start", "heap_snapshot", "video_stop", "video_status",
                      "record_start", "record_stop", "record_status"}
           => op \in DOMAIN McpStoreCalls
  BY RowsDomain, RowDomain, SMT DEF McpStoreCalls
<1>4. \A op : op \in {"logs", "logs.clear", "network", "network.clear", "drop",
                      "set_input_files", "dialog.accept", "dialog.dismiss", "dialog.list",
                      "dialog.clear", "route.fulfill", "route.abort", "route.list",
                      "route.clear"}
           => op \in DOMAIN McpFamilies
  BY RowsDomain, RowDomain, SMT DEF McpFamilies
<1>5. \A op : op \in {"assert_text", "assert_contains", "assert_value", "assert_visible",
                      "assert_hidden", "assert_checked", "assert_count", "assert_url"}
           => op \in DOMAIN McpAssertions
  BY RowsDomain, RowDomain, SMT DEF McpAssertions
<1>6. \A op : \/ op \in DOMAIN McpElementCalls
              \/ op \in DOMAIN McpPageCalls
              \/ op \in DOMAIN McpStoreCalls
              \/ op \in DOMAIN McpFamilies
              \/ op \in DOMAIN McpAssertions
            => op \in DOMAIN McpCalls
  BY RowsDomain, SMT DEF McpCalls
<1> QED BY <1>1, <1>2, <1>3, <1>4, <1>5, <1>6, SMT DEF ToolNames

StepNames ==
  {"assert_exists", "assert_hidden", "assert_text", "assert_url", "assert_value",
   "assert_visible", "click", "eval", "fill", "navigate", "press", "screenshot", "scroll",
   "select", "storage_get", "type", "wait", "watch"}

LEMMA StepTakesNames == \A op : op \in DOMAIN StepTakes => op \in StepNames
  BY RowsDomain, RowDomain, SMT DEF StepTakes, StepNames

LEMMA StepRequestsNames == \A op \in StepNames : op \in DOMAIN StepRequests
<1>1. \A op : op \in {"click", "fill", "select", "type", "press", "scroll", "navigate",
                      "wait", "watch"}
           => op \in DOMAIN StepGestures
  BY RowsDomain, RowDomain, SMT DEF StepGestures
<1>2. \A op : op \in {"eval", "screenshot", "storage_get", "assert_text", "assert_exists",
                      "assert_visible", "assert_hidden", "assert_value", "assert_url"}
           => op \in DOMAIN StepChecks
  BY RowsDomain, RowDomain, SMT DEF StepChecks
<1>3. \A op : \/ op \in DOMAIN StepGestures
              \/ op \in DOMAIN StepChecks
            => op \in DOMAIN StepRequests
  BY RowsDomain, SMT DEF StepRequests
<1> QED BY <1>1, <1>2, <1>3, SMT DEF StepNames

-----------------------------------------------------------------------------
(* From a call to its request.                                             *)

TargetAssertions == {"assert_text", "assert_contains", "assert_value", "assert_visible",
                     "assert_hidden", "assert_checked"}

\* A call as it can be written down (the assumption on Stories).
Written(c) ==
  /\ Offers(c) => c.args \subseteq TakesOf(c).need \cup TakesOf(c).may
  /\ c.frame => Offers(c) /\ TakesFrame(c) /\ <<c.front, c.op>> \notin Unframed

\* The frames that a call names and that are not looked into: some commands do
\* not send theirs (drop, set-input-files, snapshot, diff, watch), or the bridge
\* does not read it (drag, screenshot, forms), and four tools whose schema has a
\* frame make no use of it.
Ignored == {<<"cli", "drop">>, <<"cli", "set_input_files">>, <<"cli", "drag">>,
            <<"cli", "snapshot">>, <<"cli", "diff">>, <<"cli", "watch">>,
            <<"cli", "screenshot">>, <<"cli", "forms">>, <<"mcp", "clear">>,
            <<"mcp", "assert_visible">>, <<"mcp", "assert_hidden">>, <<"mcp", "assert_checked">>}

Fronts == {"cli", "mcp", "run", "mcp_run"}

LEMMA CallsHave ==
  ASSUME NEW c \in Calls
  PROVE  /\ c.front \in Fronts /\ c.op \in STRING /\ c.args \subseteq STRING
         /\ c.window \in STRING \cup {None} /\ c.frame \in BOOLEAN
         /\ c.socket \in Apps \cup {None} /\ c.loose \subseteq Loose
  BY DEF Calls, Fronts

\* What each front end offers.
LEMMA ByCommand ==
  ASSUME NEW c, c.front = "cli"
  PROVE  /\ Offers(c) <=> c.op \in DOMAIN Commands
         /\ TakesOf(c) = Commands[c.op] /\ RowOf(c) = CliRequests[c.op]
         /\ TakesFrame(c) /\ ~AStep(c)
  BY SMT DEF Offers, AStep, TakesOf, RowOf, TakesFrame

LEMMA ByTool ==
  ASSUME NEW c, c.front = "mcp"
  PROVE  /\ Offers(c) <=> c.op \in DOMAIN Tools
         /\ TakesOf(c) = McpTakes(c.op) /\ RowOf(c) = McpCalls[c.op]
         /\ TakesFrame(c) <=> "frame" \in McpTakes(c.op).may
         /\ ~AStep(c)
  BY SMT DEF Offers, AStep, TakesOf, RowOf, TakesFrame

LEMMA ByStep ==
  ASSUME NEW c, AStep(c)
  PROVE  /\ Offers(c) <=> c.op \in DOMAIN StepTakes
         /\ TakesOf(c) = StepTakes[c.op] /\ RowOf(c) = StepRequests[c.op]
         /\ ~TakesFrame(c)
<1>1. Offers(c) <=> c.op \in DOMAIN StepTakes
  BY SMT DEF Offers, AStep
<1>2. TakesOf(c) = StepTakes[c.op]
  BY SMT DEF AStep, TakesOf
<1>3. RowOf(c) = StepRequests[c.op]
  BY SMT DEF AStep, RowOf
<1>4. ~TakesFrame(c)
  BY SMT DEF AStep, TakesFrame, TakesOf
<1> QED BY <1>1, <1>2, <1>3, <1>4

LEMMA CommandRows ==
  ASSUME NEW c, c.front = "cli", Offers(c)
  PROVE  CliRow(c.op, RowOf(c)) /\ TakeRow(c.op, TakesOf(c))
<1>1. c.op \in DOMAIN Commands /\ TakesOf(c) = Commands[c.op] /\ RowOf(c) = CliRequests[c.op]
  BY ByCommand
<1>2. c.op \in DOMAIN CliRequests
  BY <1>1, CommandsNames, CliRequestsNames
<1> QED BY <1>1, <1>2, CliRequestsRows, CommandsRows DEF CliRows, TakeRows

LEMMA ToolsRowsOf ==
  ASSUME NEW c, c.front = "mcp", Offers(c)
  PROVE  /\ MakesRow(c.op, RowOf(c)) /\ ToolRow(c.op, Tools[c.op])
         /\ SchemaRow(Tools[c.op].schema, TakesOf(c))
<1>1. c.op \in DOMAIN Tools /\ TakesOf(c) = McpTakes(c.op) /\ RowOf(c) = McpCalls[c.op]
  BY ByTool
<1>2. c.op \in DOMAIN McpCalls
  BY <1>1, ToolsNames, McpCallsNames
<1>3. ToolRow(c.op, Tools[c.op])
  BY <1>1, ToolsRows DEF ToolRows
<1>4. Tools[c.op].schema \in DOMAIN Schemas
  BY <1>3, SchemasDomain DEF ToolRow
<1> QED BY <1>1, <1>2, <1>3, <1>4, McpCallsRows, SchemasRows
        DEF MakesRows, SchemaRows, McpTakes

LEMMA StepRowsOf ==
  ASSUME NEW c, AStep(c), Offers(c)
  PROVE  StepRow(c.op, RowOf(c)) /\ TakeRow(c.op, TakesOf(c))
<1>1. /\ c.op \in DOMAIN StepTakes
      /\ TakesOf(c) = StepTakes[c.op] /\ RowOf(c) = StepRequests[c.op]
  BY ByStep
<1>2. c.op \in DOMAIN StepRequests
  BY <1>1, StepTakesNames, StepRequestsNames
<1> QED BY <1>1, <1>2, StepRequestsRows, StepTakesRows DEF StepRows, TakeRows

LEMMA OfferedRows ==
  ASSUME NEW c \in Calls, Offers(c)
  PROVE  Typed(RowOf(c)) /\ LooksAt(c.op, RowOf(c))
<1>1. CASE c.front = "cli"
  BY <1>1, CommandRows DEF CliRow
<1>2. CASE c.front = "mcp"
  BY <1>2, ToolsRowsOf DEF MakesRow
<1>3. CASE AStep(c)
  BY <1>3, StepRowsOf DEF StepRow
<1> QED BY <1>1, <1>2, <1>3, CallsHave DEF Fronts, AStep

\* A frame that is named is sent along.
LEMMA FramesAreSent ==
  ASSUME NEW c \in Calls, Written(c), c.frame, Ignored \subseteq Unframed
  PROVE  /\ ~AStep(c)
         /\ InFrame(RowOf(c), IF c.front = "mcp" THEN RowOf(c).passes ELSE RowOf(c).scope)
<1>1. /\ Offers(c) /\ TakesFrame(c)
      /\ <<c.front, c.op>> \notin Ignored
  BY DEF Written
<1>2. ~AStep(c)
  BY <1>1, ByStep
<1>3. CASE c.front = "cli"
  <2>1. c.op \notin Unscoped
    BY <1>1, <1>3 DEF Ignored, Unscoped
  <2> QED BY <1>1, <1>2, <1>3, <2>1, CommandRows DEF CliRow
<1>4. CASE c.front = "mcp"
  <2>1. "frame" \in TakesOf(c).may
    BY <1>1, <1>4, ByTool
  <2>2. c.op \in FrameTools
    BY <1>1, <1>4, <2>1, ToolsRowsOf DEF ToolRow, SchemaRow
  <2>3. c.op \notin {"clear", "assert_checked", "assert_hidden", "assert_visible"}
    BY <1>1, <1>4 DEF Ignored
  <2> QED BY <1>1, <1>2, <1>4, <2>2, <2>3, ToolsRowsOf DEF MakesRow
<1> QED BY <1>2, <1>3, <1>4, CallsHave DEF Fronts, AStep

LEMMA ReadOnlyCallsAreQuiet ==
  ASSUME NEW c, ReadOnly(c)
  PROVE  RowOf(c).method \in QuietMethods /\ (RowOf(c).method = "wait" => c.op = "wait")
  BY ToolsRowsOf DEF ToolRow, MakesRow, ReadOnly

LEMMA AssertionsNeed ==
  ASSUME NEW c \in Calls, Offers(c)
  PROVE  /\ c.op \in TargetAssertions => "target" \in TakesOf(c).need
         /\ c.op = "assert_count" => "selector" \in TakesOf(c).need
<1>1. CASE c.front = "cli"
  BY <1>1, CommandRows DEF TakeRow, TargetAssertions
<1>2. CASE c.front = "mcp"
  BY <1>2, ToolsRowsOf DEF ToolRow, SchemaRow, TargetAssertions
<1>3. CASE AStep(c)
  BY <1>3, StepRowsOf DEF TakeRow, TargetAssertions
<1> QED BY <1>1, <1>2, <1>3, CallsHave DEF Fronts, AStep

NamesOf(c) == {WireName(a) : a \in Given(c) \cap RowOf(c).passes}

AskedOf(c) == [k \in NamesOf(c) |-> Sent(c, k)]

LEMMA RequestOfIs ==
  ASSUME NEW c
  PROVE  /\ RequestOf(c).method = RowOf(c).method
         /\ RequestOf(c).params = AskedOf(c) @@ RowOf(c).fills
         /\ RequestOf(c).window = IF RowOf(c).method = "windows.list" THEN None
                                  ELSE AskedWindow(c)
         /\ RequestOf(c).frame = (c.frame /\ IF c.front = "mcp" THEN "frame" \in RowOf(c).passes
                                            ELSE "frame" \in RowOf(c).scope)
  BY DEF RequestOf, Request, WithScope, AskedOf, NamesOf

LEMMA AskedRows ==
  ASSUME NEW c
  PROVE  /\ \A k : k \in DOMAIN RequestOf(c).params
                   <=> k \in NamesOf(c) \/ k \in DOMAIN RowOf(c).fills
         /\ \A k : k \in NamesOf(c) => RequestOf(c).params[k] = Sent(c, k)
         /\ \A k : k \in DOMAIN RowOf(c).fills /\ k \notin NamesOf(c)
                   => RequestOf(c).params[k] = RowOf(c).fills[k]
<1>1. DOMAIN AskedOf(c) = NamesOf(c)
  BY DEF AskedOf
<1>2. \A k : k \in NamesOf(c) => AskedOf(c)[k] = Sent(c, k)
  BY DEF AskedOf
<1>3. RequestOf(c).params = AskedOf(c) @@ RowOf(c).fills
  BY RequestOfIs
<1> HIDE DEF AskedOf
<1>4. \A k : k \in DOMAIN RequestOf(c).params
             <=> k \in NamesOf(c) \/ k \in DOMAIN RowOf(c).fills
  BY <1>1, <1>3, RowsDomain
<1>5. \A k : k \in NamesOf(c) => RequestOf(c).params[k] = Sent(c, k)
  BY <1>1, <1>2, <1>3, RowLeft
<1>6. \A k : k \in DOMAIN RowOf(c).fills /\ k \notin NamesOf(c)
             => RequestOf(c).params[k] = RowOf(c).fills[k]
  BY <1>1, <1>3, RowRight
<1> QED BY <1>4, <1>5, <1>6

LEMMA WireNames ==
  ASSUME NEW a
  PROVE  /\ WireName(a) \in {"target", "selector", "by", "source", "window_id", "expression"}
              => WireName(a) = a
         /\ a \in {"target", "selector", "by", "source", "window_id"} => WireName(a) = a
<1> DEFINE renamed == {"wait_for", "prompt_text", "delta_x", "delta_y", "content_type",
                       "failed", "require_mutation"}
<1>1. a \in renamed => WireName(a) \in {"waitFor", "promptText", "deltaX", "deltaY",
                                        "contentType", "failedOnly", "requireMutation"}
  BY SMT DEF WireName
<1>2. a \notin renamed => WireName(a) = a
  BY SMT DEF WireName
<1> QED BY <1>1, <1>2

\* A request is about an element exactly when the caller has named one.
LEMMA AimsAtPassed ==
  ASSUME NEW c \in Calls, Offers(c), Aims(RequestOf(c)), RowOf(c).method \notin PageViews
  PROVE  /\ RowOf(c).method \in ElementMethods \cup {"wait"}
         /\ RowOf(c).passes \cap {"target", "selector", "by", "source"} # {}
<1>1. RowOf(c).method \in ElementMethods \cup {"wait"}
  BY RequestOfIs, ElementReadsDomain DEF Aims, PageViews
<1>2. PICK k \in {"target", "selector", "by", "source"} : k \in DOMAIN RequestOf(c).params
  BY RequestOfIs DEF Aims, PageViews
<1>3. DOMAIN RowOf(c).fills \subseteq FillNames
  BY OfferedRows, FillsHave DEF Typed
<1>4. k \notin FillNames
  BY DEF FillNames
<1>5. k \in NamesOf(c)
  BY <1>2, <1>3, <1>4, AskedRows
<1>6. PICK a \in Given(c) \cap RowOf(c).passes : k = WireName(a)
  BY <1>5 DEF NamesOf
<1>7. a = k
  BY <1>6, WireNames
<1> QED BY <1>1, <1>6, <1>7

LEMMA AimsAtNeeded ==
  ASSUME NEW c \in Calls, Offers(c), TakesOf(c).need \subseteq c.args,
         c.op \in TargetAssertions \cup {"assert_count"}
  PROVE  Aims(RequestOf(c))
<1>1. Given(c) = c.args
  BY DEF Given, TargetAssertions
<1>2. PICK a \in {"target", "selector"} : a \in c.args /\ a \in RowOf(c).passes
  BY AssertionsNeed, OfferedRows DEF LooksAt, TargetAssertions
<1>3. a \in NamesOf(c)
  BY <1>1, <1>2, WireNames DEF NamesOf
<1>4. a \in DOMAIN RequestOf(c).params
  BY <1>3, AskedRows
<1>5. RowOf(c).method \in ElementMethods
  BY OfferedRows DEF LooksAt, TargetAssertions, ElementMethods
<1>6. RequestOf(c).method \in DOMAIN ElementReads
  BY <1>5, RequestOfIs, ElementReadsDomain
<1> QED BY <1>4, <1>6 DEF Aims

LEMMA AskedValues ==
  ASSUME NEW c \in Calls, Offers(c), "window_id" \in DOMAIN RequestOf(c).params
  PROVE  RequestOf(c).params["window_id"] = "asked"
<1>1. DOMAIN RowOf(c).fills \subseteq FillNames
  BY OfferedRows, FillsHave DEF Typed
<1>2. "window_id" \notin FillNames
  BY DEF FillNames
<1>3. Sent(c, "window_id") = "asked"
  BY CallsHave DEF Sent, Loose
<1> QED BY <1>1, <1>2, <1>3, AskedRows

\* An expression is only waited for when the caller gives one.
LEMMA ExpressionAsked ==
  ASSUME NEW c \in Calls, Offers(c), "expression" \in DOMAIN RequestOf(c).params
  PROVE  "expression" \in c.args
<1>1. DOMAIN RowOf(c).fills \subseteq FillNames
  BY OfferedRows, FillsHave DEF Typed
<1>2. "expression" \notin FillNames
  BY DEF FillNames
<1>3. "expression" \in NamesOf(c)
  BY <1>1, <1>2, AskedRows
<1>4. PICK a \in Given(c) : WireName(a) = "expression"
  BY <1>3 DEF NamesOf
<1>5. a = "expression"
  BY <1>4, WireNames
<1> QED BY <1>4, <1>5 DEF Given, Awaited

-----------------------------------------------------------------------------
(* The inductive invariant, part by part.                                  *)

Fields(r) ==
  r = [pc |-> r.pc, call |-> r.call, request |-> r.request, stage |-> r.stage,
       socket |-> r.socket, since |-> r.since, reply |-> r.reply, verdict |-> r.verdict,
       holds |-> r.holds, hits |-> r.hits, changes |-> r.changes, seen |-> r.seen,
       first |-> r.first, got |-> r.got, shown |-> r.shown, kept |-> r.kept, doc |-> r.doc]

Running(r) == r.pc \in {"resolved", "ready", "answered", "pause"}

WorldTyped ==
  /\ setup \in Setups
  /\ todo \in Seq(Calls) /\ \A i \in DOMAIN todo : Written(todo[i])
  /\ sockets \in Seq(Apps) /\ live \subseteq {sockets[i] : i \in DOMAIN sockets}
  /\ attached \in Apps \cup {None}
  /\ element \in [Windows \X Docs -> Elements]
  /\ log \in [doc : Nat, lo : Nat \ {0}, hi : Nat] /\ log.hi + 1 - log.lo \in 0 .. Cap
  /\ job = [j \in Callers |-> job[j]]

JobTyped(r) ==
  /\ Fields(r)
  /\ r.pc \in {"idle", "asked", "resolved", "ready", "answered", "pause", "done"}
  /\ r.pc = "idle" => r = Idle
  /\ r.pc # "idle" => r.call \in Calls /\ Written(r.call)
  /\ r.verdict \in Verdicts
  /\ r.stage \in {"first", "listing", "retry", "shot"}
  /\ r.socket \in Apps \cup {None}
  /\ r.changes \subseteq Aspects
  /\ Running(r) => r.socket # None /\ ~Refused(r.call)
  /\ r.pc = "answered" => r.reply \in Replies

\* What is being asked for at each stage of a call, and of which calls there
\* is more than one stage.
RequestOK(r) ==
  /\ r.pc \in {"asked", "resolved"} => r.stage = "first"
  /\ r.pc \in {"ready", "answered", "pause"} =>
      /\ r.stage = "first" => r.request = RequestOf(r.call)
      /\ r.stage \in {"listing", "retry"}
           => r.call.front = "cli" /\ RowOf(r.call).method = "screenshot_native"
      /\ r.stage = "listing" => r.request = Request("windows.list", Nothing, None, FALSE)
      /\ r.stage = "retry" => /\ r.request.method = "screenshot_native"
                              /\ "window_id" \in DOMAIN r.request.params
                              /\ r.request.params["window_id"] = Label(r.call.window)
      /\ r.stage = "shot" =>
           AStep(r.call) /\ r.request = Request("screenshot", Nothing, AskedWindow(r.call), FALSE)
      /\ r.pc = "answered" /\ r.reply = "wants_id" => r.request.method = "screenshot_native"
      /\ r.pc = "pause" => r.call.op = "logs.follow"
      /\ r.stage # "first" => r.call.op # "logs.follow"
      /\ r.call.op # "logs.follow" => r.got = <<>>

\* A server that is attached stays so, and its calls go there.
AttachOK(r) ==
  /\ r.since # None => attached = r.since
  /\ /\ r.socket # None /\ Served(r.call)
     /\ setup.socket = None /\ r.since # None
     => r.socket = r.since

Agrees(told, holds) ==
  /\ told = "passed"  => holds
  /\ told = "refuted" => ~holds

VerdictOK(r) ==
  r.pc # "idle" /\ r.call.op # "assert_exists" =>
    /\ r.pc = "answered" /\ r.stage \in {"first", "retry"}
         => Agrees(Verdict(r.call, r.reply), r.holds)
    /\ r.pc = "done" \/ r.stage = "shot" => Agrees(r.verdict, r.holds)

WhereAsked(c, h) ==
  /\ h[1] = Label(AskedWindow(c))
  /\ h[2] \in {"page", IF c.frame THEN "frame" ELSE "top"}
  /\ c.frame /\ Aims(RequestOf(c)) => h[2] # "top"

HitsOK(r) == r.pc # "idle" => \A h \in r.hits : WhereAsked(r.call, h)

ReadsOK(r) ==
  r.pc # "idle" /\ ReadOnly(r.call)
  => r.changes \subseteq {"refs", "baseline"} \cup ByExpression(r.call)

Entries == Nat \X Nat

\* One entry of a log comes before another.
Before(a, b) == a[1] < b[1] \/ (a[1] = b[1] /\ a[2] < b[2])

\* What came with the last answer counts as shown.
Opening(r) == IF r.shown # <<>> THEN r.shown[1] ELSE r.got[1]

Shows(s, doc, id) == \E m \in DOMAIN s : s[m] = <<doc, id>>

\* An entry of the first document that is older than what is shown, or there.
Accounted(r, id) ==
  /\ r.shown # <<>> \/ r.got # <<>>
  /\ id < Opening(r)[2] \/ Shows(r.shown, r.doc, id) \/ Shows(r.got, r.doc, id)

FollowTyped(r) ==
  /\ r.shown \in Seq(Entries) /\ r.got \in Seq(Entries) /\ r.kept \subseteq Nat
  /\ r.seen \in Nat /\ r.doc \in Nat
  /\ r.pc \notin {"answered", "done"} => r.got = <<>>
  /\ r.first \in BOOLEAN /\ (r.first => r.shown = <<>>)
  /\ r.shown = <<>> => r.seen = 0

FollowOrder(r, l) ==
  /\ \A m, n \in DOMAIN r.shown : m < n => Before(r.shown[m], r.shown[n])
  /\ \A m, n \in DOMAIN r.got : m < n => Before(r.got[m], r.got[n])
  /\ \A m \in DOMAIN r.shown, n \in DOMAIN r.got : Before(r.shown[m], r.got[n])
  /\ \A m, n \in DOMAIN r.got : r.got[m][1] = r.got[n][1]
  /\ \A m \in DOMAIN r.shown : /\ r.doc <= r.shown[m][1] /\ r.shown[m][1] <= l.doc
                               /\ r.shown[m][1] = l.doc => r.shown[m][2] <= r.seen
  /\ \A n \in DOMAIN r.got : r.doc <= r.got[n][1] /\ r.got[n][1] <= l.doc
  /\ r.doc <= l.doc

FollowKept(r, l) ==
  /\ \A id \in r.kept : Accounted(r, id)
  /\ l.doc = r.doc /\ r.shown # <<>> => \A id \in l.lo .. r.seen : Accounted(r, id)
  /\ l.doc = r.doc /\ r.got # <<>> =>
       \A id \in l.lo .. r.got[Len(r.got)][2] : Accounted(r, id)

FollowOK(r, l) == FollowTyped(r) /\ FollowOrder(r, l) /\ FollowKept(r, l)

-----------------------------------------------------------------------------
(* The fields of a record that has changed.                                *)

SameFollow(q, r) ==
  /\ q.seen = r.seen /\ q.first = r.first /\ q.got = r.got
  /\ q.shown = r.shown /\ q.kept = r.kept /\ q.doc = r.doc

LEMMA HasIdle == Fields(Idle)
  BY DEF Fields, Idle

LEMMA JobMoves ==
  ASSUME job = [k \in Callers |-> job[k]], NEW j \in Callers, NEW q,
         job' = [job EXCEPT ![j] = q]
  PROVE  /\ job' = [k \in Callers |-> job'[k]] /\ job'[j] = q
         /\ \A k \in Callers : k # j => job'[k] = job[k]
  OBVIOUS

-----------------------------------------------------------------------------
(* Logs that are followed.                                                 *)

Logs == {l \in [doc : Nat, lo : Nat \ {0}, hi : Nat] : l.hi + 1 - l.lo \in 0 .. Cap}

\* Entries come and go, and the page is loaded anew.
Grows(old, new) == old.doc < new.doc \/ (new.doc = old.doc /\ old.lo <= new.lo)

LEMMA EntriesOf ==
  ASSUME NEW s \in Seq(Entries), NEW m \in DOMAIN s
  PROVE  s[m][1] \in Nat /\ s[m][2] \in Nat /\ m \in 1 .. Len(s)
  BY DEF Entries

LEMMA FollowSame ==
  ASSUME NEW l, NEW r, FollowOK(r, l), NEW q, SameFollow(q, r),
         q.pc \notin {"answered", "done"} => q.got = <<>>
  PROVE  FollowOK(q, l)
<1>1. FollowTyped(q)
  BY DEF FollowOK, FollowTyped, SameFollow
<1>2. FollowOrder(q, l)
  BY Zenon DEF FollowOK, FollowOrder, SameFollow
<1>3. \A id : Accounted(r, id) => Accounted(q, id)
  BY Zenon DEF Accounted, Opening, SameFollow
<1>4. FollowKept(q, l)
  BY <1>3, Zenon DEF FollowOK, FollowKept, SameFollow
<1> QED BY <1>1, <1>2, <1>4 DEF FollowOK

LEMMA FollowGrows ==
  ASSUME NEW old \in Logs, NEW new \in Logs, Grows(old, new), NEW r, FollowOK(r, old)
  PROVE  FollowOK(r, new)
<1>1. FollowTyped(r) /\ FollowOrder(r, old) /\ FollowKept(r, old)
  BY DEF FollowOK
<1>2. /\ old.doc \in Nat /\ new.doc \in Nat /\ old.lo \in Nat /\ new.lo \in Nat
  BY DEF Logs
<1>3. r.doc \in Nat /\ r.seen \in Nat /\ r.shown \in Seq(Entries) /\ r.got \in Seq(Entries)
  BY <1>1 DEF FollowTyped
<1>4. old.doc <= new.doc /\ (old.doc = new.doc => old.lo <= new.lo)
  BY <1>2 DEF Grows
<1>5. r.doc <= old.doc
  BY <1>1 DEF FollowOrder
<1>6. FollowOrder(r, new)
  <2>1. ASSUME NEW m \in DOMAIN r.shown
        PROVE  /\ r.doc <= r.shown[m][1] /\ r.shown[m][1] <= new.doc
               /\ r.shown[m][1] = new.doc => r.shown[m][2] <= r.seen
    <3>1. r.shown[m][1] \in Nat /\ r.shown[m][2] \in Nat
      BY <1>3, EntriesOf
    <3>2. /\ r.doc <= r.shown[m][1] /\ r.shown[m][1] <= old.doc
          /\ r.shown[m][1] = old.doc => r.shown[m][2] <= r.seen
      BY <1>1 DEF FollowOrder
    <3> QED BY <1>2, <1>3, <1>4, <3>1, <3>2
  <2>2. ASSUME NEW n \in DOMAIN r.got
        PROVE  r.doc <= r.got[n][1] /\ r.got[n][1] <= new.doc
    <3>1. r.got[n][1] \in Nat
      BY <1>3, EntriesOf
    <3>2. r.doc <= r.got[n][1] /\ r.got[n][1] <= old.doc
      BY <1>1 DEF FollowOrder
    <3> QED BY <1>2, <1>3, <1>4, <3>1, <3>2
  <2>3. r.doc <= new.doc
    BY <1>2, <1>3, <1>4, <1>5
  <2> QED BY <1>1, <2>1, <2>2, <2>3, Zenon DEF FollowOrder
<1>7. FollowKept(r, new)
  <2>1. new.doc = r.doc => old.doc = r.doc /\ old.lo <= new.lo
    BY <1>2, <1>3, <1>4, <1>5
  <2>2. ASSUME NEW n, new.doc = r.doc, NEW id \in new.lo .. n, n \in Int
        PROVE  id \in old.lo .. n
    BY <1>2, <2>1, <2>2
  <2>3. r.got # <<>> => r.got[Len(r.got)][2] \in Nat
    <3> SUFFICES ASSUME r.got # <<>> PROVE r.got[Len(r.got)][2] \in Nat
      OBVIOUS
    <3>1. Len(r.got) \in DOMAIN r.got
      BY <1>3, EmptySeq, LenProperties
    <3> QED BY <1>3, <3>1, EntriesOf
  <2>4. new.doc = r.doc /\ r.shown # <<>> => \A id \in new.lo .. r.seen : Accounted(r, id)
    BY <1>1, <1>3, <2>1, <2>2 DEF FollowKept
  <2>5. new.doc = r.doc /\ r.got # <<>> =>
          \A id \in new.lo .. r.got[Len(r.got)][2] : Accounted(r, id)
    BY <1>1, <2>1, <2>2, <2>3 DEF FollowKept
  <2> QED BY <1>1, <2>4, <2>5 DEF FollowKept
<1> QED BY <1>1, <1>6, <1>7 DEF FollowOK

\* Nothing is lost of what was accounted for when an answer comes.
LEMMA AccountedStill ==
  ASSUME NEW r, r.got = <<>>, NEW q, q.shown = r.shown, q.doc = r.doc,
         NEW id, Accounted(r, id)
  PROVE  Accounted(q, id)
<1>1. ~Shows(r.got, r.doc, id)
  BY DEF Shows
<1>2. r.shown # <<>>
  BY DEF Accounted
<1> QED BY <1>1, <1>2, Zenon DEF Accounted, Opening

\* From where a poll reads: Since.
From(r, l) == IF r.seen >= l.lo THEN r.seen + 1 ELSE l.lo

LEMMA FollowServed ==
  ASSUME NEW l \in Logs, NEW r, FollowOK(r, l), r.got = <<>>,
         NEW lo, \/ lo = From(r, l)
                 \/ r.first /\ lo = l.hi /\ l.hi >= From(r, l),
         NEW n, n = (IF l.hi >= lo THEN l.hi + 1 - lo ELSE 0),
         NEW g, g = [i \in 1 .. n |-> <<l.doc, lo + i - 1>>],
         NEW q, q.pc = "answered", q.got = g,
         q.shown = r.shown, q.seen = r.seen, q.doc = r.doc, q.first = r.first,
         \/ q.kept = r.kept
         \/ l.doc = r.doc /\ q.kept = r.kept \cup (l.lo .. l.hi)
  PROVE  FollowOK(q, l)
<1>1. FollowTyped(r) /\ FollowOrder(r, l) /\ FollowKept(r, l)
  BY DEF FollowOK
<1>2. l.doc \in Nat /\ l.lo \in Nat /\ l.lo >= 1 /\ l.hi \in Nat
  BY DEF Logs
<1>3. /\ r.doc \in Nat /\ r.seen \in Nat /\ r.shown \in Seq(Entries) /\ r.kept \subseteq Nat
      /\ r.first \in BOOLEAN /\ (r.first => r.shown = <<>>) /\ (r.shown = <<>> => r.seen = 0)
  BY <1>1 DEF FollowTyped
<1>4. From(r, l) \in Nat /\ From(r, l) > r.seen /\ From(r, l) >= 1
      /\ (From(r, l) # l.lo => r.seen >= l.lo /\ From(r, l) = r.seen + 1)
  BY <1>2, <1>3 DEF From
<1>5. lo \in Nat /\ lo > r.seen /\ lo >= 1
  BY <1>2, <1>3, <1>4
<1>6. n \in Nat
  BY <1>2, <1>5
<1>7. /\ g \in Seq(Entries) /\ Len(g) = n /\ DOMAIN g = 1 .. n
      /\ \A i \in 1 .. n : g[i] = <<l.doc, lo + i - 1>>
  <2>1. \A i \in 1 .. n : <<l.doc, lo + i - 1>> \in Entries
    BY <1>2, <1>5, <1>6 DEF Entries
  <2>2. g \in Seq(Entries) /\ Len(g) = n
    BY <1>6, <2>1, IsASeq
  <2> QED BY <2>2
<1>8. g # <<>> <=> n >= 1
  BY <1>6, <1>7, EmptySeq
<1>9. n >= 1 => g[Len(g)][2] = l.hi /\ g[1][2] = lo /\ l.hi >= lo
  BY <1>2, <1>5, <1>6, <1>7
<1>10. r.doc <= l.doc
  BY <1>1 DEF FollowOrder
<1> HIDE DEF From
<1>11. FollowTyped(q)
  <2>1. q.kept \subseteq Nat
    BY <1>2, <1>3
  <2> QED BY <1>3, <1>7, <2>1 DEF FollowTyped
<1>12. FollowOrder(q, l)
  <2>1. \A m, k \in DOMAIN q.got : m < k => Before(q.got[m], q.got[k])
    BY <1>5, <1>6, <1>7 DEF Before
  <2>2. ASSUME NEW m \in DOMAIN q.shown, NEW k \in DOMAIN q.got
        PROVE  Before(q.shown[m], q.got[k])
    <3>1. q.shown[m][1] \in Nat /\ q.shown[m][2] \in Nat
      BY <1>3, EntriesOf
    <3>2. q.shown[m][1] <= l.doc /\ (q.shown[m][1] = l.doc => q.shown[m][2] <= r.seen)
      BY <1>1 DEF FollowOrder
    <3>3. q.got[k][1] = l.doc /\ q.got[k][2] >= lo /\ q.got[k][2] \in Nat
      BY <1>5, <1>6, <1>7
    <3>4. q.shown[m][1] = l.doc => q.shown[m][2] < q.got[k][2]
      BY <1>3, <1>5, <3>1, <3>2, <3>3
    <3>5. q.shown[m][1] < l.doc \/ q.shown[m][1] = l.doc
      BY <1>2, <3>1, <3>2
    <3> QED BY <3>3, <3>4, <3>5, Zenon DEF Before
  <2>3. \A k \in DOMAIN q.got : q.got[k][1] = l.doc
    BY <1>7
  <2>4. \A k \in DOMAIN q.got : q.doc <= q.got[k][1] /\ q.got[k][1] <= l.doc
    BY <1>2, <1>3, <1>10, <2>3
  <2>5. \A m, k \in DOMAIN q.got : q.got[m][1] = q.got[k][1]
    BY <2>3
  <2> QED BY <1>1, <2>1, <2>2, <2>4, <2>5, Zenon DEF FollowOrder
<1>13. ASSUME l.doc = q.doc, q.got # <<>>, NEW id \in l.lo .. q.got[Len(q.got)][2]
       PROVE  Accounted(q, id)
  <2>1. n >= 1 /\ q.got[Len(q.got)][2] = l.hi
    BY <1>8, <1>9, <1>13
  <2>2. id \in Nat /\ id <= l.hi
    BY <1>2, <1>13, <2>1
  <2>3. CASE id >= lo
    <3>1. id + 1 - lo \in 1 .. n
      BY <1>2, <1>5, <1>6, <1>9, <2>1, <2>2, <2>3
    <3>2. g[id + 1 - lo] = <<q.doc, id>>
      BY <1>5, <1>7, <1>13, <2>1, <2>2, <3>1
    <3> QED BY <1>7, <1>13, <3>1, <3>2, ZenonT(60) DEF Accounted, Shows
  <2>4. CASE id < lo /\ lo = From(r, l)
    <3>1. r.seen >= l.lo /\ id <= r.seen
      BY <1>2, <1>3, <1>4, <1>13, <2>1, <2>2, <2>4
    <3>2. r.shown # <<>>
      BY <1>2, <1>3, <3>1
    <3>3. id \in l.lo .. r.seen
      BY <1>2, <1>3, <1>13, <2>1, <2>2, <3>1
    <3>4. Accounted(r, id)
      BY <1>1, <1>13, <3>2, <3>3 DEF FollowKept
    <3> QED BY <3>4, AccountedStill
  <2>5. CASE id < lo /\ r.first
    <3>1. q.shown = <<>>
      BY <1>3, <2>5
    <3>2. Opening(q) = g[1]
      BY <3>1 DEF Opening
    <3> QED BY <1>9, <1>13, <2>1, <2>2, <2>5, <3>2 DEF Accounted
  <2> QED BY <1>2, <1>5, <2>1, <2>2, <2>3, <2>4, <2>5
<1>14. FollowKept(q, l)
  <2>1. ASSUME NEW id \in r.kept
        PROVE  Accounted(q, id)
    <3>1. Accounted(r, id)
      BY <1>1 DEF FollowKept
    <3> QED BY <3>1, AccountedStill
  <2>2. ASSUME l.doc = r.doc, NEW id \in l.lo .. l.hi
        PROVE  Accounted(q, id)
    <3>1. CASE n >= 1
      BY <1>8, <1>9, <1>13, <2>2, <3>1
    <3>2. CASE n < 1
      <4>1. l.hi < lo
        BY <1>2, <1>5, <3>2
      <4>2. lo = From(r, l)
        BY <1>2, <4>1
      <4>3. r.seen >= l.lo /\ id <= r.seen
        BY <1>2, <1>3, <1>4, <2>2, <4>1, <4>2
      <4>4. r.shown # <<>> /\ id \in l.lo .. r.seen
        BY <1>2, <1>3, <2>2, <4>3
      <4>5. Accounted(r, id)
        BY <1>1, <2>2, <4>4 DEF FollowKept
      <4> QED BY <4>5, AccountedStill
    <3> QED BY <1>6, <3>1, <3>2
  <2>3. \A id \in q.kept : Accounted(q, id)
    BY <2>1, <2>2
  <2>4. ASSUME l.doc = q.doc, q.shown # <<>>, NEW id \in l.lo .. q.seen
        PROVE  Accounted(q, id)
    <3>1. Accounted(r, id)
      BY <1>1, <2>4 DEF FollowKept
    <3> QED BY <3>1, AccountedStill
  <2> QED BY <1>13, <2>3, <2>4 DEF FollowKept
<1> QED BY <1>11, <1>12, <1>14 DEF FollowOK

\* Two pieces of a log, one behind the other: the second from n + 1 on.
Join(s, g, t, n) ==
  /\ t \in Seq(Entries) /\ (t = <<>> <=> s = <<>> /\ g = <<>>)
  /\ \A i \in DOMAIN t : \/ i \in DOMAIN s /\ t[i] = s[i]
                        \/ \E k \in DOMAIN g : i = n + k /\ t[i] = g[k]
  /\ \A i \in DOMAIN s : i \in DOMAIN t /\ t[i] = s[i] /\ i \in Nat /\ i <= n
  /\ \A k \in DOMAIN g : n + k \in DOMAIN t /\ t[n + k] = g[k] /\ k \in Nat /\ k >= 1
  /\ t # <<>> => t[1] = IF s # <<>> THEN s[1] ELSE g[1]

LEMMA Joined ==
  ASSUME NEW s \in Seq(Entries), NEW g \in Seq(Entries), NEW t, t = s \o g
  PROVE  \E n \in Nat : Join(s, g, t, n)
<1>1. PICK n \in Nat : n = Len(s)
  BY LenProperties
<1>2. PICK k \in Nat : k = Len(g)
  BY LenProperties
<1>3. /\ t \in Seq(Entries) /\ Len(t) = n + k
      /\ \A i \in 1 .. n + k : t[i] = IF i <= n THEN s[i] ELSE g[i - n]
  BY <1>1, <1>2, ConcatProperties, Zenon
<1>4. DOMAIN t = 1 .. n + k /\ DOMAIN s = 1 .. n /\ DOMAIN g = 1 .. k
  BY <1>1, <1>2, <1>3, LenProperties, Zenon
<1>5. (t = <<>> <=> n + k = 0) /\ (s = <<>> <=> n = 0) /\ (g = <<>> <=> k = 0)
  BY <1>1, <1>2, <1>3, EmptySeq, Zenon
<1>6. \A i \in 1 .. n + k : t[i] = IF i <= n THEN s[i] ELSE g[i - n]
  BY <1>3
<1> HIDE DEF Entries
<1>7. n + k = 0 <=> n = 0 /\ k = 0
  OBVIOUS
<1>8. ASSUME NEW i \in DOMAIN t
      PROVE  \/ i \in DOMAIN s /\ t[i] = s[i]
             \/ \E m \in DOMAIN g : i = n + m /\ t[i] = g[m]
  <2>1. i \in 1 .. n + k
    BY <1>4
  <2>2. CASE i <= n
    BY <1>4, <1>6, <2>1, <2>2
  <2>3. CASE ~(i <= n)
    <3>1. i - n \in DOMAIN g /\ i = n + (i - n)
      BY <1>4, <2>1, <2>3
    <3>2. t[i] = g[i - n]
      BY <1>6, <2>1, <2>3, Zenon
    <3> QED BY <3>1, <3>2
  <2> QED BY <2>2, <2>3
<1>9. ASSUME NEW i \in DOMAIN s
      PROVE  i \in DOMAIN t /\ t[i] = s[i] /\ i \in Nat /\ i <= n
  <2>1. i \in 1 .. n + k /\ i \in Nat /\ i <= n
    BY <1>4
  <2> QED BY <1>4, <1>6, <2>1, Zenon
<1>10. ASSUME NEW m \in DOMAIN g
       PROVE  n + m \in DOMAIN t /\ t[n + m] = g[m] /\ m \in Nat /\ m >= 1
  <2>1. n + m \in 1 .. n + k /\ m \in Nat /\ m >= 1 /\ ~(n + m <= n) /\ (n + m) - n = m
    BY <1>4
  <2> QED BY <1>4, <1>6, <2>1, Zenon
<1>11. t # <<>> => t[1] = IF s # <<>> THEN s[1] ELSE g[1]
  <2> SUFFICES ASSUME t # <<>> PROVE t[1] = IF s # <<>> THEN s[1] ELSE g[1]
    OBVIOUS
  <2>1. 1 \in 1 .. n + k /\ (n # 0 <=> 1 <= n) /\ (n = 0 => 1 - n = 1)
    BY <1>5
  <2>2. t[1] = IF 1 <= n THEN s[1] ELSE g[1 - n]
    BY <1>6, <2>1, Zenon
  <2>3. CASE n = 0
    BY <1>5, <2>1, <2>2, <2>3, Zenon
  <2>4. CASE n # 0
    BY <1>5, <2>1, <2>2, <2>4, Zenon
  <2> QED BY <2>3, <2>4
<1>12. t = <<>> <=> s = <<>> /\ g = <<>>
  BY <1>5, <1>7, Zenon
<1>13. Join(s, g, t, n)
  BY <1>3, <1>8, <1>9, <1>10, <1>11, <1>12, Zenon DEF Join
<1> QED BY <1>13

LEMMA FollowShown ==
  ASSUME NEW l \in Logs, NEW r, FollowOK(r, l),
         NEW q, q.got = <<>>, q.shown = r.shown \o r.got, q.first = FALSE,
         q.kept = r.kept, q.doc = r.doc,
         q.seen = IF r.got = <<>> THEN r.seen ELSE r.got[Len(r.got)][2]
  PROVE  FollowOK(q, l)
<1>1. FollowTyped(r) /\ FollowOrder(r, l) /\ FollowKept(r, l)
  BY DEF FollowOK
<1>2. /\ r.shown \in Seq(Entries) /\ r.got \in Seq(Entries)
      /\ r.doc \in Nat /\ r.seen \in Nat /\ r.kept \subseteq Nat /\ l.doc \in Nat
      /\ (r.shown = <<>> => r.seen = 0)
  BY <1>1 DEF FollowTyped, Logs
<1>3. PICK s \in Seq(Entries) : s = r.shown
  BY <1>2
<1>4. PICK g \in Seq(Entries) : g = r.got
  BY <1>2
<1>5. PICK t : t = q.shown /\ t = s \o g
  BY <1>3, <1>4, Zenon
<1>6. PICK n \in Nat : Join(s, g, t, n)
  BY <1>5, Joined
<1>7. /\ t \in Seq(Entries) /\ (t = <<>> <=> s = <<>> /\ g = <<>>)
      /\ \A i \in DOMAIN t : \/ i \in DOMAIN s /\ t[i] = s[i]
                            \/ \E k \in DOMAIN g : i = n + k /\ t[i] = g[k]
      /\ \A i \in DOMAIN s : i \in DOMAIN t /\ t[i] = s[i] /\ i \in Nat /\ i <= n
      /\ \A k \in DOMAIN g : n + k \in DOMAIN t /\ t[n + k] = g[k] /\ k \in Nat /\ k >= 1
      /\ t # <<>> => t[1] = IF s # <<>> THEN s[1] ELSE g[1]
  BY <1>6, Zenon DEF Join
<1>8. /\ \A a, b \in DOMAIN s : a < b => Before(s[a], s[b])
      /\ \A a, b \in DOMAIN g : a < b => Before(g[a], g[b])
      /\ \A a \in DOMAIN s, b \in DOMAIN g : Before(s[a], g[b])
      /\ \A a, b \in DOMAIN g : g[a][1] = g[b][1]
      /\ \A a \in DOMAIN s : /\ r.doc <= s[a][1] /\ s[a][1] <= l.doc
                             /\ s[a][1] = l.doc => s[a][2] <= r.seen
      /\ \A b \in DOMAIN g : r.doc <= g[b][1] /\ g[b][1] <= l.doc
      /\ r.doc <= l.doc
  BY <1>1, <1>3, <1>4, Zenon DEF FollowOrder
<1>9. \A a \in DOMAIN g : g[a][1] \in Nat /\ g[a][2] \in Nat
  BY EntriesOf
<1>10. \A a \in DOMAIN s : s[a][1] \in Nat /\ s[a][2] \in Nat
  BY EntriesOf
<1>11. PICK e : e = Len(g)
  OBVIOUS
<1>12. g # <<>> => e \in DOMAIN g /\ (\A a \in DOMAIN g : a \in Nat /\ a <= e)
  <2>1. DOMAIN g = 1 .. Len(g) /\ Len(g) \in Nat /\ (Len(g) = 0 => g = <<>>)
    BY LenProperties, EmptySeq
  <2> QED BY <1>11, <2>1
<1>13. q.seen = (IF g = <<>> THEN r.seen ELSE g[e][2]) /\ q.seen \in Nat
  BY <1>2, <1>4, <1>9, <1>11, <1>12
<1>14. DOMAIN q.got = {} /\ q.got \in Seq(Entries)
  BY EmptySeq
<1>15. FollowTyped(q)
  <2>1. q.shown = <<>> => q.seen = 0
    BY <1>2, <1>3, <1>5, <1>7, <1>13, Zenon
  <2> QED BY <1>2, <1>5, <1>7, <1>13, <1>14, <2>1, Zenon DEF FollowTyped
<1>16. FollowOrder(q, l)
  <2>1. ASSUME NEW a \in DOMAIN t, NEW b \in DOMAIN t, a < b
        PROVE  Before(t[a], t[b])
    <3>1. CASE b \in DOMAIN s /\ t[b] = s[b]
      <4>1. CASE a \in DOMAIN s /\ t[a] = s[a]
        BY <1>8, <2>1, <3>1, <4>1, Zenon
      <4>2. ASSUME NEW k \in DOMAIN g, a = n + k
            PROVE  FALSE
        BY <1>7, <2>1, <3>1, <4>2
      <4> QED BY <1>7, <4>1, <4>2, Zenon
    <3>2. ASSUME NEW m \in DOMAIN g, b = n + m, t[b] = g[m]
          PROVE  Before(t[a], t[b])
      <4>1. CASE a \in DOMAIN s /\ t[a] = s[a]
        BY <1>8, <3>2, <4>1, Zenon
      <4>2. ASSUME NEW k \in DOMAIN g, a = n + k, t[a] = g[k]
            PROVE  Before(t[a], t[b])
        <5>1. k < m
          BY <1>7, <2>1, <3>2, <4>2
        <5> QED BY <1>8, <3>2, <4>2, <5>1, Zenon
      <4> QED BY <1>7, <4>1, <4>2, Zenon
    <3> QED BY <1>7, <3>1, <3>2, Zenon
  <2>2. ASSUME NEW a \in DOMAIN t
        PROVE  /\ q.doc <= t[a][1] /\ t[a][1] <= l.doc
               /\ t[a][1] = l.doc => t[a][2] <= q.seen
    <3>1. CASE a \in DOMAIN s /\ t[a] = s[a]
      <4>1. CASE g = <<>>
        BY <1>8, <1>13, <3>1, <4>1, Zenon
      <4>2. CASE g # <<>>
        <5>1. Before(s[a], g[e]) /\ g[e][1] <= l.doc
          BY <1>8, <1>12, <3>1, <4>2, Zenon
        <5>2. q.seen = g[e][2]
          BY <1>13, <4>2
        <5>3. /\ s[a][1] \in Nat /\ s[a][2] \in Nat
              /\ g[e][1] \in Nat /\ g[e][2] \in Nat
          BY <1>9, <1>10, <1>12, <3>1, <4>2, Zenon
        <5>4. r.doc <= s[a][1] /\ s[a][1] <= l.doc
          BY <1>8, <3>1, Zenon
        <5>5. s[a][1] = l.doc => s[a][2] <= g[e][2]
          BY <1>2, <5>1, <5>3 DEF Before
        <5> QED BY <3>1, <5>2, <5>4, <5>5, Zenon
      <4> QED BY <4>1, <4>2
    <3>2. ASSUME NEW k \in DOMAIN g, t[a] = g[k]
          PROVE  /\ q.doc <= t[a][1] /\ t[a][1] <= l.doc
                 /\ t[a][1] = l.doc => t[a][2] <= q.seen
      <4>1. g # <<>>
        BY <3>2
      <4>2. e \in DOMAIN g /\ k \in Nat /\ k <= e /\ e \in Nat
        BY <1>12, <4>1
      <4>3. k = e \/ Before(g[k], g[e])
        BY <1>8, <4>2
      <4>4. g[k][1] = g[e][1] /\ g[k][1] \in Nat /\ g[k][2] \in Nat /\ g[e][2] \in Nat
        BY <1>8, <1>9, <4>2, Zenon
      <4>5. g[k][2] <= g[e][2]
        BY <4>3, <4>4 DEF Before
      <4> QED BY <1>8, <1>13, <3>2, <4>1, <4>5, Zenon
    <3> QED BY <1>7, <3>1, <3>2, Zenon
  <2> QED BY <1>5, <1>8, <1>14, <2>1, <2>2, Zenon DEF FollowOrder
<1>17. ASSUME NEW id, Accounted(r, id)
       PROVE  Accounted(q, id)
  <2>1. t # <<>>
    BY <1>3, <1>4, <1>7, <1>17, Zenon DEF Accounted
  <2>2. Opening(q) = Opening(r)
    BY <1>3, <1>4, <1>5, <1>7, <2>1, Zenon DEF Opening
  <2>3. CASE id < Opening(r)[2]
    BY <1>5, <2>1, <2>2, <2>3, Zenon DEF Accounted
  <2>4. CASE Shows(r.shown, r.doc, id)
    <3>1. PICK m \in DOMAIN s : s[m] = <<r.doc, id>>
      BY <1>3, <2>4 DEF Shows
    <3>2. m \in DOMAIN t /\ t[m] = <<q.doc, id>>
      BY <1>7, <3>1, Zenon
    <3> QED BY <1>5, <2>1, <3>2, Zenon DEF Accounted, Shows
  <2>5. CASE Shows(r.got, r.doc, id)
    <3>1. PICK m \in DOMAIN g : g[m] = <<r.doc, id>>
      BY <1>4, <2>5 DEF Shows
    <3>2. n + m \in DOMAIN t /\ t[n + m] = <<q.doc, id>>
      BY <1>7, <3>1, Zenon
    <3> QED BY <1>5, <2>1, <3>2, Zenon DEF Accounted, Shows
  <2> QED BY <1>17, <2>3, <2>4, <2>5, Zenon DEF Accounted
<1>18. FollowKept(q, l)
  <2>1. \A id \in q.kept : Accounted(q, id)
    BY <1>1, <1>17, Zenon DEF FollowKept
  <2>2. ASSUME l.doc = q.doc, q.shown # <<>>, NEW id \in l.lo .. q.seen
        PROVE  Accounted(q, id)
    <3>1. CASE g = <<>>
      <4>1. r.shown # <<>> /\ q.seen = r.seen
        BY <1>3, <1>5, <1>7, <1>13, <2>2, <3>1, Zenon
      <4>2. Accounted(r, id)
        BY <1>1, <2>2, <4>1, Zenon DEF FollowKept
      <4> QED BY <1>17, <4>2
    <3>2. CASE g # <<>>
      <4>1. q.seen = r.got[Len(r.got)][2] /\ r.got # <<>>
        BY <1>4, <1>11, <1>13, <3>2, Zenon
      <4>2. Accounted(r, id)
        BY <1>1, <2>2, <4>1, Zenon DEF FollowKept
      <4> QED BY <1>17, <4>2
    <3> QED BY <3>1, <3>2
  <2> QED BY <2>1, <2>2, Zenon DEF FollowKept
<1> QED BY <1>15, <1>16, <1>18 DEF FollowOK

LEMMA FollowIdle ==
  ASSUME NEW l \in Logs, NEW q, q.shown = <<>>, q.got = <<>>, q.kept = {}, q.seen = 0,
         q.first = TRUE, q.doc \in Nat, q.doc <= l.doc
  PROVE  FollowOK(q, l)
<1>1. <<>> \in Seq(Entries) /\ DOMAIN q.shown = {} /\ DOMAIN q.got = {}
  BY EmptySeq
<1>2. q.seen \in Nat /\ q.kept \subseteq Nat
  OBVIOUS
<1>3. FollowTyped(q)
  BY <1>1, <1>2, Zenon DEF FollowTyped
<1>4. FollowOrder(q, l)
  BY <1>1 DEF FollowOrder
<1>5. FollowKept(q, l)
  BY DEF FollowKept
<1> QED BY <1>3, <1>4, <1>5 DEF FollowOK

-----------------------------------------------------------------------------
(* A call stays as it is while the world moves on.                         *)

JobInv(r) == JobTyped(r) /\ RequestOK(r) /\ AttachOK(r) /\ ReadsOK(r) /\ FollowOK(r, log)

IInv == WorldTyped /\ \A j \in Callers : JobInv(job[j])

WorldMoves ==
  /\ setup' = setup /\ (attached # None => attached' = attached)
  /\ log \in Logs /\ log' \in Logs /\ Grows(log, log')

LEMMA AskedWindowStays ==
  ASSUME setup' = setup, NEW c
  PROVE  AskedWindow(c)' = AskedWindow(c)
  BY DEF AskedWindow, Served

LEMMA RequestStays ==
  ASSUME setup' = setup, NEW c
  PROVE  RequestOf(c)' = RequestOf(c)
  BY AskedWindowStays DEF RequestOf, WithScope

LEMMA RefusedStays ==
  ASSUME setup' = setup, NEW c
  PROVE  Refused(c)' = Refused(c)
  BY DEF Refused

LEMMA JobStays ==
  ASSUME WorldMoves, NEW r, JobInv(r)
  PROVE  JobInv(r)'
<1>1. setup' = setup /\ (attached # None => attached' = attached)
  BY DEF WorldMoves
<1>2. JobTyped(r)'
  BY <1>1, RefusedStays DEF JobInv, JobTyped
<1>3. RequestOK(r)'
  BY <1>1, RequestStays, AskedWindowStays DEF JobInv, RequestOK
<1>4. AttachOK(r)'
  BY <1>1 DEF JobInv, AttachOK
<1>5. ReadsOK(r)'
  BY DEF JobInv, ReadsOK
<1>6. FollowOK(r, log')
  BY FollowGrows DEF JobInv, WorldMoves
<1>7. FollowOK(r, log)'
  BY <1>6
<1> QED BY <1>2, <1>3, <1>4, <1>5, <1>7 DEF JobInv

LEMMA AllStay ==
  ASSUME WorldMoves, \A k \in Callers : JobInv(job[k]), UNCHANGED job
  PROVE  \A k \in Callers : JobInv(job[k])'
<1> SUFFICES ASSUME NEW k \in Callers
             PROVE  JobInv(job[k])'
  OBVIOUS
<1>1. PICK r : r = job[k] /\ r = job'[k]
  OBVIOUS
<1>2. JobInv(r)'
  BY <1>1, JobStays
<1> QED BY <1>1, <1>2

LEMMA OneMoves ==
  ASSUME WorldMoves, \A k \in Callers : JobInv(job[k]), job = [k \in Callers |-> job[k]],
         NEW j \in Callers, NEW q, Becomes(j, q), JobInv(q)
  PROVE  \A k \in Callers : JobInv(job[k])'
<1> SUFFICES ASSUME NEW k \in Callers
             PROVE  JobInv(job[k])'
  OBVIOUS
<1>1. job'[j] = q /\ (k # j => job'[k] = job[k])
  BY JobMoves DEF Becomes
<1>2. PICK r : r = job'[k]
  OBVIOUS
<1>3. JobInv(r)
  BY <1>1, <1>2
<1>4. JobInv(r)'
  BY <1>3, JobStays
<1> QED BY <1>2, <1>4

-----------------------------------------------------------------------------
(* What each action makes of its call.                                     *)

LEMMA JobHas ==
  ASSUME NEW r, JobInv(r)
  PROVE  /\ Fields(r) /\ JobTyped(r) /\ RequestOK(r) /\ AttachOK(r) /\ ReadsOK(r)
         /\ FollowOK(r, log) /\ FollowTyped(r)
  BY DEF JobInv, JobTyped, FollowOK

LEMMA EndedJob ==
  ASSUME NEW r, JobInv(r), r.pc # "idle", NEW v \in Verdicts, NEW q, q = Ended(r, v)
  PROVE  JobInv(q)
<1>1. /\ Fields(q) /\ q.pc = "done" /\ q.verdict = v
      /\ q.call = r.call /\ q.request = r.request /\ q.stage = r.stage
      /\ q.socket = r.socket /\ q.since = r.since /\ q.changes = r.changes
      /\ SameFollow(q, r)
  <2>1. q = [r EXCEPT !.pc = "done", !.verdict = v]
    BY DEF Ended
  <2>2. Fields(r)
    BY JobHas
  <2> QED BY <2>1, <2>2 DEF Fields, SameFollow
<1>2. FollowOK(q, log)
  BY <1>1, JobHas, FollowSame
<1>3. JobTyped(q)
  BY <1>1, JobHas DEF JobTyped, Running
<1>4. RequestOK(q)
  BY <1>1 DEF RequestOK
<1>5. AttachOK(q)
  BY <1>1, JobHas, Zenon DEF AttachOK
<1>6. ReadsOK(q)
  BY <1>1, JobHas, Zenon DEF ReadsOK
<1> QED BY <1>2, <1>3, <1>4, <1>5, <1>6 DEF JobInv

LEMMA IdleJob ==
  ASSUME WorldTyped
  PROVE  JobInv(Idle)
<1>1. PICK q : q = Idle
  OBVIOUS
<1>2. /\ q.pc = "idle" /\ q.stage = "first" /\ q.socket = None /\ q.since = None
      /\ q.verdict = None /\ q.changes = {} /\ q.seen = 0 /\ q.first = TRUE
      /\ q.got = <<>> /\ q.shown = <<>> /\ q.kept = {} /\ q.doc = 0
  BY <1>1 DEF Idle
<1>3. log \in Logs /\ log.doc \in Nat
  BY DEF WorldTyped, Logs
<1>4. 0 \in Nat /\ 0 <= log.doc
  BY <1>3
<1>5. FollowOK(q, log)
  BY <1>2, <1>3, <1>4, FollowIdle
<1>6. JobTyped(q)
  BY <1>1, <1>2, HasIdle DEF JobTyped, Running, Verdicts
<1>7. RequestOK(q)
  BY <1>2 DEF RequestOK
<1>8. AttachOK(q) /\ ReadsOK(q)
  BY <1>2 DEF AttachOK, ReadsOK
<1> QED BY <1>1, <1>5, <1>6, <1>7, <1>8 DEF JobInv

\* The records that Ask, Resolve and Open make of a call.
Asked(r, c, since, doc) ==
  [r EXCEPT !.pc = "asked", !.call = c, !.since = since, !.doc = doc]

Resolved(r, s) == [r EXCEPT !.pc = "resolved", !.socket = s]

Opened(r, req) == [r EXCEPT !.pc = "ready", !.request = req]

LEMMA AskedJob ==
  ASSUME WorldTyped, NEW r, JobInv(r), r.pc = "idle", NEW c \in Calls, Written(c), NEW q,
         q = Asked(r, c, attached, log.doc)
  PROVE  JobInv(q)
<1>1. r = Idle
  BY JobHas DEF JobTyped
<1>2. /\ r.stage = "first" /\ r.socket = None /\ r.verdict = None /\ r.changes = {}
      /\ r.seen = 0 /\ r.first = TRUE /\ r.got = <<>> /\ r.shown = <<>> /\ r.kept = {}
  BY <1>1 DEF Idle
<1>3. /\ Fields(q)
      /\ q.pc = "asked" /\ q.call = c /\ q.since = attached /\ q.doc = log.doc
      /\ q.stage = r.stage /\ q.socket = r.socket /\ q.verdict = r.verdict
      /\ q.changes = r.changes /\ q.seen = r.seen
      /\ q.first = r.first /\ q.got = r.got /\ q.shown = r.shown /\ q.kept = r.kept
  <2>1. Fields(r)
    BY JobHas
  <2>2. PICK s, d : s = attached /\ d = log.doc
    OBVIOUS
  <2> QED BY <2>1, <2>2 DEF Fields, Asked
<1>4. log \in Logs /\ log.doc \in Nat /\ log.doc <= log.doc
  BY DEF WorldTyped, Logs
<1>5. FollowOK(q, log)
  BY <1>2, <1>3, <1>4, FollowIdle
<1>6. JobTyped(q)
  BY <1>2, <1>3 DEF JobTyped, Running, Verdicts
<1>7. RequestOK(q)
  BY <1>2, <1>3 DEF RequestOK
<1>8. AttachOK(q) /\ ReadsOK(q)
  BY <1>2, <1>3 DEF AttachOK, ReadsOK
<1> QED BY <1>5, <1>6, <1>7, <1>8 DEF JobInv

LEMMA ResolvedJob ==
  ASSUME WorldTyped, NEW r, JobInv(r), r.pc = "asked", ~Refused(r.call),
         NEW s, s = SocketFor(r.call), s # None, NEW q, q = Resolved(r, s)
  PROVE  JobInv(q)
<1> Fields(r)
  BY JobHas
<1>1. /\ Fields(q)
      /\ q.pc = "resolved" /\ q.socket = s
      /\ q.call = r.call /\ q.request = r.request /\ q.stage = r.stage
      /\ q.since = r.since /\ q.verdict = r.verdict /\ q.changes = r.changes
      /\ SameFollow(q, r)
  BY DEF Fields, SameFollow, Resolved
<1>2. r.call \in Calls
  BY JobHas DEF JobTyped
<1>3. q.got = <<>>
  BY <1>1, JobHas DEF FollowTyped, SameFollow
<1>4. FollowOK(q, log)
  BY <1>1, <1>3, JobHas, FollowSame
<1>5. s \in Apps \cup {None}
  <2>1. Explicit(r.call) \in Apps \cup {None}
    BY <1>2, CallsHave DEF WorldTyped, Setups, Explicit
  <2>2. sockets # <<>> => Head(sockets) \in Apps
    BY HeadTailProperties DEF WorldTyped
  <2> QED BY <2>1, <2>2 DEF SocketFor, WorldTyped
<1>6. JobTyped(q)
  BY <1>1, <1>5, JobHas DEF JobTyped, Running
<1>7. RequestOK(q)
  BY <1>1, JobHas DEF RequestOK
<1>8. AttachOK(q)
  BY <1>1, JobHas DEF AttachOK, SocketFor, Explicit
<1>9. ReadsOK(q)
  <2>1. ReadsOK(r) /\ r.pc # "idle"
    BY JobHas
  <2> QED BY <1>1, <2>1, Zenon DEF ReadsOK
<1> QED BY <1>4, <1>6, <1>7, <1>8, <1>9 DEF JobInv

LEMMA OpenedJob ==
  ASSUME NEW r, JobInv(r), r.pc = "resolved", NEW q,
         q = Opened(r, RequestOf(r.call))
  PROVE  JobInv(q)
<1> Fields(r)
  BY JobHas
<1>1. PICK m : m = RequestOf(r.call)
  OBVIOUS
<1>2. /\ Fields(q)
      /\ q.pc = "ready" /\ q.request = m
      /\ q.call = r.call /\ q.stage = r.stage /\ q.socket = r.socket
      /\ q.since = r.since /\ q.verdict = r.verdict /\ q.changes = r.changes
      /\ SameFollow(q, r)
  BY <1>1 DEF Fields, SameFollow, Opened
<1>3. q.got = <<>>
  BY <1>2, JobHas DEF FollowTyped, SameFollow
<1>4. FollowOK(q, log)
  BY <1>2, <1>3, JobHas, FollowSame
<1>5. JobTyped(q)
  BY <1>2, JobHas DEF JobTyped, Running
<1>6. RequestOK(q)
  <2>1. r.stage = "first"
    BY JobHas DEF RequestOK
  <2> QED BY <1>1, <1>2, <1>3, <2>1, Zenon DEF RequestOK
<1>7. AttachOK(q)
  BY <1>2, JobHas, Zenon DEF AttachOK
<1>8. ReadsOK(q)
  BY <1>2, JobHas, Zenon DEF ReadsOK
<1> QED BY <1>4, <1>5, <1>6, <1>7, <1>8 DEF JobInv

-----------------------------------------------------------------------------
(* The application answers.                                                *)

LEMMA ChangesAreAspects == \A m, params : Changes(m, params) \subseteq Aspects
  BY SMT DEF Changes, Aspects, Gestures, Recording

LEMMA AnswersAre ==
  ASSUME NEW req, NEW a \in Answers(req)
  PROVE  a \in Replies /\ (a = "wants_id" => req.method = "screenshot_native")
<1>1. PICK e : e = ElementAt(req)
  OBVIOUS
<1>2. \A b \in Answers(req) : b \in Replies
  BY <1>1, SMT DEF Answers, Replies
<1>3. "wants_id" \in Answers(req) => req.method = "screenshot_native"
  BY <1>1, SMT DEF Answers
<1> QED BY <1>2, <1>3

\* What a poll gets: Since, of a call.
Polled(r) ==
  LET from == IF r.seen >= log.lo THEN r.seen + 1 ELSE log.lo
      lo   == IF r.first /\ "last" \in r.call.args /\ log.hi >= from THEN log.hi ELSE from
  IN [i \in 1 .. (IF log.hi >= lo THEN log.hi + 1 - lo ELSE 0) |-> <<log.doc, lo + i - 1>>]

LEMMA PolledJob ==
  ASSUME WorldTyped, NEW r, FollowOK(r, log), r.got = <<>>, NEW q, q.pc = "answered",
         q.got = Polled(r) \/ q.got = <<>>,
         q.shown = r.shown, q.seen = r.seen, q.doc = r.doc, q.first = r.first,
         \/ q.kept = r.kept
         \/ q.got = Polled(r) /\ log.doc = r.doc /\ q.kept = r.kept \cup (log.lo .. log.hi)
  PROVE  FollowOK(q, log)
<1>1. CASE q.got = Polled(r)
  <2> DEFINE lo == IF r.first /\ "last" \in r.call.args /\ log.hi >= From(r, log)
                   THEN log.hi ELSE From(r, log)
             n  == IF log.hi >= lo THEN log.hi + 1 - lo ELSE 0
  <2>1. \/ lo = From(r, log)
        \/ r.first /\ lo = log.hi /\ log.hi >= From(r, log)
    OBVIOUS
  <2>2. Polled(r) = [i \in 1 .. n |-> <<log.doc, lo + i - 1>>]
    BY DEF Polled, From
  <2>3. PICK f, m : f = lo /\ m = n
    OBVIOUS
  <2>4. m = IF log.hi >= f THEN log.hi + 1 - f ELSE 0
    BY <2>3
  <2> HIDE DEF lo, n
  <2>5. PICK l \in Logs : l = log
    BY DEF WorldTyped, Logs
  <2>6. FollowOK(q, l)
    BY <1>1, <2>1, <2>2, <2>3, <2>4, <2>5, FollowServed
  <2> QED BY <2>5, <2>6
<1>2. CASE q.got = <<>> /\ q.kept = r.kept
  <2>1. SameFollow(q, r)
    BY <1>2 DEF SameFollow
  <2> QED BY <1>2, <2>1, FollowSame
<1> QED BY <1>1, <1>2

\* What is being asked for, by the stage of the call.
LEMMA StagesHave ==
  ASSUME NEW r, JobInv(r), r.pc \in {"ready", "answered", "pause"}
  PROVE  /\ r.stage \in {"first", "listing", "retry", "shot"}
         /\ r.stage = "first" => r.request = RequestOf(r.call)
         /\ r.stage \in {"listing", "retry"}
              => r.call.front = "cli" /\ RowOf(r.call).method = "screenshot_native"
         /\ r.stage = "listing" => r.request = Request("windows.list", Nothing, None, FALSE)
         /\ r.stage = "retry" => /\ r.request.method = "screenshot_native"
                                 /\ "window_id" \in DOMAIN r.request.params
                                 /\ r.request.params["window_id"] = Label(r.call.window)
         /\ r.stage = "shot" =>
              /\ AStep(r.call)
              /\ r.request = Request("screenshot", Nothing, AskedWindow(r.call), FALSE)
         /\ r.stage # "first" => r.call.op # "logs.follow"
         /\ r.call.op # "logs.follow" => r.got = <<>>
         /\ r.call \in Calls /\ Written(r.call) /\ ~Refused(r.call)
<1>1. JobTyped(r) /\ RequestOK(r)
  BY JobHas
<1>2. r.stage \in {"first", "listing", "retry", "shot"}
  BY <1>1 DEF JobTyped
<1>3. r.call \in Calls /\ Written(r.call) /\ ~Refused(r.call)
  BY <1>1 DEF JobTyped, Running
<1> QED BY <1>1, <1>2, <1>3, Zenon DEF RequestOK

LEMMA ServedJob ==
  ASSUME WorldTyped, NEW r, JobInv(r), r.pc = "ready", NEW q,
         Fields(q), q.pc = "answered",
         q.reply = "error" \/ q.reply \in Answers(r.request),
         q.changes = r.changes \cup Changes(r.request.method, DOMAIN r.request.params),
         q.got = IF r.call.op = "logs.follow" THEN Polled(r) ELSE <<>>,
         \/ q.kept = r.kept
         \/ q.got = Polled(r) /\ log.doc = r.doc /\ q.kept = r.kept \cup (log.lo .. log.hi),
         q.call = r.call, q.request = r.request, q.stage = r.stage,
         q.socket = r.socket, q.since = r.since, q.verdict = r.verdict,
         q.seen = r.seen, q.first = r.first, q.shown = r.shown, q.doc = r.doc
  PROVE  JobInv(q)
<1> JobTyped(r) /\ RequestOK(r) /\ AttachOK(r) /\ ReadsOK(r) /\ FollowOK(r, log)
  BY JobHas
<1>1. r.got = <<>> /\ (q.got = Polled(r) \/ q.got = <<>>)
  BY DEF FollowOK, FollowTyped
<1>2. FollowOK(q, log)
  BY <1>1, PolledJob, Zenon
<1>3. /\ q.reply \in Replies
      /\ q.reply = "wants_id" => r.request.method = "screenshot_native"
  BY AnswersAre DEF Replies
<1>4. q.changes \subseteq Aspects
  BY ChangesAreAspects DEF JobTyped
<1>5. JobTyped(q)
  BY <1>3, <1>4, JobHas DEF JobTyped, Running
<1>6. RequestOK(q)
  BY <1>3, JobHas DEF RequestOK
<1>7. AttachOK(q)
  BY Zenon DEF AttachOK
<1>8. ReadsOK(q)
  <2> SUFFICES ASSUME ReadOnly(r.call)
               PROVE  q.changes \subseteq {"refs", "baseline"} \cup ByExpression(r.call)
    BY Zenon DEF ReadsOK
  <2>1. r.changes \subseteq {"refs", "baseline"} \cup ByExpression(r.call)
    <3>1. r.pc # "idle"
      OBVIOUS
    <3> QED BY <3>1, Zenon DEF ReadsOK
  <2>2. r.stage = "first" /\ r.call \in Calls /\ Offers(r.call)
    BY StagesHave DEF AStep, ReadOnly
  <2>3. r.request = RequestOf(r.call)
    BY <2>2, StagesHave
  <2>4. r.request.method \in QuietMethods
    <3>1. RowOf(r.call).method \in QuietMethods
      BY ReadOnlyCallsAreQuiet
    <3>2. r.request.method = RowOf(r.call).method
      BY <2>3, RequestOfIs, Zenon
    <3> QED BY <3>1, <3>2
  <2>5. r.request.method = "wait" => r.call.op = "wait"
    <3>1. RowOf(r.call).method = "wait" => r.call.op = "wait"
      BY ReadOnlyCallsAreQuiet
    <3>2. r.request.method = RowOf(r.call).method
      BY <2>3, RequestOfIs, Zenon
    <3> QED BY <3>1, <3>2
  <2>6. "expression" \in DOMAIN r.request.params => "expression" \in r.call.args
    BY <2>2, <2>3, ExpressionAsked
  <2>7. Changes(r.request.method, DOMAIN r.request.params)
          \subseteq {"refs", "baseline"} \cup ByExpression(r.call)
    BY <2>4, <2>5, <2>6, QuietMethodsAreQuiet DEF ByExpression
  <2> QED BY <2>1, <2>7
<1> QED BY <1>2, <1>5, <1>6, <1>7, <1>8 DEF JobInv

-----------------------------------------------------------------------------
(* What the caller makes of the answer.                                    *)

LEMMA StagedJob ==
  ASSUME NEW r, JobInv(r), r.pc = "answered", NEW q,
         Fields(q), q.pc = "ready",
         q.call = r.call, q.socket = r.socket, q.since = r.since,
         q.verdict \in Verdicts, q.changes = r.changes, SameFollow(q, r),
         r.call.op # "logs.follow",
         \/ /\ q.stage = "listing" /\ q.request = Request("windows.list", Nothing, None, FALSE)
            /\ r.call.front = "cli" /\ RowOf(r.call).method = "screenshot_native"
         \/ /\ q.stage = "retry" /\ r.call.front = "cli"
            /\ RowOf(r.call).method = "screenshot_native"
            /\ q.request.method = "screenshot_native"
            /\ "window_id" \in DOMAIN q.request.params
            /\ q.request.params["window_id"] = Label(r.call.window)
         \/ /\ q.stage = "shot" /\ AStep(r.call)
            /\ q.request = Request("screenshot", Nothing, AskedWindow(r.call), FALSE)
  PROVE  JobInv(q)
<1> JobTyped(r) /\ AttachOK(r) /\ ReadsOK(r) /\ FollowOK(r, log)
  BY JobHas
<1>0. q.got = <<>>
  BY StagesHave DEF SameFollow
<1>1. FollowOK(q, log)
  BY <1>0, FollowSame
<1>2. q.stage \in {"listing", "retry", "shot"}
  OBVIOUS
<1>3. JobTyped(q)
  BY <1>2 DEF JobTyped, Running
<1>4. RequestOK(q)
  <2>1. CASE q.stage = "listing"
    BY <1>0, <2>1, Zenon DEF RequestOK
  <2>2. CASE q.stage = "retry"
    BY <1>0, <2>2, Zenon DEF RequestOK
  <2>3. CASE q.stage = "shot"
    BY <1>0, <2>3, Zenon DEF RequestOK
  <2> QED BY <1>2, <2>1, <2>2, <2>3
<1>5. AttachOK(q)
  BY Zenon DEF AttachOK
<1>6. ReadsOK(q)
  BY Zenon DEF ReadsOK
<1> QED BY <1>1, <1>3, <1>4, <1>5, <1>6 DEF JobInv

LEMMA PausedJob ==
  ASSUME WorldTyped, NEW r, JobInv(r), r.pc = "answered", r.call.op = "logs.follow", NEW q,
         Fields(q), q.pc = "pause", q.shown = r.shown \o r.got, q.first = FALSE,
         q.got = <<>>, q.seen = IF r.got = <<>> THEN r.seen ELSE r.got[Len(r.got)][2],
         q.call = r.call, q.request = r.request, q.stage = r.stage, q.socket = r.socket,
         q.since = r.since, q.verdict = r.verdict, q.changes = r.changes,
         q.kept = r.kept, q.doc = r.doc
  PROVE  JobInv(q)
<1> JobTyped(r) /\ AttachOK(r) /\ ReadsOK(r) /\ FollowOK(r, log)
  BY JobHas
<1>1. log \in Logs
  BY DEF WorldTyped, Logs
<1>2. FollowOK(q, log)
  BY <1>1, FollowShown, Zenon
<1>3. JobTyped(q)
  BY DEF JobTyped, Running
<1>4. RequestOK(q)
  <2>1. r.stage = "first" /\ r.request = RequestOf(r.call)
    BY StagesHave
  <2> QED BY <2>1 DEF RequestOK
<1>5. AttachOK(q)
  BY Zenon DEF AttachOK
<1>6. ReadsOK(q)
  <2>1. r.pc # "idle"
    OBVIOUS
  <2> QED BY <2>1, Zenon DEF ReadsOK
<1> QED BY <1>2, <1>3, <1>4, <1>5, <1>6 DEF JobInv

LEMMA PolledAgainJob ==
  ASSUME NEW r, JobInv(r), r.pc = "pause", NEW q, q = [r EXCEPT !.pc = "ready"]
  PROVE  JobInv(q)
<1> Fields(r)
  BY JobHas
<1>1. /\ Fields(q)
      /\ q.pc = "ready"
      /\ q.call = r.call /\ q.request = r.request /\ q.stage = r.stage
      /\ q.socket = r.socket /\ q.since = r.since /\ q.verdict = r.verdict
      /\ q.changes = r.changes
      /\ SameFollow(q, r)
  BY DEF Fields, SameFollow
<1>2. q.got = <<>>
  BY <1>1, JobHas DEF FollowTyped, SameFollow
<1>3. FollowOK(q, log)
  BY <1>1, <1>2, JobHas, FollowSame
<1>4. JobTyped(q)
  BY <1>1, JobHas DEF JobTyped, Running
<1>5. RequestOK(q)
  BY <1>1, JobHas DEF RequestOK
<1>6. AttachOK(q)
  BY <1>1, JobHas, Zenon DEF AttachOK
<1>7. ReadsOK(q)
  BY <1>1, JobHas, Zenon DEF ReadsOK
<1> QED BY <1>3, <1>4, <1>5, <1>6, <1>7 DEF JobInv

-----------------------------------------------------------------------------
(* The invariant is kept, action by action.                                *)

LEMMA IInvHas ==
  ASSUME IInv
  PROVE  /\ WorldTyped /\ \A k \in Callers : JobInv(job[k])
         /\ job = [k \in Callers |-> job[k]] /\ log \in Logs
  BY DEF IInv, WorldTyped, Logs

LEMMA LogStays ==
  ASSUME log \in Logs
  PROVE  Grows(log, log)
  BY DEF Logs, Grows

LEMMA OneStep ==
  ASSUME IInv, NEW j \in Callers, NEW q, Becomes(j, q), JobInv(q),
         UNCHANGED <<setup, todo, world, attached>>
  PROVE  IInv'
<1>1. UNCHANGED <<setup, todo, sockets, live, element, log, attached>>
  BY DEF world
<1>2. WorldMoves
  BY <1>1, IInvHas, LogStays DEF WorldMoves
<1>3. \A k \in Callers : JobInv(job[k])'
  BY <1>2, IInvHas, OneMoves
<1>4. job' = [k \in Callers |-> job'[k]]
  BY IInvHas, JobMoves DEF Becomes
<1>5. WorldTyped'
  BY <1>1, <1>4, IInvHas DEF WorldTyped
<1> QED BY <1>3, <1>5 DEF IInv

\* Any call that is being made may end.
LEMMA EndsKeeps ==
  ASSUME IInv, NEW j \in Callers, job[j].pc # "idle", NEW v \in Verdicts, Ends(j, v),
         UNCHANGED <<setup, todo, world, attached>>
  PROVE  IInv'
<1>1. PICK r : r = job[j]
  OBVIOUS
<1>2. JobInv(r) /\ r.pc # "idle"
  BY <1>1, IInvHas
<1>3. PICK q : q = Ended(r, v)
  OBVIOUS
<1>4. JobInv(q)
  BY <1>2, <1>3, EndedJob
<1>5. Becomes(j, q)
  BY <1>1, <1>3 DEF Ends
<1> QED BY <1>4, <1>5, OneStep

LEMMA RefuseKeeps ==
  ASSUME IInv, NEW j \in Callers, Refuse(j)
  PROVE  IInv'
<1>1. "refused" \in Verdicts /\ job[j].pc # "idle"
  BY DEF Refuse, Verdicts
<1> QED BY <1>1, EndsKeeps DEF Refuse

LEMMA EncodeFailsKeeps ==
  ASSUME IInv, NEW j \in Callers, EncodeFails(j)
  PROVE  IInv'
<1>1. "failed" \in Verdicts /\ job[j].pc # "idle"
  BY DEF EncodeFails, Verdicts
<1> QED BY <1>1, EndsKeeps DEF EncodeFails

LEMMA ShotKeeps ==
  ASSUME IInv, NEW j \in Callers, Shot(j)
  PROVE  IInv'
<1>1. job[j].pc # "idle" /\ job[j].verdict \in Verdicts
  BY IInvHas DEF Shot, JobInv, JobTyped
<1>2. PICK v \in Verdicts : v = job[j].verdict
  BY <1>1
<1> QED BY <1>1, <1>2, EndsKeeps DEF Shot

LEMMA ResolveKeeps ==
  ASSUME IInv, NEW j \in Callers, Resolve(j)
  PROVE  IInv'
<1>1. PICK r : r = job[j]
  OBVIOUS
<1>2. JobInv(r) /\ r.pc = "asked" /\ ~Refused(r.call)
  BY <1>1, IInvHas DEF Resolve
<1>3. PICK s : s = SocketFor(r.call)
  OBVIOUS
<1>4. CASE s = None
  <2>1. Ends(j, "failed") /\ "failed" \in Verdicts /\ job[j].pc # "idle"
    BY <1>1, <1>2, <1>3, <1>4 DEF Resolve, Verdicts
  <2> QED BY <2>1, EndsKeeps DEF Resolve
<1>5. CASE s # None
  <2>1. PICK q : q = Resolved(r, s)
    OBVIOUS
  <2>2. JobInv(q)
    BY <1>2, <1>3, <1>5, <2>1, IInvHas, ResolvedJob
  <2>3. Becomes(j, Resolved(r, s))
    BY <1>1, <1>3, <1>5, Zenon DEF Resolve, Resolved
  <2>4. Becomes(j, q)
    BY <2>1, <2>3
  <2> QED BY <2>2, <2>4, OneStep DEF Resolve
<1> QED BY <1>4, <1>5

LEMMA PollKeeps ==
  ASSUME IInv, NEW j \in Callers, Poll(j)
  PROVE  IInv'
<1>1. PICK r : r = job[j]
  OBVIOUS
<1>2. JobInv(r) /\ r.pc = "pause"
  BY <1>1, IInvHas DEF Poll
<1>3. PICK q : q = [r EXCEPT !.pc = "ready"]
  OBVIOUS
<1>4. JobInv(q)
  BY <1>2, <1>3, PolledAgainJob
<1>5. Becomes(j, q)
  BY <1>1, <1>3 DEF Poll
<1> QED BY <1>4, <1>5, OneStep DEF Poll

LEMMA RestKeeps ==
  ASSUME IInv, NEW j \in Callers, Rest(j)
  PROVE  IInv'
<1>1. PICK q : q = Idle
  OBVIOUS
<1>2. JobInv(q) /\ Becomes(j, q)
  BY <1>1, IInvHas, IdleJob DEF Rest
<1> QED BY <1>2, OneStep DEF Rest

LEMMA AskKeeps ==
  ASSUME IInv, NEW j \in Callers, Ask(j)
  PROVE  IInv'
<1>1. PICK r : r = job[j]
  OBVIOUS
<1>2. JobInv(r) /\ r.pc = "idle"
  BY <1>1, IInvHas DEF Ask
<1>3. /\ todo \in Seq(Calls) /\ todo # <<>> /\ todo' = Tail(todo)
      /\ \A i \in DOMAIN todo : Written(todo[i])
  BY IInvHas DEF WorldTyped, Ask
<1>4. /\ Head(todo) \in Calls /\ Tail(todo) \in Seq(Calls) /\ Head(todo) = todo[1]
      /\ Len(Tail(todo)) = Len(todo) - 1 /\ Len(todo) \in Nat /\ Len(todo) # 0
      /\ \A i \in 1 .. Len(Tail(todo)) : Tail(todo)[i] = todo[i + 1]
  BY <1>3, HeadTailProperties, EmptySeq, LenProperties
<1>5. DOMAIN todo = 1 .. Len(todo) /\ DOMAIN Tail(todo) = 1 .. Len(Tail(todo))
  BY <1>3, <1>4, LenProperties
<1>6. PICK c \in Calls : c = Head(todo)
  BY <1>4
<1>7. Written(c)
  BY <1>3, <1>4, <1>5, <1>6
<1>8. \A i \in DOMAIN todo' : Written(todo'[i])
  <2> SUFFICES ASSUME NEW i \in DOMAIN Tail(todo)
               PROVE  Written(Tail(todo)[i])
    BY <1>3
  <2>1. i \in 1 .. Len(Tail(todo)) /\ i + 1 \in DOMAIN todo
    BY <1>4, <1>5
  <2> QED BY <1>3, <1>4, <2>1
<1>9. PICK q : q = Asked(r, c, attached, log.doc)
  OBVIOUS
<1>10. JobInv(q)
  BY <1>2, <1>7, <1>9, IInvHas, AskedJob
<1>11. Becomes(j, q)
  BY <1>1, <1>6, <1>9 DEF Ask, Asked
<1>12. UNCHANGED <<setup, sockets, live, element, log, attached>>
  BY DEF Ask, world
<1>13. WorldMoves
  BY <1>12, IInvHas, LogStays DEF WorldMoves
<1>14. \A k \in Callers : JobInv(job[k])'
  BY <1>10, <1>11, <1>13, IInvHas, OneMoves
<1>15. job' = [k \in Callers |-> job'[k]]
  BY <1>11, IInvHas, JobMoves DEF Becomes
<1>16. WorldTyped'
  <2>1. todo' \in Seq(Calls) /\ \A i \in DOMAIN todo' : Written(todo[i])'
    BY <1>3, <1>4, <1>8 DEF Written, Offers, TakesOf, TakesFrame, AStep
  <2> QED BY <1>12, <1>15, <2>1, IInvHas DEF WorldTyped
<1> QED BY <1>14, <1>16 DEF IInv

LEMMA OpenKeeps ==
  ASSUME IInv, NEW j \in Callers, Open(j)
  PROVE  IInv'
<1>1. PICK r : r = job[j]
  OBVIOUS
<1>2. JobInv(r) /\ r.pc = "resolved" /\ UNCHANGED <<setup, todo, world>>
  BY <1>1, IInvHas DEF Open
<1>3. CASE r.socket \in live
  <2>1. PICK q : q = Opened(r, RequestOf(r.call))
    OBVIOUS
  <2>2. JobInv(q)
    BY <1>2, <2>1, OpenedJob
  <2>3. Becomes(j, Opened(r, RequestOf(r.call)))
    BY <1>1, <1>3, Zenon DEF Open, Opened
  <2>4. Becomes(j, q)
    BY <2>1, <2>3
  <2>5. attached' = IF Served(r.call) /\ setup.socket = None /\ attached = None
                    THEN r.socket ELSE attached
    BY <1>1, <1>3, Zenon DEF Open
  <2>6. UNCHANGED <<setup, todo, sockets, live, element, log>>
    BY <1>2 DEF world
  <2>7. WorldMoves
    BY <2>5, <2>6, IInvHas, LogStays DEF WorldMoves
  <2>8. \A k \in Callers : JobInv(job[k])'
    BY <2>2, <2>4, <2>7, IInvHas, OneMoves
  <2>9. job' = [k \in Callers |-> job'[k]]
    BY <2>4, IInvHas, JobMoves DEF Becomes
  <2>10. attached' \in Apps \cup {None}
    BY <1>2, <2>5, IInvHas DEF WorldTyped, JobInv, JobTyped
  <2>11. WorldTyped'
    BY <2>6, <2>9, <2>10, IInvHas DEF WorldTyped
  <2> QED BY <2>8, <2>11 DEF IInv
<1>4. CASE r.socket \notin live
  <2>1. Ends(j, "failed") /\ UNCHANGED attached
    BY <1>1, <1>4, Zenon DEF Open
  <2>2. "failed" \in Verdicts /\ job[j].pc # "idle"
    BY <1>1, <1>2 DEF Verdicts
  <2> QED BY <1>2, <2>1, <2>2, EndsKeeps
<1> QED BY <1>3, <1>4

\* The record that Serve makes of a call, by its fields.
Update(r, a, h, p, e, g, k) ==
  [r EXCEPT !.pc = "answered", !.reply = a, !.holds = h, !.hits = p, !.changes = e,
            !.got = g, !.kept = k]

LEMMA UpdateHas ==
  ASSUME NEW r, Fields(r), NEW a, NEW h, NEW p, NEW e, NEW g, NEW k,
         NEW q, q = Update(r, a, h, p, e, g, k)
  PROVE  /\ Fields(q) /\ q.pc = "answered" /\ q.reply = a
         /\ q.holds = h /\ q.hits = p /\ q.changes = e /\ q.got = g /\ q.kept = k
         /\ q.call = r.call /\ q.request = r.request /\ q.stage = r.stage
         /\ q.socket = r.socket /\ q.since = r.since /\ q.verdict = r.verdict
         /\ q.seen = r.seen /\ q.first = r.first /\ q.shown = r.shown /\ q.doc = r.doc
  BY DEF Fields, Update

\* A call q that has been r, after the answer a.
AnswerTo(q, r, a) ==
  /\ Fields(q) /\ q.pc = "answered" /\ q.reply = a
  /\ q.holds = IF r.stage = "first" /\ Label(AskedWindow(r.call)) \in Windows
               THEN Claim(r.call) ELSE r.holds
  /\ q.hits = IF a = "error" \/ r.request.method \in Windowless
                 \/ PlaceOf(r.request)[1] = "asked"
              THEN r.hits ELSE r.hits \cup {PlaceOf(r.request)}
  /\ q.changes = r.changes \cup Changes(r.request.method, DOMAIN r.request.params)
  /\ q.got = IF r.call.op = "logs.follow" THEN Polled(r) ELSE <<>>
  /\ q.kept = IF r.call.op = "logs.follow" /\ log.doc = r.doc /\ a # "error"
              THEN r.kept \cup (log.lo .. log.hi) ELSE r.kept
  /\ q.call = r.call /\ q.request = r.request /\ q.stage = r.stage
  /\ q.socket = r.socket /\ q.since = r.since /\ q.verdict = r.verdict
  /\ q.seen = r.seen /\ q.first = r.first /\ q.shown = r.shown /\ q.doc = r.doc

LEMMA AnsweredHas ==
  ASSUME NEW j \in Callers, NEW r, r = job[j], Fields(r), NEW a, NEW q, q = Answered(j, a)
  PROVE  AnswerTo(q, r, a)
<1>1. Polled(r) = Since(j)
  BY DEF Polled, Since
<1>2. PICK h : h = IF r.stage = "first" /\ Label(AskedWindow(r.call)) \in Windows
                   THEN Claim(r.call) ELSE r.holds
  OBVIOUS
<1>3. PICK p : p = IF a = "error" \/ r.request.method \in Windowless
                      \/ PlaceOf(r.request)[1] = "asked"
                   THEN r.hits ELSE r.hits \cup {PlaceOf(r.request)}
  OBVIOUS
<1>4. PICK e : e = r.changes \cup Changes(r.request.method, DOMAIN r.request.params)
  OBVIOUS
<1>5. PICK g : g = IF r.call.op = "logs.follow" THEN Polled(r) ELSE <<>>
  OBVIOUS
<1>6. PICK k : k = IF r.call.op = "logs.follow" /\ log.doc = r.doc /\ a # "error"
                   THEN r.kept \cup (log.lo .. log.hi) ELSE r.kept
  OBVIOUS
<1>7. q = Update(r, a, h, p, e, g, k)
  BY <1>1, <1>2, <1>3, <1>4, <1>5, <1>6, Zenon DEF Answered, Update
<1>8. /\ Fields(q) /\ q.pc = "answered" /\ q.reply = a
      /\ q.holds = h /\ q.hits = p /\ q.changes = e /\ q.got = g /\ q.kept = k
      /\ q.call = r.call /\ q.request = r.request /\ q.stage = r.stage
      /\ q.socket = r.socket /\ q.since = r.since /\ q.verdict = r.verdict
      /\ q.seen = r.seen /\ q.first = r.first /\ q.shown = r.shown /\ q.doc = r.doc
  BY <1>7, UpdateHas
<1> QED BY <1>2, <1>3, <1>4, <1>5, <1>6, <1>8, Zenon DEF AnswerTo

\* What becomes of the page's log.
LEMMA LogCleared ==
  ASSUME NEW l \in Logs, NEW new, new = [l EXCEPT !.lo = l.hi + 1]
  PROVE  new \in Logs /\ Grows(l, new)
  BY FrontendsAssumption DEF Logs, Grows

LEMMA LogAdded ==
  ASSUME NEW l \in Logs, NEW new,
         new = [l EXCEPT !.hi = l.hi + 1,
                         !.lo = IF l.hi + 1 - l.lo = Cap THEN l.lo + 1 ELSE l.lo]
  PROVE  new \in Logs /\ Grows(l, new)
<1>1. l \in [doc : Nat, lo : Nat \ {0}, hi : Nat] /\ l.hi + 1 - l.lo \in 0 .. Cap
  BY DEF Logs
<1>2. /\ new = [doc |-> new.doc, lo |-> new.lo, hi |-> new.hi]
      /\ new.doc = l.doc /\ new.hi = l.hi + 1
      /\ new.lo = IF l.hi + 1 - l.lo = Cap THEN l.lo + 1 ELSE l.lo
  BY <1>1
<1>3. l.doc \in Nat /\ l.lo \in Nat \ {0} /\ l.hi \in Nat /\ Cap \in Nat \ {0}
  BY <1>1, FrontendsAssumption
<1>4. /\ new.lo \in Nat \ {0} /\ new.hi \in Nat /\ l.lo <= new.lo
      /\ new.hi + 1 - new.lo \in 0 .. Cap
  <2>1. CASE l.hi + 1 - l.lo = Cap
    BY <1>1, <1>2, <1>3, <2>1
  <2>2. CASE l.hi + 1 - l.lo # Cap
    BY <1>1, <1>2, <1>3, <2>2
  <2> QED BY <2>1, <2>2
<1>5. new \in [doc : Nat, lo : Nat \ {0}, hi : Nat]
  BY <1>2, <1>3, <1>4
<1> QED BY <1>2, <1>4, <1>5 DEF Logs, Grows

LEMMA LogAnew ==
  ASSUME NEW l \in Logs, NEW new, new = [doc |-> l.doc + 1, lo |-> 1, hi |-> 0]
  PROVE  new \in Logs /\ Grows(l, new)
  BY FrontendsAssumption DEF Logs, Grows

LEMMA ServeKeeps ==
  ASSUME IInv, NEW j \in Callers, Serve(j)
  PROVE  IInv'
<1>1. PICK r : r = job[j]
  OBVIOUS
<1>2. JobInv(r) /\ Fields(r) /\ r.pc = "ready"
  BY <1>1, IInvHas, JobHas DEF Serve
<1>3. PICK a : (a = "error" \/ a \in Answers(r.request)) /\ Becomes(j, Answered(j, a))
  <2>1. PICK a \in IF r.request.method \in Windowless \/ Label(r.request.window) \in Windows
                   THEN Answers(r.request) \ (IF Unread(r.request) THEN {"yes"} ELSE {})
                   ELSE {"error"} : Becomes(j, Answered(j, a))
    BY <1>1, Zenon DEF Serve
  <2>2. a = "error" \/ a \in Answers(r.request)
    BY <2>1
  <2> QED BY <2>1, <2>2
<1>4. PICK q : q = Answered(j, a)
  OBVIOUS
<1>5. AnswerTo(q, r, a)
  BY <1>1, <1>2, <1>4, AnsweredHas
<1>6. /\ Fields(q) /\ q.pc = "answered" /\ q.reply = a
      /\ q.changes = r.changes \cup Changes(r.request.method, DOMAIN r.request.params)
      /\ q.got = IF r.call.op = "logs.follow" THEN Polled(r) ELSE <<>>
      /\ q.call = r.call /\ q.request = r.request /\ q.stage = r.stage
      /\ q.socket = r.socket /\ q.since = r.since /\ q.verdict = r.verdict
      /\ q.seen = r.seen /\ q.first = r.first /\ q.shown = r.shown /\ q.doc = r.doc
      /\ \/ q.kept = r.kept
         \/ q.got = Polled(r) /\ log.doc = r.doc /\ q.kept = r.kept \cup (log.lo .. log.hi)
  BY <1>5 DEF AnswerTo
<1>7. q.reply = "error" \/ q.reply \in Answers(r.request)
  BY <1>3, <1>6
<1>8. JobInv(q)
  BY <1>2, <1>6, <1>7, IInvHas, ServedJob
<1>9. Becomes(j, q)
  BY <1>3, <1>4
<1>10. UNCHANGED <<setup, todo, attached, sockets, live, element>>
  BY DEF Serve
<1>11. log' \in Logs /\ Grows(log, log')
  <2>1. PICK l \in Logs : l = log
    BY IInvHas
  <2>2. log' = l \/ log' = [l EXCEPT !.lo = l.hi + 1]
    BY <2>1, Zenon DEF Serve
  <2> QED BY <2>1, <2>2, LogCleared, LogStays
<1>12. WorldMoves
  BY <1>10, <1>11, IInvHas DEF WorldMoves
<1>13. \A k \in Callers : JobInv(job[k])'
  BY <1>8, <1>9, <1>12, IInvHas, OneMoves
<1>14. job' = [k \in Callers |-> job'[k]]
  BY <1>9, IInvHas, JobMoves DEF Becomes
<1>15. WorldTyped'
  BY <1>10, <1>11, <1>14, IInvHas DEF WorldTyped, Logs
<1> QED BY <1>13, <1>15 DEF IInv

\* The records that AskForWindows, Retry, Judge and Follow make of a call.
Staged(r, stage, req) == [r EXCEPT !.pc = "ready", !.stage = stage, !.request = req]

Shooting(r, told, req) ==
  [r EXCEPT !.pc = "ready", !.stage = "shot", !.verdict = told, !.request = req]

Paused(r, shown, seen) ==
  [r EXCEPT !.pc = "pause", !.shown = shown, !.first = FALSE, !.got = <<>>, !.seen = seen]

LEMMA StagedHas ==
  ASSUME NEW r, Fields(r), NEW s, NEW m, NEW q, q = Staged(r, s, m)
  PROVE  /\ Fields(q) /\ q.pc = "ready" /\ q.stage = s /\ q.request = m
         /\ q.call = r.call /\ q.socket = r.socket /\ q.since = r.since
         /\ q.verdict = r.verdict /\ q.changes = r.changes /\ SameFollow(q, r)
  BY DEF Fields, Staged, SameFollow

LEMMA ShootingHas ==
  ASSUME NEW r, Fields(r), NEW v, NEW m, NEW q, q = Shooting(r, v, m)
  PROVE  /\ Fields(q) /\ q.pc = "ready" /\ q.stage = "shot" /\ q.request = m
         /\ q.call = r.call /\ q.socket = r.socket /\ q.since = r.since
         /\ q.verdict = v /\ q.changes = r.changes /\ SameFollow(q, r)
  BY DEF Fields, Shooting, SameFollow

PausedFrom(q, r, shown, seen) ==
  /\ Fields(q) /\ q.pc = "pause" /\ q.shown = shown /\ q.seen = seen
  /\ q.first = FALSE /\ q.got = <<>>
  /\ q.call = r.call /\ q.request = r.request /\ q.stage = r.stage
  /\ q.socket = r.socket /\ q.since = r.since /\ q.verdict = r.verdict
  /\ q.changes = r.changes /\ q.kept = r.kept /\ q.doc = r.doc

LEMMA PausedHas ==
  ASSUME NEW r, Fields(r), NEW s, NEW n, NEW q, q = Paused(r, s, n)
  PROVE  PausedFrom(q, r, s, n)
  BY DEF Fields, Paused, PausedFrom

LEMMA AskForWindowsKeeps ==
  ASSUME IInv, NEW j \in Callers, AskForWindows(j)
  PROVE  IInv'
<1>1. PICK r : r = job[j]
  OBVIOUS
<1>2. /\ JobInv(r) /\ Fields(r) /\ r.pc = "answered" /\ r.stage = "first"
      /\ r.reply = "wants_id" /\ r.call.front = "cli"
  BY <1>1, IInvHas, JobHas DEF AskForWindows
<1>3. /\ r.request = RequestOf(r.call) /\ r.call \in Calls /\ ~Refused(r.call)
  BY <1>2, StagesHave
<1>4. r.request.method = "screenshot_native"
  BY <1>2, JobHas DEF RequestOK
<1>5. RowOf(r.call).method = "screenshot_native"
  BY <1>3, <1>4, RequestOfIs, Zenon
<1>6. Offers(r.call)
  BY <1>3 DEF Refused
<1>7. r.call.op # "logs.follow"
  BY <1>3, <1>5, <1>6, OfferedRows DEF LooksAt
<1>8. PICK m : m = Request("windows.list", Nothing, None, FALSE)
  OBVIOUS
<1>9. PICK q : q = Staged(r, "listing", m)
  OBVIOUS
<1>10. /\ Fields(q) /\ q.pc = "ready" /\ q.stage = "listing" /\ q.request = m
       /\ q.call = r.call /\ q.socket = r.socket /\ q.since = r.since
       /\ q.verdict = r.verdict /\ q.changes = r.changes /\ SameFollow(q, r)
  BY <1>2, <1>9, StagedHas
<1>11. q.verdict \in Verdicts
  BY <1>2, <1>10, JobHas DEF JobTyped
<1>12. JobInv(q)
  BY <1>2, <1>5, <1>7, <1>8, <1>10, <1>11, StagedJob
<1>13. Becomes(j, Staged(r, "listing", m))
  BY <1>1, <1>8, Zenon DEF AskForWindows, Again, Staged
<1>14. Becomes(j, q)
  BY <1>9, <1>13
<1> QED BY <1>12, <1>14, OneStep DEF AskForWindows

WithId(c, w) == [RequestOf(c) EXCEPT !.params = "window_id" :> w @@ RequestOf(c).params]

LEMMA WindowIdAdded ==
  ASSUME NEW c, NEW w, NEW m, m = WithId(c, w)
  PROVE  /\ m.method = RequestOf(c).method
         /\ "window_id" \in DOMAIN m.params /\ m.params["window_id"] = w
<1>1. PICK p : p = "window_id" :> w @@ RequestOf(c).params
  OBVIOUS
<1>2. "window_id" \in DOMAIN p /\ p["window_id"] = w
  <2>1. PICK f : f = "window_id" :> w
    OBVIOUS
  <2>2. "window_id" \in DOMAIN f /\ f["window_id"] = w
    BY <2>1, Row
  <2> QED BY <1>1, <2>1, <2>2, RowLeft
<1>3. m = [RequestOf(c) EXCEPT !.params = p]
  BY <1>1 DEF WithId
<1>4. m.method = RequestOf(c).method /\ m.params = p
  BY <1>3 DEF RequestOf, Request
<1> QED BY <1>2, <1>4

LEMMA RetryKeeps ==
  ASSUME IInv, NEW j \in Callers, Retry(j)
  PROVE  IInv'
<1>1. PICK r : r = job[j]
  OBVIOUS
<1>2. JobInv(r) /\ Fields(r) /\ r.pc = "answered" /\ r.stage = "listing"
  BY <1>1, IInvHas, JobHas DEF Retry
<1>3. /\ r.call.front = "cli" /\ RowOf(r.call).method = "screenshot_native"
      /\ r.call.op # "logs.follow"
  BY <1>2, StagesHave
<1>4. CASE r.reply = "error" \/ Label(r.call.window) \notin Windows
  <2>1. Ends(j, "failed")
    BY <1>1, <1>4, Zenon DEF Retry
  <2>2. "failed" \in Verdicts /\ job[j].pc # "idle"
    BY <1>1, <1>2 DEF Verdicts
  <2> QED BY <2>1, <2>2, EndsKeeps DEF Retry
<1>5. CASE ~(r.reply = "error" \/ Label(r.call.window) \notin Windows)
  <2>1. PICK w : w = Label(r.call.window)
    OBVIOUS
  <2>2. PICK m : m = WithId(r.call, w)
    OBVIOUS
  <2>3. PICK q : q = Staged(r, "retry", m)
    OBVIOUS
  <2>4. /\ Fields(q) /\ q.pc = "ready" /\ q.stage = "retry" /\ q.request = m
        /\ q.call = r.call /\ q.socket = r.socket /\ q.since = r.since
        /\ q.verdict = r.verdict /\ q.changes = r.changes /\ SameFollow(q, r)
    BY <1>2, <2>3, StagedHas
  <2>5. /\ m.method = RowOf(r.call).method
        /\ "window_id" \in DOMAIN m.params /\ m.params["window_id"] = w
    <3>1. /\ m.method = RequestOf(r.call).method
          /\ "window_id" \in DOMAIN m.params /\ m.params["window_id"] = w
      BY <2>2, WindowIdAdded
    <3>2. RequestOf(r.call).method = RowOf(r.call).method
      BY RequestOfIs, Zenon
    <3> QED BY <3>1, <3>2
  <2>6. q.verdict \in Verdicts
    BY <1>2, <2>4, JobHas DEF JobTyped
  <2>7. JobInv(q)
    BY <1>2, <1>3, <2>1, <2>4, <2>5, <2>6, StagedJob
  <2>8. Becomes(j, Staged(r, "retry", m))
    BY <1>1, <1>5, <2>1, <2>2, Zenon DEF Retry, Again, Staged, WithId
  <2>9. Becomes(j, q)
    BY <2>3, <2>8
  <2> QED BY <2>7, <2>9, OneStep DEF Retry
<1> QED BY <1>4, <1>5

LEMMA VerdictsAre == \A c, reply : Verdict(c, reply) \in Verdicts
  BY DEF Verdict, Verdicts

LEMMA JudgeKeeps ==
  ASSUME IInv, NEW j \in Callers, Judge(j)
  PROVE  IInv'
<1>1. PICK r : r = job[j]
  OBVIOUS
<1>2. /\ JobInv(r) /\ Fields(r) /\ r.pc = "answered" /\ r.call.op # "logs.follow"
  BY <1>1, IInvHas, JobHas DEF Judge
<1>3. PICK v \in Verdicts : v = Verdict(r.call, r.reply)
  BY VerdictsAre
<1>4. CASE AStep(r.call) /\ v \in {"failed", "refuted"}
  <2>1. PICK m : m = Request("screenshot", Nothing, AskedWindow(r.call), FALSE)
    OBVIOUS
  <2>2. PICK q : q = Shooting(r, v, m)
    OBVIOUS
  <2>3. /\ Fields(q) /\ q.pc = "ready" /\ q.stage = "shot" /\ q.request = m
        /\ q.call = r.call /\ q.socket = r.socket /\ q.since = r.since
        /\ q.verdict = v /\ q.changes = r.changes /\ SameFollow(q, r)
    BY <1>2, <2>2, ShootingHas
  <2>4. JobInv(q)
    BY <1>2, <1>4, <2>1, <2>3, StagedJob
  <2>5. Becomes(j, Shooting(r, v, m))
    BY <1>1, <1>3, <1>4, <2>1, Zenon DEF Judge, Shooting
  <2>6. Becomes(j, q)
    BY <2>2, <2>5
  <2> QED BY <2>4, <2>6, OneStep DEF Judge
<1>5. CASE ~(AStep(r.call) /\ v \in {"failed", "refuted"})
  <2>1. Ends(j, v)
    BY <1>1, <1>3, <1>5, Zenon DEF Judge
  <2>2. job[j].pc # "idle"
    BY <1>1, <1>2
  <2> QED BY <2>1, <2>2, EndsKeeps DEF Judge
<1> QED BY <1>4, <1>5

LEMMA FollowKeeps ==
  ASSUME IInv, NEW j \in Callers, Follow(j)
  PROVE  IInv'
<1>1. PICK r : r = job[j]
  OBVIOUS
<1>2. /\ JobInv(r) /\ Fields(r) /\ r.pc = "answered" /\ r.call.op = "logs.follow"
  BY <1>1, IInvHas, JobHas DEF Follow
<1>3. CASE r.reply = "error"
  <2>1. Ends(j, "failed")
    BY <1>1, <1>3, Zenon DEF Follow
  <2>2. "failed" \in Verdicts /\ job[j].pc # "idle"
    BY <1>1, <1>2 DEF Verdicts
  <2> QED BY <2>1, <2>2, EndsKeeps DEF Follow
<1>4. CASE r.reply # "error"
  <2>1. PICK s : s = r.shown \o r.got
    OBVIOUS
  <2>2. PICK n : n = IF r.got = <<>> THEN r.seen ELSE r.got[Len(r.got)][2]
    OBVIOUS
  <2>3. PICK q : q = Paused(r, s, n)
    OBVIOUS
  <2>4. /\ Fields(q) /\ q.pc = "pause" /\ q.shown = s /\ q.seen = n
        /\ q.first = FALSE /\ q.got = <<>>
        /\ q.call = r.call /\ q.request = r.request /\ q.stage = r.stage
        /\ q.socket = r.socket /\ q.since = r.since /\ q.verdict = r.verdict
        /\ q.changes = r.changes /\ q.kept = r.kept /\ q.doc = r.doc
    <3>1. PausedFrom(q, r, s, n)
      BY <1>2, <2>3, PausedHas
    <3> QED BY <3>1 DEF PausedFrom
  <2>5. q.shown = r.shown \o r.got
    BY <2>1, <2>4
  <2>6. q.seen = IF r.got = <<>> THEN r.seen ELSE r.got[Len(r.got)][2]
    BY <2>2, <2>4
  <2>7. JobInv(q)
    <3>1. WorldTyped
      BY IInvHas
    <3> QED BY <1>2, <2>4, <2>5, <2>6, <3>1, PausedJob, Zenon
  <2>8. Becomes(j, Paused(r, s, n))
    BY <1>1, <1>4, <2>1, <2>2, Zenon DEF Follow, LastSeen, Paused
  <2>9. Becomes(j, q)
    BY <2>3, <2>8
  <2> QED BY <2>7, <2>9, OneStep DEF Follow
<1> QED BY <1>3, <1>4

-----------------------------------------------------------------------------
(* Sockets come and go.                                                    *)

\* A piece of a sequence, from m to n.
LEMMA Piece ==
  ASSUME NEW S, NEW s \in Seq(S), NEW m \in Int, NEW n \in Int,
         NEW l \in Nat, l = Len(s), 1 <= m, n <= l
  PROVE  /\ SubSeq(s, m, n) \in Seq(S)
         /\ Len(SubSeq(s, m, n)) = (IF m <= n THEN n - m + 1 ELSE 0)
         /\ \A k \in 1 .. n - m + 1 : SubSeq(s, m, n)[k] = s[m + k - 1]
<1>1. \A k \in m .. n : s[k] \in S
  <2>1. \A k \in 1 .. l : s[k] \in S
    BY ElementOfSeq
  <2> QED BY <2>1
<1>2. SubSeq(s, m, n) \in Seq(S)
  BY <1>1, SubSeqProperties
<1>3. Len(SubSeq(s, m, n)) = (IF m <= n THEN n - m + 1 ELSE 0)
  BY <1>1, SubSeqProperties
<1>4. \A k \in 1 .. n - m + 1 : SubSeq(s, m, n)[k] = s[m + k - 1]
  BY <1>1, SubSeqProperties
<1> QED BY <1>2, <1>3, <1>4

\* Each element of a sequence from m to n is in that piece of it.
LEMMA PieceHas ==
  ASSUME NEW S, NEW s \in Seq(S), NEW m \in Int, NEW n \in Int,
         NEW l \in Nat, l = Len(s), 1 <= m, n <= l, NEW k \in m .. n
  PROVE  \E p \in DOMAIN SubSeq(s, m, n) : SubSeq(s, m, n)[p] = s[k]
<1>1. PICK u : u = SubSeq(s, m, n)
  OBVIOUS
<1>2. /\ u \in Seq(S) /\ Len(u) = (IF m <= n THEN n - m + 1 ELSE 0)
      /\ \A p \in 1 .. n - m + 1 : u[p] = s[m + p - 1]
  BY <1>1, Piece
<1>3. PICK p : p = k - m + 1
  OBVIOUS
<1>4. p \in 1 .. n - m + 1 /\ m + p - 1 = k /\ m <= n
  BY <1>3
<1>5. Len(u) = n - m + 1
  BY <1>2, <1>4, Zenon
<1>6. p \in DOMAIN u
  BY <1>2, <1>4, <1>5, LenProperties, Zenon
<1>7. u[p] = s[k]
  BY <1>2, <1>4, Zenon
<1> QED BY <1>1, <1>6, <1>7, Zenon

\* One of its elements is e.
Holds(t, e) == \E p \in DOMAIN t : t[p] = e

\* A piece of a sequence holds what the sequence has there.
LEMMA PieceHolds ==
  ASSUME NEW S, NEW s \in Seq(S), NEW m \in Int, NEW n \in Int,
         NEW l \in Nat, l = Len(s), 1 <= m, n <= l
  PROVE  \A k \in m .. n : Holds(SubSeq(s, m, n), s[k])
  BY PieceHas, Zenon DEF Holds

\* Two sequences together hold what each of them holds.
LEMMA JoinHolds ==
  ASSUME NEW S, NEW u \in Seq(S), NEW v \in Seq(S), NEW e
  PROVE  Holds(u, e) \/ Holds(v, e) => Holds(u \o v, e)
<1>1. PICK x \in Nat : x = Len(u) /\ DOMAIN u = 1 .. x
  BY LenProperties
<1>2. PICK y \in Nat : y = Len(v) /\ DOMAIN v = 1 .. y
  BY LenProperties
<1>3. PICK t : t = u \o v
  OBVIOUS
<1>4. /\ t \in Seq(S) /\ Len(t) = x + y
      /\ \A k \in 1 .. x + y : t[k] = IF k <= x THEN u[k] ELSE v[k - x]
  BY <1>1, <1>2, <1>3, ConcatProperties, Zenon
<1>5. DOMAIN t = 1 .. x + y
  BY <1>4, LenProperties, Zenon
<1>6. ASSUME Holds(u, e)
      PROVE  Holds(t, e)
  <2>1. PICK k \in 1 .. x : u[k] = e
    BY <1>1, <1>6, Zenon DEF Holds
  <2>2. k \in 1 .. x + y /\ k <= x
    OBVIOUS
  <2>3. t[k] = e
    BY <1>4, <2>1, <2>2, Zenon
  <2> QED BY <1>5, <2>2, <2>3, Zenon DEF Holds
<1>7. ASSUME Holds(v, e)
      PROVE  Holds(t, e)
  <2>1. PICK k \in 1 .. y : v[k] = e
    BY <1>2, <1>7, Zenon DEF Holds
  <2>2. PICK m : m = x + k
    OBVIOUS
  <2>3. m \in 1 .. x + y /\ ~(m <= x) /\ m - x = k
    BY <2>2
  <2>4. t[m] = v[m - x]
    BY <1>4, <2>3, Zenon
  <2>5. t[m] = e
    BY <2>1, <2>3, <2>4, Zenon
  <2> QED BY <1>5, <2>3, <2>5, Zenon DEF Holds
<1> QED BY <1>3, <1>6, <1>7, Zenon

AllBut(s, i) == SubSeq(s, 1, i - 1) \o SubSeq(s, i + 1, Len(s))

\* A sequence without one of its elements holds the others.
LEMMA WithoutOne ==
  ASSUME NEW S, NEW s \in Seq(S), NEW i \in DOMAIN s
  PROVE  /\ AllBut(s, i) \in Seq(S)
         /\ \A n \in DOMAIN s : n # i => Holds(AllBut(s, i), s[n])
<1>1. PICK u : u = SubSeq(s, 1, i - 1)
  OBVIOUS
<1>2. PICK v : v = SubSeq(s, i + 1, Len(s))
  OBVIOUS
<1>3. PICK o \in Int : o = 1
  OBVIOUS
<1>4. PICK l \in Nat : l = Len(s) /\ DOMAIN s = 1 .. l
  BY LenProperties
<1>5. PICK b : b = i - 1
  OBVIOUS
<1>6. PICK c : c = i + 1
  OBVIOUS
<1>7. i \in 1 .. l
  BY <1>4, Zenon
<1>8. u = SubSeq(s, o, b) /\ v = SubSeq(s, c, l)
  BY <1>4, <1>5, <1>6, <1>3, <1>1, <1>2, Zenon
<1>9. /\ b \in Int /\ b <= l /\ 1 <= o
      /\ c \in Int /\ l \in Int /\ l <= l /\ 1 <= c
  <2> HIDE <1>4, <1>8
  <2> QED BY <1>5, <1>6, <1>7, <1>3
<1>10. \A n \in 1 .. l : n # i => n \in o .. b \/ n \in c .. l
  <2> HIDE <1>4, <1>8
  <2> QED BY <1>5, <1>6, <1>7, <1>3
<1>11. u \in Seq(S)
  BY <1>4, <1>8, <1>9, Piece
<1>12. v \in Seq(S)
  BY <1>4, <1>8, <1>9, Piece
<1>13. \A k \in o .. b : Holds(u, s[k])
  BY <1>4, <1>8, <1>9, PieceHolds, Zenon
<1>14. \A k \in c .. l : Holds(v, s[k])
  BY <1>4, <1>8, <1>9, PieceHolds, Zenon
<1>15. u \o v \in Seq(S)
  BY <1>11, <1>12, ConcatProperties, Zenon
<1>16. ASSUME NEW n \in DOMAIN s, n # i
       PROVE  Holds(u \o v, s[n])
  <2>1. n \in o .. b \/ n \in c .. l
    BY <1>4, <1>10, <1>16, Zenon
  <2>2. Holds(u, s[n]) \/ Holds(v, s[n])
    BY <1>13, <1>14, <2>1, Zenon
  <2> QED BY <1>11, <1>12, <2>2, JoinHolds, Zenon
<1>17. AllBut(s, i) = u \o v
  BY <1>1, <1>2 DEF AllBut
<1> QED BY <1>15, <1>16, <1>17, Zenon

\* The sockets without one are sockets, the other ones among them.
LEMMA OthersAre ==
  ASSUME sockets \in Seq(Apps), NEW a \in Apps
  PROVE  /\ Others(a) \in Seq(Apps)
         /\ \A n \in DOMAIN sockets : sockets[n] # a => Holds(Others(a), sockets[n])
<1>1. CASE \A i \in DOMAIN sockets : sockets[i] # a
  <2>1. Others(a) = sockets
    BY <1>1, Zenon DEF Others
  <2> QED BY <2>1, Zenon DEF Holds
<1>2. CASE ~(\A i \in DOMAIN sockets : sockets[i] # a)
  <2>1. PICK i : i = CHOOSE n \in DOMAIN sockets : sockets[n] = a
    OBVIOUS
  <2>2. i \in DOMAIN sockets /\ sockets[i] = a
    BY <1>2, <2>1, Zenon
  <2>3. Others(a) = AllBut(sockets, i)
    BY <1>2, <2>1, Zenon DEF Others, AllBut
  <2>4. /\ AllBut(sockets, i) \in Seq(Apps)
        /\ \A n \in DOMAIN sockets : n # i => Holds(AllBut(sockets, i), sockets[n])
    BY <2>2, WithoutOne, Zenon
  <2>5. \A n \in DOMAIN sockets : sockets[n] # a => n # i
    BY <2>2, Zenon
  <2> QED BY <2>3, <2>4, <2>5, Zenon
<1> QED BY <1>1, <1>2

\* The sockets of applications that live.
LEMMA LiveHave ==
  ASSUME live \subseteq {sockets[i] : i \in DOMAIN sockets}, NEW b \in live
  PROVE  Holds(sockets, b)
  BY Zenon DEF Holds

-----------------------------------------------------------------------------
(* The invariant is kept while the world moves.                            *)

LEMMA Single == \A a \in Apps : <<a>> \in Seq(Apps)
  OBVIOUS

LEMMA StartKeeps ==
  ASSUME IInv, NEW a \in Apps, Start(a)
  PROVE  IInv'
<1>1. /\ live' = live \cup {a} /\ sockets' = <<a>> \o Others(a)
      /\ UNCHANGED <<setup, todo, job, attached, element, log>>
  BY DEF Start
<1>2. sockets \in Seq(Apps) /\ live \subseteq {sockets[i] : i \in DOMAIN sockets}
  BY IInvHas DEF WorldTyped
<1>3. /\ Others(a) \in Seq(Apps)
      /\ \A n \in DOMAIN sockets : sockets[n] # a => Holds(Others(a), sockets[n])
  BY <1>2, OthersAre
<1>4. PICK o \in Seq(Apps) : o = Others(a)
  BY <1>3
<1>5. PICK f \in Seq(Apps) : f = <<a>>
  BY Single
<1>6. sockets' \in Seq(Apps)
  BY <1>1, <1>4, <1>5, ConcatProperties
<1>7. Holds(f, a)
  BY <1>5 DEF Holds
<1>8. ASSUME NEW b \in live'
      PROVE  Holds(sockets', b)
  <2>1. CASE b = a
    BY <1>1, <1>4, <1>5, <1>7, <2>1, JoinHolds
  <2>2. CASE b # a
    <3>1. PICK n \in DOMAIN sockets : sockets[n] = b
      BY <1>1, <1>2, <2>2
    <3>2. Holds(o, b)
      BY <1>3, <1>4, <2>2, <3>1
    <3> QED BY <1>1, <1>4, <1>5, <3>2, JoinHolds
  <2> QED BY <2>1, <2>2
<1>9. live' \subseteq {sockets'[i] : i \in DOMAIN sockets'}
  BY <1>8 DEF Holds
<1>10. WorldTyped'
  BY <1>1, <1>6, <1>9, IInvHas DEF WorldTyped
<1>11. WorldMoves
  BY <1>1, IInvHas, LogStays DEF WorldMoves
<1>12. \A k \in Callers : JobInv(job[k])'
  BY <1>1, <1>11, IInvHas, AllStay
<1> QED BY <1>10, <1>12 DEF IInv

LEMMA StopKeeps ==
  ASSUME IInv, NEW a \in Apps, Stop(a)
  PROVE  IInv'
<1>1. /\ live' = live \ {a} /\ sockets' \in {sockets, Others(a)}
      /\ UNCHANGED <<setup, todo, attached, element, log>>
  BY DEF Stop
<1>2. sockets \in Seq(Apps) /\ live \subseteq {sockets[i] : i \in DOMAIN sockets}
  BY IInvHas DEF WorldTyped
<1>3. /\ Others(a) \in Seq(Apps)
      /\ \A n \in DOMAIN sockets : sockets[n] # a => Holds(Others(a), sockets[n])
  BY <1>2, OthersAre
<1>4. sockets' \in Seq(Apps)
  BY <1>1, <1>2, <1>3
<1>5. ASSUME NEW b \in live'
      PROVE  Holds(sockets', b)
  <2>1. PICK n \in DOMAIN sockets : sockets[n] = b
    BY <1>1, <1>2
  <2>2. b # a
    BY <1>1
  <2>3. Holds(sockets, b)
    BY <2>1 DEF Holds
  <2>4. Holds(Others(a), b)
    BY <1>3, <2>1, <2>2
  <2> QED BY <1>1, <2>3, <2>4
<1>6. live' \subseteq {sockets'[i] : i \in DOMAIN sockets'}
  BY <1>5 DEF Holds
<1>7. job' = [k \in Callers |-> job'[k]]
  BY DEF Stop
<1>8. WorldTyped'
  BY <1>1, <1>4, <1>6, <1>7, IInvHas DEF WorldTyped
<1>9. WorldMoves
  BY <1>1, IInvHas, LogStays DEF WorldMoves
<1>10. ASSUME NEW k \in Callers
       PROVE  JobInv(job[k])'
  <2>1. PICK r : r = job[k]
    OBVIOUS
  <2>2. PICK q : q = job'[k]
    OBVIOUS
  <2>3. JobInv(r)
    BY <2>1, IInvHas
  <2>4. \/ q = r
        \/ r.pc \in {"ready", "pause"}
           /\ q = Ended(r, IF r.stage = "shot" THEN r.verdict ELSE "failed")
    BY <2>1, <2>2, Zenon DEF Stop
  <2>5. ASSUME q = r
        PROVE  JobInv(q)
    BY <2>3, <2>5
  <2>6. ASSUME r.pc \in {"ready", "pause"},
               q = Ended(r, IF r.stage = "shot" THEN r.verdict ELSE "failed")
        PROVE  JobInv(q)
    <3>1. r.verdict \in Verdicts
      BY <2>3, JobHas DEF JobTyped
    <3>2. PICK v \in Verdicts : v = IF r.stage = "shot" THEN r.verdict ELSE "failed"
      BY <3>1 DEF Verdicts
    <3>3. q = Ended(r, v) /\ r.pc # "idle"
      BY <2>6, <3>2
    <3> QED BY <2>3, <3>3, EndedJob
  <2>7. JobInv(q)
    BY <2>4, <2>5, <2>6
  <2>8. JobInv(q)'
    BY <1>9, <2>7, JobStays
  <2> QED BY <2>2, <2>8
<1> QED BY <1>8, <1>10 DEF IInv

LEMMA PageChangesKeeps ==
  ASSUME IInv, PageChanges
  PROVE  IInv'
<1>1. UNCHANGED <<setup, todo, job, attached, sockets, live, log>>
  BY DEF PageChanges
<1>2. element' \in [Windows \X Docs -> Elements]
  BY IInvHas DEF PageChanges, WorldTyped
<1>3. WorldTyped'
  BY <1>1, <1>2, IInvHas DEF WorldTyped
<1>4. WorldMoves
  BY <1>1, IInvHas, LogStays DEF WorldMoves
<1>5. \A k \in Callers : JobInv(job[k])'
  BY <1>1, <1>4, IInvHas, AllStay
<1> QED BY <1>3, <1>5 DEF IInv

\* The page's log moves on, and nothing else.
LEMMA LogKeeps ==
  ASSUME IInv, log' \in Logs, Grows(log, log'),
         UNCHANGED <<setup, todo, job, attached, sockets, live, element>>
  PROVE  IInv'
<1>1. WorldTyped'
  BY IInvHas DEF WorldTyped, Logs
<1>2. WorldMoves
  BY IInvHas DEF WorldMoves
<1>3. \A k \in Callers : JobInv(job[k])'
  BY <1>2, IInvHas, AllStay
<1> QED BY <1>1, <1>3 DEF IInv

LEMMA PageLogsKeeps ==
  ASSUME IInv, PageLogs
  PROVE  IInv'
<1>1. PICK l \in Logs : l = log
  BY IInvHas
<1>2. PICK new : new = log'
  OBVIOUS
<1>3. new = [l EXCEPT !.hi = l.hi + 1,
                      !.lo = IF l.hi + 1 - l.lo = Cap THEN l.lo + 1 ELSE l.lo]
  BY <1>1, <1>2, Zenon DEF PageLogs
<1>4. log' \in Logs /\ Grows(log, log')
  BY <1>1, <1>2, <1>3, LogAdded, ZenonT(60)
<1> QED BY <1>4, LogKeeps DEF PageLogs

LEMMA PageLoadsKeeps ==
  ASSUME IInv, PageLoads
  PROVE  IInv'
<1>1. PICK l \in Logs : l = log
  BY IInvHas
<1>2. PICK new : new = log'
  OBVIOUS
<1>3. new = [doc |-> l.doc + 1, lo |-> 1, hi |-> 0]
  BY <1>1, <1>2, Zenon DEF PageLoads
<1>4. log' \in Logs /\ Grows(log, log')
  BY <1>1, <1>2, <1>3, LogAnew
<1> QED BY <1>4, LogKeeps DEF PageLoads

LEMMA StepKeeps ==
  ASSUME IInv, NEW j \in Callers, Step(j)
  PROVE  IInv'
  BY Zenon, AskKeeps, RefuseKeeps, ResolveKeeps, OpenKeeps, EncodeFailsKeeps, ServeKeeps,
     AskForWindowsKeeps, RetryKeeps, JudgeKeeps, ShotKeeps, FollowKeeps, PollKeeps,
     RestKeeps DEF Step

LEMMA StutterKeeps ==
  ASSUME IInv, UNCHANGED vars
  PROVE  IInv'
<1>1. UNCHANGED <<setup, todo, job, attached, sockets, live, element, log>>
  BY DEF vars, world
<1>2. log' \in Logs /\ Grows(log, log')
  BY <1>1, IInvHas, LogStays
<1> QED BY <1>1, <1>2, LogKeeps

LEMMA NextKeeps == IInv /\ [Next]_vars => IInv'
<1> SUFFICES ASSUME IInv, [Next]_vars
             PROVE  IInv'
  OBVIOUS
<1>1. CASE \E j \in Callers : Step(j)
  BY <1>1, StepKeeps
<1>2. CASE \E a \in Apps : Start(a) \/ Stop(a)
  BY <1>2, StartKeeps, StopKeeps
<1>3. CASE PageChanges \/ PageLogs \/ PageLoads
  BY <1>3, PageChangesKeeps, PageLogsKeeps, PageLoadsKeeps
<1>4. CASE UNCHANGED vars
  BY <1>4, StutterKeeps
<1> QED BY <1>1, <1>2, <1>3, <1>4, Zenon DEF Next

LEMMA InitHolds == Init => IInv
<1> SUFFICES ASSUME Init
             PROVE  IInv
  OBVIOUS
<1>1. PICK s \in Stories :
        /\ setup = s.setup /\ todo = s.calls /\ left = s.events
        /\ element = s.element /\ sockets = s.sockets /\ live = s.live
        /\ job = [j \in Callers |-> Idle]
        /\ attached = None /\ log = [doc |-> 0, lo |-> 1, hi |-> 1]
  BY DEF Init
<1>2. /\ s.setup \in Setups /\ s.element \in [Windows \X Docs -> Elements]
      /\ s.sockets \in Seq(Apps) /\ s.live \subseteq {s.sockets[i] : i \in DOMAIN s.sockets}
      /\ s.calls \in Seq(Calls)
  BY StoriesAssumption
<1>3. \A i \in DOMAIN s.calls : Written(s.calls[i])
  BY StoriesAssumption, Zenon DEF Written
<1>4. log \in [doc : Nat, lo : Nat \ {0}, hi : Nat] /\ log.hi + 1 - log.lo \in 0 .. Cap
  BY <1>1, FrontendsAssumption
<1>5. job = [j \in Callers |-> job[j]] /\ \A j \in Callers : job[j] = Idle
  BY <1>1
<1>6. WorldTyped
  BY <1>1, <1>2, <1>3, <1>4, <1>5 DEF WorldTyped
<1>7. ASSUME NEW j \in Callers
      PROVE  JobInv(job[j])
  <2>1. JobInv(Idle)
    BY <1>6, IdleJob
  <2> QED BY <1>5, <2>1
<1> QED BY <1>6, <1>7 DEF IInv

\* In every state the requests of all calls are what their words ask for, and
\* what is known of answers, elements and entries of the log is true.
THEOREM FrontendsCorrect == Spec => []IInv
  BY InitHolds, NextKeeps, PTL DEF Spec

-----------------------------------------------------------------------------
(* Where a call has been, and what its caller was told.                    *)

Told(r) == VerdictOK(r) /\ HitsOK(r)

LEMMA AimsStays ==
  ASSUME setup' = setup, NEW c, NEW h, WhereAsked(c, h)
  PROVE  WhereAsked(c, h)'
  BY AskedWindowStays, RequestStays DEF WhereAsked

LEMMA ToldStays ==
  ASSUME setup' = setup, NEW r, Told(r)
  PROVE  Told(r)'
<1>1. VerdictOK(r)'
  BY DEF Told, VerdictOK
<1>2. HitsOK(r)'
  BY AimsStays, Zenon DEF Told, HitsOK
<1> QED BY <1>1, <1>2 DEF Told

\* What a call was told at its end, or is about to be told then.
Settled(r) ==
  (r.pc = "done" \/ r.stage = "shot") /\ r.call.op # "assert_exists" =>
    Agrees(r.verdict, r.holds)

\* A call that gets no answer meanwhile has been nowhere else.
LEMMA ToldMoves ==
  ASSUME NEW r, Told(r), r.pc # "idle", NEW q, q.call = r.call, q.hits = r.hits,
         q.pc # "answered", Settled(q)
  PROVE  Told(q)
<1>1. VerdictOK(q)
  BY Zenon DEF VerdictOK, Settled
<1>2. HitsOK(q)
  BY Zenon DEF Told, HitsOK
<1> QED BY <1>1, <1>2 DEF Told

LEMMA OneTold ==
  ASSUME setup' = setup, \A k \in Callers : Told(job[k]), job = [k \in Callers |-> job[k]],
         NEW j \in Callers, NEW q, Becomes(j, q), Told(q)
  PROVE  \A k \in Callers : Told(job[k])'
<1> SUFFICES ASSUME NEW k \in Callers
             PROVE  Told(job[k])'
  OBVIOUS
<1>1. job'[j] = q /\ (k # j => job'[k] = job[k])
  BY JobMoves DEF Becomes
<1>2. PICK r : r = job'[k]
  OBVIOUS
<1>3. Told(r)
  BY <1>1, <1>2
<1>4. Told(r)'
  BY <1>3, ToldStays
<1> QED BY <1>2, <1>4

LEMMA AllTold ==
  ASSUME setup' = setup, \A k \in Callers : Told(job[k]), UNCHANGED job
  PROVE  \A k \in Callers : Told(job[k])'
<1> SUFFICES ASSUME NEW k \in Callers
             PROVE  Told(job[k])'
  OBVIOUS
<1>1. PICK r : r = job[k] /\ r = job'[k]
  OBVIOUS
<1>2. Told(r)'
  BY <1>1, ToldStays
<1> QED BY <1>1, <1>2

ToldSoFar == IInv /\ \A k \in Callers : Told(job[k])

LEMMA SoFarHas ==
  ASSUME ToldSoFar
  PROVE  /\ IInv /\ \A k \in Callers : Told(job[k]) /\ JobInv(job[k])
         /\ job = [k \in Callers |-> job[k]]
  BY IInvHas DEF ToldSoFar

\* The fields of a record that these parts are about.
LEMMA EndedHas ==
  ASSUME NEW r, Fields(r), NEW v, NEW q, q = Ended(r, v)
  PROVE  /\ q.pc = "done" /\ q.verdict = v
         /\ q.call = r.call /\ q.hits = r.hits /\ q.holds = r.holds
  BY DEF Fields, Ended

LEMMA GoesOn ==
  ASSUME NEW r, Fields(r), NEW q, NEW m, NEW s, NEW n,
         \/ q = Resolved(r, s) \/ q = Opened(r, m) \/ q = [r EXCEPT !.pc = "ready"]
         \/ q = Paused(r, s, n)
  PROVE  /\ q.pc \in {"resolved", "ready", "pause"} /\ q.stage = r.stage
         /\ q.call = r.call /\ q.hits = r.hits
<1>1. CASE q = Resolved(r, s)
  BY <1>1 DEF Fields, Resolved
<1>2. CASE q = Opened(r, m)
  BY <1>2 DEF Fields, Opened
<1>3. CASE q = [r EXCEPT !.pc = "ready"]
  BY <1>3 DEF Fields
<1>4. CASE q = Paused(r, s, n)
  BY <1>4 DEF Fields, Paused
<1> QED BY <1>1, <1>2, <1>3, <1>4, Zenon

LEMMA AsksAgain ==
  ASSUME NEW r, Fields(r), NEW s, NEW m, NEW q, q = Staged(r, s, m)
  PROVE  /\ q.pc = "ready" /\ q.stage = s
         /\ q.call = r.call /\ q.hits = r.hits
  BY DEF Fields, Staged

LEMMA TakesAShot ==
  ASSUME NEW r, Fields(r), NEW v, NEW m, NEW q, q = Shooting(r, v, m)
  PROVE  /\ q.pc = "ready" /\ q.verdict = v
         /\ q.call = r.call /\ q.hits = r.hits /\ q.holds = r.holds
  BY DEF Fields, Shooting

LEMMA EndsTold ==
  ASSUME ToldSoFar, setup' = setup, NEW j \in Callers, job[j].pc # "idle", NEW v, Ends(j, v),
         job[j].call.op # "assert_exists" => Agrees(v, job[j].holds)
  PROVE  \A k \in Callers : Told(job[k])'
<1>1. PICK r : r = job[j]
  OBVIOUS
<1>2. JobInv(r) /\ Fields(r) /\ Told(r) /\ r.pc # "idle"
  BY <1>1, SoFarHas, JobHas
<1>3. PICK q : q = Ended(r, v)
  OBVIOUS
<1>4. /\ q.pc = "done" /\ q.verdict = v
      /\ q.call = r.call /\ q.hits = r.hits /\ q.holds = r.holds
  BY <1>2, <1>3, EndedHas
<1>5. Settled(q)
  BY <1>1, <1>4 DEF Settled
<1>6. Told(q)
  BY <1>2, <1>4, <1>5, ToldMoves
<1>7. Becomes(j, q)
  BY <1>1, <1>3 DEF Ends
<1> QED BY <1>6, <1>7, SoFarHas, OneTold

LEMMA RefuseTold ==
  ASSUME ToldSoFar, NEW j \in Callers, Refuse(j) \/ EncodeFails(j) \/ Shot(j)
  PROVE  \A k \in Callers : Told(job[k])'
<1>1. setup' = setup /\ job[j].pc # "idle"
  BY DEF Refuse, EncodeFails, Shot
<1>2. Agrees("refused", job[j].holds) /\ Agrees("failed", job[j].holds)
  BY DEF Agrees
<1>3. CASE Refuse(j)
  BY <1>1, <1>2, <1>3, EndsTold DEF Refuse
<1>4. CASE EncodeFails(j)
  BY <1>1, <1>2, <1>4, EndsTold DEF EncodeFails
<1>5. CASE Shot(j)
  <2>1. PICK r : r = job[j]
    OBVIOUS
  <2>2. Told(r) /\ r.pc # "idle" /\ r.stage = "shot"
    BY <1>1, <1>5, <2>1, SoFarHas DEF Shot
  <2>3. r.call.op # "assert_exists" => Agrees(r.verdict, r.holds)
    BY <2>2 DEF Told, VerdictOK
  <2> QED BY <1>1, <1>5, <2>1, <2>3, EndsTold DEF Shot
<1> QED BY <1>3, <1>4, <1>5

\* A step that leaves the call at work, with no answer yet.
LEMMA MovesTold ==
  ASSUME ToldSoFar, setup' = setup, NEW j \in Callers, NEW r, r = job[j], r.pc # "idle",
         NEW q, Becomes(j, q), q.pc \in {"resolved", "ready", "pause"}, q.stage # "shot",
         q.call = r.call, q.hits = r.hits
  PROVE  \A k \in Callers : Told(job[k])'
<1>1. Told(r)
  BY SoFarHas
<1>2. Settled(q) /\ q.pc # "answered"
  BY DEF Settled
<1>3. Told(q)
  BY <1>1, <1>2, ToldMoves
<1> QED BY <1>3, SoFarHas, OneTold

LEMMA AskTold ==
  ASSUME ToldSoFar, NEW j \in Callers, Ask(j)
  PROVE  \A k \in Callers : Told(job[k])'
<1>1. PICK r : r = job[j]
  OBVIOUS
<1>2. JobTyped(r) /\ Fields(r) /\ r.pc = "idle"
  BY <1>1, SoFarHas, JobHas DEF Ask
<1>3. r = Idle
  BY <1>2 DEF JobTyped
<1>4. r.stage = "first" /\ r.hits = {}
  BY <1>3 DEF Idle
<1>5. PICK c : c = Head(todo)
  OBVIOUS
<1>6. PICK s, d : s = attached /\ d = log.doc
  OBVIOUS
<1>7. PICK q : q = Asked(r, c, s, d)
  OBVIOUS
<1>8. q.pc = "asked" /\ q.stage = r.stage /\ q.hits = r.hits
  BY <1>2, <1>7 DEF Fields, Asked
<1>9. VerdictOK(q)
  BY <1>4, <1>8 DEF VerdictOK
<1>10. HitsOK(q)
  BY <1>4, <1>8 DEF HitsOK
<1>11. Becomes(j, Asked(r, c, s, d))
  BY <1>1, <1>5, <1>6, Zenon DEF Ask, Asked
<1>12. Becomes(j, q) /\ setup' = setup
  BY <1>7, <1>11 DEF Ask
<1> QED BY <1>9, <1>10, <1>12, SoFarHas, OneTold DEF Told

LEMMA ResolveTold ==
  ASSUME ToldSoFar, NEW j \in Callers, Resolve(j)
  PROVE  \A k \in Callers : Told(job[k])'
<1>1. PICK r : r = job[j]
  OBVIOUS
<1>2. JobInv(r) /\ r.pc = "asked" /\ setup' = setup
  BY <1>1, SoFarHas DEF Resolve
<1>3. Fields(r) /\ r.stage = "first"
  BY <1>2, JobHas DEF RequestOK
<1>4. PICK s : s = SocketFor(r.call)
  OBVIOUS
<1>5. CASE s = None
  <2>1. Ends(j, "failed") /\ Agrees("failed", job[j].holds) /\ job[j].pc # "idle"
    BY <1>1, <1>2, <1>4, <1>5 DEF Resolve, Agrees
  <2> QED BY <1>2, <2>1, EndsTold
<1>6. CASE s # None
  <2>1. PICK q : q = Resolved(r, s)
    OBVIOUS
  <2>2. /\ q.pc \in {"resolved", "ready", "pause"} /\ q.stage = r.stage
        /\ q.call = r.call /\ q.hits = r.hits
    BY <1>3, <2>1, GoesOn
  <2>3. Becomes(j, Resolved(r, s))
    BY <1>1, <1>4, <1>6, Zenon DEF Resolve, Resolved
  <2>4. Becomes(j, q)
    BY <2>1, <2>3
  <2> QED BY <1>1, <1>2, <1>3, <2>2, <2>4, MovesTold
<1> QED BY <1>5, <1>6

LEMMA OpenTold ==
  ASSUME ToldSoFar, NEW j \in Callers, Open(j)
  PROVE  \A k \in Callers : Told(job[k])'
<1>1. PICK r : r = job[j]
  OBVIOUS
<1>2. JobInv(r) /\ r.pc = "resolved" /\ setup' = setup
  BY <1>1, SoFarHas DEF Open
<1>3. Fields(r) /\ r.stage = "first"
  BY <1>2, JobHas DEF RequestOK
<1>4. CASE r.socket \notin live
  <2>1. Ends(j, "failed") /\ Agrees("failed", job[j].holds) /\ job[j].pc # "idle"
    BY <1>1, <1>2, <1>4 DEF Open, Agrees
  <2> QED BY <1>2, <2>1, EndsTold
<1>5. CASE r.socket \in live
  <2>1. PICK m : m = RequestOf(r.call)
    OBVIOUS
  <2>2. PICK q : q = Opened(r, m)
    OBVIOUS
  <2>3. /\ q.pc \in {"resolved", "ready", "pause"} /\ q.stage = r.stage
        /\ q.call = r.call /\ q.hits = r.hits
    BY <1>3, <2>2, GoesOn
  <2>4. Becomes(j, Opened(r, m))
    BY <1>1, <1>5, <2>1, Zenon DEF Open, Opened
  <2>5. Becomes(j, q)
    BY <2>2, <2>4
  <2> QED BY <1>1, <1>2, <1>3, <2>3, <2>5, MovesTold
<1> QED BY <1>4, <1>5

LEMMA PollTold ==
  ASSUME ToldSoFar, NEW j \in Callers, Poll(j)
  PROVE  \A k \in Callers : Told(job[k])'
<1>1. PICK r : r = job[j]
  OBVIOUS
<1>2. JobInv(r) /\ r.pc = "pause" /\ setup' = setup
  BY <1>1, SoFarHas DEF Poll
<1>3. Fields(r) /\ r.stage = "first"
  BY <1>2, JobHas DEF RequestOK
<1>4. PICK q : q = [r EXCEPT !.pc = "ready"]
  OBVIOUS
<1>5. /\ q.pc \in {"resolved", "ready", "pause"} /\ q.stage = r.stage
      /\ q.call = r.call /\ q.hits = r.hits
  BY <1>3, <1>4, GoesOn
<1>6. Becomes(j, q)
  BY <1>1, <1>4 DEF Poll
<1> QED BY <1>1, <1>2, <1>3, <1>5, <1>6, MovesTold

LEMMA RestTold ==
  ASSUME ToldSoFar, NEW j \in Callers, Rest(j)
  PROVE  \A k \in Callers : Told(job[k])'
<1>1. PICK q : q = Idle
  OBVIOUS
<1>2. q.pc = "idle"
  BY <1>1 DEF Idle
<1>3. Told(q)
  BY <1>2 DEF Told, VerdictOK, HitsOK
<1>4. Becomes(j, q) /\ setup' = setup
  BY <1>1 DEF Rest
<1> QED BY <1>3, <1>4, SoFarHas, OneTold

LEMMA AskForWindowsTold ==
  ASSUME ToldSoFar, NEW j \in Callers, AskForWindows(j)
  PROVE  \A k \in Callers : Told(job[k])'
<1>1. PICK r : r = job[j]
  OBVIOUS
<1>2. Fields(r) /\ r.pc = "answered" /\ setup' = setup
  BY <1>1, SoFarHas, JobHas DEF AskForWindows
<1>3. PICK m : m = Request("windows.list", Nothing, None, FALSE)
  OBVIOUS
<1>4. PICK q : q = Staged(r, "listing", m)
  OBVIOUS
<1>5. /\ q.pc = "ready" /\ q.stage = "listing"
      /\ q.call = r.call /\ q.hits = r.hits
  BY <1>2, <1>4, AsksAgain
<1>6. Becomes(j, Staged(r, "listing", m))
  BY <1>1, <1>3, Zenon DEF AskForWindows, Again, Staged
<1>7. Becomes(j, q)
  BY <1>4, <1>6
<1> QED BY <1>1, <1>2, <1>5, <1>7, MovesTold

LEMMA RetryTold ==
  ASSUME ToldSoFar, NEW j \in Callers, Retry(j)
  PROVE  \A k \in Callers : Told(job[k])'
<1>1. PICK r : r = job[j]
  OBVIOUS
<1>2. Fields(r) /\ r.pc = "answered" /\ setup' = setup
  BY <1>1, SoFarHas, JobHas DEF Retry
<1>3. CASE r.reply = "error" \/ Label(r.call.window) \notin Windows
  <2>1. Ends(j, "failed")
    BY <1>1, <1>3, Zenon DEF Retry
  <2>2. Agrees("failed", job[j].holds) /\ job[j].pc # "idle"
    BY <1>1, <1>2 DEF Agrees
  <2> QED BY <1>2, <2>1, <2>2, EndsTold
<1>4. CASE ~(r.reply = "error" \/ Label(r.call.window) \notin Windows)
  <2>1. PICK w : w = Label(r.call.window)
    OBVIOUS
  <2>2. PICK m : m = WithId(r.call, w)
    OBVIOUS
  <2>3. PICK q : q = Staged(r, "retry", m)
    OBVIOUS
  <2>4. /\ q.pc = "ready" /\ q.stage = "retry"
        /\ q.call = r.call /\ q.hits = r.hits
    BY <1>2, <2>3, AsksAgain
  <2>5. Becomes(j, Staged(r, "retry", m))
    BY <1>1, <1>4, <2>1, <2>2, Zenon DEF Retry, Again, Staged, WithId
  <2>6. Becomes(j, q)
    BY <2>3, <2>5
  <2> QED BY <1>1, <1>2, <2>4, <2>6, MovesTold
<1> QED BY <1>3, <1>4

LEMMA JudgeTold ==
  ASSUME ToldSoFar, NEW j \in Callers, Judge(j)
  PROVE  \A k \in Callers : Told(job[k])'
<1>1. PICK r : r = job[j]
  OBVIOUS
<1>2. /\ Told(r) /\ Fields(r) /\ r.pc = "answered" /\ r.stage \in {"first", "retry"}
      /\ setup' = setup
  BY <1>1, SoFarHas, JobHas DEF Judge
<1>3. PICK v : v = Verdict(r.call, r.reply)
  OBVIOUS
<1>4. r.call.op # "assert_exists" => Agrees(v, r.holds)
  BY <1>2, <1>3 DEF Told, VerdictOK
<1>5. CASE AStep(r.call) /\ v \in {"failed", "refuted"}
  <2>1. PICK m : m = Request("screenshot", Nothing, AskedWindow(r.call), FALSE)
    OBVIOUS
  <2>2. PICK q : q = Shooting(r, v, m)
    OBVIOUS
  <2>3. /\ q.pc = "ready" /\ q.verdict = v
        /\ q.call = r.call /\ q.hits = r.hits /\ q.holds = r.holds
    BY <1>2, <2>2, TakesAShot
  <2>4. Settled(q) /\ r.pc # "idle" /\ q.pc # "answered"
    BY <1>2, <1>4, <2>3 DEF Settled
  <2>5. Told(q)
    BY <1>2, <2>3, <2>4, ToldMoves
  <2>6. Becomes(j, Shooting(r, v, m))
    BY <1>1, <1>3, <1>5, <2>1, Zenon DEF Judge, Shooting
  <2>7. Becomes(j, q)
    BY <2>2, <2>6
  <2> QED BY <1>2, <2>5, <2>7, SoFarHas, OneTold
<1>6. CASE ~(AStep(r.call) /\ v \in {"failed", "refuted"})
  <2>1. Ends(j, v)
    BY <1>1, <1>3, <1>6, Zenon DEF Judge
  <2>2. job[j].pc # "idle"
    BY <1>1, <1>2
  <2> QED BY <1>1, <1>2, <1>4, <2>1, <2>2, EndsTold
<1> QED BY <1>5, <1>6

LEMMA FollowTold ==
  ASSUME ToldSoFar, NEW j \in Callers, Follow(j)
  PROVE  \A k \in Callers : Told(job[k])'
<1>1. PICK r : r = job[j]
  OBVIOUS
<1>2. /\ JobInv(r) /\ r.pc = "answered" /\ r.call.op = "logs.follow" /\ setup' = setup
  BY <1>1, SoFarHas DEF Follow
<1>3. Fields(r) /\ r.stage = "first"
  BY <1>2, JobHas DEF RequestOK
<1>4. CASE r.reply = "error"
  <2>1. Ends(j, "failed")
    BY <1>1, <1>4, Zenon DEF Follow
  <2>2. Agrees("failed", job[j].holds) /\ job[j].pc # "idle"
    BY <1>1, <1>2 DEF Agrees
  <2> QED BY <1>2, <2>1, <2>2, EndsTold
<1>5. CASE r.reply # "error"
  <2>1. PICK s : s = r.shown \o r.got
    OBVIOUS
  <2>2. PICK n : n = IF r.got = <<>> THEN r.seen ELSE r.got[Len(r.got)][2]
    OBVIOUS
  <2>3. PICK q : q = Paused(r, s, n)
    OBVIOUS
  <2>4. /\ q.pc \in {"resolved", "ready", "pause"} /\ q.stage = r.stage
        /\ q.call = r.call /\ q.hits = r.hits
    BY <1>3, <2>3, GoesOn
  <2>5. Becomes(j, Paused(r, s, n))
    BY <1>1, <1>5, <2>1, <2>2, Zenon DEF Follow, LastSeen, Paused
  <2>6. Becomes(j, q)
    BY <2>3, <2>5
  <2> QED BY <1>1, <1>2, <1>3, <2>4, <2>6, MovesTold
<1> QED BY <1>4, <1>5

LEMMA StopTold ==
  ASSUME ToldSoFar, NEW a \in Apps, Stop(a)
  PROVE  \A k \in Callers : Told(job[k])'
<1> SUFFICES ASSUME NEW k \in Callers
             PROVE  Told(job[k])'
  OBVIOUS
<1>1. PICK r : r = job[k]
  OBVIOUS
<1>2. PICK q : q = job'[k]
  OBVIOUS
<1>3. Told(r) /\ Fields(r) /\ setup' = setup
  BY <1>1, SoFarHas, JobHas DEF Stop
<1>4. \/ q = r
      \/ r.pc \in {"ready", "pause"}
         /\ q = Ended(r, IF r.stage = "shot" THEN r.verdict ELSE "failed")
  BY <1>1, <1>2, Zenon DEF Stop
<1>5. ASSUME q = r
      PROVE  Told(q)
  BY <1>3, <1>5
<1>6. ASSUME r.pc \in {"ready", "pause"},
             q = Ended(r, IF r.stage = "shot" THEN r.verdict ELSE "failed")
      PROVE  Told(q)
  <2>1. PICK v : v = IF r.stage = "shot" THEN r.verdict ELSE "failed"
    OBVIOUS
  <2>2. q = Ended(r, v) /\ r.pc # "idle"
    BY <1>6, <2>1
  <2>3. r.call.op # "assert_exists" => Agrees(v, r.holds)
    BY <1>3, <2>1, <2>2 DEF Told, VerdictOK, Agrees
  <2>4. /\ q.pc = "done" /\ q.verdict = v
        /\ q.call = r.call /\ q.hits = r.hits /\ q.holds = r.holds
    BY <1>3, <2>2, EndedHas
  <2>5. Settled(q) /\ q.pc # "answered"
    BY <2>3, <2>4 DEF Settled
  <2> QED BY <1>3, <2>2, <2>4, <2>5, ToldMoves
<1>7. Told(q)
  BY <1>4, <1>5, <1>6
<1>8. Told(q)'
  BY <1>3, <1>7, ToldStays
<1> QED BY <1>2, <1>8

-----------------------------------------------------------------------------
(* The place a request is carried out at, and what is found there.         *)

\* Where a call wants to be carried out.
Spot(c) == <<Label(AskedWindow(c)), IF c.frame THEN "frame" ELSE "top">>

Page(c) == <<Label(AskedWindow(c)), "page">>

LEMMA PlaceOfElement ==
  ASSUME NEW req, Aims(req)
  PROVE  PlaceOf(req) = <<Label(req.window),
                          IF req.frame /\ req.method \in Framed THEN "frame" ELSE "top">>
<1>1. req.method \in ElementMethods \cup {"wait"} \cup PageViews
  BY ElementReadsDomain DEF Aims, PageViews
<1>2. req.method # "screenshot_native"
  BY <1>1 DEF ElementMethods, PageViews
<1> QED BY <1>2, Zenon DEF PlaceOf

LEMMA PlaceOfPage ==
  ASSUME NEW req, ~Aims(req),
         ~(req.method = "screenshot_native" /\ "window_id" \in DOMAIN req.params)
  PROVE  PlaceOf(req) = <<Label(req.window), "page">>
  BY Zenon DEF PlaceOf

LEMMA FrameOf ==
  ASSUME NEW c \in Calls, Written(c), Offers(c), Aims(RequestOf(c)), Ignored \subseteq Unframed
  PROVE  RequestOf(c).frame /\ RequestOf(c).method \in Framed <=> c.frame
<1>1. RequestOf(c).frame => c.frame
  BY RequestOfIs, Zenon
<1>2. ASSUME c.frame
      PROVE  RequestOf(c).frame /\ RequestOf(c).method \in Framed
  <2>1. PICK sent : sent = IF c.front = "mcp" THEN RowOf(c).passes ELSE RowOf(c).scope
    OBVIOUS
  <2>2. InFrame(RowOf(c), sent)
    BY <1>2, <2>1, FramesAreSent
  <2>3. /\ RowOf(c).method \in ElementMethods \cup {"wait"}
        /\ RowOf(c).passes \cap {"target", "selector", "by", "source"} # {}
    BY <2>2, AimsAtPassed DEF InFrame
  <2>4. "frame" \in sent /\ RowOf(c).method \notin {"drag", "scroll"}
    BY <2>2, <2>3 DEF InFrame
  <2>5. RequestOf(c).frame
    BY <1>2, <2>1, <2>4, RequestOfIs
  <2>6. RowOf(c).method \in Framed
    BY <2>3, <2>4, ElementReadsDomain DEF Framed
  <2>7. RequestOf(c).method = RowOf(c).method
    BY RequestOfIs, Zenon
  <2> QED BY <2>5, <2>6, <2>7
<1> QED BY <1>1, <1>2

LEMMA WindowOf ==
  ASSUME NEW c, RequestOf(c).method # "windows.list"
  PROVE  RequestOf(c).window = AskedWindow(c)
  BY RequestOfIs, Zenon

\* An element is looked for where the caller says.
LEMMA SpotOf ==
  ASSUME NEW c \in Calls, Written(c), Offers(c), Aims(RequestOf(c)), Ignored \subseteq Unframed
  PROVE  PlaceOf(RequestOf(c)) = Spot(c)
<1>1. PICK req : req = RequestOf(c)
  OBVIOUS
<1>2. req.method \in ElementMethods \cup {"wait"} \cup PageViews
  BY <1>1, ElementReadsDomain DEF Aims, PageViews
<1>3. req.window = AskedWindow(c)
  BY <1>1, <1>2, WindowOf DEF ElementMethods, PageViews
<1>4. req.frame /\ req.method \in Framed <=> c.frame
  BY <1>1, FrameOf
<1>5. PlaceOf(req) = <<Label(req.window),
                       IF req.frame /\ req.method \in Framed THEN "frame" ELSE "top">>
  BY <1>1, PlaceOfElement
<1> QED BY <1>1, <1>3, <1>4, <1>5, Zenon DEF Spot

\* A call's own request leads where the caller says.
LEMMA PlaceAsked ==
  ASSUME NEW c \in Calls, Written(c), Offers(c), Ignored \subseteq Unframed,
         RequestOf(c).method \notin Windowless, PlaceOf(RequestOf(c))[1] # "asked"
  PROVE  WhereAsked(c, PlaceOf(RequestOf(c)))
<1>1. CASE Aims(RequestOf(c))
  <2>1. PlaceOf(RequestOf(c)) = Spot(c)
    BY <1>1, SpotOf
  <2> QED BY <2>1 DEF WhereAsked, Spot
<1>2. CASE ~Aims(RequestOf(c))
  <2>1. PICK req : req = RequestOf(c)
    OBVIOUS
  <2>2. ~(req.method = "screenshot_native" /\ "window_id" \in DOMAIN req.params)
    <3>1. ASSUME req.method = "screenshot_native", "window_id" \in DOMAIN req.params
          PROVE  FALSE
      <4>1. req.params["window_id"] = "asked"
        BY <2>1, <3>1, AskedValues
      <4>2. PlaceOf(req) = <<req.params["window_id"], "page">>
        BY <3>1, Zenon DEF PlaceOf
      <4> QED BY <2>1, <4>1, <4>2
    <3> QED BY <3>1
  <2>3. PlaceOf(req) = <<Label(req.window), "page">>
    BY <1>2, <2>1, <2>2, PlaceOfPage
  <2>4. req.method # "windows.list"
    BY <2>1 DEF Windowless
  <2>5. req.window = AskedWindow(c)
    BY <2>1, <2>4, WindowOf
  <2> QED BY <1>2, <2>1, <2>3, <2>5 DEF WhereAsked
<1> QED BY <1>1, <1>2

\* What an assertion is about, of an element and of a page.
ElementAssertions == TargetAssertions \cup {"assert_count"}

LEMMA ElementAsserted ==
  ASSUME NEW c \in Calls, Written(c), ~Refused(c), c.op \in ElementAssertions,
         Ignored \subseteq Unframed
  PROVE  /\ ElementAt(RequestOf(c)) = element[Spot(c)]
         /\ RequestOf(c).window = AskedWindow(c)
<1>1. Offers(c) /\ TakesOf(c).need \subseteq c.args
  BY DEF Refused
<1>2. Aims(RequestOf(c))
  BY <1>1, AimsAtNeeded DEF ElementAssertions
<1>3. PlaceOf(RequestOf(c)) = Spot(c)
  BY <1>1, <1>2, SpotOf
<1>4. Spot(c)[1] = Label(AskedWindow(c)) /\ Spot(c)[2] = (IF c.frame THEN "frame" ELSE "top")
  BY DEF Spot
<1>5. Spot(c)[2] # "page" /\ Spot(c) = <<Spot(c)[1], Spot(c)[2]>>
  BY DEF Spot
<1>6. ElementAt(RequestOf(c)) = element[Spot(c)]
  BY <1>3, <1>5, Zenon DEF ElementAt
<1>7. RequestOf(c).method \in ElementMethods \cup {"wait"} \cup PageViews
  BY <1>2, ElementReadsDomain DEF Aims, PageViews
<1> QED BY <1>6, <1>7, WindowOf DEF ElementMethods, PageViews

LEMMA PageAsserted ==
  ASSUME NEW c \in Calls, ~Refused(c), c.op \in {"assert_url", "storage_get"}
  PROVE  /\ ElementAt(RequestOf(c)) = element[<<Label(AskedWindow(c)), "top">>]
         /\ RequestOf(c).window = AskedWindow(c)
<1>1. Offers(c)
  BY DEF Refused
<1>2. PICK req : req = RequestOf(c)
  OBVIOUS
<1>3. req.method \in {"url", "storage.get"}
  BY <1>1, <1>2, OfferedRows, RequestOfIs DEF LooksAt
<1>4. ~Aims(req)
  BY <1>3, ElementReadsDomain DEF Aims, ElementMethods
<1>5. req.method # "screenshot_native" /\ req.method # "windows.list"
  BY <1>3
<1>6. PlaceOf(req) = <<Label(req.window), "page">>
  BY <1>4, <1>5, PlaceOfPage
<1>7. req.window = AskedWindow(c)
  BY <1>2, <1>5, WindowOf
<1>8. ElementAt(req) = element[<<Label(req.window), "top">>]
  BY <1>6 DEF ElementAt
<1> QED BY <1>2, <1>7, <1>8

-----------------------------------------------------------------------------
(* What an answer says of the place.                                       *)

LEMMA ElementAnswers ==
  ASSUME NEW req, NEW e, e = ElementAt(req), NEW a \in Answers(req)
  PROVE  /\ req.method \in {"text", "value", "checked", "visible", "url"} =>
              a = "error" \/ (a = "yes" /\ e = "on") \/ (a = "no" /\ e # "on")
         /\ req.method = "count" =>
              a = "error" \/ (a = "yes" /\ e # "missing") \/ (a = "no" /\ e = "missing")
         /\ req.method = "storage.get" =>
              \/ a = "error" \/ (a = "yes" /\ e = "on") \/ (a = "no" /\ e = "off")
              \/ (a = "absent" /\ e # "on" /\ e # "off")
<1>1. ASSUME req.method \in {"text", "value", "checked", "visible", "url"}
      PROVE  a = "error" \/ (a = "yes" /\ e = "on") \/ (a = "no" /\ e # "on")
  <2>1. \/ Answers(req) = {"error"}
        \/ Answers(req) = {IF e = "on" THEN "yes" ELSE "no", "error"}
    BY <1>1, Zenon DEF Answers
  <2> QED BY <2>1
<1>2. ASSUME req.method = "count"
      PROVE  a = "error" \/ (a = "yes" /\ e # "missing") \/ (a = "no" /\ e = "missing")
  <2>1. Answers(req) = {IF e = "missing" THEN "no" ELSE "yes", "error"}
    BY <1>2, Zenon DEF Answers
  <2> QED BY <2>1
<1>3. ASSUME req.method = "storage.get"
      PROVE  \/ a = "error" \/ (a = "yes" /\ e = "on") \/ (a = "no" /\ e = "off")
             \/ (a = "absent" /\ e # "on" /\ e # "off")
  <2>1. Answers(req) = {CASE e = "on" -> "yes" [] e = "off" -> "no" [] OTHER -> "absent",
                        "error"}
    BY <1>3, Zenon DEF Answers
  <2> QED BY <2>1
<1> QED BY <1>1, <1>2, <1>3

\* What the caller's verdict comes to, by what is called.
LEMMA VerdictOf ==
  ASSUME NEW c, NEW a
  PROVE  /\ a \in {"error", "wants_id"} => Verdict(c, a) = "failed"
         /\ a \notin {"error", "wants_id"} /\ c.op = "assert_hidden" =>
              Verdict(c, a) = IF a = "no" THEN "passed" ELSE "refuted"
         /\ a \notin {"error", "wants_id"} /\ c.op = "storage_get" /\ AStep(c) =>
              Verdict(c, a) = IF a = "yes" \/ (a = "no" /\ "expected" \notin c.args)
                              THEN "passed" ELSE "refuted"
         /\ a \notin {"error", "wants_id"}
            /\ c.op \in Assertions \ {"assert_hidden", "assert_exists"} =>
              Verdict(c, a) = IF a = "yes" THEN "passed" ELSE "refuted"
         /\ a \notin {"error", "wants_id"} /\ c.op \notin Assertions
            /\ ~(c.op = "storage_get" /\ AStep(c)) => Verdict(c, a) = "done"
<1>1. a \in {"error", "wants_id"} => Verdict(c, a) = "failed"
  BY SMT DEF Verdict
<1>2. a \notin {"error", "wants_id"} /\ c.op = "assert_hidden" =>
        Verdict(c, a) = IF a = "no" THEN "passed" ELSE "refuted"
  BY SMT DEF Verdict
<1>3. a \notin {"error", "wants_id"} /\ c.op = "storage_get" /\ AStep(c) =>
        Verdict(c, a) = IF a = "yes" \/ (a = "no" /\ "expected" \notin c.args)
                        THEN "passed" ELSE "refuted"
  BY SMT DEF Verdict, Assertions
<1>4. a \notin {"error", "wants_id"}
      /\ c.op \in Assertions \ {"assert_hidden", "assert_exists"} =>
        Verdict(c, a) = IF a = "yes" THEN "passed" ELSE "refuted"
  BY SMT DEF Verdict, Assertions
<1>5. a \notin {"error", "wants_id"} /\ c.op \notin Assertions
      /\ ~(c.op = "storage_get" /\ AStep(c)) => Verdict(c, a) = "done"
  BY SMT DEF Verdict, Assertions
<1> QED BY <1>1, <1>2, <1>3, <1>4, <1>5

LEMMA ClaimOf ==
  ASSUME NEW c
  PROVE  /\ c.op = "assert_hidden" => (Claim(c) <=> element[Spot(c)] # "on")
         /\ c.op = "assert_count" => (Claim(c) <=> element[Spot(c)] # "missing")
         /\ c.op \in TargetAssertions \ {"assert_hidden"} =>
              (Claim(c) <=> element[Spot(c)] = "on")
         /\ c.op = "assert_url" =>
              (Claim(c) <=> element[<<Label(AskedWindow(c)), "top">>] = "on")
         /\ c.op = "storage_get" /\ "expected" \in c.args =>
              (Claim(c) <=> element[<<Label(AskedWindow(c)), "top">>] = "on")
         /\ c.op = "storage_get" /\ "expected" \notin c.args =>
              (Claim(c) <=> element[<<Label(AskedWindow(c)), "top">>] # "missing")
<1>1. c.op = "assert_hidden" => (Claim(c) <=> element[Spot(c)] # "on")
  BY SMT DEF Claim, Spot
<1>2. c.op = "assert_count" => (Claim(c) <=> element[Spot(c)] # "missing")
  BY SMT DEF Claim, Spot
<1>3. c.op \in TargetAssertions \ {"assert_hidden"} => (Claim(c) <=> element[Spot(c)] = "on")
  BY SMT DEF Claim, Spot, TargetAssertions
<1>4. c.op = "assert_url" => (Claim(c) <=> element[<<Label(AskedWindow(c)), "top">>] = "on")
  BY SMT DEF Claim
<1>5. c.op = "storage_get" /\ "expected" \in c.args =>
        (Claim(c) <=> element[<<Label(AskedWindow(c)), "top">>] = "on")
  BY SMT DEF Claim
<1>6. c.op = "storage_get" /\ "expected" \notin c.args =>
        (Claim(c) <=> element[<<Label(AskedWindow(c)), "top">>] # "missing")
  BY SMT DEF Claim
<1> QED BY <1>1, <1>2, <1>3, <1>4, <1>5, <1>6

\* The verdict on a call agrees with what was the case where it asked.
LEMMA ElementVerdict ==
  ASSUME NEW c \in Calls, Written(c), ~Refused(c), c.op \in ElementAssertions,
         Ignored \subseteq Unframed, NEW a \in Answers(RequestOf(c))
  PROVE  Agrees(Verdict(c, a), Claim(c))
<1>1. PICK req : req = RequestOf(c)
  OBVIOUS
<1>2. PICK e : e = element[Spot(c)]
  OBVIOUS
<1>3. e = ElementAt(req) /\ a \in Answers(req)
  BY <1>1, <1>2, ElementAsserted
<1>4. Offers(c)
  BY DEF Refused
<1>5. LooksAt(c.op, RowOf(c)) /\ req.method = RowOf(c).method
  BY <1>1, <1>4, OfferedRows, RequestOfIs
<1>6. a # "wants_id"
  <2>1. req.method # "screenshot_native"
    BY <1>5 DEF LooksAt, ElementAssertions, TargetAssertions
  <2> QED BY <1>3, <2>1, AnswersAre
<1>7. CASE a = "error"
  BY <1>7, VerdictOf DEF Agrees
<1>8. CASE a # "error"
  <2>1. a \notin {"error", "wants_id"}
    BY <1>6, <1>8
  <2>2. CASE c.op = "assert_hidden"
    <3>1. (a = "yes" /\ e = "on") \/ (a = "no" /\ e # "on")
      BY <1>3, <1>5, <1>8, <2>2, ElementAnswers DEF LooksAt
    <3>2. Verdict(c, a) = IF a = "no" THEN "passed" ELSE "refuted"
      BY <2>1, <2>2, VerdictOf
    <3>3. Claim(c) <=> e # "on"
      BY <1>2, <2>2, ClaimOf
    <3> QED BY <3>1, <3>2, <3>3 DEF Agrees
  <2>3. CASE c.op = "assert_count"
    <3>1. (a = "yes" /\ e # "missing") \/ (a = "no" /\ e = "missing")
      BY <1>3, <1>5, <1>8, <2>3, ElementAnswers DEF LooksAt
    <3>2. Verdict(c, a) = IF a = "yes" THEN "passed" ELSE "refuted"
      BY <2>1, <2>3, VerdictOf DEF Assertions
    <3>3. Claim(c) <=> e # "missing"
      BY <1>2, <2>3, ClaimOf
    <3> QED BY <3>1, <3>2, <3>3 DEF Agrees
  <2>4. CASE c.op \in TargetAssertions \ {"assert_hidden"}
    <3>1. req.method \in {"text", "value", "checked", "visible", "url"}
      BY <1>5, <2>4 DEF LooksAt, TargetAssertions
    <3>2. (a = "yes" /\ e = "on") \/ (a = "no" /\ e # "on")
      BY <1>3, <1>8, <3>1, ElementAnswers
    <3>3. Verdict(c, a) = IF a = "yes" THEN "passed" ELSE "refuted"
      BY <2>1, <2>4, VerdictOf DEF Assertions, TargetAssertions
    <3>4. Claim(c) <=> e = "on"
      BY <1>2, <2>4, ClaimOf
    <3> QED BY <3>2, <3>3, <3>4 DEF Agrees
  <2> QED BY <2>2, <2>3, <2>4 DEF ElementAssertions
<1> QED BY <1>7, <1>8

LEMMA PageVerdict ==
  ASSUME NEW c \in Calls, ~Refused(c),
         c.op = "assert_url" \/ (c.op = "storage_get" /\ AStep(c)),
         NEW a \in Answers(RequestOf(c)), element[<<Label(AskedWindow(c)), "top">>] \in Elements
  PROVE  Agrees(Verdict(c, a), Claim(c))
<1>1. PICK req : req = RequestOf(c)
  OBVIOUS
<1>2. PICK e \in Elements : e = element[<<Label(AskedWindow(c)), "top">>]
  OBVIOUS
<1>3. e = ElementAt(req) /\ a \in Answers(req)
  BY <1>1, <1>2, PageAsserted
<1>4. Offers(c)
  BY DEF Refused
<1>5. LooksAt(c.op, RowOf(c)) /\ req.method = RowOf(c).method
  BY <1>1, <1>4, OfferedRows, RequestOfIs
<1>6. a # "wants_id"
  <2>1. req.method # "screenshot_native"
    BY <1>5 DEF LooksAt
  <2> QED BY <1>3, <2>1, AnswersAre
<1>7. CASE a = "error"
  BY <1>7, VerdictOf DEF Agrees
<1>8. CASE a # "error"
  <2>1. a \notin {"error", "wants_id"}
    BY <1>6, <1>8
  <2>2. CASE c.op = "assert_url"
    <3>1. req.method \in {"text", "value", "checked", "visible", "url"}
      BY <1>5, <2>2 DEF LooksAt
    <3>2. (a = "yes" /\ e = "on") \/ (a = "no" /\ e # "on")
      BY <1>3, <1>8, <3>1, ElementAnswers
    <3>3. Verdict(c, a) = IF a = "yes" THEN "passed" ELSE "refuted"
      BY <2>1, <2>2, VerdictOf DEF Assertions
    <3>4. Claim(c) <=> e = "on"
      BY <1>2, <2>2, ClaimOf
    <3> QED BY <3>2, <3>3, <3>4 DEF Agrees
  <2>3. CASE c.op = "storage_get" /\ AStep(c)
    <3>1. \/ (a = "yes" /\ e = "on") \/ (a = "no" /\ e = "off")
          \/ (a = "absent" /\ e = "missing")
      BY <1>2, <1>3, <1>5, <1>8, <2>3, ElementAnswers DEF LooksAt, Elements
    <3>2. Verdict(c, a) = IF a = "yes" \/ (a = "no" /\ "expected" \notin c.args)
                          THEN "passed" ELSE "refuted"
      BY <2>1, <2>3, VerdictOf
    <3>3. CASE "expected" \in c.args
      <4>1. Claim(c) <=> e = "on"
        BY <1>2, <2>3, <3>3, ClaimOf
      <4> QED BY <3>1, <3>2, <3>3, <4>1 DEF Agrees
    <3>4. CASE "expected" \notin c.args
      <4>1. Claim(c) <=> e # "missing"
        BY <1>2, <2>3, <3>4, ClaimOf
      <4> QED BY <3>1, <3>2, <3>4, <4>1 DEF Agrees
    <3> QED BY <3>3, <3>4
  <2> QED BY <2>2, <2>3
<1> QED BY <1>7, <1>8

\* A call that asserts nothing has no verdict that could be wrong.
LEMMA OtherVerdict ==
  ASSUME NEW c, NEW a, NEW holds, c.op \notin Assertions, ~(c.op = "storage_get" /\ AStep(c))
  PROVE  Agrees(Verdict(c, a), holds)
<1>1. Verdict(c, a) \in {"failed", "done"}
  BY VerdictOf
<1> QED BY <1>1 DEF Agrees

\* An error refutes nothing.
LEMMA FailedVerdict ==
  ASSUME NEW c, NEW holds
  PROVE  Agrees(Verdict(c, "error"), holds)
<1>1. Verdict(c, "error") = "failed"
  BY VerdictOf
<1> QED BY <1>1 DEF Agrees

\* The first answer to a call.
LEMMA FirstVerdict ==
  ASSUME WorldTyped, NEW c \in Calls, Written(c), ~Refused(c), c.op # "assert_exists",
         Ignored \subseteq Unframed, NEW a, NEW holds,
         a \in IF RequestOf(c).method \in Windowless \/ Label(RequestOf(c).window) \in Windows
               THEN Answers(RequestOf(c)) ELSE {"error"},
         Label(AskedWindow(c)) \in Windows => holds = Claim(c)
  PROVE  Agrees(Verdict(c, a), holds)
<1>1. PICK req : req = RequestOf(c)
  OBVIOUS
<1>2. CASE a = "error"
  BY <1>2, FailedVerdict
<1>3. CASE a # "error" /\ c.op \in Assertions \cup {"storage_get"}
  <2>1. Offers(c)
    BY DEF Refused
  <2>2. LooksAt(c.op, RowOf(c)) /\ req.method = RowOf(c).method
    BY <1>1, <2>1, OfferedRows, RequestOfIs
  <2>3. req.method \in {"text", "value", "visible", "checked", "count", "url", "storage.get"}
    BY <1>3, <2>2 DEF LooksAt, Assertions
  <2>4. req.method \notin Windowless /\ req.method # "windows.list"
    BY <2>3 DEF Windowless, Recording
  <2>5. a \in Answers(req) /\ Label(req.window) \in Windows
    BY <1>1, <1>3, <2>4
  <2>6. req.window = AskedWindow(c)
    BY <1>1, <2>4, WindowOf
  <2>7. Label(AskedWindow(c)) \in Windows
    BY <2>5, <2>6
  <2>8. holds = Claim(c)
    BY <2>7
  <2>9. CASE c.op \in ElementAssertions
    <3>1. Agrees(Verdict(c, a), Claim(c))
      BY <1>1, <2>5, <2>9, ElementVerdict
    <3> QED BY <2>8, <3>1
  <2>10. CASE c.op = "assert_url" \/ (c.op = "storage_get" /\ AStep(c))
    <3>1. element[<<Label(AskedWindow(c)), "top">>] \in Elements
      BY <2>7 DEF WorldTyped, Docs
    <3>2. Agrees(Verdict(c, a), Claim(c))
      BY <1>1, <2>5, <2>10, <3>1, PageVerdict
    <3> QED BY <2>8, <3>2
  <2>11. CASE c.op = "storage_get" /\ ~AStep(c)
    BY <2>11, OtherVerdict DEF Assertions
  <2> QED BY <1>3, <2>9, <2>10, <2>11 DEF Assertions, ElementAssertions, TargetAssertions
<1>4. CASE c.op \notin Assertions \cup {"storage_get"}
  BY <1>4, OtherVerdict
<1> QED BY <1>2, <1>3, <1>4

LEMMA LaterVerdict ==
  ASSUME NEW c \in Calls, ~Refused(c), RowOf(c).method = "screenshot_native", NEW a, NEW holds
  PROVE  Agrees(Verdict(c, a), holds) \/ c.op = "assert_exists"
<1>1. LooksAt(c.op, RowOf(c))
  BY OfferedRows DEF Refused
<1>2. c.op \notin (Assertions \ {"assert_exists"}) \cup {"storage_get"}
  BY <1>1 DEF LooksAt, Assertions
<1> QED BY <1>2, OtherVerdict

\* Where a request is carried out, at whatever stage of its call.
LEMMA HitAsked ==
  ASSUME NEW r, JobInv(r), r.pc = "ready", Ignored \subseteq Unframed,
         r.request.method \notin Windowless, PlaceOf(r.request)[1] # "asked"
  PROVE  WhereAsked(r.call, PlaceOf(r.request))
<1> DEFINE c == r.call
<1>1. /\ c \in Calls /\ Written(c) /\ Offers(c)
      /\ r.stage \in {"first", "listing", "retry", "shot"}
  BY StagesHave DEF Refused
<1>2. CASE r.stage = "first"
  <2>1. r.request = RequestOf(c)
    BY <1>2, StagesHave
  <2> QED BY <1>1, <2>1, PlaceAsked
<1>3. CASE r.stage = "listing"
  <2>1. r.request = Request("windows.list", Nothing, None, FALSE)
    BY <1>3, StagesHave
  <2>2. r.request.method = "windows.list"
    BY <2>1 DEF Request
  <2> QED BY <2>2 DEF Windowless
<1>4. CASE r.stage = "retry"
  <2>1. /\ c.front = "cli" /\ r.request.method = "screenshot_native"
        /\ "window_id" \in DOMAIN r.request.params
        /\ r.request.params["window_id"] = Label(c.window)
    BY <1>4, StagesHave
  <2>2. PlaceOf(r.request) = <<Label(c.window), "page">>
    BY <2>1, Zenon DEF PlaceOf
  <2>3. AskedWindow(c) = c.window
    BY <2>1 DEF AskedWindow, Served
  <2> QED BY <2>2, <2>3 DEF WhereAsked
<1>5. CASE r.stage = "shot"
  <2>1. r.request = Request("screenshot", Nothing, AskedWindow(c), FALSE)
    BY <1>5, StagesHave
  <2>2. /\ r.request.method = "screenshot" /\ r.request.window = AskedWindow(c)
        /\ r.request.params = Nothing
    BY <2>1 DEF Request
  <2>3. ~Aims(r.request)
    <3>1. DOMAIN r.request.params = {}
      BY <2>2 DEF Nothing
    <3> QED BY <2>2, <3>1 DEF Aims
  <2>4. PlaceOf(r.request) = <<Label(r.request.window), "page">>
    BY <2>2, <2>3, PlaceOfPage
  <2> QED BY <2>2, <2>4 DEF WhereAsked
<1> QED BY <1>1, <1>2, <1>3, <1>4, <1>5

LEMMA ServeTold ==
  ASSUME ToldSoFar, Ignored \subseteq Unframed, NEW j \in Callers, Serve(j)
  PROVE  \A k \in Callers : Told(job[k])'
<1>1. PICK r : r = job[j]
  OBVIOUS
<1>2. JobInv(r) /\ Fields(r) /\ Told(r) /\ r.pc = "ready" /\ setup' = setup
  BY <1>1, SoFarHas, JobHas DEF Serve
<1>3. PICK a \in IF r.request.method \in Windowless \/ Label(r.request.window) \in Windows
                 THEN Answers(r.request) ELSE {"error"} : Becomes(j, Answered(j, a))
  BY <1>1, Zenon DEF Serve
<1>4. PICK q : q = Answered(j, a)
  OBVIOUS
<1>5. AnswerTo(q, r, a)
  BY <1>1, <1>2, <1>4, AnsweredHas
<1>6. /\ q.pc = "answered" /\ q.reply = a /\ q.call = r.call /\ q.stage = r.stage
      /\ q.verdict = r.verdict
  BY <1>5, Zenon DEF AnswerTo
<1>7. /\ r.stage = "first" /\ Label(AskedWindow(r.call)) \in Windows
           => q.holds = Claim(r.call)
      /\ r.stage # "first" => q.holds = r.holds
  BY <1>5, Zenon DEF AnswerTo
<1>8. \/ q.hits = r.hits
      \/ /\ r.request.method \notin Windowless /\ PlaceOf(r.request)[1] # "asked"
         /\ q.hits = r.hits \cup {PlaceOf(r.request)}
  BY <1>5, Zenon DEF AnswerTo
<1>9. /\ r.call \in Calls /\ Written(r.call) /\ ~Refused(r.call)
      /\ r.stage = "first" => r.request = RequestOf(r.call)
      /\ r.stage = "retry" => RowOf(r.call).method = "screenshot_native"
  BY <1>2, StagesHave
<1>10. WorldTyped
  BY SoFarHas, IInvHas
<1>11. ASSUME q.call.op # "assert_exists", q.stage = "first"
       PROVE  Agrees(Verdict(q.call, q.reply), q.holds)
  <2>1. a \in IF \/ RequestOf(r.call).method \in Windowless
                 \/ Label(RequestOf(r.call).window) \in Windows
              THEN Answers(RequestOf(r.call)) ELSE {"error"}
    BY <1>3, <1>6, <1>9, <1>11
  <2>2. r.call.op # "assert_exists"
    BY <1>6, <1>11
  <2>3. Label(AskedWindow(r.call)) \in Windows => q.holds = Claim(r.call)
    BY <1>6, <1>7, <1>11
  <2>4. Agrees(Verdict(r.call, a), q.holds)
    BY <1>9, <1>10, <2>1, <2>2, <2>3, FirstVerdict
  <2> QED BY <1>6, <2>4
<1>12. ASSUME q.call.op # "assert_exists", q.stage = "retry"
       PROVE  Agrees(Verdict(q.call, q.reply), q.holds)
  BY <1>6, <1>9, <1>12, LaterVerdict
<1>13. ASSUME q.call.op # "assert_exists", q.stage = "shot"
       PROVE  Agrees(q.verdict, q.holds)
  <2>1. r.stage = "shot" /\ r.call.op # "assert_exists" /\ r.pc # "idle"
    BY <1>2, <1>6, <1>13
  <2>2. Agrees(r.verdict, r.holds)
    BY <1>2, <2>1 DEF Told, VerdictOK
  <2> QED BY <1>6, <1>7, <2>1, <2>2
<1>14. VerdictOK(q)
  BY <1>6, <1>11, <1>12, <1>13, Zenon DEF VerdictOK
<1>15. \A h \in r.hits : WhereAsked(r.call, h)
  BY <1>2 DEF Told, HitsOK
<1>16. r.request.method \notin Windowless /\ PlaceOf(r.request)[1] # "asked"
         => WhereAsked(r.call, PlaceOf(r.request))
  BY <1>2, HitAsked
<1>17. \A h \in q.hits : WhereAsked(r.call, h)
  BY <1>8, <1>15, <1>16
<1>18. HitsOK(q)
  BY <1>6, <1>17 DEF HitsOK
<1>19. Becomes(j, q)
  BY <1>3, <1>4
<1> QED BY <1>2, <1>14, <1>18, <1>19, SoFarHas, OneTold DEF Told

LEMMA NextTold ==
  ASSUME ToldSoFar, Ignored \subseteq Unframed, [Next]_vars
  PROVE  \A k \in Callers : Told(job[k])'
<1>1. CASE \E j \in Callers : Step(j)
  BY <1>1, Zenon, AskTold, RefuseTold, ResolveTold, OpenTold, ServeTold, AskForWindowsTold,
     RetryTold, JudgeTold, FollowTold, PollTold, RestTold DEF Step
<1>2. CASE \E a \in Apps : Start(a) \/ Stop(a)
  <2>1. CASE \E a \in Apps : Start(a)
    <3>1. setup' = setup /\ UNCHANGED job
      BY <2>1 DEF Start
    <3> QED BY <3>1, SoFarHas, AllTold
  <2>2. CASE \E a \in Apps : Stop(a)
    BY <2>2, StopTold
  <2> QED BY <1>2, <2>1, <2>2
<1>3. CASE PageChanges \/ PageLogs \/ PageLoads \/ UNCHANGED vars
  <2>1. setup' = setup /\ UNCHANGED job
    BY <1>3 DEF PageChanges, PageLogs, PageLoads, vars
  <2> QED BY <2>1, SoFarHas, AllTold
<1> QED BY <1>1, <1>2, <1>3, Zenon DEF Next

LEMMA InitTold == Init => ToldSoFar
<1> SUFFICES ASSUME Init
             PROVE  ToldSoFar
  OBVIOUS
<1>1. Told(Idle)
  BY DEF Told, VerdictOK, HitsOK, Idle
<1>2. \A k \in Callers : job[k] = Idle
  BY DEF Init
<1>3. \A k \in Callers : Told(job[k])
  BY <1>1, <1>2
<1> QED BY <1>3, InitHolds DEF ToldSoFar

LEMMA SoFarAlways ==
  ASSUME Ignored \subseteq Unframed
  PROVE  Spec => []ToldSoFar
<1>1. ToldSoFar /\ [Next]_vars => ToldSoFar'
  BY NextKeeps, NextTold DEF ToldSoFar
<1> QED BY <1>1, InitTold, PTL DEF Spec

-----------------------------------------------------------------------------
(* What holds of every behaviour.                                          *)

\* Whatever the callers, the applications and the page do, what is known of
\* every call is of its kind, and the page's log never holds more than it may
\* (MAX_LOGS of the bridge).
THEOREM TypeIsOK == Spec => []TypeOK
<1>1. IInv => TypeOK
  <2> SUFFICES ASSUME IInv
               PROVE  TypeOK
    OBVIOUS
  <2>1. WorldTyped
    BY IInvHas
  <2>2. ASSUME NEW j \in Callers
        PROVE  /\ job[j].verdict \in Verdicts
               /\ job[j].stage \in {"first", "listing", "retry", "shot"}
               /\ job[j].socket \in Apps \cup {None}
               /\ job[j].changes \subseteq Aspects
               /\ job[j].pc \in {"resolved", "ready", "answered", "pause"}
                    => job[j].socket # None
               /\ job[j].pc = "answered" => job[j].reply \in Replies
    <3>1. JobTyped(job[j])
      BY IInvHas, JobHas
    <3> QED BY <3>1, Zenon DEF JobTyped, Running
  <2>3. log.hi + 1 - log.lo \in 0 .. Cap
    BY <2>1 DEF WorldTyped
  <2> QED BY <2>1, <2>2, <2>3, Zenon DEF TypeOK, WorldTyped
<1> QED BY <1>1, FrontendsCorrect, PTL

\* An MCP server that has found an application by itself talks to that one
\* and to no other from then on, however many are started, end or crash
\* meanwhile (resolved_socket of mcp.rs).
THEOREM AttachmentLasts == Spec => []StaysAttached
<1>1. IInv => StaysAttached
  <2> SUFFICES ASSUME IInv, NEW j \in Callers,
                      job[j].socket # None, Served(job[j].call),
                      setup.socket = None, job[j].since # None
               PROVE  job[j].socket = job[j].since
    BY DEF StaysAttached
  <2>1. AttachOK(job[j])
    BY IInvHas, JobHas
  <2> QED BY <2>1, Zenon DEF AttachOK
<1> QED BY <1>1, FrontendsCorrect, PTL

\* A tool that is annotated as read only, of whatever server and with whatever
\* arguments, changes at most the table of refs and the baseline of diff; only
\* wait, called with an expression, may change the page (call_tool_by_name, the
\* annotations of ToolSpec, waitFor of the bridge).
THEOREM ReadOnlyToolsRead == Spec => []ReadOnlyToolsOnlyRead
<1>1. IInv => ReadOnlyToolsOnlyRead
  <2> SUFFICES ASSUME IInv, NEW j \in Callers, job[j].call # None,
                      ReadOnly(job[j].call)
               PROVE  job[j].changes \subseteq
                        {"refs", "baseline"} \cup ByExpression(job[j].call)
    BY Zenon DEF ReadOnlyToolsOnlyRead
  <2>1. PICK r : r = job[j]
    OBVIOUS
  <2>2. ReadsOK(r) /\ JobTyped(r)
    BY <2>1, IInvHas, JobHas
  <2>3. r.pc # "idle"
    <3>1. ASSUME r.pc = "idle"
          PROVE  FALSE
      <4>1. r = Idle
        BY <2>2, <3>1 DEF JobTyped
      <4>2. r.call = None
        BY <4>1 DEF Idle
      <4> QED BY <2>1, <4>2
    <3> QED BY <3>1
  <2> QED BY <2>1, <2>2, <2>3, Zenon DEF ReadsOK
<1> QED BY <1>1, FrontendsCorrect, PTL

\* Whoever follows a log sees its entries in order and none twice, and of the
\* document that was there when it began none is left out that a poll found,
\* however often the log is cleared, overflows or starts anew between two polls
\* (follow_logs of main.rs, consoleLogs of the bridge).
THEOREM FollowingShowsEachOnce == Spec => []FollowShowsEachOnce
<1>1. IInv => FollowShowsEachOnce
  <2> SUFFICES ASSUME IInv, NEW j \in Callers, NEW r, r = job[j]
               PROVE  /\ \A m, n \in DOMAIN r.shown : m < n =>
                           \/ r.shown[m][1] < r.shown[n][1]
                           \/ /\ r.shown[m][1] = r.shown[n][1]
                              /\ r.shown[m][2] < r.shown[n][2]
                      /\ r.pc = "pause" /\ r.shown # <<>> =>
                           \A id \in r.kept :
                             \/ id < r.shown[1][2]
                             \/ <<r.doc, id>> \in {r.shown[i] : i \in DOMAIN r.shown}
    BY ZenonT(60) DEF FollowShowsEachOnce
  <2>2. FollowTyped(r) /\ FollowOrder(r, log) /\ FollowKept(r, log)
    BY IInvHas, JobHas DEF FollowOK
  <2>3. \A m, n \in DOMAIN r.shown : m < n => Before(r.shown[m], r.shown[n])
    BY <2>2 DEF FollowOrder
  <2>4. ASSUME r.pc = "pause", r.shown # <<>>, NEW id \in r.kept
        PROVE  id < r.shown[1][2] \/ <<r.doc, id>> \in {r.shown[i] : i \in DOMAIN r.shown}
    <3>1. r.got = <<>>
      BY <2>2, <2>4 DEF FollowTyped
    <3>2. DOMAIN r.got = {}
      BY <3>1, EmptySeq
    <3>3. Accounted(r, id)
      BY <2>2, <2>4 DEF FollowKept
    <3>4. id < r.shown[1][2] \/ Shows(r.shown, r.doc, id)
      BY <2>4, <3>2, <3>3, Zenon DEF Accounted, Opening, Shows
    <3> QED BY <3>4, Zenon DEF Shows
  <2> QED BY <2>3, <2>4, Zenon DEF Before
<1> QED BY <1>1, FrontendsCorrect, PTL

\* Whatever way a call comes and whatever it asks on its way, it is carried
\* out in the window its caller named, and in the frame named, unless its
\* command is one of those that leave the frame out (with_scope, call_app).
THEOREM CallsActWhereAsked ==
  ASSUME Ignored \subseteq Unframed
  PROVE  Spec => []ActsWhereAsked
<1>1. ToldSoFar => ActsWhereAsked
  <2> SUFFICES ASSUME ToldSoFar, NEW j \in Callers, job[j].call # None,
                      NEW h \in job[j].hits
               PROVE  WhereAsked(job[j].call, h)
    BY Zenon DEF ActsWhereAsked, WhereAsked
  <2>1. PICK r : r = job[j]
    OBVIOUS
  <2>2. Told(r) /\ JobTyped(r)
    BY <2>1, SoFarHas, JobHas
  <2>3. r.pc # "idle"
    <3>1. ASSUME r.pc = "idle"
          PROVE  FALSE
      <4>1. r = Idle
        BY <2>2, <3>1 DEF JobTyped
      <4>2. r.call = None
        BY <4>1 DEF Idle
      <4> QED BY <2>1, <4>2
    <3> QED BY <3>1
  <2> QED BY <2>1, <2>2, <2>3 DEF Told, HitsOK
<1> QED BY <1>1, SoFarAlways, PTL

\* An assertion that passes was true of the element and at the time the
\* application looked, and one that is refuted was false, by whatever front end
\* it is made and whatever the page does before and after.
THEOREM NoVerdictIsFalse ==
  ASSUME Ignored \subseteq Unframed
  PROVE  Spec => []VerdictsAreTrue
<1>1. ToldSoFar => VerdictsAreTrue
  <2> SUFFICES ASSUME ToldSoFar, NEW j \in Callers, job[j].pc = "done",
                      job[j].call.op # "assert_exists"
               PROVE  Agrees(job[j].verdict, job[j].holds)
    BY Zenon DEF VerdictsAreTrue, Agrees
  <2>1. PICK r : r = job[j]
    OBVIOUS
  <2>2. VerdictOK(r)
    BY <2>1, SoFarHas DEF Told
  <2>3. r.pc = "done" /\ r.pc # "idle" /\ r.call.op # "assert_exists"
    BY <2>1
  <2> QED BY <2>1, <2>2, <2>3 DEF VerdictOK
<1> QED BY <1>1, SoFarAlways, PTL

-----------------------------------------------------------------------------
(* A scenario over one connection of the same client.                      *)

Line == [id: Ids \cup {NullId}, ok: BOOLEAN]

Causes == {"none", "local", "closed", "deadline", "garbled", "foreign", "app"}

ScenarioTypeOK ==
  /\ timed \in SUBSET Steps
  /\ failFast \in BOOLEAN
  /\ step \in 1 .. NumSteps + 1
  /\ mode \in {"call", "shot"}
  /\ pc \in {"ready", "reading", "ended", "aborted"}
  /\ nextId \in 1 .. 2 * NumSteps + 1
  /\ own \in [Steps -> Ids \cup {NullId}]
  /\ outcome \in [Steps -> {"none", "passed", "failed", "skipped"}]
  /\ cause \in [Steps -> Causes]
  /\ toServer \in Seq(Ids \cup {NullId})
  /\ torn \in BOOLEAN
  /\ server \in Ids \cup {NullId}
  /\ toClient \in Seq(Line)
  /\ halfRead \in BOOLEAN
  /\ verdict \in [Ids -> {"none", "ok", "error"}]
  /\ closed \in BOOLEAN

\* A step takes an id for its own call and one for its screenshot at most, and
\* waits for the answer to the id it took last.
RunnerInv ==
  /\ pc \in {"ready", "reading"} =>
       /\ step \in Steps
       /\ nextId + (IF pc = "ready" THEN 1 ELSE 0) + (IF mode = "call" THEN 1 ELSE 0)
            <= 2 * step + 1
  /\ pc = "reading" => nextId > 1
  /\ pc = "reading" /\ mode = "call" => own[step] = nextId - 1
  /\ \A i \in Steps: i > step \/ (i = step /\ mode = "call") => outcome[i] # "passed"

\* What is on its way to the application was issued, is there once, and has not
\* been answered.
RequestsInv ==
  /\ \A j \in 1 .. Len(toServer):
       toServer[j] # NullId =>
         /\ toServer[j] < nextId
         /\ toServer[j] # server
         /\ verdict[toServer[j]] = "none"
         /\ \A k \in 1 .. Len(toServer): k # j => toServer[k] # toServer[j]
  /\ server # NullId => server < nextId /\ verdict[server] = "none"
  /\ \A k \in Ids: k >= nextId => verdict[k] = "none"

\* A success on the stream is the application's.
ResponsesInv ==
  \A j \in 1 .. Len(toClient):
    toClient[j].ok => toClient[j].id \in Ids /\ verdict[toClient[j].id] = "ok"

\* The inductive strengthening of PassedWasExecuted.
ScenarioInv == ScenarioTypeOK /\ RunnerInv /\ RequestsInv /\ ResponsesInv /\ PassedWasExecuted
-----------------------------------------------------------------------------
(* How a call ends.                                                        *)

\* The runner goes on to the screenshot of a step, or to the next step.
Moved ==
  \/ mode = "call" /\ mode' = "shot" /\ pc' = "ready" /\ step' = step
  \/ /\ mode' = "call" /\ step' = step + 1
     /\ pc' = IF step = NumSteps THEN "ended" ELSE "ready"

LEMMA FailMoves ==
  ASSUME ScenarioTypeOK, step \in Steps, NEW why \in Causes, Fail(why)
  PROVE  /\ Moved
         /\ outcome' \in [Steps -> {"none", "passed", "failed", "skipped"}]
         /\ cause' \in [Steps -> Causes]
         /\ \A i \in Steps: outcome'[i] = "passed" => outcome[i] = "passed"
         /\ mode = "call" => outcome'[step] = "failed"
  BY DEF ScenarioTypeOK, Fail, Moved, Advance, Causes

LEMMA PassMoves ==
  ASSUME ScenarioTypeOK, step \in Steps, Pass
  PROVE  /\ Moved /\ step' = step + 1
         /\ outcome' \in [Steps -> {"none", "passed", "failed", "skipped"}]
         /\ cause' = cause
         /\ \A i \in Steps: outcome'[i] = "passed" => outcome[i] = "passed" \/ (i = step /\ mode = "call")
  BY DEF ScenarioTypeOK, Pass, Moved, Advance

\* A call that ends has failed, or has read its own answer, a success.
LEMMA CallEnds ==
  ASSUME ScenarioTypeOK, RunnerInv, WriteFails \/ WriteTimesOut \/ Read \/ ReadEnds \/ ReadTimesOut
  PROVE  /\ step \in Steps
         /\ \/ \E why \in Causes: Fail(why)
            \/ /\ Read /\ Pass /\ IsAnswer(Head(toClient)) /\ Head(toClient).ok
  <1>1. step \in Steps
    BY DEF WriteFails, WriteTimesOut, Read, ReadEnds, ReadTimesOut, MayCall, RunnerInv
  <1> QED
    BY <1>1 DEF WriteFails, WriteTimesOut, Read, ReadEnds, ReadTimesOut, Causes

\* Wherever the call ends, the next one has ids left.
LEMMA MovedBudget ==
  ASSUME ScenarioTypeOK, RunnerInv, Moved, pc \in {"ready", "reading"},
         nextId' = IF pc = "ready" THEN nextId + 1 ELSE nextId
  PROVE  /\ step' \in 1 .. NumSteps + 1
         /\ mode' \in {"call", "shot"}
         /\ pc' \in {"ready", "ended"}
         /\ nextId' \in 1 .. 2 * NumSteps + 1
         /\ pc' = "ready" =>
              /\ step' \in Steps
              /\ nextId' + 1 + (IF mode' = "call" THEN 1 ELSE 0) <= 2 * step' + 1
  <1> USE ScenarioAssumption DEF ScenarioTypeOK, RunnerInv, Steps
  <1>1. CASE mode = "call" /\ mode' = "shot" /\ pc' = "ready" /\ step' = step
    BY <1>1
  <1>2. CASE /\ mode' = "call" /\ step' = step + 1
             /\ pc' = IF step = NumSteps THEN "ended" ELSE "ready"
    BY <1>2
  <1> QED
    BY <1>1, <1>2 DEF Moved

\* What the client does to the two streams when a call begins and ends.
LEMMA WireMoves ==
  ASSUME ScenarioTypeOK, RunnerInv, Write \/ WriteFails \/ WriteTimesOut \/ Read \/ ReadEnds \/ ReadTimesOut
  PROVE  /\ UNCHANGED <<config, server, verdict, closed>>
         /\ torn' \in BOOLEAN /\ halfRead' \in BOOLEAN
         /\ \/ /\ pc = "ready" /\ TakeId /\ toClient' = toClient
               /\ nextId \in Ids
               /\ \/ toServer' = toServer
                  \/ toServer' = Append(toServer, NullId)
                  \/ toServer' = Append(toServer, nextId)
            \/ /\ pc = "reading" /\ UNCHANGED <<nextId, own, toServer>>
               /\ \/ toClient' = toClient
                  \/ toClient # <<>> /\ toClient' = Tail(toClient)
  <1>1. MayCall => nextId \in Ids
    BY ScenarioAssumption DEF ScenarioTypeOK, RunnerInv, MayCall, Ids, Steps
  <1> USE <1>1 DEF ScenarioTypeOK, config, wire, MayCall
  <1>2. CASE Write
    BY <1>2 DEF Write
  <1>3. CASE WriteFails
    BY <1>3 DEF WriteFails
  <1>4. CASE WriteTimesOut
    BY <1>4 DEF WriteTimesOut
  <1>5. CASE Read
    BY <1>5 DEF Read
  <1>6. CASE ReadEnds
    BY <1>6 DEF ReadEnds
  <1>7. CASE ReadTimesOut
    BY <1>7 DEF ReadTimesOut
  <1> QED
    BY <1>2, <1>3, <1>4, <1>5, <1>6, <1>7

\* Every step keeps every variable in its type.
LEMMA TypeStep ==
  ASSUME ScenarioTypeOK, RunnerInv, [ScenarioNext]_scenario
  PROVE  ScenarioTypeOK'
  <1> USE ScenarioAssumption
  <1>1. CASE UNCHANGED scenario
    BY <1>1 DEF ScenarioTypeOK, scenario, config, runner, wire
  <1>2. CASE SkipStep
    BY <1>2 DEF ScenarioTypeOK, RunnerInv, SkipStep, Advance, Steps, config, wire
  <1>3. ASSUME Write \/ WriteFails \/ WriteTimesOut \/ Read \/ ReadEnds \/ ReadTimesOut
        PROVE  ScenarioTypeOK'
    <2>1. /\ toServer' \in Seq(Ids \cup {NullId})
          /\ toClient' \in Seq(Line)
          /\ own' \in [Steps -> Ids \cup {NullId}]
      <3> DEFINE Item == Ids \cup {NullId}
      <3>1. toServer \in Seq(Item) /\ toClient \in Seq(Line) /\ own \in [Steps -> Item]
        BY DEF ScenarioTypeOK
      <3>2. (nextId \in Ids => nextId \in Item) /\ NullId \in Item
        OBVIOUS
      <3>3. /\ toServer' \in {toServer, Append(toServer, NullId), Append(toServer, nextId)}
            /\ toServer' # toServer => nextId \in Item /\ NullId \in Item
            /\ toClient' = toClient \/ (toClient # <<>> /\ toClient' = Tail(toClient))
            /\ own' = own \/ (nextId \in Item /\ own' = [own EXCEPT ![step] = nextId])
        <4>1. CASE /\ TakeId /\ toClient' = toClient /\ nextId \in Ids
                   /\ toServer' \in {toServer, Append(toServer, NullId), Append(toServer, nextId)}
          <5>1. own' = own \/ own' = [own EXCEPT ![step] = nextId]
            BY <4>1 DEF TakeId
          <5> QED
            BY <3>2, <4>1, <5>1
        <4>2. CASE /\ UNCHANGED <<own, toServer>>
                   /\ toClient' = toClient \/ (toClient # <<>> /\ toClient' = Tail(toClient))
          BY <4>2
        <4>3. \/ /\ TakeId /\ toClient' = toClient /\ nextId \in Ids
                 /\ toServer' \in {toServer, Append(toServer, NullId), Append(toServer, nextId)}
              \/ /\ UNCHANGED <<own, toServer>>
                 /\ toClient' = toClient \/ (toClient # <<>> /\ toClient' = Tail(toClient))
          BY <1>3, WireMoves
        <4> QED
          BY <4>1, <4>2, <4>3
      <3> HIDE DEF Item
      <3>4. toServer' \in Seq(Item)
        <4>1. Append(toServer, NullId) \in Seq(Item)
          BY <3>1, <3>2
        <4>2. nextId \in Item => Append(toServer, nextId) \in Seq(Item)
          BY <3>1
        <4> QED
          BY <3>1, <3>3, <4>1, <4>2, Zenon
      <3>5. toClient' \in Seq(Line)
        <4>1. toClient # <<>> => Tail(toClient) \in Seq(Line)
          BY <3>1
        <4> QED
          BY <3>1, <3>3, <4>1, Zenon
      <3>6. own' \in [Steps -> Item]
        BY <3>1, <3>3
      <3> QED
        BY <3>4, <3>5, <3>6 DEF Item
    <2>2. CASE Write
      <3>1. nextId' \in 1 .. 2 * NumSteps + 1 /\ pc' = "reading"
        BY <2>2 DEF ScenarioTypeOK, RunnerInv, Write, MayCall, TakeId, Steps
      <3> QED
        BY <2>1, <2>2, <3>1 DEF ScenarioTypeOK, Write, config
    <2>3. CASE ~Write
      <3>1. step \in Steps /\ pc \in {"ready", "reading"}
        BY <1>3, <2>3, CallEnds, WireMoves
      <3>2. /\ Moved
            /\ outcome' \in [Steps -> {"none", "passed", "failed", "skipped"}]
            /\ cause' \in [Steps -> Causes]
        BY <1>3, <2>3, <3>1, CallEnds, FailMoves, PassMoves DEF ScenarioTypeOK
      <3>3. nextId' = IF pc = "ready" THEN nextId + 1 ELSE nextId
        BY <1>3, <2>3, WireMoves DEF TakeId
      <3> QED
        BY <1>3, <2>1, <3>1, <3>2, <3>3, MovedBudget, WireMoves DEF ScenarioTypeOK, config
    <2> QED
      BY <2>2, <2>3
  <1>4. CASE GlobalTimeout
    BY <1>4 DEF ScenarioTypeOK, GlobalTimeout, config, wire
  <1>5. CASE Accept
    <2>1. /\ toServer # <<>>
          /\ UNCHANGED <<config, runner, torn, halfRead, verdict, closed>>
          /\ toServer' = Tail(toServer)
          /\ server' \in {server, Head(toServer)}
          /\ toClient' = toClient \/ toClient' = Append(toClient, [id |-> NullId, ok |-> FALSE])
      BY <1>5 DEF Accept
    <2>2. [id |-> NullId, ok |-> FALSE] \in Line
      BY DEF Line
    <2>3. toServer' \in Seq(Ids \cup {NullId}) /\ server' \in Ids \cup {NullId}
      <3> DEFINE Item == Ids \cup {NullId}
      <3>1. toServer \in Seq(Item) /\ server \in Item
        BY DEF ScenarioTypeOK
      <3> HIDE DEF Item
      <3>2. toServer' \in Seq(Item) /\ server' \in Item
        BY <2>1, <3>1
      <3> QED
        BY <3>2 DEF Item
    <2>4. toClient' \in Seq(Line)
      <3>1. PICK line \in Line: toClient' = toClient \/ toClient' = Append(toClient, line)
        BY <2>1, <2>2
      <3>2. toClient \in Seq(Line)
        BY DEF ScenarioTypeOK
      <3> QED
        BY <3>1, <3>2
    <2>5. UNCHANGED <<timed, failFast, step, mode, pc, nextId, own, outcome, cause,
                      torn, halfRead, verdict, closed>>
      BY <2>1 DEF config, runner
    <2> QED
      BY <2>3, <2>4, <2>5 DEF ScenarioTypeOK
  <1>6. CASE Answer
    <2>1. PICK ok \in BOOLEAN:
            /\ verdict' = [verdict EXCEPT ![server] = IF ok THEN "ok" ELSE "error"]
            /\ toClient' = Append(toClient, [id |-> server, ok |-> ok])
      BY <1>6 DEF Answer
    <2>2. [id |-> server, ok |-> ok] \in Line
      BY DEF ScenarioTypeOK, Line
    <2> QED
      BY <1>6, <2>1, <2>2 DEF ScenarioTypeOK, Answer, config, runner
  <1>7. CASE Close
    BY <1>7 DEF ScenarioTypeOK, Close, config, runner
  <1> QED
    BY <1>1, <1>2, <1>3, <1>4, <1>5, <1>6, <1>7 DEF ScenarioNext, ClientStep, ServerStep

-----------------------------------------------------------------------------
(* The runner and the streams.                                             *)

LEMMA RunnerStep ==
  ASSUME ScenarioTypeOK, RunnerInv, [ScenarioNext]_scenario
  PROVE  RunnerInv'
  <1>1. CASE UNCHANGED runner
    BY <1>1 DEF RunnerInv, runner
  <1>2. CASE SkipStep
    BY <1>2, ScenarioAssumption DEF ScenarioTypeOK, RunnerInv, SkipStep, Advance, Steps
  <1>3. CASE Write
    BY <1>3 DEF ScenarioTypeOK, RunnerInv, Write, MayCall, TakeId, Steps
  <1>4. ASSUME ~Write, WriteFails \/ WriteTimesOut \/ Read \/ ReadEnds \/ ReadTimesOut
        PROVE  RunnerInv'
    <2>1. step \in Steps /\ pc \in {"ready", "reading"}
      BY <1>4, CallEnds, WireMoves
    <2>2. nextId' = IF pc = "ready" THEN nextId + 1 ELSE nextId
      BY <1>4, WireMoves DEF TakeId
    <2>3. /\ Moved
          /\ \A i \in Steps: outcome'[i] = "passed" => outcome[i] = "passed" \/ i = step
          /\ mode' = "shot" => outcome'[step] # "passed"
      <3>1. CASE \E why \in Causes: Fail(why)
        BY <2>1, <3>1, FailMoves DEF Moved
      <3>2. CASE Pass
        BY <2>1, <3>2, PassMoves DEF Moved, Pass, Advance
      <3> QED
        BY <1>4, <3>1, <3>2, CallEnds
    <2>4. /\ pc' \in {"ready", "ended"}
          /\ pc' = "ready" =>
              /\ step' \in Steps
              /\ nextId' + 1 + (IF mode' = "call" THEN 1 ELSE 0) <= 2 * step' + 1
      BY <2>1, <2>2, <2>3, MovedBudget
    <2>5. \A i \in Steps: i > step' \/ (i = step' /\ mode' = "call") => outcome'[i] # "passed"
      <3>1. step \in Nat /\ \A i \in Steps: i \in Nat
        BY <2>1 DEF Steps
      <3>2. \A i \in Steps: i > step => outcome'[i] # "passed"
        BY <2>3, <3>1 DEF RunnerInv
      <3> QED
        BY <2>3, <3>1, <3>2 DEF Moved
    <2>6. pc' \in {"ready", "reading"} =>
            /\ step' \in Steps
            /\ nextId' + (IF pc' = "ready" THEN 1 ELSE 0) + (IF mode' = "call" THEN 1 ELSE 0)
                 <= 2 * step' + 1
      BY <2>4
    <2>7. pc' # "reading"
      BY <2>4
    <2> QED
      BY <2>5, <2>6, <2>7 DEF RunnerInv
  <1>5. CASE GlobalTimeout
    BY <1>5 DEF RunnerInv, GlobalTimeout
  <1> QED
    BY <1>1, <1>2, <1>3, <1>4, <1>5
       DEF ScenarioNext, ClientStep, ServerStep, Accept, Answer, Close, scenario

LEMMA RequestsStep ==
  ASSUME ScenarioTypeOK, RunnerInv, RequestsInv, [ScenarioNext]_scenario
  PROVE  RequestsInv'
  <1>0. /\ toServer \in Seq(Nat) /\ nextId \in Nat /\ Ids \subseteq Nat
        /\ server \in Nat /\ NullId \in Nat /\ \A k \in Ids: k # NullId
        /\ nextId # NullId
    BY DEF ScenarioTypeOK, Ids, NullId
  <1>1. CASE UNCHANGED <<nextId, toServer, server, verdict>>
    BY <1>1 DEF RequestsInv
  <1>2. ASSUME Write \/ WriteFails \/ WriteTimesOut \/ Read \/ ReadEnds \/ ReadTimesOut
        PROVE  RequestsInv'
    <2>1. CASE /\ nextId \in Ids /\ nextId' = nextId + 1 /\ UNCHANGED <<server, verdict>>
               /\ toServer' = toServer
      BY <1>0, <2>1 DEF RequestsInv
    <2>2. CASE /\ nextId \in Ids /\ nextId' = nextId + 1 /\ UNCHANGED <<server, verdict>>
               /\ toServer' = Append(toServer, NullId)
      BY <1>0, <2>2 DEF RequestsInv
    <2>3. CASE /\ nextId \in Ids /\ nextId' = nextId + 1 /\ UNCHANGED <<server, verdict>>
               /\ toServer' = Append(toServer, nextId)
      <3>1. /\ Len(toServer) \in Nat /\ Len(toServer') = Len(toServer) + 1
            /\ toServer'[Len(toServer) + 1] = nextId
            /\ \A j \in 1 .. Len(toServer): toServer'[j] = toServer[j]
        BY <1>0, <2>3
      <3>2. \A j \in 1 .. Len(toServer'): j \in 1 .. Len(toServer) \/ j = Len(toServer) + 1
        BY <3>1
      <3> QED
        BY <1>0, <2>3, <3>1, <3>2 DEF RequestsInv
    <2> QED
      BY <1>1, <1>2, <2>1, <2>2, <2>3, WireMoves DEF TakeId
  <1>3. CASE Accept
    <2>1. /\ server = NullId /\ toServer # <<>> /\ toServer' = Tail(toServer)
          /\ server' \in {NullId, Head(toServer)}
          /\ UNCHANGED <<nextId, verdict>>
      BY <1>3 DEF Accept, runner
    <2>2. /\ Len(toServer') = Len(toServer) - 1 /\ Len(toServer) \in Nat \ {0}
          /\ \A j \in 1 .. Len(toServer'): toServer'[j] = toServer[j + 1]
          /\ Head(toServer) = toServer[1]
      BY <1>0, <2>1
    <2>3. \A j \in 1 .. Len(toServer'): j + 1 \in 1 .. Len(toServer) /\ j + 1 # 1
      BY <2>2
    <2>4. 1 \in 1 .. Len(toServer)
      BY <2>2
    <2>5. \A j \in 1 .. Len(toServer'): toServer'[j] # NullId =>
            /\ toServer'[j] < nextId
            /\ verdict[toServer'[j]] = "none"
            /\ \A k \in 1 .. Len(toServer'): k # j => toServer'[k] # toServer'[j]
      <3>1. \A j, k \in 1 .. Len(toServer'): k # j => k + 1 # j + 1
        OBVIOUS
      <3> QED
        BY <2>2, <2>3, <3>1 DEF RequestsInv
    <2>6. \A j \in 1 .. Len(toServer'): toServer'[j] # NullId => toServer'[j] # server'
      BY <2>1, <2>2, <2>3, <2>4 DEF RequestsInv
    <2>7. server' # NullId => server' < nextId /\ verdict[server'] = "none"
      BY <2>1, <2>2, <2>4 DEF RequestsInv
    <2> QED
      BY <2>1, <2>5, <2>6, <2>7 DEF RequestsInv
  <1>4. CASE Answer
    <2>1. /\ UNCHANGED <<nextId, toServer>> /\ server # NullId /\ server' = NullId
          /\ \A k \in Ids \ {server}: verdict'[k] = verdict[k]
      BY <1>4 DEF ScenarioTypeOK, Answer, runner
    <2>2. server < nextId
      BY <2>1 DEF RequestsInv
    <2>3. \A j \in 1 .. Len(toServer): toServer[j] # NullId => toServer[j] \in Ids
      BY DEF ScenarioTypeOK
    <2> QED
      BY <1>0, <2>1, <2>2, <2>3 DEF RequestsInv
  <1> QED
    BY <1>1, <1>2, <1>3, <1>4
       DEF ScenarioNext, ClientStep, ServerStep, SkipStep, GlobalTimeout, Close, wire, scenario, runner

\* What the application has answered stays answered as it was.
LEMMA VerdictsStay ==
  ASSUME ScenarioTypeOK, RunnerInv, RequestsInv, [ScenarioNext]_scenario, NEW k \in Ids, verdict[k] = "ok"
  PROVE  verdict'[k] = "ok"
  <1>1. CASE Answer
    BY <1>1 DEF ScenarioTypeOK, RequestsInv, Answer
  <1>2. CASE UNCHANGED verdict
    BY <1>2
  <1>3. CASE Write \/ WriteFails \/ WriteTimesOut \/ Read \/ ReadEnds \/ ReadTimesOut
    BY <1>2, <1>3, WireMoves
  <1> QED
    BY <1>1, <1>2, <1>3
       DEF ScenarioNext, ClientStep, ServerStep, SkipStep, GlobalTimeout, Accept, Close, wire, scenario

LEMMA ResponsesStep ==
  ASSUME ScenarioTypeOK, RunnerInv, RequestsInv, ResponsesInv, [ScenarioNext]_scenario
  PROVE  ResponsesInv'
  <1>0. toClient \in Seq(Line)
    BY DEF ScenarioTypeOK
  <1>1. ASSUME toClient' = toClient \/ (toClient # <<>> /\ toClient' = Tail(toClient)) PROVE ResponsesInv'
    <2>1. \A j \in 1 .. Len(toClient'): \E k \in 1 .. Len(toClient): toClient'[j] = toClient[k]
      <3>1. CASE toClient # <<>> /\ toClient' = Tail(toClient)
        <4>1. /\ Len(toClient') = Len(toClient) - 1 /\ Len(toClient) \in Nat
              /\ \A j \in 1 .. Len(toClient'): toClient'[j] = toClient[j + 1]
          BY <1>0, <3>1
        <4>2. \A j \in 1 .. Len(toClient'): j + 1 \in 1 .. Len(toClient)
          BY <4>1
        <4> QED
          BY <4>1, <4>2
      <3> QED
        BY <1>1, <3>1
    <2> QED
      BY <2>1, VerdictsStay DEF ResponsesInv
  <1>2. ASSUME NEW line \in Line, toClient' = Append(toClient, line),
               line.ok => line.id \in Ids /\ verdict'[line.id] = "ok"
        PROVE  ResponsesInv'
    <2>1. /\ Len(toClient') = Len(toClient) + 1 /\ Len(toClient) \in Nat
          /\ \A j \in 1 .. Len(toClient): toClient'[j] = toClient[j]
          /\ toClient'[Len(toClient) + 1] = line
      BY <1>0, <1>2
    <2> QED
      BY <1>2, <2>1, VerdictsStay DEF ResponsesInv
  <1>3. CASE Accept
    <2>1. [id |-> NullId, ok |-> FALSE] \in Line
      BY DEF Line
    <2> QED
      BY <1>1, <1>2, <1>3, <2>1 DEF Accept
  <1>4. CASE Answer
    <2>1. PICK ok \in BOOLEAN:
            /\ verdict' = [verdict EXCEPT ![server] = IF ok THEN "ok" ELSE "error"]
            /\ toClient' = Append(toClient, [id |-> server, ok |-> ok])
      BY <1>4 DEF Answer
    <2>2. [id |-> server, ok |-> ok] \in Line /\ server \in Ids
      BY <1>4 DEF ScenarioTypeOK, Line, Answer
    <2>3. ok => verdict'[server] = "ok"
      BY <2>1, <2>2 DEF ScenarioTypeOK
    <2> QED
      BY <1>2, <2>1, <2>2, <2>3
  <1>5. CASE Write \/ WriteFails \/ WriteTimesOut \/ Read \/ ReadEnds \/ ReadTimesOut
    BY <1>1, <1>5, WireMoves
  <1> QED
    BY <1>1, <1>3, <1>4, <1>5
       DEF ScenarioNext, ClientStep, ServerStep, SkipStep, GlobalTimeout, Close, wire, scenario

LEMMA PassedStep ==
  ASSUME ScenarioInv, [ScenarioNext]_scenario
  PROVE  PassedWasExecuted'
  <1> USE DEF ScenarioInv
  <1> SUFFICES ASSUME NEW i \in Steps, outcome'[i] = "passed"
               PROVE  own'[i] # NullId /\ verdict'[own'[i]] = "ok"
    BY DEF PassedWasExecuted
  <1>1. ASSUME outcome[i] = "passed", own'[i] = own[i] PROVE own'[i] # NullId /\ verdict'[own'[i]] = "ok"
    <2>1. own[i] \in Ids /\ verdict[own[i]] = "ok"
      BY <1>1 DEF ScenarioTypeOK, PassedWasExecuted
    <2> QED
      BY <1>1, <2>1, VerdictsStay DEF PassedWasExecuted
  <1>2. CASE Write \/ WriteFails \/ WriteTimesOut \/ Read \/ ReadEnds \/ ReadTimesOut
    <2>1. CASE outcome[i] = "passed"
      <3>1. own'[i] = own[i]
        <4>1. CASE TakeId
          BY <2>1, <4>1 DEF ScenarioTypeOK, RunnerInv, TakeId
        <4> QED
          BY <1>2, <4>1, WireMoves
      <3> QED
        BY <1>1, <2>1, <3>1
    <2>2. CASE outcome[i] # "passed"
      <3>1. ~Write
        BY <2>2 DEF Write
      <3>2. /\ Read /\ IsAnswer(Head(toClient)) /\ Head(toClient).ok
            /\ i = step /\ mode = "call"
        BY <1>2, <2>2, <3>1, CallEnds, FailMoves, PassMoves
      <3>3. own'[i] = Head(toClient).id
        BY <3>2, WireMoves DEF Read, RunnerInv, IsAnswer
      <3>4. Head(toClient).id \in Ids /\ verdict[Head(toClient).id] = "ok"
        <4>1. 1 \in 1 .. Len(toClient) /\ Head(toClient) = toClient[1]
          BY <3>2 DEF ScenarioTypeOK, Read
        <4> QED
          BY <3>2, <4>1 DEF ResponsesInv
      <3>5. Head(toClient).id # NullId
        BY <3>4 DEF Ids, NullId
      <3> QED
        BY <3>3, <3>4, <3>5, VerdictsStay
    <2> QED
      BY <2>1, <2>2
  <1>3. CASE SkipStep
    BY <1>1, <1>3 DEF ScenarioTypeOK, SkipStep
  <1>4. CASE UNCHANGED <<outcome, own>>
    BY <1>1, <1>4
  <1> QED
    BY <1>2, <1>3, <1>4
       DEF ScenarioNext, ClientStep, ServerStep, GlobalTimeout, Accept, Answer, Close, runner, scenario

-----------------------------------------------------------------------------
(* The theorems.                                                           *)

LEMMA ScenarioStarts == ScenarioInit => ScenarioInv
  <1> SUFFICES ASSUME ScenarioInit PROVE ScenarioInv
    OBVIOUS
  <1> USE ScenarioAssumption DEF ScenarioInit
  <1>1. ScenarioTypeOK
    <2>1. step \in 1 .. NumSteps + 1 /\ nextId \in 1 .. 2 * NumSteps + 1
      OBVIOUS
    <2>2. toServer \in Seq(Ids \cup {NullId}) /\ toClient \in Seq(Line)
      OBVIOUS
    <2> QED
      BY <2>1, <2>2 DEF ScenarioTypeOK, Causes
  <1>2. RunnerInv
    BY DEF RunnerInv, Steps
  <1>3. RequestsInv /\ ResponsesInv /\ PassedWasExecuted
    BY DEF RequestsInv, ResponsesInv, PassedWasExecuted, NullId
  <1> QED
    BY <1>1, <1>2, <1>3 DEF ScenarioInv

LEMMA ScenarioKeeps == ScenarioInv /\ [ScenarioNext]_scenario => ScenarioInv'
  BY TypeStep, RunnerStep, RequestsStep, ResponsesStep, PassedStep DEF ScenarioInv

\* The inductive invariant holds in every state.
THEOREM ScenarioCorrect == ScenarioSpec => []ScenarioInv
  BY ScenarioStarts, ScenarioKeeps, PTL DEF ScenarioSpec

\* A step that the report calls passed was executed by the application and
\* answered with success, in a scenario of any length, whatever deadlines
\* passed and whatever earlier calls left on the streams (Client::call).
THEOREM PassedIsTrue == ScenarioSpec => []PassedWasExecuted
  <1>1. ScenarioInv => PassedWasExecuted
    BY DEF ScenarioInv
  <1> QED
    BY <1>1, ScenarioCorrect, PTL
=============================================================================
