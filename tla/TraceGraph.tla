----------------------------- MODULE TraceGraph -----------------------------
(***************************************************************************)
(* The trace of a run: one node per acting tool call, chained in the order *)
(* of the calls (add_workflow_node in agent/runner/records.rs, called by   *)
(* handle_tool_success_outcome), the typed node a call becomes and the     *)
(* call a node becomes again (agent/tool_mapping/), and the accessibility  *)
(* tree that turns the uid of an AX call into a description which outlives *)
(* the snapshot (parse_ax_snapshot, enrich_ax_descriptor).                 *)
(*                                                                         *)
(* The arguments of a call are a function from the names given to values.  *)
(***************************************************************************)
EXTENDS Integers, Sequences, SequencesExt, FiniteSets, TLC

CONSTANTS
    Calls,         \* [tool, args]: the calls a model makes
    Known,         \* names in mcp_tools
    ReadOnlyHints, \* tools annotated with readOnlyHint
    Screens,       \* accessibility trees: sequences of [role, name, depth]
    Uids,          \* Uids[generation][line]: the uids a snapshot gives its lines
    MaxCalls       \* bound: calls of a run

VARIABLES
    shown,    \* world_model.last_native_ax_snapshot: its lines, or NoLines
    shots,    \* generations of snapshots so far
    nodes,    \* state.trace_graph.nodes: [id, kind, params, target]
    edges,    \* state.trace_graph.edges
    last,     \* state.last_node_id
    ended,    \* the destructive cap ended the run
    log       \* history: [call, shown, capped] of each call that succeeded

vars == <<shown, shots, nodes, edges, last, ended, log>>

None == "none"       \* Option::None
Bad == "bad"         \* a value of another JSON type, or an unknown word
Empty == ""
NoKeys == "[]"
NoLines == <<>>

-----------------------------------------------------------------------------
(* From a call to a node.                                                  *)

\* How a field is read: the first of the names present, its type, a default.
Text(names, default) == [names |-> names, text |-> TRUE, default |-> default]
Data(name, default) == [names |-> <<name>>, text |-> FALSE, default |-> default]

Value(args, field) ==
    LET given == {i \in DOMAIN field.names : field.names[i] \in DOMAIN args}
        first == field.names[CHOOSE i \in given : \A j \in given : i <= j]
    IN  IF given = {} THEN field.default
        ELSE IF args[first] = Bad \/ (~field.text /\ args[first] = Empty)
             THEN field.default
             ELSE args[first]

Reads(kind, fields) == [kind |-> kind, fields |-> fields]
NoFields == <<>>

DesktopReads ==
    [take_screenshot |-> Reads("TakeScreenshot",
         [mode |-> Data("mode", "window"), app_name |-> Text(<<"app_name">>, None),
          include_ocr |-> Data("include_ocr", "true")]),
     find_text |-> Reads("FindText",
         [text |-> Text(<<"text">>, Empty), app_name |-> Text(<<"app_name">>, None)]),
     find_image |-> Reads("FindImage",
         [template_image_base64 |-> Text(<<"template_image_base64", "template_id">>, None),
          threshold |-> Data("threshold", "0.75"), max_results |-> Data("max_results", "3")]),
     list_apps |-> Reads("FindApp", [search |-> Text(<<"search">>, Empty)]),
     click |-> Reads("Click",
         [button |-> Data("button", "left"), click_count |-> Data("click_count", "1")]),
     type_text |-> Reads("TypeText", [text |-> Text(<<"text">>, Empty)]),
     press_key |-> Reads("PressKey",
         [key |-> Text(<<"key">>, Empty), modifiers |-> Data("modifiers", NoKeys)]),
     scroll |-> Reads("Scroll",
         [delta_y |-> Data("delta_y", "0"), x |-> Data("x", None), y |-> Data("y", None)]),
     move_mouse |-> Reads("Hover", [dwell_ms |-> Data("dwell_ms", "500")]),
     focus_window |-> Reads("FocusWindow", [app_kind |-> Data("app_kind", "Native")]),
     drag |-> Reads("Drag",
         [from_x |-> Data("from_x", None), from_y |-> Data("from_y", None),
          to_x |-> Data("to_x", None), to_y |-> Data("to_y", None)]),
     launch_app |-> Reads("LaunchApp", [app_name |-> Text(<<"app_name">>, Empty)]),
     quit_app |-> Reads("QuitApp", [app_name |-> Text(<<"app_name">>, Empty)])]

\* required_str: an empty or missing text refuses the mapping.
Required == [find_text |-> "text", type_text |-> "text", press_key |-> "key"]

CdpReads ==
    LET fill == Reads("CdpFill", [value |-> Text(<<"value">>, Empty)])
        navigate == Reads("CdpNavigate", [url |-> Text(<<"url">>, Empty)])
        newPage == Reads("CdpNewPage", [url |-> Text(<<"url">>, Empty)])
        closePage == Reads("CdpClosePage", [page_index |-> Data("page_index", None)])
        selectPage == Reads("CdpSelectPage", [page_index |-> Data("page_index", "0")])
        wait == Reads("CdpWait", [text |-> Text(<<"text">>, Empty),
                                  timeout_ms |-> Data("timeout_ms", "10000")])
        dialog == Reads("CdpHandleDialog", [accept |-> Data("accept", "true"),
                                            prompt_text |-> Text(<<"prompt_text">>, None)])
    IN  [cdp_click |-> Reads("CdpClick", NoFields),
         cdp_hover |-> Reads("CdpHover", NoFields),
         cdp_type_text |-> Reads("CdpType", [text |-> Text(<<"text">>, Empty)]),
         cdp_press_key |-> Reads("CdpPressKey",
             [key |-> Text(<<"key">>, Empty), modifiers |-> Data("modifiers", NoKeys)]),
         fill |-> fill, cdp_fill |-> fill,
         navigate_page |-> navigate, cdp_navigate |-> navigate,
         new_page |-> newPage, cdp_new_page |-> newPage,
         close_page |-> closePage, cdp_close_page |-> closePage,
         select_page |-> selectPage, cdp_select_page |-> selectPage,
         wait_for |-> wait, cdp_wait_for |-> wait,
         handle_dialog |-> dialog, cdp_handle_dialog |-> dialog]

CdpInspections == {"cdp_take_snapshot", "cdp_list_pages"}

AxReads ==
    [ax_click |-> Reads("AxClick", NoFields),
     ax_set_value |-> Reads("AxSetValue", [value |-> Text(<<"value">>, Empty)]),
     ax_select |-> Reads("AxSelect", NoFields)]

AllReads == DesktopReads @@ CdpReads @@ AxReads

\* What a node acts on, by the way it is named.
Target(by, values) == [by |-> by, values |-> values]
NoTarget == Target(None, <<>>)
Refused == Target("refused", <<>>)

Spot(args) ==
    LET x == Value(args, Data("x", None))
        y == Value(args, Data("y", None))
    IN  IF None \in {x, y} THEN NoTarget ELSE Target("Coordinates", <<x, y>>)

Clicked(args) ==
    LET label == Value(args, Text(<<"target", "text">>, None))
    IN  IF label # None THEN Target("Text", <<label>>) ELSE Spot(args)

\* A uid and a label of the agent are both exact labels; none at all is an
\* intent with nothing in it.
Labelled(args) ==
    LET uid == Value(args, Text(<<"uid">>, Empty))
        label == IF uid # Empty THEN uid ELSE Value(args, Text(<<"target", "text">>, Empty))
    IN  Target(IF label = Empty THEN "Intent" ELSE "ExactLabel", <<label>>)

\* The name of an application wins over its window, the window over its pid;
\* the one that decides must have its type.
Focused(args) ==
    LET named == Value(args, Text(<<"app_name">>, None))
        by == IF "window_id" \in DOMAIN args THEN "window_id" ELSE "pid"
    IN  IF named # None THEN Target("app_name", <<named>>)
        ELSE IF Value(args, Data(by, None)) = None THEN Refused
        ELSE Target(by, <<args[by]>>)

TargetOf(tool, args) ==
    CASE tool = "click" -> Clicked(args)
      [] tool = "move_mouse" -> Spot(args)
      [] tool = "focus_window" -> Focused(args)
      [] tool \in {"cdp_click", "cdp_hover"} -> Labelled(args)
      [] tool \in {"fill", "cdp_fill"} -> Target("ExactLabel", <<Value(args, Text(<<"uid">>, Empty))>>)
      [] tool \in DOMAIN AxReads -> Target("ResolvedUid", <<Value(args, Text(<<"uid">>, Empty))>>)
      [] OTHER -> NoTarget

Node(kind, params, target) == [kind |-> kind, params |-> params, target |-> target]
Unmapped == Node(None, <<>>, NoTarget)

\* tool_invocation_to_node_type.
NodeOf(call) ==
    LET tool == call.tool
        args == call.args
        reads == AllReads[tool]
        params == [p \in DOMAIN reads.fields |-> Value(args, reads.fields[p])]
    IN  IF tool \in DOMAIN AllReads
        THEN IF \/ TargetOf(tool, args) = Refused
                \/ tool \in DOMAIN Required /\ params[Required[tool]] = Empty
             THEN Unmapped
             ELSE Node(reads.kind, params, TargetOf(tool, args))
        ELSE IF tool \in CdpInspections \union Known
             THEN Node("McpToolCall", args, Target("tool", <<tool>>))
             ELSE Unmapped

-----------------------------------------------------------------------------
(* From a node to a call.                                                  *)

Puts(tool, args) == [tool |-> tool, args |-> args]

DesktopWrites ==
    [TakeScreenshot |-> Puts("take_screenshot", {"mode", "include_ocr", "app_name"}),
     FindText |-> Puts("find_text", {"text", "app_name"}),
     FindImage |-> Puts("find_image", {"threshold", "max_results", "template_image_base64"}),
     FindApp |-> Puts("list_apps", {"search"}),
     Click |-> Puts("click", {"button", "click_count"}),
     TypeText |-> Puts("type_text", {"text"}),
     PressKey |-> Puts("press_key", {"key", "modifiers"}),
     Scroll |-> Puts("scroll", {"delta_y", "x", "y"}),
     FocusWindow |-> Puts("focus_window", {"app_kind"}),
     Hover |-> Puts("move_mouse", {}),
     Drag |-> Puts("drag", {"from_x", "from_y", "to_x", "to_y"}),
     LaunchApp |-> Puts("launch_app", {"app_name"}),
     QuitApp |-> Puts("quit_app", {"app_name"})]

CdpWrites ==
    [CdpClick |-> Puts("cdp_click", {}),
     CdpHover |-> Puts("cdp_hover", {}),
     CdpFill |-> Puts("cdp_fill", {"value"}),
     CdpType |-> Puts("cdp_type_text", {"text"}),
     CdpPressKey |-> Puts("cdp_press_key", {"key", "modifiers"}),
     CdpNavigate |-> Puts("cdp_navigate", {"url"}),
     CdpNewPage |-> Puts("cdp_new_page", {"url"}),
     CdpClosePage |-> Puts("cdp_close_page", {"page_index"}),
     CdpSelectPage |-> Puts("cdp_select_page", {"page_index"}),
     CdpWait |-> Puts("cdp_wait_for", {"text", "timeout_ms"}),
     CdpHandleDialog |-> Puts("cdp_handle_dialog", {"accept", "prompt_text"}),
     AxClick |-> Puts("ax_click", {}),
     AxSetValue |-> Puts("ax_set_value", {"value"}),
     AxSelect |-> Puts("ax_select", {})]

AllWrites == DesktopWrites @@ CdpWrites

\* Left out of the arguments: nothing to say, or the default kind of an app.
LeftOut(kind, arg, value) ==
    \/ value = None
    \/ arg = "modifiers" /\ value = NoKeys
    \/ arg = "app_kind" /\ value = "Native"
    \/ kind = "CdpNewPage" /\ value = Empty

\* A label is left to whoever runs the node; a description is sent by its name.
TargetArgs(target) ==
    CASE target.by = "Coordinates" -> [x |-> target.values[1], y |-> target.values[2]]
      [] target.by = "app_name" /\ target.values[1] = Empty -> <<>>
      [] target.by = "app_name" -> [app_name |-> target.values[1]]
      [] target.by = "window_id" -> [window_id |-> target.values[1]]
      [] target.by = "pid" -> [pid |-> target.values[1]]
      [] target.by \in {"ExactLabel", "Intent", "ResolvedUid"} -> [uid |-> target.values[1]]
      [] target.by = "Descriptor" -> [uid |-> target.values[2]]
      [] OTHER -> <<>>

\* node_type_to_tool_invocation.
CallOf(node) ==
    LET writes == AllWrites[node.kind]
        written == {a \in writes.args : ~LeftOut(node.kind, a, node.params[a])}
    IN  IF node.kind = "McpToolCall"
        THEN [tool |-> node.target.values[1], args |-> node.params]
        ELSE [tool |-> writes.tool,
              args |-> [a \in written |-> node.params[a]] @@ TargetArgs(node.target)]

-----------------------------------------------------------------------------
(* The accessibility tree: one line per element, indented by its depth.    *)

\* Deviation: a line beside another is taken for one inside it.
Above_Beside(stack, line) == SelectSeq(stack, LAMBDA above : above.depth <= line.depth)

\* parse_ax_snapshot: the named lines above, none as deep as this one, are on a
\* stack whose depths grow, so dropping from its end is dropping the deep ones.
Above(stack, line) == SelectSeq(stack, LAMBDA above : above.depth < line.depth)

Element(uid, line, stack) ==
    [uid |-> uid, role |-> line.role, name |-> line.name,
     parent |-> IF stack = <<>> THEN None ELSE Last(stack).name]

\* The elements of the lines up to n, and the stack after them.
Parsed(lines) ==
    LET upTo[n \in 0..Len(lines)] ==
          IF n = 0 THEN [elements |-> <<>>, stack |-> <<>>]
          ELSE LET line == lines[n]
                   stack == Above(upTo[n - 1].stack, line)
               IN  [elements |-> Append(upTo[n - 1].elements, Element(line.uid, line, stack)),
                    stack |-> IF line.name = Empty THEN stack ELSE Append(stack, line)]
    IN  upTo[Len(lines)].elements

\* enrich_ax_descriptor: a uid the last snapshot shows becomes a description.
Enriched(node, lines) ==
    LET elements == Parsed(lines)
        meant == {i \in DOMAIN elements : elements[i].uid = node.target.values[1]}
        e == elements[CHOOSE i \in meant : \A j \in meant : i <= j]
    IN  IF \/ node.target.by # "ResolvedUid"
           \/ node.target.values[1] = Empty
           \/ meant = {}
        THEN node
        ELSE [node EXCEPT !.target = Target("Descriptor", <<e.role, e.name, e.parent>>)]

-----------------------------------------------------------------------------
ObservationTools ==
    {"take_screenshot", "list_apps", "list_windows", "find_text", "find_image",
     "element_at_point", "take_ax_snapshot", "probe_app", "get_displays", "start_recording",
     "start_hover_tracking", "load_image", "cdp_list_pages", "cdp_take_snapshot",
     "cdp_summarize_page", "cdp_find_elements", "cdp_get_element_context",
     "cdp_wait_for_page_change", "android_list_devices"}

Confirmable == {"quit_app", "launch_app", "cdp_connect"}

IsObservation(tool) == tool \notin Confirmable /\ tool \in ObservationTools \union ReadOnlyHints

Init ==
    /\ shown = NoLines
    /\ shots = 0
    /\ nodes = <<>>
    /\ edges = {}
    /\ last \in {None, "anchor"}
    /\ ended = FALSE
    /\ log = <<>>

\* take_ax_snapshot came back: update_continuity_after_tool_success.
TakeSnapshot(screen) ==
    /\ ~ended
    /\ shots < Len(Uids)
    /\ shots' = shots + 1
    /\ shown' = [i \in DOMAIN screen |-> [uid |-> Uids[shots + 1][i]] @@ screen[i]]
    /\ UNCHANGED <<nodes, edges, last, ended, log>>

\* The next observation drops it: another application, or too old.
DropSnapshot ==
    /\ ~ended
    /\ shown # NoLines
    /\ shown' = NoLines
    /\ UNCHANGED <<shots, nodes, edges, last, ended, log>>

\* Deviation: the last node moves on although none was added.
AddNode_AlwaysLast(call, id) ==
    LET node == NodeOf(call)
    IN  /\ last' = id
        /\ IF IsObservation(call.tool) \/ node.kind = None
           THEN UNCHANGED <<nodes, edges>>
           ELSE /\ nodes' = Append(nodes, [id |-> id] @@ Enriched(node, shown))
                /\ edges' = edges \union (IF last = None THEN {} ELSE {<<last, id>>})
\* add_workflow_node; a node is named by the place of its call in the log.
AddNode(call, id) ==
    LET node == NodeOf(call)
    IN  IF IsObservation(call.tool) \/ node.kind = None
        THEN UNCHANGED <<nodes, edges, last>>
        ELSE /\ nodes' = Append(nodes, [id |-> id] @@ Enriched(node, shown))
             /\ edges' = edges \union (IF last = None THEN {} ELSE {<<last, id>>})
             /\ last' = id

\* A call succeeded: handle_tool_success_outcome.
Succeed(call) ==
    /\ ~ended
    /\ Len(log) < MaxCalls
    /\ log' = Append(log, [call |-> call, shown |-> shown, capped |-> FALSE])
    /\ AddNode(call, ToString(Len(log) + 1))
    /\ UNCHANGED <<shown, shots, ended>>

\* It was the last the destructive cap allows: the run ends before its node.
ReachCap(call) ==
    /\ ~ended
    /\ Len(log) < MaxCalls
    /\ ~IsObservation(call.tool)
    /\ log' = Append(log, [call |-> call, shown |-> shown, capped |-> TRUE])
    /\ ended' = TRUE
    /\ UNCHANGED <<shown, shots, nodes, edges, last>>

Next ==
    \/ \E screen \in Screens : TakeSnapshot(screen)
    \/ DropSnapshot
    \/ \E call \in Calls : Succeed(call) \/ ReachCap(call)

Spec == Init /\ [][Next]_vars

-----------------------------------------------------------------------------
(* What the trace must say.                                                *)

EntryOf(node) == CHOOSE i \in DOMAIN log : ToString(i) = node.id

\* What a node cannot carry to a call by design: the text of a click, how long
\* a hover dwells, and the fields left to their defaults.
SaysText(node) == node.target.by = "Text"
SaysNobody(node) == node.target.by = "app_name" /\ node.target.values[1] = Empty
AsRead(node) ==
    [kind |-> node.kind, target |-> node.target,
     params |-> [p \in DOMAIN node.params \ {"dwell_ms"} |-> node.params[p]]]

\* A node's call does what the run's call did: the arguments both have are the
\* same, and it is read as the same node again.
SameCall(node, call) ==
    LET again == CallOf(node)
    IN  /\ \A a \in DOMAIN call.args \cap DOMAIN again.args :
              call.args[a] \in {again.args[a], Bad, Empty}
        /\ SaysText(node) \/ SaysNobody(node) \/ AsRead(NodeOf(again)) = AsRead(node)

\* The trace is the run: a path from the anchor through one node per acting call
\* that could be read, in the order the calls succeeded, and what each node would
\* call is what was called.
TraceIsTheRun ==
    LET built == SelectSeq([i \in DOMAIN log |-> i],
                           LAMBDA i : /\ ~log[i].capped
                                      /\ ~IsObservation(log[i].call.tool)
                                      /\ NodeOf(log[i].call).kind # None)
        path == [n \in DOMAIN nodes |-> nodes[n].id]
    IN  /\ path = [n \in DOMAIN built |-> ToString(built[n])]
        /\ \A n \in 2..Len(path) : <<path[n - 1], path[n]>> \in edges
        /\ \A n \in DOMAIN path : Cardinality({e \in edges : e[2] = path[n]}) <= 1
        /\ \A n \in DOMAIN nodes :
              nodes[n].target.by # "Descriptor" => SameCall(nodes[n], log[EntryOf(nodes[n])].call)

\* The nearest line above with a name, among those the tree puts around a line.
Around(lines, i) ==
    {j \in 1..(i - 1) : /\ lines[j].depth < lines[i].depth
                        /\ \A k \in (j + 1)..(i - 1) : lines[k].depth > lines[j].depth}
ParentName(lines, i) ==
    LET named == {j \in Around(lines, i) : lines[j].name # Empty}
    IN  IF named = {} THEN None ELSE lines[CHOOSE j \in named : \A k \in named : k <= j].name

\* A described node names the element its uid meant, with the nearest named
\* element around it, in the snapshot the run last saw; a uid that snapshot
\* shows is never left as it is.
DescriptorIsTrue ==
    \A n \in DOMAIN nodes :
        LET entry == log[EntryOf(nodes[n])]
            meant == {i \in DOMAIN entry.shown :
                        "uid" \in DOMAIN entry.call.args /\ entry.shown[i].uid = entry.call.args.uid}
        IN  IF nodes[n].target.by = "Descriptor"
            THEN \E i \in meant : nodes[n].target.values =
                     <<entry.shown[i].role, entry.shown[i].name, ParentName(entry.shown, i)>>
            ELSE nodes[n].target.by = "ResolvedUid" => meant = {}
=============================================================================
