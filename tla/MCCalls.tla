------------------------------ MODULE MCCalls ------------------------------
(***************************************************************************)
(* What calls leave behind, each by itself: the trace of a run             *)
(* (TraceGraph), the tabs a recording goes back to (CdpTabs) and the skill *)
(* a run is made into and run as (SkillReplay).  A behaviour is one of one *)
(* of them; the variables of the others have no value, and variables of    *)
(* one name are one.                                                       *)
(***************************************************************************)
EXTENDS TraceGraph, MCCdpTabs

VARIABLES
    recording, sketch, edited, schema, run, invoked

-----------------------------------------------------------------------------
(* TraceGraph: every tool with up to two arguments of every kind, and every *)
(* shape of a small accessibility tree.                                    *)

MCUids == <<<<"a1g1", "a2g1", "a3g1", "a4g1">>, <<"a1g2", "a2g2", "a3g2", "a4g2">>>>
MCKnown == {"android_tap"}
MCReadOnly == {"android_look"}

\* Depths of a tree written line by line: never more than one deeper.
Depths(n) == {d \in [1..n -> 0..2] : d[1] = 0 /\ \A i \in 2..n : d[i] <= d[i - 1] + 1}
Names == <<"Mail", "Inbox", "Today", "Letter">>
MCScreens ==
    UNION {{[i \in 1..n |-> [role |-> "AXRow", name |-> name[i], depth |-> depth[i]]] :
                name \in {f \in [1..n -> {Empty} \union Range(Names)] :
                             \A i \in 1..n : f[i] \in {Empty, Names[i]}},
                depth \in Depths(n)} : n \in {2, 4}}

ArgsOf(tool) ==
    LET fields == IF tool \in DOMAIN AllReads THEN AllReads[tool].fields ELSE <<>>
    IN  UNION {{fields[p].names[i] : i \in DOMAIN fields[p].names} : p \in DOMAIN fields}
        \union CASE tool = "click" -> {"target", "text", "x", "y"}
                 [] tool = "move_mouse" -> {"x", "y"}
                 [] tool = "focus_window" -> {"app_name", "window_id", "pid"}
                 [] tool \in {"cdp_click", "cdp_hover"} -> {"uid", "target", "text"}
                 [] tool \in {"fill", "cdp_fill"} \union DOMAIN AxReads -> {"uid"}
                 [] tool \in MCKnown -> {"x"}
                 [] OTHER -> {}

Given(args) ==
    UNION {[some -> {Bad, Empty, "given"}] : some \in {s \in SUBSET args : Cardinality(s) <= 2}}

WideCalls ==
    UNION {{[tool |-> tool, args |-> args] : args \in Given(ArgsOf(tool))} :
               tool \in DOMAIN AllReads \union CdpInspections \union MCKnown \union {"nobody"}}
AxCalls ==
    {[tool |-> "ax_click", args |-> [uid |-> uid]] : uid \in {"a4g1", "a2g2", Empty}}
    \union {[tool |-> "ax_set_value", args |-> [uid |-> "a3g1", value |-> "given"]]}
FewCalls ==
    {[tool |-> "press_key", args |-> [key |-> "given"]],
     [tool |-> "press_key", args |-> <<>>],
     [tool |-> "android_look", args |-> <<>>]}

\* A long run makes few different calls; every tree and every argument is tried
\* in a short one.
Fresh == log = <<>> /\ shots = 0
MCNext ==
    \/ \E screen \in CASE Fresh -> MCScreens [] shots = 1 -> {NoLines} [] OTHER -> {} :
           TakeSnapshot(screen)
    \/ DropSnapshot
    \/ \E call \in IF shots = 0 THEN FewCalls ELSE AxCalls :
           Succeed(call) \/ ReachCap(call)
    \/ Fresh /\ \E call \in WideCalls : Succeed(call)

-----------------------------------------------------------------------------
(* SkillReplay: recordings of four calls.                                  *)

Call(tool, args, result) == [tool |-> tool, args |-> args, result |-> result]
At(key, value) == [key |-> key, value |-> value]

\* A poll with two outcomes, one of which holds two values under one key, a
\* click on what it may have found, one on something short, and typing.
MCCalls == {
    Call("poll", <<>>, <<At("uid", "v")>>),
    Call("poll", <<>>, <<At("uid", "w"), At("uid", "v")>>),
    Call("click", <<"v">>, <<>>),
    Call("click", <<"x">>, <<At("text", "x")>>),
    Call("type", <<"w", "v">>, <<>>)}
MCShort == {"x"}
MCLayouts == {<<1, 1, 2, 2>>, <<2, 1, 2, 1>>, <<0, 2, 1, 1>>}

Slot(type, enum, default) == [type |-> type, enum |-> enum, default |-> default]
Param(type, value) == [type |-> type, value |-> value]
MCSchemas == {
    [p |-> Slot("string", {"a"}, "none")],
    [p |-> Slot("string", {"a"}, "b"), q |-> Slot("number", {}, "none")]}
MCGivens == {
    <<>>, [p |-> Param("string", "a")], [p |-> Param("string", "b")],
    [p |-> Param("number", "n")], [q |-> Param("number", "n")],
    [p |-> Param("string", "a"), q |-> Param("number", "n")],
    [p |-> Param("string", "b"), q |-> Param("number", "n")]}

R == INSTANCE SkillReplay WITH
       Calls <- MCCalls, Short <- MCShort, Layouts <- MCLayouts, Schemas <- MCSchemas,
       Givens <- MCGivens, Counts <- {0, 2, 6}, MaxCalls <- 4

-----------------------------------------------------------------------------
(* One part of the three; the variables of the others have no value.       *)

CallsInit ==
  \/ /\ part = "trace" /\ Init
     /\ proc = None /\ tabs = None /\ conn = None /\ fresh = None /\ acts = None /\ pc = None
     /\ turn = None /\ tries = None /\ injected = None /\ page = None /\ cancel = None
     /\ known = None /\ told = None /\ requests = None /\ job = None /\ answers = None
     /\ hover = None /\ late = None /\ crossed = None
     /\ recording = None /\ sketch = None /\ edited = None /\ schema = None /\ run = None
     /\ invoked = None
  \/ /\ part = "tabs" /\ C!Init
     /\ shown = None /\ shots = None /\ nodes = None /\ edges = None /\ last = None
     /\ ended = None /\ log = None /\ recording = None /\ sketch = None /\ edited = None
     /\ schema = None /\ run = None /\ invoked = None
  \/ /\ part = "replay" /\ R!Init
     /\ shown = None /\ shots = None /\ nodes = None /\ edges = None /\ last = None
     /\ ended = None /\ log = None /\ proc = None /\ tabs = None /\ conn = None
     /\ fresh = None /\ acts = None /\ pc = None /\ turn = None /\ tries = None
     /\ injected = None /\ page = None /\ cancel = None /\ known = None /\ told = None
     /\ requests = None /\ job = None /\ answers = None
     /\ hover = None /\ late = None /\ crossed = None

restTrace ==
  <<proc, tabs, conn, fresh, acts, pc, turn, tries, injected, page, cancel, known,
    told, requests, job, answers, hover, late, crossed, recording, sketch, edited,
    schema, run, invoked>>
restTabs ==
  <<shown, shots, nodes, edges, last, ended, log, recording, sketch, edited, schema,
    run, invoked>>
restReplay ==
  <<shown, shots, nodes, edges, last, ended, log, proc, tabs, conn, fresh, acts, pc,
    turn, tries, injected, page, cancel, known, told, requests, job, answers, hover,
    late, crossed>>

CallsNext ==
  /\ part' = part
  /\ \/ part = "trace" /\ MCNext /\ UNCHANGED restTrace
     \/ part = "tabs" /\ C!Next /\ UNCHANGED restTabs
     \/ part = "replay" /\ R!Next /\ UNCHANGED restReplay

CallsSpec ==
  /\ CallsInit /\ [][CallsNext]_<<part, vars, restTrace>>
  /\ WF_(C!vars)(part = "tabs" /\ C!SetUp)
  /\ WF_(C!vars)(part = "tabs" /\ C!Consume)
  /\ WF_(C!vars)(part = "tabs" /\ C!Fetch)

-----------------------------------------------------------------------------
(* The properties of the trace and of the replay; MCCdpTabs has those of   *)
(* the tabs.                                                               *)

\* The trace is a path from the anchor through one node per acting call that
\* could be read, in the order the calls succeeded, and what a node would call is
\* what was called; a described node names the element its uid meant, with the
\* nearest named element around it, in the snapshot the run last saw.
PathOfTheRun == part = "trace" => TraceIsTheRun /\ DescriptorIsTrue

\* The sketch a recording becomes makes the calls that were recorded, folded and
\* bound or not, and a run of it makes the calls the sketch says, from the
\* section it is resumed at, loops as often as they say; an invocation of it that
\* is accepted has a value of its type for every slot.
ReplaysAsRecorded ==
  part = "replay" => R!KeepsTheCalls /\ R!RunsAsWritten /\ R!InvokedIsFilled
=============================================================================
