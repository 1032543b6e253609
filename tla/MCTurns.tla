------------------------------ MODULE MCTurns ------------------------------
(***************************************************************************)
(* What a turn of the agent is made of, each by itself: the skill file it  *)
(* patches (SkillFile) and its journal on disk (SkillJournal), the         *)
(* transcript the model is sent (Transcript), the permission of a call     *)
(* (Permissions), what is known of the application in front (CdpFocus) and *)
(* the signs that the run goes round in circles (NoProgress).  A behaviour *)
(* is one of one of them; the variables of the others have no value, and   *)
(* variables of one name are one.                                          *)
(***************************************************************************)
EXTENDS SkillFile, TLC

CONSTANTS
    RecentN, MaxTokens, LogTokens, Sizes, StateSizes, Runs, MaxTurns,   \* Transcript
    ToolList, Rules, PerTool, MaxRules, Gates,                          \* Permissions
    App, Electron, AxTools, Ttl, MaxSteps,                              \* CdpFocus
    Acts, Composes, Peeks, Contexts, RepeatThreshold, SearchThreshold,  \* NoProgress
    MaxPattern, MaxCount, MaxSearches, MaxBefore,
    Patch, Writer, boot, N, Faults, MaxCrash                            \* SkillJournal

\* The window holds the current step at least (recent_n is 6), and the sizes count
\* tokens.
ASSUME TranscriptAssumption ==
  RecentN \in Nat \ {0} /\ Sizes \subseteq Nat /\ StateSizes \subseteq Nat

\* A snapshot lives a number of steps (ttl_steps).
ASSUME FocusAssumption == Ttl \in Nat

\* The settings are of any length, with names of tools for keys.
ASSUME PolicyAssumption ==
  /\ MaxRules \in Nat /\ Gates \subseteq BOOLEAN
  /\ \A tool \in ToolList : tool.name \in Seq(STRING)
  /\ \A rule \in Rules : rule.pattern \in Seq(STRING) /\ rule.action \in {"allow", "ask", "deny"}
  /\ \A o \in PerTool :
       /\ IsFiniteSet(DOMAIN o)
       /\ \A name \in DOMAIN o :
            /\ name \in Seq(STRING) /\ \A i \in 1 .. Len(name) : name[i] \notin {"*", "?"}
            /\ o[name] \in {"allow", "ask", "deny"}

\* A patch writes some files; of its calls into the file system only renaming and
\* removing may fail half-way (SkillJournal).
ASSUME PatchesAssumption ==
  /\ boot \notin Writer /\ N \in Nat \ {0} /\ MaxCrash \in Nat
  /\ Faults \subseteq {"rename", "remove"}

\* A repetition that is told of fits into the history; the thresholds and the longest
\* cycle looked for are 3 (REPEAT_ACTION_THRESHOLD, TEXT_SUBMIT_SEARCH_THRESHOLD,
\* ACTION_CYCLE_MAX_PATTERN_LEN).
ASSUME ProgressAssumption ==
  /\ MaxPattern \in Nat \ {0} /\ RepeatThreshold \in 1 .. 2 * MaxPattern
  /\ SearchThreshold \in Nat \ {0}
  /\ MaxCount \in Nat /\ MaxSearches \in Nat /\ MaxBefore \in Nat

VARIABLES
    part,
    goal, messages, previous, asked, turns, ended, wire, gate, call, stage, proc,
    session, allow, pc, target, step, connected, kinds, cached, focused, status, url,
    page, ax, shot, elements, pending, shifted, live, staged, txdir, manifest, commit,
    at, job, buffer, begun, acked, failed, crashes, context, lastAction, recent, shown,
    trail, searched

-----------------------------------------------------------------------------
(* SkillFile: files of up to two blocks of lines.                          *)

MCTexts == {"a", "b"}
MCProses == {"p", "q"}
MCVariables == {"v"}
MCSteps == {"s", "t"}
MCSketches == {
    <<Step("s", Literal, <<>>)>>,
    <<Step("s", Literal, <<>>), Step("t", "v", <<>>)>>,
    <<Step("s", Literal, <<"t">>)>>}

Under == {<<>>, <<Prose("p", {})>>, <<Prose("q", {"v"}), Comment>>,
          <<Fence, Heading(2, "b"), Fence>>, <<Heading(4, "b"), Prose("p", {})>>}

\* Two headings of one text, one of another; markers that fit, that are of
\* another section, or that are missing.
MCBlocks ==
    {<<Heading(2, "a")>> \o m \o s \o u :
        m \in {<<>>, <<SectionMarker(<<"b", 1>>)>>, <<SectionMarker(<<"a", 2>>)>>},
        s \in {<<>>, <<StepMarker("s")>>}, u \in Under}
    \cup {<<Heading(3, "b")>> \o m \o s \o u :
        m \in {<<>>, <<SectionMarker(<<"b", 1>>)>>},
        s \in {<<>>, <<StepMarker("t")>>}, u \in Under}
    \cup {<<Prose("p", {})>>, <<StepMarker("s")>>}

-----------------------------------------------------------------------------
(* Transcript: earlier runs of one summary and of three.                   *)

MCRuns == {<<>>, <<4, 1>>, <<1, 1, 6>>}

-----------------------------------------------------------------------------
(* Permissions: every pattern of up to three characters.                   *)

Block(d, r) == {[destructive |-> d, readOnly |-> r]}
Tool(name, listed, confirmable, top, inner) ==
    [name |-> name, listed |-> listed, confirmable |-> confirmable, top |-> top, inner |-> inner]
MCTools == {
    Tool(<<"a">>, FALSE, FALSE, {}, {}),
    Tool(<<"a", "b">>, FALSE, FALSE, Block("true", "false"), {}),
    Tool(<<"b", "a">>, FALSE, TRUE, Block("none", "true"), {}),
    Tool(<<"a", "b", "a">>, TRUE, FALSE, {}, {}),
    Tool(<<"b", "b">>, FALSE, FALSE, Block("none", "none"), Block("true", "true")),
    Tool(<<"b">>, FALSE, FALSE, {}, Block("true", "true"))}
MCRules ==
    [pattern : BoundedSeq({"a", "*", "?"}, 3), needle : {FALSE}, action : {"deny"}]
    \cup [pattern : {<<"a", "*">>, <<"b", "?">>}, needle : BOOLEAN,
          action : {"allow", "ask", "deny"}]
MCPerTool == {<<>>, [n \in {<<"a", "b">>, <<"a">>} |-> IF Len(n) = 1 THEN "deny" ELSE "allow"]}

-----------------------------------------------------------------------------
(* NoProgress: two actions and three states of the page, two of them with  *)
(* one signature.                                                          *)

State(print, surface) == [url |-> "u", print |-> print, surface |-> surface]
MCContexts == {State("f", {"e"}), State("g", {"e"}), State("f", {})}

-----------------------------------------------------------------------------
(* The parts; of SkillJournal as the code uses it: no start recovers.      *)

T == INSTANCE Transcript
P == INSTANCE Permissions WITH Tools <- ToolList
C == INSTANCE CdpFocus
G == INSTANCE NoProgress
J == INSTANCE SkillJournal WITH Recovers <- FALSE

Interchangeable == Permutations(Electron)

-----------------------------------------------------------------------------
(* One part of the six; the variables of the others have no value.         *)
Nil == "none"

TurnsInit ==
  \/ /\ part = "file" /\ Init
     /\ goal = Nil /\ messages = Nil /\ previous = Nil /\ asked = Nil /\ turns = Nil
     /\ ended = Nil /\ wire = Nil /\ gate = Nil /\ call = Nil /\ stage = Nil
     /\ proc = Nil /\ session = Nil /\ allow = Nil /\ pc = Nil /\ target = Nil
     /\ step = Nil /\ connected = Nil /\ kinds = Nil /\ cached = Nil /\ focused = Nil
     /\ status = Nil /\ url = Nil /\ page = Nil /\ ax = Nil /\ shot = Nil
     /\ elements = Nil /\ pending = Nil /\ shifted = Nil /\ live = Nil /\ staged = Nil
     /\ txdir = Nil /\ manifest = Nil /\ commit = Nil /\ at = Nil /\ job = Nil
     /\ buffer = Nil /\ begun = Nil /\ acked = Nil /\ failed = Nil /\ crashes = Nil
     /\ context = Nil /\ lastAction = Nil /\ recent = Nil /\ shown = Nil /\ trail = Nil
     /\ searched = Nil
  \/ /\ part = "transcript" /\ T!Init
     /\ file = Nil /\ blocks = Nil /\ edits = Nil /\ replay = Nil /\ wire = Nil
     /\ gate = Nil /\ call = Nil /\ stage = Nil /\ proc = Nil /\ session = Nil
     /\ allow = Nil /\ pc = Nil /\ target = Nil /\ step = Nil /\ connected = Nil
     /\ kinds = Nil /\ cached = Nil /\ focused = Nil /\ status = Nil /\ url = Nil
     /\ page = Nil /\ ax = Nil /\ shot = Nil /\ elements = Nil /\ pending = Nil
     /\ shifted = Nil /\ live = Nil /\ staged = Nil /\ txdir = Nil /\ manifest = Nil
     /\ commit = Nil /\ at = Nil /\ job = Nil /\ buffer = Nil /\ begun = Nil
     /\ acked = Nil /\ failed = Nil /\ crashes = Nil /\ context = Nil
     /\ lastAction = Nil /\ recent = Nil /\ shown = Nil /\ trail = Nil /\ searched = Nil
  \/ /\ part = "permissions" /\ P!Init
     /\ file = Nil /\ blocks = Nil /\ edits = Nil /\ replay = Nil /\ goal = Nil
     /\ messages = Nil /\ previous = Nil /\ asked = Nil /\ turns = Nil /\ ended = Nil
     /\ proc = Nil /\ session = Nil /\ allow = Nil /\ pc = Nil /\ target = Nil
     /\ step = Nil /\ connected = Nil /\ kinds = Nil /\ cached = Nil /\ focused = Nil
     /\ status = Nil /\ url = Nil /\ page = Nil /\ ax = Nil /\ shot = Nil
     /\ elements = Nil /\ pending = Nil /\ shifted = Nil /\ live = Nil /\ staged = Nil
     /\ txdir = Nil /\ manifest = Nil /\ commit = Nil /\ at = Nil /\ job = Nil
     /\ buffer = Nil /\ begun = Nil /\ acked = Nil /\ failed = Nil /\ crashes = Nil
     /\ context = Nil /\ lastAction = Nil /\ recent = Nil /\ shown = Nil /\ trail = Nil
     /\ searched = Nil
  \/ /\ part = "focus" /\ C!Init
     /\ file = Nil /\ blocks = Nil /\ edits = Nil /\ replay = Nil /\ goal = Nil
     /\ messages = Nil /\ previous = Nil /\ asked = Nil /\ turns = Nil /\ ended = Nil
     /\ wire = Nil /\ gate = Nil /\ call = Nil /\ stage = Nil /\ live = Nil
     /\ staged = Nil /\ txdir = Nil /\ manifest = Nil /\ commit = Nil /\ at = Nil
     /\ job = Nil /\ buffer = Nil /\ begun = Nil /\ acked = Nil /\ failed = Nil
     /\ crashes = Nil /\ context = Nil /\ lastAction = Nil /\ recent = Nil
     /\ shown = Nil /\ trail = Nil /\ searched = Nil
  \/ /\ part = "journal" /\ J!Init
     /\ file = Nil /\ blocks = Nil /\ edits = Nil /\ replay = Nil /\ goal = Nil
     /\ messages = Nil /\ previous = Nil /\ asked = Nil /\ turns = Nil /\ ended = Nil
     /\ wire = Nil /\ gate = Nil /\ call = Nil /\ stage = Nil /\ proc = Nil
     /\ session = Nil /\ allow = Nil /\ target = Nil /\ step = Nil /\ connected = Nil
     /\ kinds = Nil /\ cached = Nil /\ focused = Nil /\ status = Nil /\ url = Nil
     /\ page = Nil /\ ax = Nil /\ shot = Nil /\ elements = Nil /\ shifted = Nil
     /\ context = Nil /\ lastAction = Nil /\ recent = Nil /\ shown = Nil /\ trail = Nil
     /\ searched = Nil
  \/ /\ part = "progress" /\ G!Init
     /\ file = Nil /\ blocks = Nil /\ edits = Nil /\ replay = Nil /\ goal = Nil
     /\ messages = Nil /\ previous = Nil /\ asked = Nil /\ turns = Nil /\ ended = Nil
     /\ wire = Nil /\ gate = Nil /\ call = Nil /\ stage = Nil /\ proc = Nil
     /\ session = Nil /\ allow = Nil /\ pc = Nil /\ target = Nil /\ step = Nil
     /\ connected = Nil /\ kinds = Nil /\ cached = Nil /\ focused = Nil /\ status = Nil
     /\ url = Nil /\ page = Nil /\ ax = Nil /\ shot = Nil /\ elements = Nil
     /\ shifted = Nil /\ live = Nil /\ staged = Nil /\ txdir = Nil /\ manifest = Nil
     /\ commit = Nil /\ at = Nil /\ job = Nil /\ buffer = Nil /\ begun = Nil
     /\ acked = Nil /\ failed = Nil /\ crashes = Nil

restFile ==
  <<goal, messages, previous, asked, turns, ended, wire, gate, call, stage, proc,
    session, allow, pc, target, step, connected, kinds, cached, focused, status,
    url, page, ax, shot, elements, pending, shifted, live, staged, txdir, manifest,
    commit, at, job, buffer, begun, acked, failed, crashes, context, lastAction,
    recent, shown, trail, searched>>
restTranscript ==
  <<file, blocks, edits, replay, wire, gate, call, stage, proc, session, allow, pc,
    target, step, connected, kinds, cached, focused, status, url, page, ax, shot,
    elements, pending, shifted, live, staged, txdir, manifest, commit, at, job,
    buffer, begun, acked, failed, crashes, context, lastAction, recent, shown,
    trail, searched>>
restPermissions ==
  <<file, blocks, edits, replay, goal, messages, previous, asked, turns, ended,
    proc, session, allow, pc, target, step, connected, kinds, cached, focused,
    status, url, page, ax, shot, elements, pending, shifted, live, staged, txdir,
    manifest, commit, at, job, buffer, begun, acked, failed, crashes, context,
    lastAction, recent, shown, trail, searched>>
restFocus ==
  <<file, blocks, edits, replay, goal, messages, previous, asked, turns, ended,
    wire, gate, call, stage, live, staged, txdir, manifest, commit, at, job, buffer,
    begun, acked, failed, crashes, context, lastAction, recent, shown, trail,
    searched>>
restJournal ==
  <<file, blocks, edits, replay, goal, messages, previous, asked, turns, ended,
    wire, gate, call, stage, proc, session, allow, target, step, connected, kinds,
    cached, focused, status, url, page, ax, shot, elements, shifted, context,
    lastAction, recent, shown, trail, searched>>
restProgress ==
  <<file, blocks, edits, replay, goal, messages, previous, asked, turns, ended,
    wire, gate, call, stage, proc, session, allow, pc, target, step, connected,
    kinds, cached, focused, status, url, page, ax, shot, elements, shifted, live,
    staged, txdir, manifest, commit, at, job, buffer, begun, acked, failed, crashes>>

TurnsNext ==
  /\ part' = part
  /\ \/ part = "file" /\ Next /\ UNCHANGED restFile
     \/ part = "transcript" /\ T!Next /\ UNCHANGED restTranscript
     \/ part = "permissions" /\ P!Next /\ UNCHANGED restPermissions
     \/ part = "focus" /\ C!Next /\ UNCHANGED restFocus
     \/ part = "journal" /\ J!Next /\ UNCHANGED restJournal
     \/ part = "progress" /\ G!Next /\ UNCHANGED restProgress

TurnsSpec == TurnsInit /\ [][TurnsNext]_<<part, vars, restFile>>

-----------------------------------------------------------------------------
(* The properties of each part.                                            *)

\* What a command writes back of a skill file is what it has read: the same
\* sections with the same ids, steps and text (parser.rs:12-13).
RoundTrips == part = "file" => ReadsBack

\* A patch that is accepted leaves a skill that parses, with the sections it
\* had, and a sidecar that knows no step the skill has not, whatever was done
\* to the files by hand before.
PatchesLand == [][part = "file" => PatchLands]_vars

\* Even of a skill that no start recovers, no command lands files it computed
\* from a torn one: the marker left by the kill that tore it makes every later
\* command fail instead.
TornIsLeftAlone == part = "journal" => J!TornIsLeftAlone

\* Every result follows the call it answers and every call has its result, and
\* the model hears what became of its last action as long as cutting older
\* messages can make room for it; but for the answer to invoke_skill right after
\* a snapshot, which is taken for the snapshot's.  And every request ends with the
\* state block of this turn and has no other, unless there is nothing else to cut.
ModelIsTold == part = "transcript" => T!Linked /\ T!Heard /\ T!StateIsFresh

\* A call that is no observation is refused, asked about or run as the rules,
\* the overrides, "allow all" and the guardrail say together, in whatever order
\* the rules stand (evaluate, combine_actions, handle_permission_gate).
PolicyDecides == part = "permissions" => P!PolicyDecides

\* What the prompt shows was captured after every focus or lifecycle call the run
\* dispatched, the runner's own relaunches included unless the harness answered the
\* call of their turn itself; it is not older than its time to live, and the page a turn
\* starts with is the page of the session the server has at that moment, never
\* the remembered one of an app that is gone; the types of CdpFocus come with it.
FocusIsTrue ==
  [][part = "focus" => C!TypeOK' /\ C!FocusIsTrue]_restFile

\* Whatever a turn observed in between, the model is told that it goes round in
\* circles, or that Enter would send its text, exactly when the actions and the
\* searches it made say so.
ToldWhenStuck ==
  [][part = "progress" => G!NudgedWhenCircling /\ G!NudgedWhenSearching]_restFile
=============================================================================
