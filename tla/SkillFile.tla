------------------------------ MODULE SkillFile ------------------------------
(***************************************************************************)
(* SKILL.md as text: the parser (agent/skills/parser.rs), the emitter      *)
(* (agent/skills/emitter.rs) and the patches that go through both          *)
(* (agent/skills/patch.rs and apply_skill_patch in                         *)
(* src-tauri/commands/skills.rs).                                          *)
(*                                                                         *)
(* A file is its lines, the steps of its action_sketch block and its       *)
(* variables.  Its author may write any lines; a command parses the file,  *)
(* changes the skill, and emits all of it again.  The text of a line       *)
(* matters only as far as both ends look at it.  Blank lines, the YAML of  *)
(* the frontmatter and the place of the action_sketch block are layout.    *)
(***************************************************************************)
EXTENDS Integers, Sequences, FiniteSets, SequencesExt, FiniteSetsExt, SkillText

CONSTANTS
    Texts,      \* headings, and the slugs made from them
    Proses,     \* lines of prose
    Variables,
    Steps,      \* step ids
    Sketches,   \* action sketches the author may write
    Blocks,     \* sequences of lines the author may write
    MaxBlocks,  \* bound: blocks in a file
    MaxEdits    \* bound: times a command writes the file

\* The id of a section: the slug of a heading and a number against collisions.
SectionIds == Texts \X (1..3)

VARIABLES
    file,       \* lines, sketch and variables of SKILL.md
    blocks,     \* how much of it the author has written
    edits,      \* how often a command has written it since
    replay      \* replay.json: from step ids to what was recorded for the step

vars == <<file, blocks, edits, replay>>

-----------------------------------------------------------------------------
(* parse_skill_md.                                                         *)

IsHeading(line) == line.kind = "heading" /\ line.level \in {2, 3}
Is(kind, line) == line.kind = kind

\* The first section marker of the lines, wherever it stands (parser.rs:290).
MarkerIn(lines) ==
    LET at == {i \in DOMAIN lines : Is("section", lines[i])}
    IN  IF at = {} THEN {} ELSE {lines[Min(at)].section}

Slug(text, used) ==
    <<text, Min({n \in 1..(Cardinality(used) + 1) : <<text, n>> \notin used})>>

\* pick_section_id.
PickSectionId(text, rest, used) ==
    IF MarkerIn(rest) # {} THEN CHOOSE id \in MarkerIn(rest) : TRUE
    ELSE Slug(text, used)

\* parse_sections_and_markers: the parser does not know about code fences.
ParseSections(lines) ==
    LET secs[i \in 0..Len(lines)] ==
            IF i = 0 THEN <<>>
            ELSE LET l == lines[i]  before == secs[i - 1]
                 IN  IF IsHeading(l)
                     THEN Append(before,
                            [id |-> PickSectionId(l.text, SubSeq(lines, i + 1, Len(lines)),
                                                  {before[k].id : k \in DOMAIN before}),
                             text |-> l.text, level |-> l.level, steps |-> <<>>])
                     ELSE IF Is("step", l) /\ before # <<>>
                     THEN [before EXCEPT ![Len(before)].steps = Append(@, l.step)]
                     ELSE before
    IN  secs[Len(lines)]

MarkedSteps(lines) ==
    LET marked == SelectSeq(lines, LAMBDA l : Is("step", l))
    IN  [i \in DOMAIN marked |-> marked[i].step]

TopLevel(sketch) == {sketch[i].id : i \in DOMAIN sketch}
BodyIds(sketch) == FlattenSeq([i \in DOMAIN sketch |-> sketch[i].body])
SketchIds(sketch) == TopLevel(sketch) \cup ToSet(BodyIds(sketch))
References(lines) ==
    UNION {lines[i].refs : i \in {j \in DOMAIN lines : Is("prose", lines[j])}}

Parse(f) ==
    [sections |-> ParseSections(f.lines), body |-> f.lines,
     sketch |-> f.sketch, variables |-> f.variables]

IdsOf(sections) == [k \in DOMAIN sections |-> sections[k].id]

\* The checks parse_skill_md ends with.
Parses(f) ==
    LET markers == MarkedSteps(f.lines)
        all == [i \in DOMAIN f.sketch |-> f.sketch[i].id] \o BodyIds(f.sketch)
    IN  /\ IsInjective(markers)
        /\ IsInjective(all)
        /\ ToSet(BodyIds(f.sketch)) \cap ToSet(markers) = {}
        /\ markers = <<>> \/ ToSet(markers) = TopLevel(f.sketch)
        /\ IsInjective(IdsOf(ParseSections(f.lines)))
        /\ References(f.lines) \subseteq f.variables

-----------------------------------------------------------------------------
(* emit_skill_md.                                                          *)

None == <<>>

\* collect_section_prose: which lines go under which section.  Headings are
\* found by their text, in the order of the sections; a marker overrides.
SectionProse(skill) ==
    LET n == Len(skill.body)
        at[i \in 0..n] ==
            IF i = 0
            THEN [cur |-> None, fence |-> FALSE, queue |-> skill.sections, prose |-> <<>>]
            ELSE LET l == skill.body[i]  b == at[i - 1]
                     kept == [b EXCEPT !.prose =
                                 IF b.cur = None THEN @ ELSE Append(@, <<b.cur, l>>)]
                     hits == {k \in DOMAIN b.queue : b.queue[k].text = l.text}
                 IN  IF Is("fence", l) THEN [kept EXCEPT !.fence = ~b.fence]
                     ELSE IF b.fence THEN kept
                     ELSE CASE Is("heading", l) ->
                                 IF hits = {} THEN [b EXCEPT !.cur = None]
                                 ELSE [b EXCEPT !.cur = b.queue[Min(hits)].id,
                                                !.queue = RemoveAt(@, Min(hits))]
                            [] Is("section", l) -> [b EXCEPT !.cur = l.section]
                            [] l.kind \in {"step", "comment"} -> b
                            [] Is("prose", l) -> kept
    IN  at[n].prose

Of(prose, id) ==
    LET mine == SelectSeq(prose, LAMBDA e : e[1] = id)
    IN  [i \in DOMAIN mine |-> mine[i][2]]

Emitted_Unmarked(s, prose) ==
    <<Heading(s.level, s.text)>>
        \o [i \in DOMAIN s.steps |-> StepMarker(s.steps[i])] \o Of(prose, s.id)
Emitted(s, prose) ==
    <<Heading(s.level, s.text), SectionMarker(s.id)>>
        \o [i \in DOMAIN s.steps |-> StepMarker(s.steps[i])] \o Of(prose, s.id)

Emit(skill) ==
    [lines |-> IF skill.sections = <<>> THEN skill.body
               ELSE FlattenSeq([k \in DOMAIN skill.sections |->
                        Emitted(skill.sections[k], SectionProse(skill))]),
     sketch |-> skill.sketch, variables |-> skill.variables]

-----------------------------------------------------------------------------
(* Patches.                                                                *)

\* What the interface and the three primitives send.  A reorder carries a
\* sentinel that no body contains, and is always refused (patch.rs:565).
Patches ==
    [kind: {"prose"}, old: Proses, new: Proses, refs: SUBSET Variables]
        \cup [kind: {"rebind"}, step: Steps, arg: {Literal} \cup Variables]
        \cup [kind: {"promote"}, step: Steps, variable: Variables]
        \cup [kind: {"approval", "delete"}, step: Steps]
        \cup [kind: {"reorder"}]

WithArg(sketch, id, arg) ==
    LET i == Min({j \in DOMAIN sketch : sketch[j].id = id})
    IN  [sketch EXCEPT ![i].arg = arg]
Patchable(sketch, id) ==
    \E i \in DOMAIN sketch : sketch[i].id = id /\ sketch[i].body = <<>>
FirstProse(lines, p) ==
    Min({i \in DOMAIN lines : Is("prose", lines[i]) /\ lines[i].text = p})

\* apply_patch_to_skill fails before it has changed anything.
Applies(skill, p) ==
    CASE p.kind = "prose" ->
            \E i \in DOMAIN skill.body :
                Is("prose", skill.body[i]) /\ skill.body[i].text = p.old
      [] p.kind = "rebind" -> Patchable(skill.sketch, p.step)
      [] p.kind = "promote" ->
            Patchable(skill.sketch, p.step) /\ p.variable \notin skill.variables
      [] p.kind = "reorder" -> FALSE
      [] OTHER -> TRUE

Patched(skill, p) ==
    CASE p.kind = "prose" ->
            [skill EXCEPT !.body[FirstProse(skill.body, p.old)] = Prose(p.new, p.refs)]
      [] p.kind = "rebind" -> [skill EXCEPT !.sketch = WithArg(@, p.step, p.arg)]
      [] p.kind = "promote" ->
            [skill EXCEPT !.sketch = WithArg(@, p.step, p.variable),
                          !.variables = @ \cup {p.variable}]
      [] OTHER -> skill

\* apply_replay_mutations.
Mutated(r, p) ==
    CASE p.kind = "rebind" /\ p.step \in DOMAIN r -> [r EXCEPT ![p.step].signals = FALSE]
      [] p.kind = "approval" ->
            [s \in DOMAIN r \cup {p.step} |->
                [signals |-> s \in DOMAIN r /\ r[s].signals,
                 approval |-> s = p.step \/ r[s].approval]]
      [] p.kind = "delete" -> [s \in DOMAIN r \ {p.step} |-> r[s]]
      [] OTHER -> r

\* lint_skill_patch looks at the sections as they were parsed, before the patch.
Lint_IgnoresKeys(skill, r, p) ==
    /\ IsInjective(IdsOf(skill.sections))
    /\ \A k \in DOMAIN skill.sections :
          ToSet(skill.sections[k].steps) \subseteq TopLevel(skill.sketch)
    /\ p.kind \in {"rebind", "promote", "approval"} => p.step \in TopLevel(skill.sketch)
    /\ p.kind = "delete" => p.step \notin TopLevel(skill.sketch)
    /\ References(skill.body) \subseteq skill.variables
Lint(skill, r, p) ==
    /\ IsInjective(IdsOf(skill.sections))
    /\ \A k \in DOMAIN skill.sections :
          ToSet(skill.sections[k].steps) \subseteq TopLevel(skill.sketch)
    /\ p.kind \in {"rebind", "promote", "approval"} => p.step \in TopLevel(skill.sketch)
    /\ p.kind = "delete" => p.step \notin TopLevel(skill.sketch)
    /\ References(skill.body) \subseteq skill.variables
    /\ DOMAIN r \subseteq SketchIds(skill.sketch)

-----------------------------------------------------------------------------
(* The author and the commands.                                            *)

Init ==
    /\ file \in [lines: {<<>>}, sketch: Sketches, variables: {{}, Variables}]
    /\ blocks = 0 /\ edits = 0
    /\ replay \in {[s \in known |-> [signals |-> TRUE, approval |-> FALSE]] :
                    known \in {{}, Steps}}

Write(b) ==
    /\ blocks < MaxBlocks /\ edits = 0
    /\ file' = [file EXCEPT !.lines = @ \o b]
    /\ blocks' = blocks + 1
    /\ UNCHANGED <<edits, replay>>

\* A command reads the skill and writes it back: a new state, new statistics.
Rewrite ==
    /\ edits < MaxEdits
    /\ Parses(file)
    /\ file' = Emit(Parse(file))
    /\ edits' = edits + 1
    /\ UNCHANGED <<blocks, replay>>

\* apply_skill_patch.
Apply(p) ==
    LET skill == Patched(Parse(file), p)  bundles == Mutated(replay, p)
    IN  /\ edits < MaxEdits
        /\ Parses(file) /\ Applies(Parse(file), p) /\ Lint(skill, bundles, p)
        /\ file' = Emit(skill)
        /\ replay' = bundles
        /\ edits' = edits + 1
        /\ UNCHANGED blocks

Next == (\E b \in Blocks : Write(b)) \/ Rewrite \/ (\E p \in Patches : Apply(p))

Spec == Init /\ [][Next]_vars

-----------------------------------------------------------------------------
(* Properties.                                                             *)

\* The lines of section k between its heading and the next that are neither
\* markers nor comments: what its author wants to read there.
Text(lines, k) ==
    LET heads == SetToSortSeq({i \in DOMAIN lines : IsHeading(lines[i])}, <)
        last == IF k = Len(heads) THEN Len(lines) ELSE heads[k + 1] - 1
    IN  SelectSeq(SubSeq(lines, heads[k] + 1, last),
                  LAMBDA l : l.kind \in {"prose", "fence", "heading"})

SameText(f, g) ==
    \A k \in DOMAIN ParseSections(f.lines) : Text(f.lines, k) = Text(g.lines, k)

\* Every heading has its marker on the next line, no marker stands elsewhere,
\* text begins under a heading, headings have two or three signs, and a fence
\* holds nothing but prose.
WellFormed(lines) ==
    LET fences(i) == Cardinality({j \in 1..(i - 1) : Is("fence", lines[j])})
    IN  /\ lines # <<>> => IsHeading(lines[1])
        /\ \A i \in DOMAIN lines :
              /\ Is("heading", lines[i]) =>
                    /\ lines[i].level < 4 /\ fences(i) % 2 = 0
                    /\ i < Len(lines) /\ Is("section", lines[i + 1])
              /\ Is("section", lines[i]) => i > 1 /\ IsHeading(lines[i - 1])
              /\ Is("step", lines[i]) => fences(i) % 2 = 0

\* What a command writes back is what it has read: the same sections with the
\* same ids, steps and text, so that run records, markers and the author find
\* them again (parser.rs:12-13).
ReadsBack ==
    WellFormed(file.lines) /\ Parses(file) =>
        LET again == Emit(Parse(file))
        IN  /\ Parses(again)
            /\ ParseSections(again.lines) = ParseSections(file.lines)
            /\ SameText(file, again)

\* A patch that is accepted leaves a skill that parses, with the sections it
\* had, and a sidecar that knows no step the skill has not, whatever was done
\* to the files by hand before.
PatchLands ==
    WellFormed(file.lines) /\ Parses(file) =>
        \A p \in Patches : Apply(p) =>
            /\ Parses(file')
            /\ ParseSections(file'.lines) = ParseSections(file.lines)
            /\ p.kind # "prose" => SameText(file, file')
            /\ DOMAIN replay' \subseteq SketchIds(file'.sketch)
=============================================================================
