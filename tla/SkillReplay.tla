---------------------------- MODULE SkillReplay ----------------------------
(***************************************************************************)
(* From a recording to a replay: the steps of a subgoal become an action   *)
(* sketch (agent/skills/provenance.rs, loop_folding.rs), which the user may *)
(* edit, the skill runner runs or resumes (executor/skill_runner.rs,       *)
(* src-tauri/commands/executor.rs) and the agent may invoke               *)
(* (agent/runner/approval.rs, skills/replay.rs, skills/substitution.rs).  *)
(*                                                                         *)
(* A call is its tool, the literals of its arguments in the order they are *)
(* walked, and its result: the values in the order they are searched, each *)
(* with the last segment of its path.                                      *)
(***************************************************************************)
EXTENDS Integers, Sequences, FiniteSets, SequencesExt, FiniteSetsExt, Functions

CONSTANTS
    Calls,      \* recorded calls [tool, args, result]
    Short,      \* strings of less than MIN_LITERAL_LEN characters
    Layouts,    \* the section each step's marker is under, 0 before the first
    Schemas,    \* parameter schemas: slot name -> [type, enum, default]
    Givens,     \* parameters of an invocation: name -> [type, value]
    Counts,     \* counts of a loop's StepCountReached
    MaxCalls    \* bound: calls of a recording

Margin == 3  \* SAFETY_MARGIN_ITERATIONS
Delta == -1  \* LoopPredicate::WorldModelDelta, beside the counts

VARIABLES
    recording,  \* the steps of the subgoal
    sketch,     \* Skill::action_sketch
    edited,     \* whether the user has changed the sketch
    schema,     \* Skill::parameter_schema
    run,        \* the run of the skill runner
    invoked     \* what the agent's invocation came to

vars == <<recording, sketch, edited, schema, run, invoked>>

Literal(v) == [kind |-> "literal", of |-> v]
Captured(producer, key) == [kind |-> "captured", of |-> <<producer, key>>]
Param(name) == [kind |-> "param", of |-> name]

-----------------------------------------------------------------------------
(* build_action_sketch.                                                    *)

\* find_value_path: the first place of the result that holds the value.
FirstAt(result, v) == CHOOSE p \in DOMAIN result :
    result[p].value = v /\ \A q \in 1..(p - 1) : result[q].value # v
Holds(result, v) == \E p \in DOMAIN result : result[p].value = v

Holders(calls, i, v) == {j \in 1..(i - 1) : Holds(calls[j].result, v)}

\* find_match_in_prior_results: the latest result that holds the literal.
Producer(calls, i, v) == Max(Holders(calls, i, v))

\* synthesize_capture_name and replace_at_path.
RewrittenArg(calls, i, v) ==
    IF v \in Short \/ Holders(calls, i, v) = {}
    THEN Literal(v)
    ELSE LET j == Producer(calls, i, v)
             r == calls[j].result
         IN Captured(j, r[FirstAt(r, v)].key)

\* The captures of step j, by name: the first consumer of a name says which
\* place of the result it stands for.
Consumers(calls, j) ==
    {ik \in (DOMAIN calls) \X (1..5) :
        /\ ik[2] \in DOMAIN calls[ik[1]].args
        /\ LET arg == RewrittenArg(calls, ik[1], calls[ik[1]].args[ik[2]])
           IN arg.kind = "captured" /\ arg.of[1] = j}
KeyOf(calls, ik) == RewrittenArg(calls, ik[1], calls[ik[1]].args[ik[2]]).of[2]
Before(a, b) == a[1] < b[1] \/ (a[1] = b[1] /\ a[2] < b[2])
CapturesOf(calls, j) ==
    [key \in {KeyOf(calls, ik) : ik \in Consumers(calls, j)} |->
        LET ik == CHOOSE c \in Consumers(calls, j) :
                    /\ KeyOf(calls, c) = key
                    /\ \A d \in Consumers(calls, j) :
                         KeyOf(calls, d) = key => ~Before(d, c)
        IN FirstAt(calls[j].result, calls[ik[1]].args[ik[2]])]

ToolCall(calls, i) ==
    [kind |-> "call", id |-> <<"s", i>>, tool |-> calls[i].tool,
     args |-> [k \in DOMAIN calls[i].args |-> RewrittenArg(calls, i, calls[i].args[k])],
     captures |-> CapturesOf(calls, i)]

-----------------------------------------------------------------------------
(* fold_polling_loops.                                                     *)

SameShape_ToolOnly(a, b) == a.kind = "call" /\ b.kind = "call" /\ a.tool = b.tool
\* step_shape_eq: a loop is the same as nothing.
SameShape(a, b) == a.kind = "call" /\ b.kind = "call" /\ a.tool = b.tool /\ a.args = b.args
SameAt(steps, i, j, len) == \A d \in 0..(len - 1) : SameShape(steps[i + d], steps[j + d])

\* How often the len steps at i stand there one after the other.
CountAt(steps, i, len) ==
    Max({n \in 1..Len(steps) : /\ i + n * len - 1 <= Len(steps)
                               /\ \A m \in 1..(n - 1) : SameAt(steps, i, i + m * len, len)})

\* detect_repeat_starting_at: the lengths that repeat; the shortest is taken.
Repeats(steps, i) ==
    {len \in 1..((Len(steps) - i + 1) \div 2) : CountAt(steps, i, len) >= 2}

FoldAt(steps, i) ==
    IF i > Len(steps) \/ Repeats(steps, i) = {} THEN steps
    ELSE LET len == Min(Repeats(steps, i))
             n == CountAt(steps, i, len)
             loop == [kind |-> "loop", id |-> <<"s_loop", i>>,
                      body |-> SubSeq(steps, i, i + len - 1), until |-> Delta,
                      max |-> n + Margin]
         IN SubSeq(steps, 1, i - 1) \o <<loop>> \o SubSeq(steps, i + n * len, Len(steps))

FoldPollingLoops(steps) ==
    FoldLeft(LAMBDA folded, i : FoldAt(folded, i), steps, [i \in DOMAIN steps |-> i])

BuildActionSketch(calls) == FoldPollingLoops([i \in DOMAIN calls |-> ToolCall(calls, i)])

-----------------------------------------------------------------------------
(* The skill runner: run_skill_steps over the steps of the run.            *)

NoRun == [status |-> "none", steps |-> <<>>, from |-> 0, layout |-> <<>>,
          at |-> 1, inner |-> 0, iter |-> 0, sent |-> <<>>]
Running == run.status = "running"
AtEnd == run.at > Len(run.steps)
Here == run.steps[run.at]
Free == ~Running /\ invoked = <<>>

Resumed_FromStep(steps, layout, from) ==
    LET at == {i \in DOMAIN steps : layout[i] >= from}
    IN IF at = {} THEN <<>> ELSE SubSeq(steps, Min(at), Len(steps))
\* run_skill_dispatch runs every step, resume_skill_from_failure the steps
\* whose marker is in a section at or after the chosen one.
Resumed(steps, layout, from) ==
    LET kept == SetToSortSeq({i \in DOMAIN steps : layout[i] >= from}, <)
    IN [k \in DOMAIN kept |-> steps[kept[k]]]

RunSkill ==
    /\ Free /\ sketch # <<>> /\ run.status = "none"
    /\ run' = [NoRun EXCEPT !.status = "running", !.steps = sketch]
    /\ UNCHANGED <<recording, sketch, edited, schema, invoked>>

ResumeSkillFromFailure ==
    /\ Free /\ run.status \in {"failed", "cancelled"} /\ run.from = 0
    /\ \E layout \in Layouts, from \in 1..2 :
         run' = [NoRun EXCEPT !.status = "running", !.steps = Resumed(sketch, layout, from),
                              !.from = from, !.layout = layout]
    /\ UNCHANGED <<recording, sketch, edited, schema, invoked>>

Past(r) == [r EXCEPT !.at = @ + 1, !.inner = 0, !.iter = 0]

\* run_tool_call: the arguments go out as the sketch has them.
CallTool(call, onward) ==
    /\ \E ok \in BOOLEAN :
         run' = IF ok THEN [onward EXCEPT !.sent = Append(@, <<call.id, call.args>>)]
                ELSE [run EXCEPT !.status = "failed"]
    /\ UNCHANGED <<recording, sketch, edited, schema, invoked>>

CallStep ==
    /\ Running /\ ~AtEnd /\ Here.kind = "call"
    /\ CallTool(Here, Past(run))
CallInLoop ==
    /\ Running /\ ~AtEnd /\ Here.kind = "loop" /\ run.inner > 0
    /\ CallTool(Here.body[run.inner],
                IF run.inner < Len(Here.body) THEN [run EXCEPT !.inner = @ + 1]
                ELSE [run EXCEPT !.inner = 0, !.iter = @ + 1])

Until_Past(loop, iter) == loop.until # Delta /\ iter > loop.until
\* evaluate_until: a change of the world model is never seen.
Until(loop, iter) == loop.until # Delta /\ iter >= loop.until

\* run_loop, at the head of an iteration.
TurnLoop ==
    /\ Running /\ ~AtEnd /\ Here.kind = "loop" /\ run.inner = 0
    /\ run' = IF Until(Here, run.iter) THEN Past(run)
              ELSE IF run.iter < Here.max THEN [run EXCEPT !.inner = 1]
              ELSE [run EXCEPT !.status = "failed"]
    /\ UNCHANGED <<recording, sketch, edited, schema, invoked>>

FinishRun ==
    /\ Running /\ AtEnd
    /\ run' = [run EXCEPT !.status = "ok"]
    /\ UNCHANGED <<recording, sketch, edited, schema, invoked>>

\* The token is cancelled while a call, a pause or the start is awaited.
CancelRun ==
    /\ Running
    /\ run' = [run EXCEPT !.status = "cancelled"]
    /\ UNCHANGED <<recording, sketch, edited, schema, invoked>>

-----------------------------------------------------------------------------
(* The agent's invoke_skill.                                               *)

\* validate_parameters: a default is taken as it is, and only a string is
\* looked up in the enumeration.
SlotTakes(slot, given) ==
    /\ given.type = slot.type
    /\ slot.enum = {} \/ given.type # "string" \/ given.value \in slot.enum
Valid_OptionalFirst(given) ==
    /\ DOMAIN given \subseteq DOMAIN schema
    /\ \A name \in DOMAIN schema :
         schema[name].default # "none"
         \/ (name \in DOMAIN given /\ SlotTakes(schema[name], given[name]))
Valid(given) ==
    /\ DOMAIN given \subseteq DOMAIN schema
    /\ \A name \in DOMAIN schema :
         IF name \in DOMAIN given THEN SlotTakes(schema[name], given[name])
         ELSE schema[name].default # "none"
Filled(given, name) ==
    IF name \in DOMAIN given THEN given[name].value ELSE schema[name].default

\* substitute_value: only a reference to a parameter of the schema has a
\* value, nothing having been captured.
Replaced(arg, given) ==
    IF arg.kind = "param" THEN Literal(Filled(given, arg.of)) ELSE arg
Substitutes(args) ==
    \A k \in DOMAIN args :
        \/ args[k].kind = "literal"
        \/ args[k].kind = "param" /\ args[k].of \in DOMAIN schema

\* dispatch_skill and skill_frame_to_single_step_action: only a sketch of one
\* tool call is dispatched, anything else tells the agent to replan.
InvokeSkill ==
    /\ Free /\ sketch # <<>> /\ run.status = "none"
    /\ \E given \in Givens :
         invoked' =
             IF Valid(given) /\ Len(sketch) = 1 /\ sketch[1].kind = "call" /\ Substitutes(sketch[1].args)
             THEN <<"call", given, [k \in DOMAIN sketch[1].args |-> Replaced(sketch[1].args[k], given)]>>
             ELSE <<"replan", given, <<>>>>
    /\ UNCHANGED <<recording, sketch, edited, schema, run>>

-----------------------------------------------------------------------------

Init ==
    /\ recording = <<>> /\ sketch = <<>> /\ edited = FALSE /\ schema = <<>>
    /\ run = NoRun /\ invoked = <<>>

Record ==
    /\ sketch = <<>> /\ Len(recording) < MaxCalls
    /\ \E c \in Calls : recording' = Append(recording, c)
    /\ UNCHANGED <<sketch, edited, schema, run, invoked>>

Extract ==
    /\ sketch = <<>> /\ recording # <<>>
    /\ sketch' = BuildActionSketch(recording)
    /\ UNCHANGED <<recording, edited, schema, run, invoked>>

\* The user edits the file: a loop gets a count, one step is kept, an
\* argument becomes a parameter.
Edit ==
    /\ Free /\ run.status = "none" /\ sketch # <<>> /\ ~edited
    /\ edited' = TRUE
    /\ \/ /\ \E i \in DOMAIN sketch, n \in Counts :
               sketch[i].kind = "loop" /\ sketch' = [sketch EXCEPT ![i].until = n]
          /\ UNCHANGED schema
       \/ /\ \E i \in DOMAIN sketch :
               /\ sketch[i].kind = "call"
               /\ \E k \in DOMAIN sketch[i].args, s \in Schemas : \E name \in {"p", "q"} :
                    /\ sketch' = <<[sketch[i] EXCEPT !.args[k] = Param(name)]>>
                    /\ schema' = s
    /\ UNCHANGED <<recording, run, invoked>>

Next ==
    \/ Record \/ Extract \/ Edit
    \/ RunSkill \/ ResumeSkillFromFailure \/ CallStep \/ CallInLoop \/ TurnLoop \/ FinishRun \/ CancelRun
    \/ InvokeSkill

Spec == Init /\ [][Next]_vars

-----------------------------------------------------------------------------
(* Properties.                                                             *)

\* A sketch that nobody has edited tells the recording: with every loop
\* unfolded as often as it was seen it is the recorded calls in their order,
\* a literal stands where no earlier result explains it, and a reference
\* names the latest earlier result that held the value, by a key it was
\* under (build_action_sketch, fold_polling_loops).
Repeated(steps, n) == FlattenSeq([m \in 1..n |-> steps])
Unfolded == FlattenSeq([i \in DOMAIN sketch |->
    IF sketch[i].kind = "call" THEN <<sketch[i]>>
    ELSE Repeated(sketch[i].body, sketch[i].max - Margin)])
Tells(arg, i, v) ==
    LET telling == {j \in 1..(i - 1) : \E p \in DOMAIN recording[j].result :
                                        recording[j].result[p].value = v}
    IN \/ arg = Literal(v) /\ (v \in Short \/ telling = {})
       \/ \E j \in telling : \E p \in DOMAIN recording[j].result :
            /\ recording[j].result[p].value = v
            /\ arg = Captured(j, recording[j].result[p].key)
            /\ \A later \in telling : later <= j
KeepsTheCalls ==
    sketch # <<>> /\ ~edited =>
        /\ Len(Unfolded) = Len(recording)
        /\ \A i \in DOMAIN recording :
             /\ Unfolded[i].tool = recording[i].tool
             /\ \A k \in DOMAIN recording[i].args :
                  Tells(Unfolded[i].args[k], i, recording[i].args[k])

\* A run sends what its steps say and nothing else: the calls are those of
\* the whole sketch, or when it resumes of the sections from the chosen one
\* on, in the order of the sketch, a loop's body as often as its count says;
\* it is recorded as ok only when all have been sent, which a loop that waits
\* for a change of the world never lets happen (run_skill_steps, run_loop,
\* resume_skill_from_failure).
Chosen == FlattenSeq([i \in DOMAIN sketch |->
    IF run.from = 0 \/ run.layout[i] >= run.from THEN <<sketch[i]>> ELSE <<>>])
Rounds(loop) == IF loop.until = Delta \/ loop.until > loop.max THEN loop.max ELSE loop.until
Written(steps) == FlattenSeq([i \in DOMAIN steps |->
    IF steps[i].kind = "call" THEN <<<<steps[i].id, steps[i].args>>>>
    ELSE LET body == steps[i].body
         IN Repeated([k \in DOMAIN body |-> <<body[k].id, body[k].args>>], Rounds(steps[i]))])
Stuck(steps) == {i \in DOMAIN steps :
    steps[i].kind = "loop" /\ (steps[i].until = Delta \/ steps[i].until > steps[i].max)}
Sendable ==
    IF Stuck(Chosen) = {} THEN Written(Chosen)
    ELSE Written(SubSeq(Chosen, 1, Min(Stuck(Chosen))))
RunsAsWritten ==
    run.status # "none" =>
        /\ IsPrefix(run.sent, Sendable)
        /\ run.status = "ok" => Stuck(Chosen) = {} /\ run.sent = Sendable

\* A call dispatched for an invocation has every parameter filled in: with the
\* given value, of the slot's type and from its enumeration, or with the
\* default where nothing was given, and no name the schema lacks was given
\* (validate_parameters, substitute_value).
InvokedIsFilled ==
    invoked # <<>> /\ invoked[1] = "call" =>
        LET given == invoked[2]
            args == sketch[1].args
        IN \A k \in DOMAIN args :
             \/ args[k].kind = "literal" /\ invoked[3][k] = args[k]
             \/ /\ args[k].kind = "param"
                /\ \E slot \in {schema[args[k].of]} :
                     \/ /\ args[k].of \in DOMAIN given
                        /\ given[args[k].of].type = slot.type
                        /\ slot.enum # {} /\ slot.type = "string" => given[args[k].of].value \in slot.enum
                        /\ invoked[3][k] = Literal(given[args[k].of].value)
                     \/ /\ args[k].of \notin DOMAIN given
                        /\ slot.default # "none"
                        /\ invoked[3][k] = Literal(slot.default)
=============================================================================
