----------------------------- MODULE Transcript -----------------------------
(***************************************************************************)
(* What the model reads: the messages of a run (agent/runner/loop_control.rs,  *)
(* turn.rs), the log of earlier runs in its goal (agent/prior_turns.rs)    *)
(* and the compaction before every request (agent/context.rs).            *)
(*                                                                         *)
(* The transcript that is sent is also the one the run keeps: every        *)
(* compaction works on the result of the one before.  Of a message the     *)
(* model has what the compaction looks at: its role, its tool, what is     *)
(* left of its body, and how long that is.                                 *)
(***************************************************************************)
EXTENDS Integers, Sequences, FiniteSets, SequencesExt, FiniteSetsExt

CONSTANTS
    RecentN,    \* CompactBudget::recent_n
    MaxTokens,  \* CompactBudget::max_tokens
    LogTokens,  \* budget of the log of earlier runs
    Sizes,      \* tokens of a tool's result; more than 1 can be cut
    StateSizes, \* tokens of the state block
    Runs,       \* logs of earlier runs: sequences of the tokens of a summary
    MaxTurns    \* bound: turns of the run

\* SNAPSHOT_PRODUCING_TOOLS and SNAPSHOT_TOOL_NAMES: take_screenshot is only
\* in the second.
Producing == {"snapshot"}
Dropped == Producing \cup {"screenshot"}
Tools == Dropped \cup {"click"}

VARIABLES
    goal,       \* which earlier runs the goal tells in full, and its tokens
    messages,   \* all but the system prompt and the goal
    previous,   \* RunLoopTrackers::previous_result: the action it is about, its tokens
    asked,      \* whether the model has been sent the messages
    turns,      \* iterations of the loop
    ended

vars == <<goal, messages, previous, asked, turns, ended>>

-----------------------------------------------------------------------------
(* Messages.                                                               *)

Assistant(body, tool) ==
    [role |-> "assistant", body |-> body, tool |-> tool, about |-> 0, size |-> 1, told |-> 0]
Result(tool, about, size) ==
    [role |-> "tool", body |-> "full", tool |-> tool, about |-> about, size |-> size, told |-> 0]

\* build_user_turn_message_from_input: the state block and, below it, the
\* previous result as the observation.
UserTurn(size, prev) ==
    [role |-> "user", body |-> "live", tool |-> "none", about |-> prev.about,
     size |-> size, told |-> prev.size]

Tokens(m) == m.size + m.told
Total(sizes) == FoldLeft(LAMBDA sum, n : sum + n, 0, sizes)
AllTokens(msgs) == Total([i \in DOMAIN msgs |-> Tokens(msgs[i])])

\* group_into_pairs: an assistant message and all up to the next.  What comes
\* before the first is number 0.
PairOf(msgs, i) == Cardinality({j \in 1..i : msgs[j].role = "assistant"})
Current(msgs) == PairOf(msgs, Len(msgs))

-----------------------------------------------------------------------------
(* compact.                                                                *)

IsSnapshot(m) == m.role = "tool" /\ m.tool \in Producing

\* fold_snapshot_family_in_pairs: the results of all snapshots but the last are
\* replaced, and in every pair with a snapshot all observations are.
Folded(msgs) ==
    LET shots == {i \in DOMAIN msgs : IsSnapshot(msgs[i])}
        \* drop_following_snapshot_observation.
        Omits(i) == /\ msgs[i].role = "user" /\ msgs[i].body = "live"
                    /\ \E j \in shots : PairOf(msgs, j) = PairOf(msgs, i)
    IN  [i \in DOMAIN msgs |->
            IF i \in shots /\ i # Max(shots)
            THEN [msgs[i] EXCEPT !.body = "superseded", !.size = 1]
            ELSE IF Omits(i) THEN [msgs[i] EXCEPT !.body = "omitted", !.told = 0]
            ELSE msgs[i]]

\* The recent window: a snapshot before the current step loses its body.
IsStale_Always(msgs, i) == msgs[i].role = "tool" /\ msgs[i].tool \in Dropped
IsStale(msgs, i) ==
    /\ msgs[i].role = "tool" /\ msgs[i].tool \in Dropped
    /\ PairOf(msgs, i) < Current(msgs)

\* collapse_pair_to_brief: names the call and the result, if it finds them.
Brief(pair) ==
    LET of == {k \in DOMAIN pair : pair[k].role = "tool"}
    IN  Assistant("brief", IF of = {} THEN "unknown" ELSE pair[Min(of)].tool)

IsRecent(msgs, p) == p > Current(msgs) - RecentN

OfPair_KeepsResult(msgs, p) ==
    LET mine == {i \in DOMAIN msgs : PairOf(msgs, i) = p}
        whole == SubSeq(msgs, Min(mine), Max(mine))
    IN  IF mine = {} THEN <<>>
        ELSE IF ~IsRecent(msgs, p)
        THEN <<Brief(whole)>> \o SelectSeq(whole, LAMBDA m : m.role = "tool")
        ELSE [k \in DOMAIN whole |->
                IF IsStale(msgs, Min(mine) + k - 1)
                THEN [whole[k] EXCEPT !.body = "dropped", !.size = 1] ELSE whole[k]]
OfPair(msgs, p) ==
    LET mine == {i \in DOMAIN msgs : PairOf(msgs, i) = p}
        whole == SubSeq(msgs, Min(mine), Max(mine))
    IN  IF mine = {} THEN <<>>
        ELSE IF ~IsRecent(msgs, p) THEN <<Brief(whole)>>
        ELSE [k \in DOMAIN whole |->
                IF IsStale(msgs, Min(mine) + k - 1)
                THEN [whole[k] EXCEPT !.body = "dropped", !.size = 1] ELSE whole[k]]

Windowed(msgs) == FlattenSeq([p \in 1..(Current(msgs) + 1) |-> OfPair(msgs, p - 1)])

\* collapse_stale_user_state_blocks: the last state block stays.
HasState(m) == m.role = "user" /\ m.body \in {"live", "omitted"}
Unstaled(msgs) ==
    LET blocks == {i \in DOMAIN msgs : HasState(msgs[i])}
    IN  [i \in DOMAIN msgs |->
            IF i \in blocks /\ i # Max(blocks)
            THEN [msgs[i] EXCEPT !.body = "stale", !.size = 1, !.told = 0] ELSE msgs[i]]

\* enforce_token_budget: from the oldest on, every long body is cut until the
\* rest fits.  The system prompt and the goal are never cut.
CanCut(m) == Tokens(m) > 1 /\ m.body # "brief"
Cut(m) == [m EXCEPT !.body = "cut", !.size = 1, !.told = 0]
Budgeted_Newest(base, msgs) ==
    LET from[n \in 0..Len(msgs)] ==
            IF n = 0 THEN msgs ELSE
            LET m == from[n - 1]  long == {i \in DOMAIN m : CanCut(m[i])}
            IN  IF base + AllTokens(m) <= MaxTokens \/ long = {} THEN m
                ELSE [m EXCEPT ![Max(long)] = Cut(@)]
    IN  from[Len(msgs)]
Budgeted(base, msgs) ==
    LET from[n \in 0..Len(msgs)] ==
            IF n = 0 THEN msgs ELSE
            LET m == from[n - 1]  long == {i \in DOMAIN m : CanCut(m[i])}
            IN  IF base + AllTokens(m) <= MaxTokens \/ long = {} THEN m
                ELSE [m EXCEPT ![Min(long)] = Cut(@)]
    IN  from[Len(msgs)]

Compact(base, msgs) == Budgeted(base, Unstaled(Windowed(Folded(msgs))))

-----------------------------------------------------------------------------
(* The turns of a run.                                                     *)

\* parse_agent_turn: the first call that is no mutation is the action; a reply
\* without one is a replan.
Calls == Tools \cup {"mutation", "agent_done", "agent_replan", "invoke_skill",
                       "skill_patch", "bad_patch"}
Replies == {<<>>} \cup {<<c>> : c \in Calls} \cup (Calls \X Calls)
Action(reply) ==
    LET acts == {k \in DOMAIN reply : reply[k] # "mutation"}
    IN  IF acts = {} THEN "agent_replan" ELSE reply[Min(acts)]

\* render_prior_turn_log: the most recent runs are told in full, as many as
\* the budget allows and at least one; the others have a line each.
LogOf(runs, from) ==
    Total([k \in DOMAIN runs |-> IF k < from THEN 1 ELSE runs[k]])
VerboseFrom(runs) ==
    Min({k \in DOMAIN runs : LogOf(runs, k) <= LogTokens} \cup {Len(runs)})
GoalOf(runs) ==
    IF runs = <<>> THEN [from |-> 0, tokens |-> 1]
    ELSE [from |-> VerboseFrom(runs), tokens |-> 1 + LogOf(runs, VerboseFrom(runs))]

Init ==
    /\ \E runs \in Runs : goal = GoalOf(runs)
    /\ messages = <<>>
    /\ previous = [about |-> 0, act |-> "none", size |-> 0]
    /\ asked = FALSE /\ turns = 0 /\ ended = "no"

\* The start of an iteration, up to the request.
Compose(size) ==
    /\ ~asked /\ ended = "no" /\ turns < MaxTurns
    /\ messages' = Compact(goal.tokens, Append(messages, UserTurn(size, previous)))
    /\ asked' = TRUE
    /\ turns' = turns + 1
    /\ UNCHANGED <<goal, previous, ended>>

\* The reply, and what append_action_result_to_history leaves of it: the call
\* that ran and its result.  A tool that is blocked, skipped, denied or fails is
\* recorded as one that succeeds; an invoked skill leaves no message; a skill
\* patch that parses is taken for a tool that succeeded, and the handler of those
\* ends in an unreachable!.
Answer(reply, size) ==
    LET act == Action(reply)
    IN  /\ asked
        /\ asked' = FALSE
        /\ messages' =
            CASE act \in Tools \cup {"bad_patch"} ->
                    messages \o <<Assistant("call", act), Result(act, turns, size)>>
              [] act = "agent_replan" ->
                    Append(messages, [Assistant("replan", "none") EXCEPT !.about = turns])
              [] OTHER -> messages
        /\ ended' = CASE act = "agent_done" -> "done"
                      [] act = "skill_patch" -> "panicked"
                      [] OTHER -> "no"
        /\ previous' = IF ended' = "no" THEN [about |-> turns, act |-> act, size |-> size]
                       ELSE previous
        /\ UNCHANGED <<goal, turns>>

Next ==
    \/ \E size \in StateSizes : Compose(size)
    \/ \E reply \in Replies, size \in Sizes : Answer(reply, size)

Spec == Init /\ [][Next]_vars

-----------------------------------------------------------------------------
(* Properties.                                                             *)

\* Every result follows the call it answers, and every call has its result: the
\* interface of the model refuses a transcript that says otherwise.
Linked ==
    asked => \A i \in DOMAIN messages :
        /\ messages[i].role = "tool" =>
              i > 1 /\ messages[i - 1] = Assistant("call", messages[i].tool)
        /\ messages[i].body = "call" => i < Len(messages) /\ messages[i + 1].role = "tool"

\* What the request still says of the last action: its result, the observation of
\* the last message, or the reason of a replan.
Says(m) == m.body \in {"full", "live", "replan"} /\ m.about = previous.about

\* Everything before the last message that could be cut has been.
CutToTheBone == \A i \in 1..(Len(messages) - 1) : ~CanCut(messages[i])

\* The model hears what became of its last action, in the result or in the
\* observation, as long as cutting older messages can make room for it, and
\* whatever snapshots are folded, dropped or collapsed on the way.  The one
\* exception: the answer to invoke_skill right after a snapshot is taken for the
\* snapshot's and omitted.
Heard ==
    asked /\ previous.about > 0 =>
        \/ \E i \in DOMAIN messages : Says(messages[i])
        \/ CutToTheBone
        \/ previous.act = "invoke_skill" /\ Last(messages).body = "omitted"

\* Every request ends with the state block of this turn and has no other, unless
\* there is nothing else left to cut.
StateIsFresh ==
    asked =>
        /\ HasState(Last(messages)) \/ CutToTheBone
        /\ \A i \in 1..(Len(messages) - 1) : ~HasState(messages[i])

\* The step of a turn never reaches the unreachable!("ToolSuccess outcome
\* implies ToolCall action") of handle_tool_success_outcome (loop_control.rs:924).
NeverPanics == ended # "panicked"
=============================================================================
