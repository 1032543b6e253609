----------------------------- MODULE AgentLoop -----------------------------
(***************************************************************************)
(* The control loop of one agent run: StateRunner::run_inner with the      *)
(* handlers it calls (loop_control.rs), the single-turn dispatcher run_turn*)
(* (turn_runtime.rs), the phase inference and the episodic bookkeeping of  *)
(* a recovery (records.rs, phase.rs, recovery.rs).                         *)
(*                                                                         *)
(* The language model, the MCP tools, the operator and the vision check    *)
(* are the environment: their answers are chosen nondeterministically.     *)
(* A tool call (name and arguments) is a member of Call; the sets below    *)
(* classify calls as the code's predicates do.  An optional value is a set *)
(* with at most one element.                                               *)
(***************************************************************************)
EXTENDS Naturals, Sequences, FiniteSets

CONSTANTS
  Call,          \* tool calls the model may emit: a tool with its arguments
  Observation,   \* is_observation_tool
  Destructive,   \* tools whose destructive_hint is set
  SideEffect,    \* is_unverified_side_effect_action
  Managed,       \* raw CDP lifecycle calls, reserved to the runtime
  Coordinate,    \* coordinate primitives, blocked while a structured surface is wired
  Skippable,     \* launch_app / focus_window calls the harness may answer itself
  Policy,        \* PermissionAction of every call
  ErrorText,     \* error bodies a tool may return
  Mutation,      \* subgoal mutations a turn may carry, at most one of them
  ApprovalGate,  \* is an approval gate configured?
  MaxSteps,      \* AgentConfig::max_steps
  MaxErrors,     \* AgentConfig::max_consecutive_errors
  Cap            \* AgentConfig::consecutive_destructive_cap, 0 = disabled

GuardText == {"managed", "surface", "denied"}

ASSUME CallsAssumption ==
  /\ Observation \subseteq Call /\ Destructive \subseteq Call
  /\ SideEffect \subseteq Call /\ Managed \subseteq Call
  /\ Coordinate \subseteq Call /\ Skippable \subseteq Call
  /\ Policy \in [Call -> {"Allow", "Ask", "Deny"}]
ASSUME TextAssumption ==
  /\ GuardText \cap ErrorText = {} /\ "none" \notin ErrorText
  /\ Mutation \subseteq {"none", "push", "complete"}
ASSUME BoundsAssumption ==
  /\ MaxSteps \in Nat /\ Cap \in Nat /\ MaxErrors \in Nat \ {0}
  /\ ApprovalGate \in BOOLEAN

VARIABLES
  pc,            \* where run_inner is: at the loop head or at one of its awaits
  iter,          \* iterations of the `for` started so far
  call,          \* the tool call being asked about or executed
  steps,         \* state.steps; step_index is its length
  stateErrors,   \* self.state.consecutive_errors
  runnerErrors,  \* self.consecutive_errors
  lastFailure,   \* trackers.last_failure
  prevResult,    \* trackers.previous_result, by the prefix the guard reads
  streak,        \* length of state.recent_destructive_tools
  depth,         \* length of task_state.subgoal_stack
  milestones,    \* length of task_state.milestones
  lastReplan,    \* last_replan_step
  phase,         \* task_state.phase
  snapshot,      \* recovering_snapshot
  recoveries,    \* RecoverySucceeded records written
  terminal,      \* state.terminal_reason
  exit           \* how run_inner returned

counterVars == <<stateErrors, runnerErrors, lastFailure, streak>>
taskVars    == <<depth, milestones, lastReplan>>
episodeVars == <<snapshot, recoveries>>
endVars     == <<terminal, exit>>
vars == <<pc, iter, call, steps, prevResult, phase,
          counterVars, taskVars, episodeVars, endVars>>

Outcome == {"ok", "skipped", "error", "blocked", "rejected"}
Text    == ErrorText \cup GuardText \cup {"none"}
Step    == [call : Call, outcome : Outcome, err : Text]
Failure == [call : Call, err : ErrorText \cup GuardText]
Entry   == [step : Nat, errors : Nat]
Reason  == {"none", "Completed", "MaxStepsReached", "MaxErrorsReached",
            "ApprovalUnavailable", "CompletionDisagreement",
            "ConsecutiveDestructiveCap", "LoopDetected"}
IsOption(o, S) == o \subseteq S /\ \A x, y \in o : x = y

TypeOK ==
  /\ pc \in {"top", "llm", "asking", "dispatch", "verify", "ended"}
  /\ iter \in 0 .. MaxSteps
  /\ IsOption(call, Call) /\ (pc \in {"asking", "dispatch"} => call # {})
  /\ steps \in Seq(Step)
  /\ stateErrors \in Nat /\ runnerErrors \in Nat /\ streak \in Nat
  /\ IsOption(lastFailure, Failure)
  /\ prevResult \in {"none", "plain", "unverified"}
  /\ depth \in Nat /\ milestones \in Nat /\ recoveries \in Nat
  /\ IsOption(lastReplan, Nat)
  /\ phase \in {"Exploring", "Executing", "Recovering"}
  /\ IsOption(snapshot, Entry)
  /\ terminal \in Reason
  /\ exit \in {"running", "ok", "err", "panic"}

-----------------------------------------------------------------------------
(* Helpers of the loop. *)

Infer(d, errors, replan, step) ==
  IF errors >= 1 \/ step \in replan THEN "Recovering"
  ELSE IF d = 0 THEN "Exploring" ELSE "Executing"

\* Deviation: one error too many.
ShouldAbort_Late(errors) == errors > MaxErrors
ShouldAbort(errors) == errors >= MaxErrors

PushStep(c, outcome, err) ==
  steps' = Append(steps, [call |-> c, outcome |-> outcome, err |-> err])

End(reason) == /\ pc' = "ended" /\ exit' = "ok" /\ terminal' = reason
GoOn        == /\ pc' = "top" /\ UNCHANGED endVars

\* What the next turn sees of a successful call: a nudge replaces the body
\* but keeps the prefix of the unverified side effect in front.
ResultOf(c, nudged) == IF c \in SideEffect THEN "unverified" ELSE "plain"

Blocks(g, c) ==
  \/ g = "managed" /\ c \in Managed
  \/ g = "surface" /\ c \in Coordinate \ Managed
  \/ g = "denied" /\ c \notin Managed \cup Observation /\ Policy[c] = "Deny"

NeedsApproval(c) == c \notin Observation /\ Policy[c] = "Ask" /\ ApprovalGate

\* Deviation: the gate looks at Deny only.
Dispatchable_Unasked(c) == c \notin Managed /\ (c \notin Observation => Policy[c] # "Deny")
Dispatchable(c) ==
  /\ c \notin Managed /\ ~NeedsApproval(c)
  /\ c \notin Observation => Policy[c] # "Deny"

\* guard_completion_after_unverified_side_effect: what is left of the turn.
GuardedMutation(m) ==
  IF prevResult = "unverified" /\ m = "complete" THEN "none" ELSE m
DoneAllowed == prevResult # "unverified"

ApplyMutation(m) ==
  LET g == GuardedMutation(m) IN
  /\ depth' = IF g = "push" THEN depth + 1
              ELSE IF g = "complete" /\ depth > 0 THEN depth - 1 ELSE depth
  /\ milestones' = IF g = "complete" /\ depth > 0 THEN milestones + 1 ELSE milestones

\* run_turn re-infers the phase before it dispatches.
ObserveInTurn == phase' = Infer(depth', runnerErrors, lastReplan, Len(steps))

\* Deviation: the loop check compares the tool call and not its error.
RecordFailure_IgnoresText(c, outcome, err, n) ==
  /\ PushStep(c, outcome, err)
  /\ stateErrors' = n /\ runnerErrors' = n
  /\ prevResult' = "plain"
  /\ lastFailure' = {[call |-> c, err |-> err]}
  /\ IF \E f \in lastFailure : f.call = c THEN End("LoopDetected")
     ELSE IF ShouldAbort(n) THEN End("MaxErrorsReached")
     ELSE GoOn

\* One failed step, live or blocked, which leaves n consecutive errors.
RecordFailure(c, outcome, err, n) ==
  LET f == [call |-> c, err |-> err] IN
  /\ PushStep(c, outcome, err)
  /\ stateErrors' = n /\ runnerErrors' = n
  /\ prevResult' = "plain"
  /\ lastFailure' = {f}
  /\ IF f \in lastFailure THEN End("LoopDetected")
     ELSE IF ShouldAbort(n) THEN End("MaxErrorsReached")
     ELSE GoOn
-----------------------------------------------------------------------------
Init ==
  /\ pc = "top" /\ iter = 0 /\ call = {} /\ steps = <<>>
  /\ stateErrors = 0 /\ runnerErrors = 0 /\ lastFailure = {} /\ streak = 0
  /\ prevResult = "none" /\ phase = "Exploring"
  /\ depth = 0 /\ milestones = 0 /\ lastReplan = {}
  /\ snapshot = {} /\ recoveries = 0
  /\ terminal = "none" /\ exit = "running"

\* Deviation: the entry into Recovering is remembered once per run.
Observe_KeepsEntry ==
  /\ pc = "top" /\ iter < MaxSteps
  /\ iter' = iter + 1 /\ pc' = "llm"
  /\ phase' = Infer(depth, runnerErrors, lastReplan, Len(steps))
  /\ snapshot' = IF snapshot = {} /\ phase' = "Recovering"
                 THEN {[step |-> Len(steps), errors |-> runnerErrors]}
                 ELSE snapshot
  /\ UNCHANGED <<call, steps, prevResult, counterVars, taskVars, recoveries, endVars>>

\* Deviation: the budget counts recorded steps, not turns.
Observe_CountsSteps ==
  /\ pc = "top" /\ Len(steps) < MaxSteps
  /\ iter' = Len(steps) /\ pc' = "llm"
  /\ phase' = Infer(depth, runnerErrors, lastReplan, Len(steps))
  /\ UNCHANGED <<call, steps, prevResult, counterVars, taskVars, episodeVars, endVars>>

\* observe_for_next_turn: infer the phase; on entry to Recovering (the first
\* turn is the run-start retrieval instead) remember where it began.
Observe ==
  /\ pc = "top" /\ iter < MaxSteps
  /\ iter' = iter + 1 /\ pc' = "llm"
  /\ phase' = Infer(depth, runnerErrors, lastReplan, Len(steps))
  /\ snapshot' = IF iter > 0 /\ phase # "Recovering" /\ phase' = "Recovering"
                 THEN {[step |-> Len(steps), errors |-> runnerErrors]}
                 ELSE snapshot
  /\ UNCHANGED <<call, steps, prevResult, counterVars, taskVars, recoveries, endVars>>

StepsExhausted ==
  /\ pc = "top" /\ iter = MaxSteps
  /\ End("MaxStepsReached")
  /\ UNCHANGED <<iter, call, steps, prevResult, phase, counterVars, taskVars, episodeVars>>

\* `?` on the chat call or on the parse: no terminal reason, no record.
LlmFails ==
  /\ pc = "llm" /\ pc' = "ended" /\ exit' = "err"
  /\ UNCHANGED <<iter, call, steps, prevResult, phase, counterVars, taskVars,
                 episodeVars, terminal>>

-----------------------------------------------------------------------------
(* The turns of the language model.  Every one applies its mutation first. *)

\* handle_no_focus_launch_skip and handle_synthetic_focus_skip.
TurnSkipped(m, c) ==
  /\ pc = "llm" /\ c \in Skippable
  /\ ApplyMutation(m)
  /\ PushStep(c, "skipped", "none")
  /\ stateErrors' = 0 /\ runnerErrors' = 0 /\ lastFailure' = {}
  /\ prevResult' = "plain"
  /\ GoOn
  /\ UNCHANGED <<iter, call, phase, streak, lastReplan, episodeVars>>

\* record_blocked_tool_error, from the two guards and the policy.
TurnBlocked(m, c, g) ==
  /\ pc = "llm" /\ Blocks(g, c)
  /\ ApplyMutation(m)
  /\ RecordFailure(c, "blocked", g, stateErrors + 1)
  /\ UNCHANGED <<iter, call, phase, streak, lastReplan, episodeVars>>

TurnAsks(m, c) ==
  /\ pc = "llm" /\ c \notin Managed /\ NeedsApproval(c)
  /\ ApplyMutation(m)
  /\ pc' = "asking" /\ call' = {c}
  /\ UNCHANGED <<iter, steps, prevResult, phase, counterVars, lastReplan, episodeVars, endVars>>

TurnDispatched(m, c) ==
  /\ pc = "llm" /\ Dispatchable(c)
  /\ ApplyMutation(m)
  /\ ObserveInTurn
  /\ pc' = "dispatch" /\ call' = {c}
  /\ UNCHANGED <<iter, steps, prevResult, counterVars, lastReplan, episodeVars, endVars>>

TurnDone(m) ==
  /\ pc = "llm" /\ DoneAllowed
  /\ ApplyMutation(m)
  /\ ObserveInTurn
  /\ pc' = "verify"
  /\ UNCHANGED <<iter, call, steps, prevResult, counterVars, lastReplan, episodeVars, endVars>>

\* agent_replan, a text-only or mutation-only reply, a skill that cannot be
\* replayed, and an agent_done the guard rewrote.
TurnReplans(m) ==
  /\ pc = "llm"
  /\ ApplyMutation(m)
  /\ ObserveInTurn
  /\ lastReplan' = {Len(steps)}
  /\ prevResult' = "plain"
  /\ GoOn
  /\ UNCHANGED <<iter, call, steps, counterVars, episodeVars>>

\* A skill_patch_* call whose arguments do not parse is a replan outcome that
\* leaves last_replan_step alone.
TurnPatchMalformed(m) ==
  /\ pc = "llm"
  /\ ApplyMutation(m)
  /\ ObserveInTurn
  /\ prevResult' = "plain"
  /\ GoOn
  /\ UNCHANGED <<iter, call, steps, counterVars, lastReplan, episodeVars>>

\* A skill_patch_* call that parses is a ToolSuccess outcome, and the handler
\* of ToolSuccess takes any action but a ToolCall to unreachable!().
TurnPatch(m) ==
  /\ pc = "llm"
  /\ ApplyMutation(m)
  /\ ObserveInTurn
  /\ pc' = "ended" /\ exit' = "panic"
  /\ UNCHANGED <<iter, call, steps, prevResult, counterVars, lastReplan, episodeVars, terminal>>

-----------------------------------------------------------------------------
(* The operator's answer to an approval request. *)

Approve(c) ==
  /\ pc = "asking" /\ c \in call
  /\ pc' = "dispatch"
  /\ phase' = Infer(depth, runnerErrors, lastReplan, Len(steps))
  /\ UNCHANGED <<iter, call, steps, prevResult, counterVars, taskVars, episodeVars, endVars>>

Reject(c) ==
  /\ pc = "asking" /\ c \in call
  /\ PushStep(c, "rejected", "none")
  /\ prevResult' = "plain"
  /\ GoOn
  /\ UNCHANGED <<iter, call, phase, counterVars, taskVars, episodeVars>>

ApprovalLost ==
  /\ pc = "asking"
  /\ End("ApprovalUnavailable")
  /\ UNCHANGED <<iter, call, steps, prevResult, phase, counterVars, taskVars, episodeVars>>

-----------------------------------------------------------------------------
(* The result of the dispatched call. *)

\* Deviation: a single error is not taken for a recovery.
CloseRecovery_NeedsErrors ==
  IF runnerErrors > 1
  THEN /\ recoveries' = recoveries + 1 /\ snapshot' = {}
  ELSE UNCHANGED episodeVars

\* With errors behind it, a success closes a recovery: the record is written
\* and the entry snapshot is handed to the episodic writer.
CloseRecovery ==
  IF runnerErrors > 0
  THEN /\ recoveries' = recoveries + 1 /\ snapshot' = {}
  ELSE UNCHANGED episodeVars

\* maybe_halt_on_destructive_cap: any call but a destructive one ends the streak.
StreakAfter(c) ==
  IF Cap = 0 THEN streak ELSE IF c \in Destructive THEN streak + 1 ELSE 0
CapReached(c) == Cap > 0 /\ StreakAfter(c) >= Cap

ToolOk(c) ==
  /\ pc = "dispatch" /\ c \in call
  /\ CloseRecovery
  /\ PushStep(c, "ok", "none")
  /\ runnerErrors' = 0 /\ lastFailure' = {}
  /\ \E nudged \in BOOLEAN : prevResult' = ResultOf(c, nudged)
  /\ IF CapReached(c)
     THEN End("ConsecutiveDestructiveCap") /\ streak' = 0
     ELSE GoOn /\ streak' = StreakAfter(c)
  /\ UNCHANGED <<iter, call, phase, stateErrors, taskVars>>

ToolErr(c, e) ==
  /\ pc = "dispatch" /\ c \in call
  /\ RecordFailure(c, "error", e, runnerErrors + 1)
  /\ UNCHANGED <<iter, call, phase, streak, taskVars, episodeVars>>

\* verify_completion: a NO verdict halts the run; YES, no vision backend and
\* every failure of the check itself complete it.
VerifyDone(disagrees) ==
  /\ pc = "verify"
  /\ End(IF disagrees THEN "CompletionDisagreement" ELSE "Completed")
  /\ UNCHANGED <<iter, call, steps, prevResult, phase, counterVars, taskVars, episodeVars>>

Terminated == pc = "ended" /\ UNCHANGED vars

-----------------------------------------------------------------------------
LlmReplies ==
  \/ LlmFails
  \/ \E m \in Mutation :
       \/ TurnDone(m) \/ TurnReplans(m) \/ TurnPatchMalformed(m) \/ TurnPatch(m)
       \/ \E c \in Call :
            \/ TurnSkipped(m, c) \/ TurnAsks(m, c) \/ TurnDispatched(m, c)
            \/ \E g \in GuardText : TurnBlocked(m, c, g)

OperatorReplies == ApprovalLost \/ \E c \in Call : Approve(c) \/ Reject(c)

ToolReturns == \E c \in Call : ToolOk(c) \/ \E e \in ErrorText : ToolErr(c, e)

VisionReplies == \E disagrees \in BOOLEAN : VerifyDone(disagrees)

Next == Observe \/ StepsExhausted \/ LlmReplies \/ OperatorReplies
          \/ ToolReturns \/ VisionReplies \/ Terminated

Spec == Init /\ [][Next]_vars

\* The runtime polls the run's future until it is done, and the calls to the
\* model and to the tools return or time out; an operator owes no answer.
Fairness == /\ WF_vars(Observe) /\ WF_vars(StepsExhausted) /\ WF_vars(LlmReplies)
            /\ WF_vars(ToolReturns) /\ WF_vars(VisionReplies)
FairSpec == Spec /\ Fairness
-----------------------------------------------------------------------------
(* Properties. *)

IsError(s)   == s.outcome \in {"error", "blocked"}
IsSuccess(s) == s.outcome \in {"ok", "skipped"}

\* The failed steps that no later step made good: what "consecutive errors"
\* means on the record of the run.
OpenErrors(s) ==
  {i \in DOMAIN s : IsError(s[i]) /\ \A j \in i + 1 .. Len(s) : ~IsSuccess(s[j])}

\* The two error counters never fall behind the record: the runner's is zero
\* exactly when no failure is open, neither is below the number of open
\* failures, and a run that is still going is within its error budget
\* (record_blocked_tool_error and run_turn count through different fields).
ErrorBudget ==
  /\ runnerErrors = 0 <=> OpenErrors(steps) = {}
  /\ Cardinality(OpenErrors(steps)) <= runnerErrors
  /\ runnerErrors <= stateErrors
  /\ pc # "ended" => Cardinality(OpenErrors(steps)) < MaxErrors

Repeats(s) ==
  \E i, j \in OpenErrors(s) :
    /\ i < j /\ \A k \in OpenErrors(s) : ~(i < k /\ k < j)
    /\ s[i].call = s[j].call /\ s[i].err = s[j].err

\* LoopDetected is reported exactly when the record holds two failures of one
\* call with one error and neither a success nor another failure between them,
\* whichever of the two failing paths recorded each.
RepeatHalts == terminal = "LoopDetected" <=> Repeats(steps)

\* The live successes at the end of the run that were all destructive.
DestructiveTail(s) ==
  {i \in DOMAIN s : \A j \in i .. Len(s) : s[j].outcome = "ok" => s[j].call \in Destructive}
DestructiveRun(s) == {i \in DestructiveTail(s) : s[i].outcome = "ok"}

\* The destructive cap halts the run at the Cap-th live destructive success in
\* a row, neither later nor earlier, whatever failures, rejections and
\* synthetic skips lie between them.
CapExact ==
  terminal = "ConsecutiveDestructiveCap"
    <=> Cap > 0 /\ Cardinality(DestructiveRun(steps)) >= Cap

\* Every live success over open failures, and no other step, leaves one
\* RecoverySucceeded record.
RecoveryRecorded ==
  recoveries = Cardinality({i \in DOMAIN steps :
                 steps[i].outcome = "ok" /\ OpenErrors(SubSeq(steps, 1, i - 1)) # {}})

\* When a recovery is about to be closed there is an entry snapshot to hand to
\* the episodic writer, and it belongs to this recovery: no step succeeded
\* since it was taken.
EpisodeFresh ==
  pc \in {"llm", "asking", "dispatch"} /\ runnerErrors > 0 =>
    \E e \in snapshot : \A i \in e.step + 1 .. Len(steps) : ~IsSuccess(steps[i])

\* Every recovery is told to the episodic writer, once, and as it was.
RecoveryTold == RecoveryRecorded /\ EpisodeFresh

\* A call is handed to the MCP only if the three guards and the policy let it
\* through, and a call the policy asks about only by the operator's answer to
\* that very call.
OnlyPermittedRun ==
  [][pc # "dispatch" /\ pc' = "dispatch" =>
       \A c \in call' :
         /\ c \notin Managed /\ (c \notin Observation => Policy[c] # "Deny")
         /\ NeedsApproval(c) => pc = "asking" /\ c \in call]_vars

\* The loop always comes to an end, unless the operator leaves a request
\* unanswered for ever.
HeldOnlyByOperator == <>(pc = "ended") \/ <>[](pc = "asking")
=============================================================================
