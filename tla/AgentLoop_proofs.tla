-------------------------- MODULE AgentLoop_proofs --------------------------
(***************************************************************************)
(* Theorems about AgentLoop for every set of calls, every policy and every *)
(* bound: its types, its error accounting, its loop detection, what it     *)
(* runs and what it tells of a recovery.                                   *)
(***************************************************************************)
EXTENDS AgentLoop, FiniteSetTheorems, SequenceTheorems, TLAPS

USE CallsAssumption, TextAssumption, BoundsAssumption

-----------------------------------------------------------------------------
(* What appending a step does to the open failures. *)

\* A success closes every failure (clear_success_dispatch_state, ToolSuccess).
LEMMA OpenAfterSuccess ==
  ASSUME NEW s \in Seq(Step), NEW x \in Step, IsSuccess(x)
  PROVE  OpenErrors(Append(s, x)) = {}
<1> DEFINE t == Append(s, x)
<1>1. t \in Seq(Step) /\ Len(t) = Len(s) + 1 /\ t[Len(t)] = x
  OBVIOUS
<1>2. ASSUME NEW i \in OpenErrors(t) PROVE FALSE
  <2>1. i \in 1 .. Len(t) /\ IsError(t[i]) /\ \A j \in i + 1 .. Len(t) : ~IsSuccess(t[j])
    BY <1>1 DEF OpenErrors
  <2>2. CASE i = Len(t)
    BY <2>1, <2>2, <1>1 DEF IsError, IsSuccess
  <2>3. CASE i < Len(t)
    <3>1. Len(t) \in i + 1 .. Len(t)
      BY <2>1, <2>3, <1>1
    <3> QED BY <3>1, <2>1, <1>1
  <2> QED BY <2>1, <2>2, <2>3, <1>1
<1> QED BY <1>2

\* A failure opens one more (push_tool_step with StepOutcome::Error).
LEMMA OpenAfterError ==
  ASSUME NEW s \in Seq(Step), NEW x \in Step, IsError(x)
  PROVE  OpenErrors(Append(s, x)) = OpenErrors(s) \cup {Len(s) + 1}
<1> DEFINE t == Append(s, x)
<1>1. /\ t \in Seq(Step) /\ Len(t) = Len(s) + 1 /\ t[Len(s) + 1] = x
      /\ \A i \in 1 .. Len(s) : t[i] = s[i]
      /\ ~IsSuccess(x)
  BY DEF IsError, IsSuccess
<1>2. ASSUME NEW i \in OpenErrors(t), i # Len(s) + 1 PROVE i \in OpenErrors(s)
  <2>1. i \in 1 .. Len(s)
    BY <1>1, <1>2 DEF OpenErrors
  <2>2. IsError(s[i]) /\ \A j \in i + 1 .. Len(s) : ~IsSuccess(s[j])
    BY <1>1, <1>2, <2>1 DEF OpenErrors
  <2> QED BY <2>1, <2>2 DEF OpenErrors
<1>3. ASSUME NEW i \in OpenErrors(s) PROVE i \in OpenErrors(t)
  <2>1. i \in 1 .. Len(s) /\ IsError(s[i]) /\ \A j \in i + 1 .. Len(s) : ~IsSuccess(s[j])
    BY DEF OpenErrors
  <2>2. ASSUME NEW j \in i + 1 .. Len(t) PROVE ~IsSuccess(t[j])
    BY <2>1, <1>1
  <2> QED BY <2>1, <2>2, <1>1 DEF OpenErrors
<1>4. Len(s) + 1 \in OpenErrors(t)
  BY <1>1 DEF OpenErrors
<1> QED BY <1>2, <1>3, <1>4

\* A rejected call neither closes a failure nor opens one.
LEMMA OpenAfterRejection ==
  ASSUME NEW s \in Seq(Step), NEW x \in Step, ~IsError(x), ~IsSuccess(x)
  PROVE  OpenErrors(Append(s, x)) = OpenErrors(s)
<1> DEFINE t == Append(s, x)
<1>1. /\ t \in Seq(Step) /\ Len(t) = Len(s) + 1 /\ t[Len(s) + 1] = x
      /\ \A i \in 1 .. Len(s) : t[i] = s[i]
  OBVIOUS
<1>2. ASSUME NEW i \in OpenErrors(t) PROVE i \in OpenErrors(s)
  <2>1. i \in 1 .. Len(s)
    BY <1>1 DEF OpenErrors
  <2>2. IsError(s[i]) /\ \A j \in i + 1 .. Len(s) : ~IsSuccess(s[j])
    BY <1>1, <2>1 DEF OpenErrors
  <2> QED BY <2>1, <2>2 DEF OpenErrors
<1>3. ASSUME NEW i \in OpenErrors(s) PROVE i \in OpenErrors(t)
  <2>1. i \in 1 .. Len(s) /\ IsError(s[i]) /\ \A j \in i + 1 .. Len(s) : ~IsSuccess(s[j])
    BY DEF OpenErrors
  <2>2. ASSUME NEW j \in i + 1 .. Len(t) PROVE ~IsSuccess(t[j])
    BY <2>1, <1>1
  <2> QED BY <2>1, <2>2, <1>1 DEF OpenErrors
<1> QED BY <1>2, <1>3

\* The open failures are finitely many, and one more failure counts one more.
LEMMA OpenIsFinite ==
  ASSUME NEW s \in Seq(Step)
  PROVE  /\ IsFiniteSet(OpenErrors(s))
         /\ Cardinality(OpenErrors(s)) \in Nat
         /\ Len(s) + 1 \notin OpenErrors(s)
         /\ Cardinality(OpenErrors(s) \cup {Len(s) + 1}) = Cardinality(OpenErrors(s)) + 1
<1>1. OpenErrors(s) \subseteq 1 .. Len(s)
  BY DEF OpenErrors
<1>2. IsFiniteSet(1 .. Len(s))
  BY FS_Interval
<1>3. IsFiniteSet(OpenErrors(s))
  BY <1>1, <1>2, FS_Subset
<1>4. Len(s) + 1 \notin OpenErrors(s)
  BY <1>1
<1>5. Cardinality(OpenErrors(s)) \in Nat
  BY <1>3, FS_CardinalityType
<1>6. Cardinality(OpenErrors(s) \cup {Len(s) + 1}) = Cardinality(OpenErrors(s)) + 1
  BY <1>3, <1>4, FS_AddElement
<1> QED BY <1>3, <1>4, <1>5, <1>6

-----------------------------------------------------------------------------
(* Types. *)

\* Recording a failure keeps the types of everything it touches.
LEMMA FailureTyping ==
  ASSUME TypeOK, NEW c \in Call, NEW outcome \in Outcome, NEW e \in ErrorText \cup GuardText,
         NEW n \in Nat, RecordFailure(c, outcome, e, n)
  PROVE  /\ steps' \in Seq(Step) /\ stateErrors' = n /\ runnerErrors' = n
         /\ IsOption(lastFailure, Failure)' /\ prevResult' = "plain"
         /\ pc' \in {"top", "ended"} /\ terminal' \in Reason
         /\ exit' \in {"running", "ok", "err", "panic"}
<1>1. [call |-> c, outcome |-> outcome, err |-> e] \in Step
  BY DEF Step, Text
<1>2. [call |-> c, err |-> e] \in Failure
  BY DEF Failure
<1>3. steps' \in Seq(Step) /\ stateErrors' = n /\ runnerErrors' = n /\ prevResult' = "plain"
  BY <1>1 DEF TypeOK, RecordFailure, PushStep
<1>4. IsOption(lastFailure, Failure)'
  BY <1>2 DEF RecordFailure, IsOption
<1>5. /\ pc' \in {"top", "ended"} /\ terminal' \in Reason
      /\ exit' \in {"running", "ok", "err", "panic"}
  BY DEF TypeOK, RecordFailure, End, GoOn, Reason, endVars
<1> QED BY <1>3, <1>4, <1>5

LEMMA MutationTyping ==
  ASSUME TypeOK, NEW m \in Mutation, ApplyMutation(m)
  PROVE  depth' \in Nat /\ milestones' \in Nat
BY DEF TypeOK, ApplyMutation, GuardedMutation

LEMMA InferTyping ==
  ASSUME NEW d, NEW n, NEW r, NEW k
  PROVE  Infer(d, n, r, k) \in {"Exploring", "Executing", "Recovering"}
BY DEF Infer

\* Every variable of the loop stays within its type.
THEOREM AgentLoopTyping == Spec => []TypeOK
<1>1. Init => TypeOK
  BY DEF Init, TypeOK, IsOption, Reason
<1>2. TypeOK /\ [Next]_vars => TypeOK'
  <2> SUFFICES ASSUME TypeOK, [Next]_vars PROVE TypeOK'
    OBVIOUS
  <2> USE DEF TypeOK
  <2>1. CASE Observe
    <3>1. phase' \in {"Exploring", "Executing", "Recovering"}
      BY <2>1, InferTyping DEF Observe
    <3>2. IsOption(snapshot, Entry)'
      BY <2>1 DEF Observe, IsOption, Entry
    <3> QED BY <2>1, <3>1, <3>2
            DEF Observe, counterVars, taskVars, endVars, IsOption
  <2>2. CASE StepsExhausted
    BY <2>2 DEF StepsExhausted, End, Reason, counterVars, taskVars, episodeVars, IsOption
  <2>3. CASE LlmFails
    BY <2>3 DEF LlmFails, counterVars, taskVars, episodeVars, IsOption
  <2>4. ASSUME NEW m \in Mutation, NEW c \in Call, TurnSkipped(m, c) PROVE TypeOK'
    <3>1. depth' \in Nat /\ milestones' \in Nat
      BY <2>4, MutationTyping DEF TurnSkipped
    <3>2. [call |-> c, outcome |-> "skipped", err |-> "none"] \in Step
      BY DEF Step, Outcome, Text
    <3>3. steps' \in Seq(Step)
      BY <2>4, <3>2 DEF TurnSkipped, PushStep
    <3> QED BY <2>4, <3>1, <3>3 DEF TurnSkipped, GoOn, endVars, episodeVars, IsOption
  <2>5. ASSUME NEW m \in Mutation, NEW c \in Call, NEW g \in GuardText, TurnBlocked(m, c, g)
        PROVE  TypeOK'
    <3>1. depth' \in Nat /\ milestones' \in Nat
      BY <2>5, MutationTyping DEF TurnBlocked
    <3>2. "blocked" \in Outcome /\ stateErrors + 1 \in Nat
      BY DEF Outcome
    <3>3. RecordFailure(c, "blocked", g, stateErrors + 1)
      BY <2>5 DEF TurnBlocked
    <3>4. /\ steps' \in Seq(Step) /\ stateErrors' \in Nat /\ runnerErrors' \in Nat
          /\ IsOption(lastFailure, Failure)' /\ prevResult' = "plain"
          /\ pc' \in {"top", "ended"} /\ terminal' \in Reason
          /\ exit' \in {"running", "ok", "err", "panic"}
      BY <3>2, <3>3, FailureTyping
    <3> QED BY <2>5, <3>1, <3>4 DEF TurnBlocked, episodeVars, IsOption
  <2>6. ASSUME NEW m \in Mutation, NEW c \in Call, TurnAsks(m, c) PROVE TypeOK'
    <3>1. depth' \in Nat /\ milestones' \in Nat
      BY <2>6, MutationTyping DEF TurnAsks
    <3> QED BY <2>6, <3>1 DEF TurnAsks, counterVars, episodeVars, endVars, IsOption
  <2>7. ASSUME NEW m \in Mutation, NEW c \in Call, TurnDispatched(m, c) PROVE TypeOK'
    <3>1. depth' \in Nat /\ milestones' \in Nat
      BY <2>7, MutationTyping DEF TurnDispatched
    <3> QED BY <2>7, <3>1, InferTyping
            DEF TurnDispatched, ObserveInTurn, counterVars, episodeVars, endVars, IsOption
  <2>8. ASSUME NEW m \in Mutation, TurnDone(m) PROVE TypeOK'
    <3>1. depth' \in Nat /\ milestones' \in Nat
      BY <2>8, MutationTyping DEF TurnDone
    <3> QED BY <2>8, <3>1, InferTyping
            DEF TurnDone, ObserveInTurn, counterVars, episodeVars, endVars, IsOption
  <2>9. ASSUME NEW m \in Mutation, TurnReplans(m) PROVE TypeOK'
    <3>1. depth' \in Nat /\ milestones' \in Nat
      BY <2>9, MutationTyping DEF TurnReplans
    <3> QED BY <2>9, <3>1, InferTyping
            DEF TurnReplans, ObserveInTurn, GoOn, counterVars, episodeVars, endVars, IsOption
  <2>10. ASSUME NEW m \in Mutation, TurnPatchMalformed(m) PROVE TypeOK'
    <3>1. depth' \in Nat /\ milestones' \in Nat
      BY <2>10, MutationTyping DEF TurnPatchMalformed
    <3> QED BY <2>10, <3>1, InferTyping
            DEF TurnPatchMalformed, ObserveInTurn, GoOn, counterVars, episodeVars, endVars,
                IsOption
  <2>11. ASSUME NEW m \in Mutation, TurnPatch(m) PROVE TypeOK'
    <3>1. depth' \in Nat /\ milestones' \in Nat
      BY <2>11, MutationTyping DEF TurnPatch
    <3> QED BY <2>11, <3>1, InferTyping
            DEF TurnPatch, ObserveInTurn, counterVars, episodeVars, IsOption
  <2>12. ASSUME NEW c \in Call, Approve(c) PROVE TypeOK'
    BY <2>12, InferTyping
    DEF Approve, counterVars, taskVars, episodeVars, endVars, IsOption
  <2>13. ASSUME NEW c \in Call, Reject(c) PROVE TypeOK'
    <3>1. [call |-> c, outcome |-> "rejected", err |-> "none"] \in Step
      BY DEF Step, Outcome, Text
    <3>2. steps' \in Seq(Step)
      BY <2>13, <3>1 DEF Reject, PushStep
    <3> QED BY <2>13, <3>2 DEF Reject, GoOn, counterVars, taskVars, episodeVars, endVars, IsOption
  <2>14. CASE ApprovalLost
    BY <2>14 DEF ApprovalLost, End, Reason, counterVars, taskVars, episodeVars, IsOption
  <2>15. ASSUME NEW c \in Call, ToolOk(c) PROVE TypeOK'
    <3>1. [call |-> c, outcome |-> "ok", err |-> "none"] \in Step
      BY DEF Step, Outcome, Text
    <3>2. steps' \in Seq(Step)
      BY <2>15, <3>1 DEF ToolOk, PushStep
    <3>3. recoveries' \in Nat /\ IsOption(snapshot, Entry)'
      BY <2>15 DEF ToolOk, CloseRecovery, episodeVars, IsOption
    <3>4. prevResult' \in {"none", "plain", "unverified"}
      BY <2>15 DEF ToolOk, ResultOf
    <3>5. /\ streak' \in Nat /\ pc' \in {"top", "ended"} /\ terminal' \in Reason
          /\ exit' \in {"running", "ok", "err", "panic"}
      BY <2>15 DEF ToolOk, StreakAfter, End, GoOn, Reason, endVars
    <3> QED BY <2>15, <3>2, <3>3, <3>4, <3>5 DEF ToolOk, taskVars, IsOption
  <2>16. ASSUME NEW c \in Call, NEW e \in ErrorText, ToolErr(c, e) PROVE TypeOK'
    <3>1. "error" \in Outcome /\ runnerErrors + 1 \in Nat
      BY DEF Outcome
    <3>2. RecordFailure(c, "error", e, runnerErrors + 1)
      BY <2>16 DEF ToolErr
    <3>3. /\ steps' \in Seq(Step) /\ stateErrors' \in Nat /\ runnerErrors' \in Nat
          /\ IsOption(lastFailure, Failure)' /\ prevResult' = "plain"
          /\ pc' \in {"top", "ended"} /\ terminal' \in Reason
          /\ exit' \in {"running", "ok", "err", "panic"}
      BY <3>1, <3>2, FailureTyping
    <3> QED BY <2>16, <3>3 DEF ToolErr, taskVars, episodeVars, IsOption
  <2>17. ASSUME NEW disagrees \in BOOLEAN, VerifyDone(disagrees) PROVE TypeOK'
    BY <2>17 DEF VerifyDone, End, Reason, counterVars, taskVars, episodeVars, IsOption
  <2>18. CASE UNCHANGED vars
    BY <2>18 DEF vars, counterVars, taskVars, episodeVars, endVars, IsOption
  <2> QED
    BY <2>1, <2>2, <2>3, <2>4, <2>5, <2>6, <2>7, <2>8, <2>9, <2>10, <2>11, <2>12, <2>13,
       <2>14, <2>15, <2>16, <2>17, <2>18
    DEF Next, LlmReplies, OperatorReplies, ToolReturns, VisionReplies, Terminated
<1> QED BY <1>1, <1>2, PTL DEF Spec

-----------------------------------------------------------------------------
(* The kinds of step, as the record and the counters see them. *)

Quiet ==
  /\ pc # "ended" /\ UNCHANGED <<steps, counterVars>>
  /\ \/ terminal' = terminal
     \/ pc' = "ended" /\ terminal' \in {"MaxStepsReached", "ApprovalUnavailable", "Completed",
                                        "CompletionDisagreement"}

Skip(c) ==
  /\ pc # "ended" /\ PushStep(c, "skipped", "none")
  /\ stateErrors' = 0 /\ runnerErrors' = 0 /\ lastFailure' = {}
  /\ UNCHANGED <<streak, terminal>>

Failing(c, outcome, e, n) ==
  /\ pc # "ended" /\ outcome \in {"error", "blocked"}
  /\ n \in {stateErrors + 1, runnerErrors + 1}
  /\ RecordFailure(c, outcome, e, n)
  /\ UNCHANGED streak

Rejection(c) ==
  /\ pc # "ended" /\ PushStep(c, "rejected", "none")
  /\ UNCHANGED <<counterVars, terminal>>

Success(c) ==
  /\ pc # "ended" /\ PushStep(c, "ok", "none")
  /\ runnerErrors' = 0 /\ lastFailure' = {} /\ UNCHANGED stateErrors
  /\ IF CapReached(c)
     THEN pc' = "ended" /\ terminal' = "ConsecutiveDestructiveCap"
     ELSE UNCHANGED terminal /\ streak' = StreakAfter(c)

\* Every action is of one of these kinds.
LEMMA StepKinds ==
  ASSUME Next
  PROVE  \/ Quiet \/ UNCHANGED vars
         \/ \E c \in Call : Skip(c) \/ Rejection(c) \/ Success(c)
         \/ \E c \in Call, outcome \in Outcome, e \in ErrorText \cup GuardText,
               n \in {stateErrors + 1, runnerErrors + 1} : Failing(c, outcome, e, n)
<1>1. CASE Observe \/ StepsExhausted \/ LlmFails \/ ApprovalLost
  BY <1>1 DEF Quiet, Observe, StepsExhausted, LlmFails, ApprovalLost, End, counterVars, endVars
<1>2. ASSUME NEW m \in Mutation, NEW c \in Call, TurnAsks(m, c) \/ TurnDispatched(m, c)
      PROVE  Quiet
  BY <1>2 DEF Quiet, TurnAsks, TurnDispatched, counterVars, endVars
<1>3. ASSUME NEW m \in Mutation,
             TurnDone(m) \/ TurnReplans(m) \/ TurnPatchMalformed(m) \/ TurnPatch(m)
      PROVE  Quiet
  BY <1>3 DEF Quiet, TurnDone, TurnReplans, TurnPatchMalformed, TurnPatch,
              GoOn, counterVars, endVars
<1>4. ASSUME NEW m \in Mutation, NEW c \in Call, TurnSkipped(m, c) PROVE Skip(c)
  BY <1>4 DEF Skip, TurnSkipped, GoOn, endVars
<1>5. ASSUME NEW m \in Mutation, NEW c \in Call, NEW g \in GuardText, TurnBlocked(m, c, g)
      PROVE  /\ "blocked" \in Outcome /\ g \in ErrorText \cup GuardText
             /\ Failing(c, "blocked", g, stateErrors + 1)
  BY <1>5 DEF Failing, TurnBlocked, Outcome
<1>6. ASSUME NEW c \in Call, Approve(c) PROVE Quiet
  BY <1>6 DEF Quiet, Approve, counterVars, endVars
<1>7. ASSUME NEW c \in Call, Reject(c) PROVE Rejection(c)
  BY <1>7 DEF Rejection, Reject, GoOn, counterVars, endVars
<1>8. ASSUME NEW c \in Call, ToolOk(c) PROVE Success(c)
  BY <1>8 DEF Success, ToolOk, GoOn, End, endVars
<1>9. ASSUME NEW c \in Call, NEW e \in ErrorText, ToolErr(c, e)
      PROVE  /\ "error" \in Outcome /\ e \in ErrorText \cup GuardText
             /\ Failing(c, "error", e, runnerErrors + 1)
  BY <1>9 DEF Failing, ToolErr, Outcome
<1>10. ASSUME NEW disagrees \in BOOLEAN, VerifyDone(disagrees) PROVE Quiet
  BY <1>10 DEF Quiet, VerifyDone, End, counterVars
<1> QED
  BY <1>1, <1>2, <1>3, <1>4, <1>5, <1>6, <1>7, <1>8, <1>9, <1>10
  DEF Next, LlmReplies, OperatorReplies, ToolReturns, VisionReplies, Terminated

\* The step each kind records.
LEMMA PushedStep ==
  ASSUME NEW c \in Call, NEW outcome \in Outcome, NEW e \in Text
  PROVE  LET x == [call |-> c, outcome |-> outcome, err |-> e] IN
         /\ x \in Step /\ x.call = c /\ x.outcome = outcome /\ x.err = e
         /\ IsError(x) <=> outcome \in {"error", "blocked"}
         /\ IsSuccess(x) <=> outcome \in {"ok", "skipped"}
BY DEF Step, IsError, IsSuccess

-----------------------------------------------------------------------------
(* The error budget. *)

\* ErrorBudget is inductive under the types.
LEMMA ErrorBudgetStep ==
  ASSUME TypeOK, ErrorBudget, [Next]_vars
  PROVE  ErrorBudget'
<1> DEFINE Open == OpenErrors(steps)
<1> USE DEF TypeOK
<1>0. IsFiniteSet(Open) /\ Cardinality(Open) \in Nat /\ Cardinality({}) = 0
  BY OpenIsFinite, FS_EmptySet
<1>1. CASE Quiet
  BY <1>1 DEF Quiet, ErrorBudget, counterVars
<1>2. CASE UNCHANGED vars
  BY <1>2 DEF vars, ErrorBudget, counterVars
<1>3. ASSUME NEW c \in Call, Skip(c) PROVE ErrorBudget'
  <2> DEFINE x == [call |-> c, outcome |-> "skipped", err |-> "none"]
  <2>1. x \in Step /\ IsSuccess(x)
    BY PushedStep DEF Outcome, Text
  <2>2. OpenErrors(steps') = {}
    BY <1>3, <2>1, OpenAfterSuccess DEF Skip, PushStep
  <2> QED BY <1>0, <1>3, <2>2 DEF Skip, ErrorBudget
<1>4. ASSUME NEW c \in Call, Rejection(c) PROVE ErrorBudget'
  <2> DEFINE x == [call |-> c, outcome |-> "rejected", err |-> "none"]
  <2>1. x \in Step /\ ~IsSuccess(x) /\ ~IsError(x)
    BY PushedStep DEF Outcome, Text
  <2>2. OpenErrors(steps') = Open
    BY <1>4, <2>1, OpenAfterRejection DEF Rejection, PushStep
  <2> QED BY <1>4, <2>2 DEF Rejection, ErrorBudget, counterVars
<1>5. ASSUME NEW c \in Call, Success(c) PROVE ErrorBudget'
  <2> DEFINE x == [call |-> c, outcome |-> "ok", err |-> "none"]
  <2>1. x \in Step /\ IsSuccess(x)
    BY PushedStep DEF Outcome, Text
  <2>2. OpenErrors(steps') = {}
    BY <1>5, <2>1, OpenAfterSuccess DEF Success, PushStep
  <2> QED BY <1>0, <1>5, <2>2 DEF Success, ErrorBudget
<1>6. ASSUME NEW c \in Call, NEW outcome \in Outcome, NEW e \in ErrorText \cup GuardText,
             NEW n \in {stateErrors + 1, runnerErrors + 1}, Failing(c, outcome, e, n)
      PROVE  ErrorBudget'
  <2> DEFINE x == [call |-> c, outcome |-> outcome, err |-> e]
  <2>1. x \in Step /\ IsError(x)
    BY <1>6, PushedStep DEF Failing, Text
  <2>2. OpenErrors(steps') = Open \cup {Len(steps) + 1}
    BY <1>6, <2>1, OpenAfterError DEF Failing, RecordFailure, PushStep
  <2>3. Cardinality(OpenErrors(steps')) = Cardinality(Open) + 1
    BY <2>2, OpenIsFinite
  <2>4. /\ stateErrors' = n /\ runnerErrors' = n
        /\ n \in Nat /\ n >= Cardinality(Open) + 1
    BY <1>0, <1>6 DEF Failing, RecordFailure, ErrorBudget
  <2>5. pc' # "ended" => n < MaxErrors
    BY <1>6, <2>4 DEF Failing, RecordFailure, End, ShouldAbort
  <2> QED BY <1>0, <2>2, <2>3, <2>4, <2>5 DEF ErrorBudget
<1> QED BY <1>1, <1>2, <1>3, <1>4, <1>5, <1>6, StepKinds

\* The two error counters never fall behind the record of the run, and a run
\* that goes on is within its error budget.
THEOREM ErrorBudgetHolds == Spec => []ErrorBudget
<1>1. Init => ErrorBudget
  <2>1. OpenErrors(<<>>) = {}
    BY DEF OpenErrors
  <2>2. Cardinality({}) = 0
    BY FS_EmptySet
  <2> SUFFICES ASSUME Init PROVE ErrorBudget
    OBVIOUS
  <2>3. OpenErrors(steps) = {} /\ runnerErrors = 0 /\ stateErrors = 0 /\ MaxErrors > 0
    BY <2>1 DEF Init
  <2> QED BY <2>2, <2>3 DEF ErrorBudget
<1>2. TypeOK /\ ErrorBudget /\ [Next]_vars => ErrorBudget'
  BY ErrorBudgetStep
<1> QED BY <1>1, <1>2, AgentLoopTyping, PTL DEF Spec

-----------------------------------------------------------------------------
(* The loop detector. *)

\* i is the last open failure of s and f describes it.
LastOpen(s, i, f) ==
  /\ i \in OpenErrors(s) /\ \A k \in OpenErrors(s) : k <= i
  /\ f.call = s[i].call /\ f.err = s[i].err

\* While the run goes on no repetition is recorded, and the tracker the code
\* compares with is the last open failure of the record.
LoopInv ==
  /\ RepeatHalts
  /\ pc # "ended" =>
       /\ terminal = "none"
       /\ lastFailure = {} => OpenErrors(steps) = {}
       /\ \A f \in lastFailure : \E i \in OpenErrors(steps) : LastOpen(steps, i, f)

\* Without open failures there is nothing to repeat.
LEMMA NothingRepeats ==
  ASSUME NEW s, OpenErrors(s) = {}
  PROVE  ~Repeats(s)
BY DEF Repeats

\* A new failure repeats exactly when it equals the last open one.
LEMMA RepeatsAfterError ==
  ASSUME NEW s \in Seq(Step), NEW x \in Step, IsError(x), ~Repeats(s)
  PROVE  Repeats(Append(s, x)) <=> \E i \in OpenErrors(s) : LastOpen(s, i, x)
<1> DEFINE t == Append(s, x)
<1>1. /\ t \in Seq(Step) /\ Len(t) = Len(s) + 1 /\ t[Len(s) + 1] = x
      /\ \A i \in 1 .. Len(s) : t[i] = s[i]
  OBVIOUS
<1>2. OpenErrors(t) = OpenErrors(s) \cup {Len(s) + 1}
  BY OpenAfterError
<1>3. OpenErrors(s) \subseteq 1 .. Len(s)
  BY DEF OpenErrors
<1>4. ASSUME NEW i \in OpenErrors(s), LastOpen(s, i, x) PROVE Repeats(t)
  <2>1. i < Len(s) + 1 /\ t[i].call = x.call /\ t[i].err = x.err
    BY <1>1, <1>3, <1>4 DEF LastOpen
  <2>2. \A k \in OpenErrors(t) : ~(i < k /\ k < Len(s) + 1)
    BY <1>2, <1>3, <1>4 DEF LastOpen
  <2>3. /\ i \in OpenErrors(t) /\ Len(s) + 1 \in OpenErrors(t)
        /\ t[i].call = t[Len(s) + 1].call /\ t[i].err = t[Len(s) + 1].err
    BY <1>1, <1>2, <2>1
  <2> QED BY ONLY <2>1, <2>2, <2>3 DEF Repeats
<1>5. ASSUME Repeats(t) PROVE \E i \in OpenErrors(s) : LastOpen(s, i, x)
  <2>1. PICK i \in OpenErrors(t), j \in OpenErrors(t) :
          /\ i < j /\ \A k \in OpenErrors(t) : ~(i < k /\ k < j)
          /\ t[i].call = t[j].call /\ t[i].err = t[j].err
    BY <1>5 DEF Repeats
  <2>2. i \in 1 .. Len(s) + 1 /\ j \in 1 .. Len(s) + 1
    BY <1>2, <1>3
  <2>3. i \in OpenErrors(s) /\ i \in 1 .. Len(s)
    BY <1>2, <1>3, <2>1, <2>2
  <2>4. CASE j = Len(s) + 1
    <3>1. \A k \in OpenErrors(s) : k <= i
      BY <1>2, <1>3, <2>1, <2>2, <2>4
    <3> QED BY <1>1, <2>1, <2>3, <2>4, <3>1 DEF LastOpen
  <2>5. CASE j # Len(s) + 1
    <3>1. j \in OpenErrors(s) /\ j \in 1 .. Len(s)
      BY <1>2, <1>3, <2>2, <2>5
    <3> QED BY <1>1, <1>2, <2>1, <2>3, <3>1 DEF Repeats
  <2> QED BY <2>4, <2>5
<1> QED BY <1>4, <1>5

\* A step that leaves the open failures alone leaves their repetitions alone.
LEMMA RepeatsAfterOther ==
  ASSUME NEW s \in Seq(Step), NEW x \in Step, OpenErrors(Append(s, x)) = OpenErrors(s)
  PROVE  Repeats(Append(s, x)) <=> Repeats(s)
<1> DEFINE t == Append(s, x)
<1>1. \A i \in OpenErrors(s) : t[i] = s[i]
  BY DEF OpenErrors
<1>2. OpenErrors(t) = OpenErrors(s)
  OBVIOUS
<1> HIDE DEF t
<1>3. Repeats(t) <=> Repeats(s)
  BY ONLY <1>1, <1>2 DEF Repeats
<1> QED BY <1>3 DEF t

LEMMA LoopInvStep ==
  ASSUME TypeOK, LoopInv, [Next]_vars
  PROVE  LoopInv'
<1> USE DEF TypeOK
<1>1. CASE Quiet
  BY <1>1 DEF Quiet, LoopInv, RepeatHalts, counterVars
<1>2. CASE UNCHANGED vars
  BY <1>2 DEF vars, LoopInv, RepeatHalts, counterVars, endVars
<1>3. ASSUME NEW c \in Call, Skip(c) PROVE LoopInv'
  <2> DEFINE x == [call |-> c, outcome |-> "skipped", err |-> "none"]
  <2>1. x \in Step /\ IsSuccess(x)
    BY PushedStep DEF Outcome, Text
  <2>2. OpenErrors(steps') = {}
    BY <1>3, <2>1, OpenAfterSuccess DEF Skip, PushStep
  <2> QED BY <1>3, <2>2, NothingRepeats DEF Skip, LoopInv, RepeatHalts
<1>4. ASSUME NEW c \in Call, Rejection(c) PROVE LoopInv'
  <2> DEFINE x == [call |-> c, outcome |-> "rejected", err |-> "none"]
  <2>1. x \in Step /\ ~IsSuccess(x) /\ ~IsError(x)
    BY PushedStep DEF Outcome, Text
  <2>2. steps' = Append(steps, x) /\ OpenErrors(steps') = OpenErrors(steps)
    BY <1>4, <2>1, OpenAfterRejection DEF Rejection, PushStep
  <2>3. \A i \in OpenErrors(steps) : steps'[i] = steps[i]
    BY <2>2 DEF OpenErrors
  <2>4. Repeats(steps') <=> Repeats(steps)
    BY <2>1, <2>2, RepeatsAfterOther
  <2>5. \A f \in lastFailure, i \in OpenErrors(steps) :
          LastOpen(steps, i, f) => LastOpen(steps', i, f)
    BY <2>2, <2>3 DEF LastOpen
  <2> QED BY <1>4, <2>2, <2>4, <2>5 DEF Rejection, LoopInv, RepeatHalts, counterVars
<1>5. ASSUME NEW c \in Call, Success(c) PROVE LoopInv'
  <2> DEFINE x == [call |-> c, outcome |-> "ok", err |-> "none"]
  <2>1. x \in Step /\ IsSuccess(x)
    BY PushedStep DEF Outcome, Text
  <2>2. OpenErrors(steps') = {}
    BY <1>5, <2>1, OpenAfterSuccess DEF Success, PushStep
  <2> QED BY <1>5, <2>2, NothingRepeats DEF Success, LoopInv, RepeatHalts
<1>6. ASSUME NEW c \in Call, NEW outcome \in Outcome, NEW e \in ErrorText \cup GuardText,
             NEW n \in {stateErrors + 1, runnerErrors + 1}, Failing(c, outcome, e, n)
      PROVE  LoopInv'
  <2> DEFINE x == [call |-> c, outcome |-> outcome, err |-> e]
             f == [call |-> c, err |-> e]
  <2>1. x \in Step /\ IsError(x) /\ x.call = c /\ x.err = e
    BY <1>6, PushedStep DEF Failing, Text
  <2>2. steps' = Append(steps, x) /\ lastFailure' = {f} /\ pc # "ended"
    BY <1>6 DEF Failing, RecordFailure, PushStep
  <2>3. ~Repeats(steps) /\ terminal = "none"
    BY <2>2 DEF LoopInv, RepeatHalts
  <2>4. Repeats(steps') <=> \E i \in OpenErrors(steps) : LastOpen(steps, i, x)
    BY <2>1, <2>2, <2>3, RepeatsAfterError
  <2>5. ASSUME f \in lastFailure PROVE \E i \in OpenErrors(steps) : LastOpen(steps, i, x)
    <3>1. PICK i \in OpenErrors(steps) : LastOpen(steps, i, f)
      BY <2>2, <2>5 DEF LoopInv
    <3> QED BY <2>1, <3>1 DEF LastOpen
  <2>6. ASSUME NEW i \in OpenErrors(steps), LastOpen(steps, i, x) PROVE f \in lastFailure
    <3>1. PICK g \in lastFailure : TRUE
      BY <2>2 DEF LoopInv
    <3>2. PICK k \in OpenErrors(steps) : LastOpen(steps, k, g)
      BY <2>2 DEF LoopInv
    <3>3. OpenErrors(steps) \subseteq Nat
      BY DEF OpenErrors
    <3>4. k = i
      BY <2>6, <3>2, <3>3 DEF LastOpen
    <3>5. g.call = c /\ g.err = e /\ g \in Failure
      BY <2>1, <2>6, <3>2, <3>4 DEF LastOpen, IsOption
    <3> QED BY <3>1, <3>5 DEF Failure
  <2>7. terminal' = "LoopDetected" <=> f \in lastFailure
    BY <1>6, <2>3 DEF Failing, RecordFailure, End, GoOn, endVars
  <2>8. pc' # "ended" => terminal' = "none"
    BY <1>6, <2>3 DEF Failing, RecordFailure, End, GoOn, endVars
  <2>9. OpenErrors(steps') = OpenErrors(steps) \cup {Len(steps) + 1}
    BY <2>1, <2>2, OpenAfterError
  <2>10. LastOpen(steps', Len(steps) + 1, f)
    <3>1. \A k \in OpenErrors(steps) : k <= Len(steps) + 1
      BY DEF OpenErrors
    <3> QED BY <2>1, <2>2, <2>9, <3>1 DEF LastOpen
  <2> QED BY <2>2, <2>4, <2>5, <2>6, <2>7, <2>8, <2>9, <2>10 DEF LoopInv, RepeatHalts
<1> QED BY <1>1, <1>2, <1>3, <1>4, <1>5, <1>6, StepKinds

\* LoopDetected is reported exactly when one failure was repeated with neither
\* a success nor another failure between, over all paths that record failures.
THEOREM RepeatHaltsHolds == Spec => []RepeatHalts
<1>1. Init => LoopInv
  <2>1. OpenErrors(<<>>) = {}
    BY DEF OpenErrors
  <2> QED BY <2>1, NothingRepeats DEF Init, LoopInv, RepeatHalts
<1>2. TypeOK /\ LoopInv /\ [Next]_vars => LoopInv'
  BY LoopInvStep
<1>3. LoopInv => RepeatHalts
  BY DEF LoopInv
<1> QED BY <1>1, <1>2, <1>3, AgentLoopTyping, PTL DEF Spec

-----------------------------------------------------------------------------
(* The destructive cap. *)

\* While the run goes on the streak is the destructive run of the record.
CapInv ==
  /\ CapExact
  /\ pc # "ended" /\ Cap > 0 =>
       streak = Cardinality(DestructiveRun(steps)) /\ streak < Cap

LEMMA RunMembers ==
  ASSUME NEW s \in Seq(Step)
  PROVE  DestructiveRun(s) =
           {i \in 1 .. Len(s) : s[i].outcome = "ok" /\
              \A j \in i .. Len(s) : s[j].outcome = "ok" => s[j].call \in Destructive}
BY DEF DestructiveRun, DestructiveTail

LEMMA RunIsFinite ==
  ASSUME NEW s \in Seq(Step)
  PROVE  /\ Cardinality(DestructiveRun(s)) \in Nat
         /\ Cardinality(DestructiveRun(s) \cup {Len(s) + 1}) = Cardinality(DestructiveRun(s)) + 1
<1>1. DestructiveRun(s) \subseteq 1 .. Len(s)
  BY RunMembers
<1>2. IsFiniteSet(DestructiveRun(s))
  BY <1>1, FS_Interval, FS_Subset
<1>3. Len(s) + 1 \notin DestructiveRun(s)
  BY <1>1
<1> QED BY <1>2, <1>3, FS_CardinalityType, FS_AddElement

\* maybe_halt_on_destructive_cap: a live success extends the run or ends it,
\* and no other step touches it.
LEMMA RunAfterStep ==
  ASSUME NEW s \in Seq(Step), NEW x \in Step
  PROVE  DestructiveRun(Append(s, x)) =
           IF x.outcome # "ok" THEN DestructiveRun(s)
           ELSE IF x.call \in Destructive THEN DestructiveRun(s) \cup {Len(s) + 1} ELSE {}
<1> DEFINE t == Append(s, x)
<1>1. /\ t \in Seq(Step) /\ Len(t) = Len(s) + 1 /\ t[Len(s) + 1] = x
      /\ \A i \in 1 .. Len(s) : t[i] = s[i]
  OBVIOUS
<1>2. DestructiveRun(t) =
        {i \in 1 .. Len(t) : t[i].outcome = "ok" /\
           \A j \in i .. Len(t) : t[j].outcome = "ok" => t[j].call \in Destructive}
  BY <1>1, RunMembers
<1>3. DestructiveRun(s) =
        {i \in 1 .. Len(s) : s[i].outcome = "ok" /\
           \A j \in i .. Len(s) : s[j].outcome = "ok" => s[j].call \in Destructive}
  BY RunMembers
<1> HIDE DEF t
<1>4. CASE x.outcome # "ok"
  BY <1>1, <1>2, <1>3, <1>4 DEF t
<1>5. CASE x.outcome = "ok" /\ x.call \in Destructive
  BY <1>1, <1>2, <1>3, <1>5 DEF t
<1>6. CASE x.outcome = "ok" /\ x.call \notin Destructive
  <2>1. ASSUME NEW i \in 1 .. Len(t) PROVE Len(t) \in i .. Len(t)
    BY <1>1
  <2> QED BY <1>1, <1>2, <1>6, <2>1 DEF t
<1> QED BY <1>4, <1>5, <1>6 DEF t

LEMMA CapInvStep ==
  ASSUME TypeOK, CapInv, [Next]_vars
  PROVE  CapInv'
<1> USE DEF TypeOK
<1> DEFINE run == DestructiveRun(steps)
<1>0. Cardinality(run) \in Nat /\ Cardinality({}) = 0
  BY RunIsFinite, FS_EmptySet
<1>1. CASE Quiet
  BY <1>1 DEF Quiet, CapInv, CapExact, counterVars
<1>2. CASE UNCHANGED vars
  BY <1>2 DEF vars, CapInv, CapExact, counterVars, endVars
<1>3. ASSUME NEW c \in Call, NEW outcome \in Outcome \ {"ok"}, NEW e \in Text,
             pc # "ended", PushStep(c, outcome, e), UNCHANGED streak,
             terminal' # "ConsecutiveDestructiveCap"
      PROVE  CapInv'
  <2> DEFINE x == [call |-> c, outcome |-> outcome, err |-> e]
  <2>1. x \in Step /\ x.outcome # "ok" /\ steps' = Append(steps, x)
    BY <1>3, PushedStep DEF PushStep
  <2>2. DestructiveRun(steps') = run
    BY <2>1, RunAfterStep
  <2> QED BY <1>0, <1>3, <2>2 DEF CapInv, CapExact
<1>4. ASSUME NEW c \in Call, Skip(c) PROVE CapInv'
  <2>1. terminal # "ConsecutiveDestructiveCap"
    BY <1>0, <1>4 DEF Skip, CapInv, CapExact
  <2> QED BY <1>3, <1>4, <2>1 DEF Skip, Outcome, Text
<1>5. ASSUME NEW c \in Call, Rejection(c) PROVE CapInv'
  <2>1. terminal # "ConsecutiveDestructiveCap"
    BY <1>0, <1>5 DEF Rejection, CapInv, CapExact
  <2> QED BY <1>3, <1>5, <2>1 DEF Rejection, Outcome, Text, counterVars
<1>6. ASSUME NEW c \in Call, NEW outcome \in Outcome, NEW e \in ErrorText \cup GuardText,
             NEW n \in {stateErrors + 1, runnerErrors + 1}, Failing(c, outcome, e, n)
      PROVE  CapInv'
  <2>1. terminal # "ConsecutiveDestructiveCap"
    BY <1>0, <1>6 DEF Failing, CapInv, CapExact
  <2>2. terminal' # "ConsecutiveDestructiveCap" /\ PushStep(c, outcome, e)
    BY <1>6, <2>1 DEF Failing, RecordFailure, End, GoOn, endVars
  <2> QED BY <1>3, <1>6, <2>2 DEF Failing, Outcome, Text
<1>7. ASSUME NEW c \in Call, Success(c) PROVE CapInv'
  <2> DEFINE x == [call |-> c, outcome |-> "ok", err |-> "none"]
  <2>1. x \in Step /\ x.outcome = "ok" /\ x.call = c /\ steps' = Append(steps, x)
    BY <1>7, PushedStep DEF Success, PushStep, Outcome, Text
  <2>2. DestructiveRun(steps') = IF c \in Destructive THEN run \cup {Len(steps) + 1} ELSE {}
    BY <2>1, RunAfterStep
  <2>3. Cardinality(DestructiveRun(steps'))
          = IF c \in Destructive THEN Cardinality(run) + 1 ELSE 0
    BY <1>0, <2>2, RunIsFinite
  <2>4. Cap > 0 => StreakAfter(c) = Cardinality(DestructiveRun(steps'))
    BY <1>7, <2>3 DEF Success, CapInv, StreakAfter
  <2>5. terminal # "ConsecutiveDestructiveCap"
    BY <1>0, <1>7 DEF Success, CapInv, CapExact
  <2>6. Cardinality(DestructiveRun(steps')) \in Nat
    BY <1>0, <2>3
  <2>7. CASE CapReached(c)
    BY <1>7, <2>4, <2>6, <2>7 DEF Success, CapReached, CapInv, CapExact
  <2>8. CASE ~CapReached(c)
    BY <1>7, <2>4, <2>5, <2>6, <2>8 DEF Success, CapReached, CapInv, CapExact
  <2> QED BY <2>7, <2>8
<1> QED BY <1>1, <1>2, <1>4, <1>5, <1>6, <1>7, StepKinds

\* The destructive cap halts the run at exactly the Cap-th live destructive
\* success in a row.
THEOREM CapExactHolds == Spec => []CapExact
<1>1. Init => CapInv
  <2>1. DestructiveRun(<<>>) = {} /\ Cardinality({}) = 0
    BY FS_EmptySet DEF DestructiveRun, DestructiveTail
  <2> SUFFICES ASSUME Init PROVE CapInv
    OBVIOUS
  <2>2. Cardinality(DestructiveRun(steps)) = 0 /\ streak = 0 /\ terminal = "none"
    BY <2>1 DEF Init
  <2> QED BY <2>2 DEF CapInv, CapExact
<1>2. TypeOK /\ CapInv /\ [Next]_vars => CapInv'
  BY CapInvStep
<1>3. CapInv => CapExact
  BY DEF CapInv
<1> QED BY <1>1, <1>2, <1>3, AgentLoopTyping, PTL DEF Spec

-----------------------------------------------------------------------------
(* What reaches the MCP. *)

\* The operator is asked only about a call that needs it.
Asked == pc = "asking" => \A c \in call : c \notin Managed /\ NeedsApproval(c)

LEMMA AskedStep == ASSUME TypeOK, Asked, [Next]_vars PROVE Asked'
<1>1. ASSUME NEW m \in Mutation, NEW c \in Call, TurnAsks(m, c) PROVE Asked'
  BY <1>1 DEF TurnAsks, Asked, NeedsApproval
<1>2. CASE pc' # "asking"
  BY <1>2 DEF Asked
<1>3. CASE UNCHANGED vars
  BY <1>3 DEF vars, Asked, NeedsApproval
<1>4. ASSUME pc' = "asking", Next PROVE UNCHANGED vars \/ \E m \in Mutation, c \in Call : TurnAsks(m, c)
  BY <1>4 DEF Next, Observe, StepsExhausted, LlmReplies, OperatorReplies, ToolReturns, VisionReplies,
     Terminated, LlmFails, TurnDone, TurnReplans, TurnPatchMalformed, TurnPatch, TurnSkipped,
     TurnDispatched, TurnBlocked, RecordFailure, ApprovalLost, Approve, Reject, ToolOk, ToolErr,
     VerifyDone, End, GoOn
<1> QED BY <1>1, <1>2, <1>3, <1>4

\* A call is handed to the MCP only if the three guards and the policy let it
\* through, and a call the policy asks about only by the operator's answer to
\* that very call.
THEOREM OnlyPermittedRunHolds == Spec => OnlyPermittedRun
<1> DEFINE Permitted == pc # "dispatch" /\ pc' = "dispatch" =>
             \A c \in call' :
               /\ c \notin Managed /\ (c \notin Observation => Policy[c] # "Deny")
               /\ NeedsApproval(c) => pc = "asking" /\ c \in call
<1>1. Init => Asked
  BY DEF Init, Asked
<1>2. Asked /\ Next => Permitted
  <2> SUFFICES ASSUME Asked, Next, pc # "dispatch", pc' = "dispatch" PROVE Permitted
    OBVIOUS
  <2>1. ASSUME NEW m \in Mutation, NEW c \in Call, TurnDispatched(m, c) PROVE Permitted
    BY <2>1 DEF TurnDispatched, Dispatchable
  <2>2. ASSUME NEW c \in Call, Approve(c) PROVE Permitted
    BY <2>2 DEF Approve, Asked, NeedsApproval
  <2>3. \/ \E m \in Mutation, c \in Call : TurnDispatched(m, c)
        \/ \E c \in Call : Approve(c)
    BY DEF Next, Observe, StepsExhausted, LlmReplies, OperatorReplies, ToolReturns, VisionReplies,
       Terminated, LlmFails, TurnDone, TurnReplans, TurnPatchMalformed, TurnPatch, TurnSkipped,
       TurnAsks, TurnBlocked, RecordFailure, ApprovalLost, Reject, ToolOk, ToolErr,
       VerifyDone, End, GoOn, vars
  <2> QED BY <2>1, <2>2, <2>3
<1>3. Asked /\ [Next]_vars => [Permitted]_vars
  BY <1>2
<1>4. TypeOK /\ Asked /\ [Next]_vars => Asked'
  BY AskedStep
<1> QED BY <1>1, <1>3, <1>4, AgentLoopTyping, PTL DEF Spec, OnlyPermittedRun

-----------------------------------------------------------------------------
(* The records of recoveries. *)

\* The live successes over open failures.
Recovered(s) == {i \in DOMAIN s : s[i].outcome = "ok" /\ OpenErrors(SubSeq(s, 1, i - 1)) # {}}

LEMMA RecoveredAfterStep ==
  ASSUME NEW s \in Seq(Step), NEW x \in Step
  PROVE  /\ Cardinality(Recovered(s)) \in Nat
         /\ Cardinality(Recovered(Append(s, x))) =
              Cardinality(Recovered(s)) + (IF x.outcome = "ok" /\ OpenErrors(s) # {} THEN 1 ELSE 0)
<1> DEFINE t == Append(s, x)
<1>1. /\ t \in Seq(Step) /\ Len(t) = Len(s) + 1 /\ t[Len(s) + 1] = x /\ Len(s) \in Nat
      /\ \A i \in 1 .. Len(s) : t[i] = s[i]
  OBVIOUS
<1>2. SubSeq(t, 1, Len(s)) = s
  <2>1. t = s \o <<x>> /\ <<x>> \in Seq(Step)
    BY AppendIsConcat
  <2>2. CASE Len(s) = 0
    <3>1. s = <<>>
      BY <2>2
    <3> QED BY <1>1, <2>2, <3>1, SubSeqEmpty
  <2>3. CASE Len(s) # 0
    <3>1. 1 \in 1 .. Len(s) /\ Len(s) \in 1 .. Len(s)
      BY <1>1, <2>3
    <3> QED BY <2>1, <3>1, SubSeqOfConcat1, SubSeqFull
  <2> QED BY <2>2, <2>3
<1>3. ASSUME NEW i \in 1 .. Len(s) PROVE SubSeq(t, 1, i - 1) = SubSeq(s, 1, i - 1)
  <2>1. t = s \o <<x>> /\ <<x>> \in Seq(Step)
    BY AppendIsConcat
  <2>2. CASE i = 1
    BY <2>2, SubSeqEmpty
  <2>3. CASE i # 1
    <3>1. 1 \in 1 .. Len(s) /\ i - 1 \in 1 .. Len(s)
      BY <1>1, <2>3
    <3> QED BY <2>1, <3>1, SubSeqOfConcat1
  <2> QED BY <2>2, <2>3
<1> HIDE DEF t
<1>4. Recovered(t) = Recovered(s) \cup (IF x.outcome = "ok" /\ OpenErrors(s) # {} THEN {Len(s) + 1} ELSE {})
  <2> DEFINE before(z, i) == OpenErrors(SubSeq(z, 1, i - 1))
  <2>1. DOMAIN t = 1 .. Len(s) + 1 /\ DOMAIN s = 1 .. Len(s)
    BY <1>1
  <2>2. /\ \A i \in 1 .. Len(s) : before(t, i) = before(s, i)
        /\ before(t, Len(s) + 1) = OpenErrors(s)
    <3>1. (Len(s) + 1) - 1 = Len(s)
      BY <1>1
    <3> QED BY <1>2, <1>3, <3>1
  <2>3. /\ Recovered(t) = {i \in 1 .. Len(s) + 1 : t[i].outcome = "ok" /\ before(t, i) # {}}
        /\ Recovered(s) = {i \in 1 .. Len(s) : s[i].outcome = "ok" /\ before(s, i) # {}}
    BY <2>1, Zenon DEF Recovered
  <2> HIDE DEF before
  <2>4. \A i \in 1 .. Len(s) + 1 : i \in 1 .. Len(s) \/ i = Len(s) + 1
    BY <1>1
  <2>5. /\ \A i \in 1 .. Len(s) : i \in 1 .. Len(s) + 1
        /\ Len(s) + 1 \in 1 .. Len(s) + 1 /\ Len(s) + 1 \notin 1 .. Len(s)
    BY <1>1
  <2>6. \A i \in 1 .. Len(s) : i \in Recovered(t) <=> i \in Recovered(s)
    BY <1>1, <2>2, <2>3, <2>5
  <2>7. Len(s) + 1 \in Recovered(t) <=> x.outcome = "ok" /\ OpenErrors(s) # {}
    BY <1>1, <2>2, <2>3, <2>5
  <2>8. Recovered(s) \subseteq 1 .. Len(s) /\ Recovered(t) \subseteq 1 .. Len(s) + 1
    BY <2>3
  <2> QED BY <2>4, <2>5, <2>6, <2>7, <2>8
<1>5. Recovered(s) \subseteq 1 .. Len(s) /\ IsFiniteSet(1 .. Len(s))
  <2>1. DOMAIN s = 1 .. Len(s)
    BY <1>1
  <2>2. Recovered(s) \subseteq 1 .. Len(s)
    BY <2>1, Zenon DEF Recovered
  <2> QED BY <1>1, <2>2, FS_Interval
<1>6. IsFiniteSet(Recovered(s)) /\ Len(s) + 1 \notin Recovered(s)
  BY <1>1, <1>5, FS_Subset
<1>7. /\ Cardinality(Recovered(s)) \in Nat
      /\ Cardinality(Recovered(s) \cup {Len(s) + 1}) = Cardinality(Recovered(s)) + 1
  BY <1>6, FS_CardinalityType, FS_AddElement
<1>8. CASE x.outcome = "ok" /\ OpenErrors(s) # {}
  BY <1>4, <1>7, <1>8 DEF t
<1>9. CASE ~(x.outcome = "ok" /\ OpenErrors(s) # {})
  <2>1. Recovered(t) = Recovered(s)
    BY <1>4, <1>9
  <2> QED BY <1>7, <1>9, <2>1 DEF t
<1> QED BY <1>8, <1>9

LEMMA RecoveredStep ==
  ASSUME TypeOK, ErrorBudget, RecoveryRecorded, [Next]_vars
  PROVE  RecoveryRecorded'
<1>0. /\ steps \in Seq(Step) /\ recoveries \in Nat
      /\ recoveries = Cardinality(Recovered(steps))
      /\ runnerErrors > 0 <=> OpenErrors(steps) # {}
  BY DEF TypeOK, ErrorBudget, RecoveryRecorded, Recovered
<1>1. ASSUME NEW c \in Call, NEW outcome \in Outcome \ {"ok"}, NEW e \in Text,
             PushStep(c, outcome, e), UNCHANGED recoveries
      PROVE  RecoveryRecorded'
  <2> DEFINE x == [call |-> c, outcome |-> outcome, err |-> e]
  <2>1. x \in Step /\ x.outcome # "ok" /\ steps' = Append(steps, x)
    BY <1>1, PushedStep DEF PushStep
  <2> HIDE DEF x
  <2>2. Cardinality(Recovered(steps')) = Cardinality(Recovered(steps))
    BY <1>0, <2>1, RecoveredAfterStep
  <2> QED BY <1>0, <1>1, <2>2 DEF RecoveryRecorded, Recovered
<1>2. ASSUME NEW c \in Call, ToolOk(c) PROVE RecoveryRecorded'
  <2> DEFINE x == [call |-> c, outcome |-> "ok", err |-> "none"]
  <2>1. x \in Step /\ x.outcome = "ok" /\ steps' = Append(steps, x)
    BY <1>2, PushedStep DEF ToolOk, PushStep, Outcome, Text
  <2>2. recoveries' = recoveries + (IF runnerErrors > 0 THEN 1 ELSE 0)
    BY <1>0, <1>2 DEF ToolOk, CloseRecovery, episodeVars
  <2> HIDE DEF x
  <2>3. Cardinality(Recovered(steps')) =
          Cardinality(Recovered(steps)) + (IF OpenErrors(steps) # {} THEN 1 ELSE 0)
    BY <1>0, <2>1, RecoveredAfterStep
  <2> QED BY <1>0, <2>2, <2>3 DEF RecoveryRecorded, Recovered
<1>3. ASSUME NEW m \in Mutation, NEW c \in Call, TurnSkipped(m, c) PROVE RecoveryRecorded'
  BY <1>1, <1>3 DEF TurnSkipped, Outcome, Text, episodeVars
<1>4. ASSUME NEW m \in Mutation, NEW c \in Call, NEW g \in GuardText, TurnBlocked(m, c, g)
      PROVE  RecoveryRecorded'
  <2>1. PushStep(c, "blocked", g) /\ "blocked" \in Outcome \ {"ok"} /\ g \in Text /\ UNCHANGED recoveries
    BY <1>4 DEF TurnBlocked, RecordFailure, Outcome, Text, episodeVars
  <2> QED BY <1>1, <2>1
<1>5. ASSUME NEW c \in Call, Reject(c) PROVE RecoveryRecorded'
  BY <1>1, <1>5 DEF Reject, Outcome, Text, episodeVars
<1>6. ASSUME NEW c \in Call, NEW e \in ErrorText, ToolErr(c, e) PROVE RecoveryRecorded'
  <2>1. PushStep(c, "error", e) /\ "error" \in Outcome \ {"ok"} /\ e \in Text /\ UNCHANGED recoveries
    BY <1>6 DEF ToolErr, RecordFailure, Outcome, Text, episodeVars
  <2> QED BY <1>1, <2>1
<1>7. CASE UNCHANGED <<steps, recoveries>>
  BY <1>7 DEF RecoveryRecorded
<1> QED
  BY <1>2, <1>3, <1>4, <1>5, <1>6, <1>7
  DEF Next, Observe, StepsExhausted, LlmReplies, OperatorReplies, ToolReturns, VisionReplies,
      Terminated, LlmFails, TurnDone, TurnReplans, TurnPatchMalformed, TurnPatch,
      TurnDispatched, TurnAsks, ApprovalLost, Approve, VerifyDone, episodeVars, vars

\* The conditions under which the phase is Recovering, and an entry snapshot of
\* which no success has come since.
Due == runnerErrors > 0 \/ Len(steps) \in lastReplan
Fresh == \E e \in snapshot : \A i \in e.step + 1 .. Len(steps) : ~IsSuccess(steps[i])

\* A turn that is due is one of a recovery with its entry.  Between two turns
\* the phase may lag behind: a failure makes the next turn enter the recovery,
\* and what is left of an earlier one is not due.
EpisodeInv ==
  /\ iter = 0 => runnerErrors = 0 /\ lastReplan = {}
  /\ pc \notin {"top", "ended"} => iter > 0
  /\ \A k \in lastReplan : k <= Len(steps)
  /\ pc \in {"llm", "asking", "dispatch"} => (Due <=> phase = "Recovering") /\ (Due => Fresh)
  /\ pc = "top" /\ Due /\ phase = "Recovering" => Fresh

\* A step that is no success leaves an entry fresh.
LEMMA FreshKept ==
  ASSUME TypeOK, NEW x \in Step, ~IsSuccess(x), steps' = Append(steps, x), snapshot' = snapshot, Fresh
  PROVE  Fresh'
<1>1. PICK e \in snapshot : \A i \in e.step + 1 .. Len(steps) : ~IsSuccess(steps[i])
  BY DEF Fresh
<1>2. /\ steps \in Seq(Step) /\ Len(steps') = Len(steps) + 1 /\ steps'[Len(steps) + 1] = x
      /\ \A i \in 1 .. Len(steps) : steps'[i] = steps[i]
      /\ e.step \in Nat
  BY DEF TypeOK, IsOption, Entry
<1>3. ASSUME NEW i \in e.step + 1 .. Len(steps') PROVE ~IsSuccess(steps'[i])
  <2>1. i \in 1 .. Len(steps) \/ i = Len(steps) + 1
    BY <1>2
  <2> QED BY <1>1, <1>2, <2>1
<1> QED BY <1>3 DEF Fresh

LEMMA EpisodeStep ==
  ASSUME TypeOK, EpisodeInv, [Next]_vars
  PROVE  EpisodeInv'
<1>0. steps \in Seq(Step) /\ runnerErrors \in Nat /\ iter \in Nat /\ lastReplan \subseteq Nat
  BY DEF TypeOK, IsOption
<1>1. CASE Observe
  <2>1. /\ iter' = iter + 1 /\ pc' = "llm" /\ phase' = Infer(depth, runnerErrors, lastReplan, Len(steps))
        /\ snapshot' = IF iter > 0 /\ phase # "Recovering" /\ phase' = "Recovering"
                       THEN {[step |-> Len(steps), errors |-> runnerErrors]}
                       ELSE snapshot
        /\ UNCHANGED <<steps, runnerErrors, lastReplan>> /\ pc = "top"
    BY <1>1 DEF Observe, counterVars, taskVars
  <2>2. Due <=> phase' = "Recovering"
    BY <1>0, <2>1 DEF Due, Infer
  <2>3. ASSUME Due PROVE Fresh'
    <3>1. iter > 0
      BY <1>0, <2>3 DEF Due, EpisodeInv
    <3>2. CASE phase = "Recovering"
      BY <2>1, <2>3, <3>2 DEF EpisodeInv, Fresh
    <3>3. CASE phase # "Recovering"
      <4>1. snapshot' = {[step |-> Len(steps), errors |-> runnerErrors]}
        BY <2>1, <2>2, <2>3, <3>1, <3>3
      <4>2. \A i \in Len(steps) + 1 .. Len(steps') : FALSE
        BY <1>0, <2>1
      <4> QED BY <4>1, <4>2 DEF Fresh
    <3> QED BY <3>2, <3>3
  <2> QED BY <1>0, <2>1, <2>2, <2>3 DEF EpisodeInv, Due
<1>2. ASSUME NEW x \in Step, steps' = Append(steps, x), IsSuccess(x), pc' \in {"top", "ended"},
             UNCHANGED <<iter, lastReplan>>, runnerErrors' = 0, pc \notin {"top", "ended"}
      PROVE  EpisodeInv'
  <2>1. Len(steps') = Len(steps) + 1 /\ Len(steps) \in Nat
    BY <1>0, <1>2
  <2>2. ~Due' /\ \A k \in lastReplan' : k <= Len(steps')
    BY <1>0, <1>2, <2>1 DEF Due, EpisodeInv
  <2> QED BY <1>2, <2>2 DEF EpisodeInv
<1>3. ASSUME NEW x \in Step, steps' = Append(steps, x), ~IsSuccess(x), pc' \in {"top", "ended"},
             UNCHANGED <<iter, lastReplan, phase, snapshot>>, pc \in {"llm", "asking", "dispatch"}
      PROVE  EpisodeInv'
  <2>1. Len(steps') = Len(steps) + 1 /\ Len(steps) \in Nat
    BY <1>0, <1>3
  <2>2. \A k \in lastReplan' : k <= Len(steps')
    BY <1>0, <1>3, <2>1 DEF EpisodeInv
  <2>3. phase' = "Recovering" => Fresh'
    BY <1>3, FreshKept DEF EpisodeInv
  <2> QED BY <1>3, <2>2, <2>3 DEF EpisodeInv
<1>4. ASSUME NEW m \in Mutation, NEW c \in Call, TurnSkipped(m, c) PROVE EpisodeInv'
  <2> DEFINE x == [call |-> c, outcome |-> "skipped", err |-> "none"]
  <2>1. x \in Step /\ IsSuccess(x) /\ steps' = Append(steps, x)
    BY <1>4, PushedStep DEF TurnSkipped, PushStep, Outcome, Text
  <2> HIDE DEF x
  <2> QED BY <1>2, <1>4, <2>1 DEF TurnSkipped, GoOn
<1>5. ASSUME NEW c \in Call, ToolOk(c) PROVE EpisodeInv'
  <2> DEFINE x == [call |-> c, outcome |-> "ok", err |-> "none"]
  <2>1. x \in Step /\ IsSuccess(x) /\ steps' = Append(steps, x)
    BY <1>5, PushedStep DEF ToolOk, PushStep, Outcome, Text
  <2>2. /\ pc = "dispatch" /\ pc' \in {"top", "ended"} /\ runnerErrors' = 0
        /\ UNCHANGED <<iter, lastReplan>>
    BY <1>5 DEF ToolOk, End, GoOn, taskVars
  <2> HIDE DEF x
  <2> QED BY <1>2, <2>1, <2>2
<1>6. ASSUME NEW c \in Call, NEW outcome \in {"error", "blocked"}, NEW e \in ErrorText \cup GuardText,
             NEW n, RecordFailure(c, outcome, e, n), pc \in {"llm", "asking", "dispatch"},
             UNCHANGED <<iter, lastReplan, phase, snapshot>>
      PROVE  EpisodeInv'
  <2> DEFINE x == [call |-> c, outcome |-> outcome, err |-> e]
  <2>1. x \in Step /\ ~IsSuccess(x) /\ steps' = Append(steps, x)
    BY <1>6, PushedStep DEF RecordFailure, PushStep, Outcome, Text
  <2>2. pc' \in {"top", "ended"}
    BY <1>6 DEF RecordFailure, End, GoOn
  <2> HIDE DEF x
  <2> QED BY <1>3, <1>6, <2>1, <2>2
<1>7. ASSUME NEW m \in Mutation, NEW c \in Call, NEW g \in GuardText, TurnBlocked(m, c, g)
      PROVE  EpisodeInv'
  BY <1>6, <1>7 DEF TurnBlocked, episodeVars
<1>8. ASSUME NEW c \in Call, NEW e \in ErrorText, ToolErr(c, e) PROVE EpisodeInv'
  BY <1>6, <1>8 DEF ToolErr, taskVars, episodeVars
<1>9. ASSUME NEW c \in Call, Reject(c) PROVE EpisodeInv'
  <2> DEFINE x == [call |-> c, outcome |-> "rejected", err |-> "none"]
  <2>1. x \in Step /\ ~IsSuccess(x) /\ steps' = Append(steps, x)
    BY <1>9, PushedStep DEF Reject, PushStep, Outcome, Text
  <2> HIDE DEF x
  <2> QED BY <1>3, <1>9, <2>1 DEF Reject, GoOn, taskVars, episodeVars
<1>10. ASSUME NEW m \in Mutation, TurnReplans(m) \/ TurnPatchMalformed(m) PROVE EpisodeInv'
  <2>1. /\ pc = "llm" /\ pc' = "top" /\ UNCHANGED <<iter, steps, runnerErrors, snapshot>>
        /\ lastReplan' \in {lastReplan, {Len(steps)}}
        /\ phase' = Infer(depth', runnerErrors, lastReplan, Len(steps))
    BY <1>10 DEF TurnReplans, TurnPatchMalformed, GoOn, ObserveInTurn, counterVars, episodeVars
  <2>2. phase' = "Recovering" => Due
    BY <1>0, <2>1 DEF Due, Infer
  <2>3. phase' = "Recovering" => Fresh'
    BY <2>1, <2>2 DEF EpisodeInv, Fresh
  <2>4. \A k \in lastReplan' : k <= Len(steps')
    BY <1>0, <2>1 DEF EpisodeInv
  <2> QED BY <1>0, <2>1, <2>3, <2>4 DEF EpisodeInv
<1>11. ASSUME NEW m \in Mutation, NEW c \in Call, TurnAsks(m, c) \/ TurnDispatched(m, c)
       PROVE  EpisodeInv'
  <2>1. /\ pc = "llm" /\ pc' \in {"asking", "dispatch"}
        /\ UNCHANGED <<iter, steps, runnerErrors, lastReplan, snapshot>>
        /\ phase' \in {phase, Infer(depth', runnerErrors, lastReplan, Len(steps))}
    BY <1>11 DEF TurnAsks, TurnDispatched, ObserveInTurn, counterVars, episodeVars
  <2>2. Due <=> phase' = "Recovering"
    BY <1>0, <2>1 DEF Due, Infer, EpisodeInv
  <2> QED BY <2>1, <2>2 DEF EpisodeInv, Due, Fresh
<1>12. ASSUME NEW c \in Call, Approve(c) PROVE EpisodeInv'
  <2>1. /\ pc = "asking" /\ pc' = "dispatch" /\ UNCHANGED <<iter, steps, runnerErrors, lastReplan, snapshot>>
        /\ phase' = Infer(depth, runnerErrors, lastReplan, Len(steps))
    BY <1>12 DEF Approve, counterVars, taskVars, episodeVars
  <2>2. Due <=> phase' = "Recovering"
    BY <1>0, <2>1 DEF Due, Infer
  <2> QED BY <2>1, <2>2 DEF EpisodeInv, Due, Fresh
<1>13. ASSUME pc' \in {"verify", "ended"}, pc' = "verify" => pc = "llm",
              UNCHANGED <<iter, steps, runnerErrors, lastReplan>>
       PROVE  EpisodeInv'
  BY <1>13 DEF EpisodeInv
<1>14. ASSUME NEW m \in Mutation, TurnDone(m) \/ TurnPatch(m) PROVE EpisodeInv'
  BY <1>13, <1>14 DEF TurnDone, TurnPatch, counterVars
<1>15. CASE StepsExhausted \/ LlmFails \/ ApprovalLost \/ \E disagrees \in BOOLEAN : VerifyDone(disagrees)
  BY <1>13, <1>15 DEF StepsExhausted, LlmFails, ApprovalLost, VerifyDone, End, counterVars, taskVars
<1>16. CASE UNCHANGED vars
  BY <1>16 DEF vars, counterVars, taskVars, episodeVars, EpisodeInv, Due, Fresh
<1> QED
  BY <1>1, <1>4, <1>5, <1>7, <1>8, <1>9, <1>10, <1>11, <1>12, <1>14, <1>15, <1>16
  DEF Next, LlmReplies, OperatorReplies, ToolReturns, VisionReplies, Terminated

\* Every live success over open failures, and no other step, leaves one record
\* of a recovery, and the episodic writer is told of it with an entry that
\* belongs to it.
THEOREM RecoveryToldHolds == Spec => []RecoveryTold
<1>1. Init => EpisodeInv
  BY DEF Init, EpisodeInv
<1>2. Init => RecoveryRecorded
  <2>1. Recovered(<<>>) = {} /\ Cardinality({}) = 0
    BY FS_EmptySet DEF Recovered
  <2> SUFFICES ASSUME Init PROVE RecoveryRecorded
    OBVIOUS
  <2>2. steps = <<>> /\ recoveries = 0
    BY DEF Init
  <2> QED BY <2>1, <2>2 DEF RecoveryRecorded, Recovered
<1>3. TypeOK /\ ErrorBudget /\ RecoveryRecorded /\ [Next]_vars => RecoveryRecorded'
  BY RecoveredStep
<1>4. TypeOK /\ EpisodeInv /\ [Next]_vars => EpisodeInv'
  BY EpisodeStep
<1>5. RecoveryRecorded /\ EpisodeInv => RecoveryTold
  BY DEF RecoveryTold, EpisodeInv, EpisodeFresh, Due, Fresh
<1> QED BY <1>1, <1>2, <1>3, <1>4, <1>5, AgentLoopTyping, ErrorBudgetHolds, PTL DEF Spec
=============================================================================
