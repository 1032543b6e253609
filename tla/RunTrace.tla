------------------------------ MODULE RunTrace ------------------------------
(***************************************************************************)
(* The two accounts of an agent run: the one its events.jsonl keeps, which *)
(* run_trace.rs reads back after a restart, and the one the interface      *)
(* builds as it listens (assistantSlice.ts, useAgentEvents.ts).            *)
(*                                                                         *)
(* The engine sends its events to a forwarder, which appends each to the   *)
(* file and emits it.  The task that runs the engine writes to both sides  *)
(* past the forwarder: the operator's decision on a disagreement goes      *)
(* straight to the file, the end of the run straight to the interface,     *)
(* after a barrier has come back through the forwarder.  A stop turns the  *)
(* forwarder off: what is queued still goes to the file, and no further.   *)
(***************************************************************************)
EXTENDS Naturals, Sequences, SequencesExt, FiniteSetsExt

CONSTANTS
    Phases,         \* of the task state, the subgoal on top included
    FirstPhase,     \* exploring
    MaxEvents,      \* bound: events the engine sends before its end
    ChannelCap      \* outputs the event channel holds, 64 in the code

VARIABLES
    pc,         \* of the run task
    result,     \* what the run ended with
    step,       \* index of the next step
    sent,       \* events the engine has sent before its end
    outbox,     \* events the engine is sending, one await after the other
    chan,       \* the event channel
    forwarder,  \* is it still there?
    cancelled,  \* the run's token
    acked,      \* the barrier has come back, or its sender was dropped
    disk,       \* lines of events.jsonl
    variant,    \* success flags of the entries in the variant index
    inbox,      \* events on their way to the interface
    ui          \* the run's trace in the interface

engine == <<result, step, sent, outbox>>
vars == <<pc, engine, chan, forwarder, cancelled, acked, disk, variant, inbox, ui>>

Barrier == [type |-> "barrier"]
Halts == {"completed", "disagreed", "capped", "halted", "failed"}

NoTrace ==
    [phase |-> FirstPhase, steps |-> <<>>, deltas |-> <<>>, milestones |-> <<>>,
     terminal |-> "none"]

Init ==
    /\ pc = "start" /\ result = "none" /\ step = 0 /\ sent = 0
    /\ outbox = <<>> /\ chan = <<>> /\ forwarder = TRUE
    /\ cancelled = FALSE /\ acked = FALSE
    /\ disk = <<>> /\ variant = <<>> /\ inbox = <<>> /\ ui = NoTrace

-----------------------------------------------------------------------------
(* The trace read back: TraceBuilder.                                      *)

NextStep(t) == IF t.steps = <<>> THEN 0 ELSE Max({s.index : s \in Range(t.steps)}) + 1

SetTerminal_LastWins(t, kind, confidence) ==
    [t EXCEPT !.terminal = kind, !.sure = confidence = "hard"]
SetTerminal(t, kind, confidence) ==
    IF t.sure THEN t ELSE [t EXCEPT !.terminal = kind, !.sure = confidence = "hard"]

Handle(t, e) ==
    CASE e.type = "step"     -> [t EXCEPT !.steps = Append(@,
                                    [index |-> e.index, phase |-> t.phase, failed |-> e.failed])]
      [] e.type = "state"    -> [t EXCEPT !.phase = e.phase]
      [] e.type = "world"    -> [t EXCEPT !.deltas = Append(@, NextStep(t))]
      [] e.type = "boundary" -> IF e.kind = "terminal" THEN SetTerminal(t, "stopped", "fallback")
                                ELSE [t EXCEPT !.milestones = Append(@, <<e.kind, e.index>>)]
      [] e.type = "goal_complete" -> SetTerminal(t, "complete", "hard")
      [] e.type = "cap_hit"       -> SetTerminal(t, "stopped", "hard")
      [] e.type = "resolved"      ->
            SetTerminal(t, IF e.action = "cancel" THEN "disagreement_cancelled" ELSE "complete", "hard")
      [] OTHER -> t

Unread ==
    [phase |-> FirstPhase, steps |-> <<>>, deltas |-> <<>>, milestones |-> <<>>,
     terminal |-> "none", sure |-> FALSE]

Read(lines) == FoldLeft(Handle, Unread, lines)
Hydrated == Read(disk)

-----------------------------------------------------------------------------
(* The trace as it is shown: the handlers of the interface.                *)

Shown(t, e) ==
    CASE e.type = "step"     -> [t EXCEPT !.steps = Append(@,
                                    [index |-> e.index, phase |-> t.phase, failed |-> e.failed])]
      [] e.type = "state"    -> [t EXCEPT !.phase = e.phase]
      [] e.type = "world"    -> [t EXCEPT !.deltas = Append(@, NextStep(t))]
      [] e.type = "boundary" /\ e.kind # "terminal" ->
            [t EXCEPT !.milestones = Append(@, <<e.kind, e.index>>)]
      [] e.type = "end"      -> [t EXCEPT !.terminal = e.kind]
      [] OTHER -> t          \* cap_hit and completion_disagreement set other state

Show ==
    /\ inbox # <<>>
    /\ ui' = Shown(ui, Head(inbox)) /\ inbox' = Tail(inbox)
    /\ UNCHANGED <<pc, engine, chan, forwarder, cancelled, acked, disk, variant>>

-----------------------------------------------------------------------------
(* The run task up to the engine.                                          *)

\* The MCP server does not start, or the execution directory cannot be made.
StartFails ==
    /\ pc = "start"
    /\ pc' = "terminal" /\ result' = "failed"
    /\ UNCHANGED <<step, sent, outbox, chan, forwarder, cancelled, acked, disk, variant, inbox, ui>>

Begin ==
    /\ pc = "start" /\ pc' = "running"
    /\ UNCHANGED <<engine, chan, forwarder, cancelled, acked, disk, variant, inbox, ui>>

\* What a turn of the engine tells.
Told ==
    [type: {"step"}, index: {step}, failed: BOOLEAN] \cup [type: {"state"}, phase: Phases]
        \cup [type: {"world"}]
        \cup [type: {"boundary"}, kind: {"subgoal_completed", "recovery_succeeded"}, index: {step}]

Tell(e) ==
    /\ pc = "running" /\ outbox = <<>> /\ sent < MaxEvents
    /\ outbox' = <<e>> /\ sent' = sent + 1
    /\ step' = IF e.type = "step" THEN step + 1 ELSE step
    /\ UNCHANGED <<pc, result, chan, forwarder, cancelled, acked, disk, variant, inbox, ui>>

\* How the engine ends: a run that fails leaves without a terminal record.
LastWords(halt) ==
    LET said == [completed |-> <<[type |-> "goal_complete"]>>,
                 disagreed |-> <<[type |-> "completion_disagreement"]>>,
                 capped |-> <<[type |-> "cap_hit"]>>, halted |-> <<>>]
    IN  IF halt = "failed" THEN <<>>
        ELSE Append(said[halt], [type |-> "boundary", kind |-> "terminal", index |-> step])

Halt(halt) ==
    /\ pc = "running" /\ outbox = <<>>
    /\ outbox' = LastWords(halt) /\ result' = halt /\ pc' = "halting"
    /\ UNCHANGED <<step, sent, chan, forwarder, cancelled, acked, disk, variant, inbox, ui>>

\* emit_event waits for room; with the forwarder gone the event is dropped.
Send ==
    /\ outbox # <<>>
    /\ IF forwarder THEN Len(chan) < ChannelCap /\ chan' = Append(chan, Head(outbox))
       ELSE UNCHANGED chan
    /\ outbox' = Tail(outbox)
    /\ UNCHANGED <<pc, result, step, sent, forwarder, cancelled, acked, disk, variant, inbox, ui>>

-----------------------------------------------------------------------------
(* The end of the run.                                                     *)

\* The engine returns; only a run that has not failed is entered in the index.
Return ==
    /\ pc = "halting" /\ outbox = <<>>
    /\ pc' = IF result = "disagreed" THEN "deciding" ELSE "terminal"
    /\ variant' = IF result \in {"disagreed", "failed"} THEN variant
                  ELSE Append(variant, result = "completed")
    /\ UNCHANGED <<engine, chan, forwarder, cancelled, acked, disk, inbox, ui>>

\* The select takes the cancellation, perhaps over an engine that has just
\* returned, and drops the engine with what it was sending.
Cancelled ==
    /\ cancelled /\ pc \in {"start", "running", "halting"}
    /\ pc' = "terminal" /\ result' = "cancelled" /\ outbox' = <<>>
    /\ UNCHANGED <<step, sent, chan, forwarder, cancelled, acked, disk, variant, inbox, ui>>

\* await_disagreement_resolution: the operator decides, or the stop does.
Resolve(action) ==
    /\ pc = "deciding" /\ (cancelled => action = "cancel")
    /\ result' = IF action = "cancel" THEN "rejected" ELSE "confirmed"
    /\ disk' = Append(disk, [type |-> "resolved", action |-> action])
    /\ variant' = Append(variant, action = "confirm")
    /\ pc' = "terminal"
    /\ UNCHANGED <<step, sent, outbox, chan, forwarder, cancelled, acked, inbox, ui>>

SendBarrier ==
    /\ pc = "terminal"
    /\ IF forwarder
       THEN Len(chan) < ChannelCap /\ chan' = Append(chan, Barrier) /\ UNCHANGED acked
       ELSE acked' = TRUE /\ UNCHANGED chan
    /\ pc' = "waiting"
    /\ UNCHANGED <<engine, forwarder, cancelled, disk, variant, inbox, ui>>

Drained_Unawaited == TRUE
Drained == acked

EndKind ==
    CASE result \in {"completed", "confirmed"} -> "complete"
      [] result = "rejected" -> "disagreement_cancelled"
      [] result = "failed" -> "error"
      [] OTHER -> "stopped"

EmitTerminal ==
    /\ pc = "waiting" /\ Drained
    /\ inbox' = Append(inbox, [type |-> "end", kind |-> EndKind])
    /\ pc' = "done"
    /\ UNCHANGED <<engine, chan, forwarder, cancelled, acked, disk, variant, ui>>

-----------------------------------------------------------------------------
(* The forwarder.                                                          *)

Persisted_NoState(d, e) == IF e.type = "state" THEN d ELSE Append(d, e)
Persisted(d, e) == Append(d, e)

\* goal_complete is for the file only.
Forward ==
    /\ forwarder /\ ~cancelled /\ chan # <<>>
    /\ LET e == Head(chan)
       IN  IF e = Barrier THEN acked' = TRUE /\ UNCHANGED <<disk, inbox>>
           ELSE /\ disk' = Persisted(disk, e)
                /\ inbox' = IF e.type = "goal_complete" THEN inbox ELSE Append(inbox, e)
                /\ UNCHANGED acked
    /\ chan' = Tail(chan)
    /\ UNCHANGED <<pc, engine, forwarder, cancelled, variant, ui>>

Stop ==
    /\ ~cancelled /\ pc # "done"
    /\ cancelled' = TRUE
    /\ UNCHANGED <<pc, engine, chan, forwarder, acked, disk, variant, inbox, ui>>

\* drain_remaining_runner_outputs, and the receiver is dropped.
Written(d, e) == IF e = Barrier THEN d ELSE Persisted(d, e)

Drain ==
    /\ forwarder /\ cancelled
    /\ disk' = FoldLeft(Written, disk, chan)
    /\ acked' = (acked \/ pc = "waiting")
    /\ chan' = <<>> /\ forwarder' = FALSE
    /\ UNCHANGED <<pc, engine, cancelled, variant, inbox, ui>>

Next ==
    \/ StartFails \/ Begin \/ (\E e \in Told : Tell(e)) \/ (\E h \in Halts : Halt(h))
    \/ Send \/ Return \/ Cancelled \/ (\E a \in {"confirm", "cancel"} : Resolve(a))
    \/ SendBarrier \/ EmitTerminal \/ Forward \/ Stop \/ Drain \/ Show

Spec == Init /\ [][Next]_vars

-----------------------------------------------------------------------------
(* Properties.                                                             *)

\* What the interface shows of a run, at any moment at which the program might
\* be killed, is a part of what the restarted program will read back: the same
\* steps in the same phases, the same changes of the world at the same steps.
ShownIsStored ==
    /\ IsPrefix(ui.steps, Hydrated.steps)
    /\ IsPrefix(ui.deltas, Hydrated.deltas)
    /\ IsPrefix(ui.milestones, Hydrated.milestones)

Parts(t) == <<t.phase, t.steps, t.deltas, t.milestones>>

\* When the interface hears that a run is over and nobody has stopped it, it has
\* heard everything there was: the two accounts are the same, down to the kind
\* of the end, which the index of variants agrees with.  Only a run that failed
\* has left no word of its end in the file.
SameTrace ==
    ui.terminal # "none" /\ ~cancelled =>
        /\ Parts(ui) = Parts(Hydrated)
        /\ ui.terminal = IF result = "failed" THEN "error" ELSE Hydrated.terminal
        /\ variant = IF result = "failed" THEN <<>> ELSE <<Hydrated.terminal = "complete">>

\* Once the operator has decided on a disagreement, the decision is what the
\* file will tell, on whichever side of the queued terminal record it was
\* written, and whatever a stop does afterwards.
VerdictKept ==
    /\ result = "confirmed" => Hydrated.terminal = "complete"
    /\ result = "rejected" => Hydrated.terminal = "disagreement_cancelled"
=============================================================================
