---------------------------- MODULE AgentSession ----------------------------
(***************************************************************************)
(* One agent session of the desktop shell (commands/agent/): the shared    *)
(* AgentHandle, the commands run_agent, stop_agent, approve_agent_action   *)
(* and resolve_completion_disagreement, and, for every run, its task, its  *)
(* approval forwarder and its cleanup task.                                *)
(*                                                                         *)
(* The commands and the tasks run on a thread pool: a step is what one of  *)
(* them does between two waits or under one hold of the handle's mutex.    *)
(* What a run does inside a turn is AgentLoop's matter; here it goes on,   *)
(* asks for an approval or ends.                                           *)
(***************************************************************************)
EXTENDS Naturals, FiniteSets

CONSTANTS
  Run,         \* the runs requested of run_agent
  SerialStart  \* does every other command wait while run_agent is under way?

ASSUME SessionAssumption == SerialStart \in BOOLEAN

VARIABLES
  token,      \* AgentHandle::cancel_token: the run it cancels, if any
  taskHandle, \* AgentHandle::task_handle: the run, if any
  launch,     \* how far the run_agent command of a run is
  task,       \* where the run's task is
  cancelled,  \* is the run's CancellationToken cancelled?
  fwd,        \* the run's approval forwarder
  sender,     \* who holds the oneshot sender of the run's approval request
  ruling,     \* the same for its completion disagreement
  confirmed,  \* was a Confirm accepted for the run?
  fate,       \* the terminal event of the run
  cleaned     \* has its cleanup task run?

handleVars == <<token, taskHandle>>
startVars  == <<launch, cleaned>>
askVars    == <<fwd, sender>>
ruleVars   == <<ruling, confirmed>>
vars == <<handleVars, startVars, task, cancelled, askVars, ruleVars, fate>>

Ends == {"completed", "halted", "error"}
Alive(r) == task[r] \in {"boot", "turn", "waiting", "resolving", "ending"}
Starting(r) == launch[r] \in {"checked", "installed", "spawned"}

TypeOK ==
  /\ token \in SUBSET Run /\ Cardinality(token) <= 1
  /\ taskHandle \in SUBSET Run /\ Cardinality(taskHandle) <= 1
  /\ launch \in [Run -> {"new", "checked", "installed", "spawned", "stored"}]
  /\ task \in [Run -> {"none", "boot", "turn", "waiting", "resolving", "ending", "done"}]
  /\ cancelled \in [Run -> BOOLEAN] /\ cleaned \in [Run -> BOOLEAN]
  /\ fwd \in [Run -> {"off", "listen", "closing", "done"}]
  /\ sender \in [Run -> {"none", "queued", "forwarder", "handle", "operator",
                         "answered", "closed"}]
  /\ ruling \in [Run -> {"none", "handle", "confirm", "cancel", "closed"}]
  /\ confirmed \in [Run -> BOOLEAN]
  /\ fate \in [Run -> Ends \cup {"none", "confirmed", "denied", "cancelled",
                                 "unavailable", "unknown", "panicked"}]

\* A slot of the handle holds one sender: the one it held is replaced by l.
Vacate(slot, l) == [r \in Run |-> IF slot[r] = "handle" THEN l ELSE slot[r]]

EndAs(r, f) == /\ task' = [task EXCEPT ![r] = "ending"]
               /\ fate' = [fate EXCEPT ![r] = f]

\* A command other than run_agent, or the next run_agent, may start.
Admitted == SerialStart => \A r \in Run : ~Starting(r)
-----------------------------------------------------------------------------
Init ==
  /\ token = {} /\ taskHandle = {}
  /\ launch = [r \in Run |-> "new"] /\ task = [r \in Run |-> "none"]
  /\ cancelled = [r \in Run |-> FALSE] /\ cleaned = [r \in Run |-> FALSE]
  /\ fwd = [r \in Run |-> "off"] /\ sender = [r \in Run |-> "none"]
  /\ ruling = [r \in Run |-> "none"] /\ confirmed = [r \in Run |-> FALSE]
  /\ fate = [r \in Run |-> "none"]

(* run_agent. *)

\* Deviation: only the token is looked at.
EnsureIdle_TokenOnly(r) ==
  /\ Admitted /\ launch[r] = "new" /\ token = {}
  /\ launch' = [launch EXCEPT ![r] = "checked"]
  /\ UNCHANGED <<handleVars, cleaned, task, cancelled, askVars, ruleVars, fate>>

EnsureIdle(r) ==
  /\ Admitted /\ launch[r] = "new"
  /\ token = {} /\ taskHandle = {}
  /\ launch' = [launch EXCEPT ![r] = "checked"]
  /\ UNCHANGED <<handleVars, cleaned, task, cancelled, askVars, ruleVars, fate>>

Install(r) ==
  /\ launch[r] = "checked"
  /\ token' = {r}
  /\ launch' = [launch EXCEPT ![r] = "installed"]
  /\ UNCHANGED <<taskHandle, cleaned, task, cancelled, askVars, ruleVars, fate>>

Spawn(r) ==
  /\ launch[r] = "installed"
  /\ launch' = [launch EXCEPT ![r] = "spawned"]
  /\ task' = [task EXCEPT ![r] = "boot"]
  /\ fwd' = [fwd EXCEPT ![r] = "listen"]
  /\ UNCHANGED <<handleVars, cleaned, cancelled, sender, ruleVars, fate>>

StoreTask(r) ==
  /\ launch[r] = "spawned"
  /\ taskHandle' = {r}
  /\ launch' = [launch EXCEPT ![r] = "stored"]
  /\ UNCHANGED <<token, cleaned, task, cancelled, askVars, ruleVars, fate>>

(* The operator's commands. *)

\* Deviation: what is pending is dropped instead of answered.
Stop_Drops ==
  /\ Admitted /\ token \cup taskHandle # {}
  /\ cancelled' = [r \in Run |-> cancelled[r] \/ r \in token]
  /\ token' = {}
  /\ sender' = Vacate(sender, "closed")
  /\ ruling' = Vacate(ruling, "closed")
  /\ UNCHANGED <<taskHandle, startVars, task, fwd, confirmed, fate>>

\* force_stop: the token is cancelled, and what is pending is answered no.
Stop ==
  /\ Admitted /\ token \cup taskHandle # {}
  /\ cancelled' = [r \in Run |-> cancelled[r] \/ r \in token]
  /\ token' = {}
  /\ sender' = Vacate(sender, "answered")
  /\ ruling' = Vacate(ruling, "cancel")
  /\ UNCHANGED <<taskHandle, startVars, task, fwd, confirmed, fate>>

\* approve_agent_action takes the sender, releases the handle, then sends.
TakeApproval(r) ==
  /\ Admitted /\ sender[r] = "handle"
  /\ sender' = [sender EXCEPT ![r] = "operator"]
  /\ UNCHANGED <<handleVars, startVars, task, cancelled, fwd, ruleVars, fate>>

SendApproval(r) ==
  /\ sender[r] = "operator"
  /\ sender' = [sender EXCEPT ![r] = "answered"]
  /\ UNCHANGED <<handleVars, startVars, task, cancelled, fwd, ruleVars, fate>>

\* resolve_completion_disagreement sends while it holds the handle; the send
\* fails when the task no longer waits.
Resolve(r, answer) ==
  /\ Admitted /\ ruling[r] = "handle"
  /\ ruling' = [ruling EXCEPT ![r] = answer]
  /\ confirmed' = [confirmed EXCEPT ![r] = answer = "confirm" /\ task[r] = "resolving"]
  /\ UNCHANGED <<handleVars, startVars, task, cancelled, askVars, fate>>

(* The run's task. *)

\* The MCP server starts, or the start or the run's storage fails.  A run whose
\* token is cancelled by then ends at its first wait: SeesCancel.
Boot(r) ==
  /\ task[r] = "boot"
  /\ \/ ~cancelled[r] /\ task' = [task EXCEPT ![r] = "turn"] /\ UNCHANGED fate
     \/ EndAs(r, "error")
  /\ UNCHANGED <<handleVars, startVars, cancelled, askVars, ruleVars>>

\* The select on the token, around the MCP start and around the whole run.  It
\* is not biased: a reply that is ready as well may win and the turn goes on.
SeesCancel(r) ==
  /\ task[r] \in {"boot", "turn", "waiting"} /\ cancelled[r]
  /\ EndAs(r, "cancelled")
  /\ UNCHANGED <<handleVars, startVars, cancelled, askVars, ruleVars>>

\* request_approval: the channel is closed once the forwarder is gone.
Ask(r) ==
  /\ task[r] = "turn"
  /\ IF fwd[r] = "done"
     THEN EndAs(r, "unavailable") /\ UNCHANGED sender
     ELSE /\ task' = [task EXCEPT ![r] = "waiting"]
          /\ sender' = [sender EXCEPT ![r] = "queued"] /\ UNCHANGED fate
  /\ UNCHANGED <<handleVars, startVars, cancelled, fwd, ruleVars>>

HearAnswer(r) ==
  /\ task[r] = "waiting"
  /\ \/ /\ sender[r] = "answered"
        /\ task' = [task EXCEPT ![r] = "turn"] /\ UNCHANGED fate
     \/ sender[r] = "closed" /\ EndAs(r, "unavailable")
  /\ sender' = [sender EXCEPT ![r] = "none"]
  /\ UNCHANGED <<handleVars, startVars, cancelled, fwd, ruleVars>>

\* The run is over: it completed, a bound or a cap halted it, or it failed.
Finish(r) ==
  /\ task[r] = "turn"
  /\ \E f \in Ends : EndAs(r, f)
  /\ UNCHANGED <<handleVars, startVars, cancelled, askVars, ruleVars>>

\* The run halted on CompletionDisagreement: the task asks the operator.
Disagree(r) ==
  /\ task[r] = "turn"
  /\ task' = [task EXCEPT ![r] = "resolving"]
  /\ ruling' = [Vacate(ruling, "closed") EXCEPT ![r] = "handle"]
  /\ UNCHANGED <<handleVars, startVars, cancelled, askVars, confirmed, fate>>

HearRuling(r) ==
  /\ task[r] = "resolving"
  /\ \/ ruling[r] = "confirm" /\ EndAs(r, "confirmed")
     \/ ruling[r] = "cancel"  /\ EndAs(r, "denied")
     \/ ruling[r] = "closed"  /\ EndAs(r, "unknown")
  /\ UNCHANGED <<handleVars, startVars, cancelled, askVars, ruleVars>>

\* Deviation: the select is not biased towards the operator's answer.
RulingCancelled_Unbiased(r) ==
  /\ task[r] = "resolving" /\ cancelled[r]
  /\ EndAs(r, "denied")
  /\ ruling' = Vacate(ruling, "closed")
  /\ UNCHANGED <<handleVars, startVars, cancelled, askVars, confirmed>>

\* The select is biased: the token counts only while no answer is there.
RulingCancelled(r) ==
  /\ task[r] = "resolving" /\ cancelled[r] /\ ruling[r] = "handle"
  /\ EndAs(r, "denied")
  /\ ruling' = Vacate(ruling, "closed")
  /\ UNCHANGED <<handleVars, startVars, cancelled, askVars, confirmed>>

\* Emits the terminal event and signals done_tx.
Emit(r) ==
  /\ task[r] = "ending"
  /\ task' = [task EXCEPT ![r] = "done"]
  /\ UNCHANGED <<handleVars, startVars, cancelled, askVars, ruleVars, fate>>

\* A panic inside the run (AgentLoop has one) drops the task with done_tx.
Panic(r) ==
  /\ task[r] = "turn"
  /\ task' = [task EXCEPT ![r] = "done"]
  /\ fate' = [fate EXCEPT ![r] = "panicked"]
  /\ UNCHANGED <<handleVars, startVars, cancelled, askVars, ruleVars>>

(* The run's approval forwarder. *)

FwdReceive(r) ==
  /\ fwd[r] = "listen" /\ sender[r] = "queued"
  /\ IF cancelled[r]
     THEN fwd' = [fwd EXCEPT ![r] = "closing"] /\ sender' = [sender EXCEPT ![r] = "answered"]
     ELSE UNCHANGED fwd /\ sender' = [sender EXCEPT ![r] = "forwarder"]
  /\ UNCHANGED <<handleVars, startVars, task, cancelled, ruleVars, fate>>

\* install_pending_approval, and the event that shows the request.
FwdInstall(r) ==
  /\ sender[r] = "forwarder"
  /\ sender' = [Vacate(sender, "closed") EXCEPT ![r] = "handle"]
  /\ UNCHANGED <<handleVars, startVars, task, cancelled, fwd, ruleVars, fate>>

FwdCancelled(r) ==
  /\ fwd[r] = "listen" /\ sender[r] # "forwarder" /\ cancelled[r]
  /\ fwd' = [fwd EXCEPT ![r] = "closing"]
  /\ sender' = [sender EXCEPT ![r] = IF @ = "queued" THEN "answered" ELSE @]
  /\ UNCHANGED <<handleVars, startVars, task, cancelled, ruleVars, fate>>

\* The receiver is dropped, with a request that came in at the last moment.
FwdDrop(r) ==
  /\ fwd[r] = "closing"
  /\ fwd' = [fwd EXCEPT ![r] = "done"]
  /\ sender' = [sender EXCEPT ![r] = IF @ = "queued" THEN "closed" ELSE @]
  /\ UNCHANGED <<handleVars, startVars, task, cancelled, ruleVars, fate>>

\* recv returns None once the run has dropped its end.
FwdEnd(r) ==
  /\ fwd[r] = "listen" /\ sender[r] \notin {"queued", "forwarder"}
  /\ task[r] \in {"resolving", "ending", "done"}
  /\ fwd' = [fwd EXCEPT ![r] = "done"]
  /\ UNCHANGED <<handleVars, startVars, task, cancelled, sender, ruleVars, fate>>

(* The run's cleanup task. *)

Clear(r) ==
  /\ token' = {} /\ taskHandle' = {}
  /\ sender' = Vacate(sender, "closed")
  /\ ruling' = Vacate(ruling, "closed")
  /\ cleaned' = [cleaned EXCEPT ![r] = TRUE]
  /\ UNCHANGED <<launch, task, cancelled, fwd, confirmed, fate>>

\* Deviation: it waits for the approval forwarder only.
Cleanup_EarlyTask(r) ==
  /\ launch[r] = "stored" /\ fwd[r] = "done" /\ ~cleaned[r]
  /\ Clear(r)

\* Deviation: it is spawned before the task handle is stored.
Cleanup_BeforeStore(r) ==
  /\ launch[r] \in {"spawned", "stored"} /\ task[r] = "done" /\ fwd[r] = "done" /\ ~cleaned[r]
  /\ Clear(r)

Cleanup(r) ==
  /\ launch[r] = "stored" /\ task[r] = "done" /\ fwd[r] = "done" /\ ~cleaned[r]
  /\ Clear(r)
-----------------------------------------------------------------------------
Starts(r)   == EnsureIdle(r) \/ Install(r) \/ Spawn(r) \/ StoreTask(r)
Operator(r) == TakeApproval(r) \/ \E answer \in {"confirm", "cancel"} : Resolve(r, answer)
Task(r)     == \/ Boot(r) \/ Ask(r) \/ HearAnswer(r) \/ Finish(r) \/ Disagree(r)
               \/ HearRuling(r) \/ RulingCancelled(r) \/ Emit(r) \/ Panic(r)
Forwards(r) == FwdReceive(r) \/ FwdInstall(r) \/ FwdCancelled(r) \/ FwdDrop(r) \/ FwdEnd(r)

Next == Stop \/ \E r \in Run : \/ Starts(r) \/ Operator(r) \/ SendApproval(r) \/ Task(r)
                               \/ SeesCancel(r) \/ Forwards(r) \/ Cleanup(r)

Spec == Init /\ [][Next]_vars

\* The runtime polls every task it was given, and a started command goes on to
\* its end; nobody has to start a run, to stop it or to answer it.
Fairness == \A r \in Run :
  /\ WF_vars(Install(r) \/ Spawn(r) \/ StoreTask(r))
  /\ WF_vars(SendApproval(r)) /\ WF_vars(SeesCancel(r))
  /\ WF_vars(HearRuling(r) \/ RulingCancelled(r) \/ Emit(r))
  /\ WF_vars(Forwards(r)) /\ WF_vars(Cleanup(r))

FairSpec == Spec /\ Fairness
-----------------------------------------------------------------------------
(* Properties. *)

\* Two agent runs never drive the desktop at once (run_agent answers
\* "Already running" while one is alive).
OneRunAlive == \A r, s \in Run : Alive(r) /\ Alive(s) => r = s

\* The operator can stop every run that is alive: stop_agent finds its token in
\* the handle, and no cleanup of an older run has taken it out.
Stoppable == \A r \in Run : Alive(r) /\ ~cancelled[r] => token = {r}

\* A Confirm that resolve_completion_disagreement accepted decides the run,
\* also when stop_agent comes at the same moment.
ConfirmKept ==
  \A r \in Run : confirmed[r] /\ fate[r] # "none" => fate[r] = "confirmed"

\* An approval request is never lost on its way to the operator and back: no
\* run ends as approval_unavailable unless the operator stopped it.
AnsweredUnlessStopped ==
  \A r \in Run : fate[r] = "unavailable" => cancelled[r]

\* Every disagreement ends with a decision on record, a stop during the
\* adjudication included: its sender is never dropped unanswered.
DisagreementDecided == \A r \in Run : fate[r] # "unknown"

\* What the operator said is what the run ends with: the three together.
AnswersKept == ConfirmKept /\ AnsweredUnlessStopped /\ DisagreementDecided

\* A stopped run comes to its end, and a run that ended frees the session for
\* the next one.
SessionReopens ==
  \A r \in Run : cancelled[r] \/ task[r] = "done" ~> cleaned[r] /\ r \notin token \cup taskHandle
=============================================================================
