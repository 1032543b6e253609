--------------------------- MODULE ExecutorSession ---------------------------
(***************************************************************************)
(* Skill runs of the desktop shell (commands/executor.rs): the shared      *)
(* ExecutorHandle, the commands run_skill and resume_skill_from_failure    *)
(* (the same but for the steps they pass on), the stop button and the      *)
(* emergency shortcut, and, for every run, its task, its event channel,    *)
(* its event forwarder and its record on disk.                             *)
(*                                                                         *)
(* The commands and tasks run on a thread pool: a step is what one of them *)
(* does between two waits or under one hold of the handle's mutex.  A run  *)
(* is named by its generation.                                             *)
(***************************************************************************)
EXTENDS Naturals, Sequences

CONSTANTS
  Command,  \* the run commands that may be under way at once
  MaxRuns   \* bound: the runs that are ever started

ASSUME ExecutorAssumption == MaxRuns \in Nat

Run == 1 .. MaxRuns
Slot == 0 .. MaxRuns  \* a slot of the handle: the run it is for, 0 when empty

VARIABLES
  gen,       \* ExecutorHandle::run_generation
  token,     \* ExecutorHandle::cancel_token
  cmd,       \* ExecutorHandle::cmd_tx
  task,      \* ExecutorHandle::task_handle
  at,        \* how far each command is
  own,       \* the run each command started
  pc,        \* where the run's task is
  cancelled, \* the runs whose token is cancelled
  aborted,   \* the runs whose task is aborted
  record,    \* the run's record on disk: open until its final status is saved
  events,    \* the states in the run's event channel
  fwd,       \* the run's event forwarder
  sawIdle,   \* the runs whose forwarder has passed on an idle
  ui         \* the state the user interface shows

handleVars  == <<gen, token, cmd, task>>
commandVars == <<at, own>>
stopVars    == <<cancelled, aborted>>
runVars     == <<pc, record>>
feedVars    == <<fwd, sawIdle, ui>>
vars == <<handleVars, commandVars, stopVars, runVars, events, feedVars>>

Driving(r) == pc[r] \in {"new", "spawning", "running"}
Alive(r)   == Driving(r) \/ pc[r] \in {"saving", "sending"}

TypeOK ==
  /\ gen \in Slot /\ token \in Slot /\ cmd \in Slot /\ task \in Slot
  /\ at \in [Command -> {"idle", "checked", "installed"}] /\ own \in [Command -> Slot]
  /\ pc \in [Run -> {"none", "new", "spawning", "running", "saving", "sending", "gone"}]
  /\ cancelled \in SUBSET Run /\ aborted \in SUBSET Run
  /\ record \in [Run -> {"none", "open", "final"}]
  /\ events \in [Run -> Seq({"running", "idle"})] /\ \A r \in Run : Len(events[r]) <= 2
  /\ fwd \in [Run -> {"none", "open", "closing", "done"}]
  /\ sawIdle \in SUBSET Run /\ ui \in {"running", "idle"}
-----------------------------------------------------------------------------
Init ==
  /\ gen = 0 /\ token = 0 /\ cmd = 0 /\ task = 0
  /\ at = [c \in Command |-> "idle"] /\ own = [c \in Command |-> 0]
  /\ pc = [r \in Run |-> "none"] /\ cancelled = {} /\ aborted = {}
  /\ record = [r \in Run |-> "none"]
  /\ events = [r \in Run |-> <<>>] /\ fwd = [r \in Run |-> "none"]
  /\ sawIdle = {} /\ ui = "idle"

(* run_skill and resume_skill_from_failure. *)

\* Deviation: a command starts whatever is running.
Check_Never(c) ==
  /\ at[c] = "idle"
  /\ at' = [at EXCEPT ![c] = "checked"]
  /\ UNCHANGED <<handleVars, own, stopVars, runVars, events, feedVars>>

\* "Already running" is answered when the command channel is there.
Check(c) ==
  /\ at[c] = "idle" /\ cmd = 0
  /\ at' = [at EXCEPT ![c] = "checked"]
  /\ UNCHANGED <<handleVars, own, stopVars, runVars, events, feedVars>>

\* No such skill or section, no MCP binary, or no place for the record.
GiveUp(c) ==
  /\ at[c] = "checked"
  /\ at' = [at EXCEPT ![c] = "idle"]
  /\ UNCHANGED <<handleVars, own, stopVars, runVars, events, feedVars>>

\* The record is written (traces are on), the run takes the handle under
\* the next generation, and its forwarder and its task are spawned.
Install(c) ==
  LET r == gen + 1 IN
  /\ at[c] = "checked" /\ gen < MaxRuns
  /\ gen' = r /\ token' = r /\ cmd' = r
  /\ at' = [at EXCEPT ![c] = "installed"] /\ own' = [own EXCEPT ![c] = r]
  /\ record' = [record EXCEPT ![r] = "open"]
  /\ fwd' = [fwd EXCEPT ![r] = "open"] /\ pc' = [pc EXCEPT ![r] = "new"]
  /\ UNCHANGED <<task, stopVars, events, sawIdle, ui>>

\* The task handle is kept if the handle is still this run's.
StoreTask(c) ==
  /\ at[c] = "installed"
  /\ task' = IF gen = own[c] THEN own[c] ELSE task
  /\ at' = [at EXCEPT ![c] = "idle"] /\ own' = [own EXCEPT ![c] = 0]
  /\ UNCHANGED <<gen, token, cmd, stopVars, runVars, events, feedVars>>

\* force_stop, by stop_workflow or by the emergency shortcut.
Stop ==
  /\ token # 0 \/ task # 0
  /\ cancelled' = cancelled \cup ({token} \ {0})
  /\ aborted' = aborted \cup ({task} \ {0})
  /\ token' = 0 /\ cmd' = 0 /\ task' = 0
  /\ UNCHANGED <<gen, commandVars, runVars, events, feedVars>>

(* The task of a run. *)

Become(r, s) == pc' = [pc EXCEPT ![r] = s]

Begin(r) ==
  /\ pc[r] = "new" /\ Become(r, "spawning")
  /\ events' = [events EXCEPT ![r] = Append(@, "running")]
  /\ UNCHANGED <<handleVars, commandVars, stopVars, record, feedVars>>

\* Deviation: only the start of the MCP server is raced with the token.
Bail_SpawnOnly(r) ==
  /\ pc[r] = "spawning" /\ r \in cancelled
  /\ Become(r, "saving")
  /\ UNCHANGED <<handleVars, commandVars, stopVars, record, events, feedVars>>

\* Both selects are biased: a cancelled token wins over what is ready.
Bail(r) ==
  /\ pc[r] \in {"spawning", "running"} /\ r \in cancelled
  /\ Become(r, "saving")
  /\ UNCHANGED <<handleVars, commandVars, stopVars, record, events, feedVars>>

Spawned(r) ==
  /\ pc[r] = "spawning" /\ r \notin cancelled
  /\ Become(r, "running") \/ Become(r, "saving")
  /\ UNCHANGED <<handleVars, commandVars, stopVars, record, events, feedVars>>

\* All steps ran, or one failed, or a loop ran out of iterations.
StepsEnd(r) ==
  /\ pc[r] = "running" /\ r \notin cancelled
  /\ Become(r, "saving")
  /\ UNCHANGED <<handleVars, commandVars, stopVars, record, events, feedVars>>

\* An aborted task is dropped at its next wait; none of its later steps waits,
\* as the event channel (64) is never full.
Abort(r) ==
  /\ Driving(r) /\ r \in aborted
  /\ Become(r, "gone")
  /\ UNCHANGED <<handleVars, commandVars, stopVars, record, events, feedVars>>

\* The status (ok, failed, or cancelled when the token is) and the time go to
\* the record; that the disk refuses them is logged and no more.
Save(r) ==
  /\ pc[r] = "saving" /\ Become(r, "sending")
  /\ record' = [record EXCEPT ![r] = "final"]
  /\ UNCHANGED <<handleVars, commandVars, stopVars, events, feedVars>>

\* The error, WorkflowCompleted and the idle state; the channel closes.
SendIdle(r) ==
  /\ pc[r] = "sending" /\ Become(r, "gone")
  /\ events' = [events EXCEPT ![r] = Append(@, "idle")]
  /\ UNCHANGED <<handleVars, commandVars, stopVars, record, feedVars>>

(* The event forwarder of a run. *)

\* The user interface shows the last state it hears of, whatever the run.
Forward(r) ==
  /\ fwd[r] = "open" /\ events[r] # <<>>
  /\ ui' = Head(events[r])
  /\ sawIdle' = IF Head(events[r]) = "idle" THEN sawIdle \cup {r} ELSE sawIdle
  /\ events' = [events EXCEPT ![r] = Tail(@)]
  /\ UNCHANGED <<handleVars, commandVars, stopVars, runVars, fwd>>

\* Deviation: no idle is made up for a task that was aborted.
Drained_NoFallback(r) ==
  /\ fwd[r] = "open" /\ events[r] = <<>> /\ pc[r] = "gone"
  /\ fwd' = [fwd EXCEPT ![r] = "closing"] /\ sawIdle' = sawIdle \ {r}
  /\ UNCHANGED <<handleVars, commandVars, stopVars, runVars, events, ui>>

Drained(r) ==
  /\ fwd[r] = "open" /\ events[r] = <<>> /\ pc[r] = "gone"
  /\ fwd' = [fwd EXCEPT ![r] = "closing"]
  /\ ui' = IF r \in sawIdle THEN ui ELSE "idle"
  /\ sawIdle' = sawIdle \ {r}
  /\ UNCHANGED <<handleVars, commandVars, stopVars, runVars, events>>

\* clear_executor_handle_if_current.
CleanUp(r) ==
  /\ fwd[r] = "closing"
  /\ fwd' = [fwd EXCEPT ![r] = "done"]
  /\ IF gen = r THEN token' = 0 /\ cmd' = 0 /\ task' = 0 ELSE UNCHANGED <<token, cmd, task>>
  /\ UNCHANGED <<gen, commandVars, stopVars, runVars, events, sawIdle, ui>>
-----------------------------------------------------------------------------
\* run_skill and resume_skill_from_failure go the same way.
Commands(c) == Check(c) \/ GiveUp(c) \/ Install(c) \/ StoreTask(c)
Ends(r)     == Begin(r) \/ Bail(r) \/ Abort(r) \/ Save(r) \/ SendIdle(r)
Forwards(r) == Forward(r) \/ Drained(r) \/ CleanUp(r)

Next == \/ Stop
        \/ \E c \in Command : Commands(c)
        \/ \E r \in Run : Ends(r) \/ Spawned(r) \/ StepsEnd(r) \/ Forwards(r)

Spec == Init /\ [][Next]_vars

\* The runtime polls every task it was given, and what is ready in a poll is
\* taken.  The MCP server may hang: nothing makes it start or a step end.
Fairness == \A r \in Run : WF_vars(Ends(r)) /\ WF_vars(Forwards(r))

FairSpec == Spec /\ Fairness
-----------------------------------------------------------------------------
(* Properties. *)

\* Besides runs that were stopped and are about to be dropped, at most one
\* skill run drives the desktop (run_skill answers "Already running").
OneRunWanted ==
  \A r, s \in Run : {r, s} \cap cancelled = {} /\ Driving(r) /\ Driving(s) => r = s

\* The newest run can be stopped for as long as it runs, also while older runs
\* are still on their way out: their cleanup never takes its token.
Stoppable ==
  \A r \in Run : r = gen /\ Alive(r) /\ r \notin cancelled => token = r

\* No run that is over keeps later ones out: the command channel in the handle
\* belongs to a run whose forwarder has still to clean up.
NotLockedOut == cmd # 0 => fwd[cmd] # "done"

\* Once every forwarder is through, the user interface shows idle, however the
\* runs ended and in whatever order their events came.
UiSettles == (\A r \in Run : fwd[r] \in {"none", "done"}) => ui = "idle"

\* A run nobody stopped gets its final status to its record before it is gone:
\* no stop ever aborts a run other than the one it cancels.
Accounted == \A r \in Run : pc[r] = "gone" /\ r \notin cancelled => record[r] # "open"

\* A stopped run comes to its end, wherever the stop caught it, the moment
\* before its task handle is stored included.
StopEnds == \A r \in Run : r \in cancelled ~> pc[r] = "gone" /\ fwd[r] = "done"
=============================================================================
