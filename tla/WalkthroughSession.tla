------------------------- MODULE WalkthroughSession -------------------------
(***************************************************************************)
(* A recorded walkthrough from start to review: the commands of            *)
(* commands/walkthrough.rs on the WalkthroughHandle they share, the        *)
(* capture task with its event tap (walkthrough_session/, platform/), the  *)
(* directory of the session and the interface that issues the commands     *)
(* (walkthroughSlice.ts, useWalkthroughEvents.ts, useEscapeKey.ts).        *)
(*                                                                         *)
(* A command holds the handle's lock for one action at a time; between two *)
(* of its actions anything may happen.  A value that may be missing is a   *)
(* set with at most one member.                                            *)
(***************************************************************************)
EXTENDS Naturals, Sequences, FiniteSets

CONSTANTS
  MaxSessions,  \* bound on the recordings the user starts
  MaxCalls,     \* bound on the user's commands in flight
  MaxAsked,     \* bound on the user's commands
  MaxMail       \* bound on the events on their way to the interface

ASSUME BoundAssumption == {MaxSessions, MaxCalls, MaxAsked, MaxMail} \subseteq Nat

Id == 1 .. MaxSessions

VARIABLES
  session,   \* handle.session, with its status
  tap,       \* handle.event_tap: the recording it feeds, paused or not
  task,      \* handle.processing_task: the recording it processes
  flag,      \* the cancellation signal of each recording
  loop,      \* process_capture_events of each recording
  dir,       \* the directory of each recording
  calls,     \* commands in flight
  mail,      \* walkthrough:// events on their way to the interface
  ui,        \* walkthroughStatus, and is the recording bar shown?
  started,   \* recordings started so far
  asked,     \* commands the user has issued
  dropped,   \* history: cancelled while their capture task was at work
  overtaken  \* history: written to by a task given up, while being removed

handle  == <<session, tap, task, flag>>
vars == <<handle, loop, dir, calls, mail, ui, started, asked, dropped, overtaken>>

Status == {"Recording", "Paused", "Processing", "Review"}
Cancels == {"cancel", "discard", "retry"}
Command == {"start", "pause", "resume", "stop"} \cup Cancels
Call == [cmd : Command, on : Id \cup {0}, task : SUBSET Id,
         at : {"lock", "tap", "register", "emit", "await", "read", "process",
               "finish", "empty", "unlink", "ok", "failed"}]
Note == [kind : {"state"}, status : Status \cup {"Idle"}]
        \cup [kind : {"draft"}, of : Id]
IsOption(o, S) == o \subseteq S /\ \A x, y \in o : x = y

TypeOK ==
  /\ IsOption(session, [id : Id, status : Status])
  /\ IsOption(tap, [of : Id, paused : BOOLEAN]) /\ IsOption(task, Id)
  /\ flag \in [Id -> BOOLEAN]
  /\ loop \in [Id -> {"none", "setup", "connect", "deaf", "loop", "drain", "loose",
                    "ended"}]
  /\ dir \in [Id -> {"none", "full", "emptied"}]
  /\ calls \subseteq Call /\ mail \in Seq(Note)
  /\ ui \in [status : Status \cup {"Idle"}, bar : BOOLEAN]
  /\ started \in 0 .. MaxSessions /\ asked \in 0 .. MaxAsked
  /\ dropped \subseteq Id /\ overtaken \subseteq Id

Init ==
  /\ session = {} /\ tap = {} /\ task = {} /\ flag = [i \in Id |-> FALSE]
  /\ loop = [i \in Id |-> "none"] /\ dir = [i \in Id |-> "none"]
  /\ calls = {} /\ mail = <<>>
  /\ ui = [status |-> "Idle", bar |-> FALSE]
  /\ started = 0 /\ asked = 0 /\ dropped = {} /\ overtaken = {}

Moved(c, to)  == (calls \ {c}) \cup {to}
At(c, at)     == calls' = Moved(c, [c EXCEPT !.at = at])
Told(status)  == Append(mail, [kind |-> "state", status |-> status])
Holds(c, cmd, at) == c \in calls /\ c.cmd = cmd /\ c.at = at

-----------------------------------------------------------------------------
(* start_walkthrough *)

\* Under the lock: refused while there is a session, else the session and its
\* directory are there.
Install(c) ==
  /\ Holds(c, "start", "lock")
  /\ IF session # {}
       THEN At(c, "failed") /\ UNCHANGED <<session, dir>>
       ELSE /\ session' = {[id |-> c.on, status |-> "Recording"]}
            /\ dir' = [dir EXCEPT ![c.on] = "full"] /\ At(c, "tap")
  /\ UNCHANGED <<tap, task, flag, loop, mail, ui, started, asked, dropped, overtaken>>

\* The event tap, without the lock, and the capture task.
Tap(c) ==
  /\ Holds(c, "start", "tap") /\ At(c, "register")
  /\ loop' = [loop EXCEPT ![c.on] = "setup"]
  /\ UNCHANGED <<handle, dir, mail, ui, started, asked, dropped, overtaken>>

\* The tap fails: clear_session clears whatever session the handle has.
Rollback(c) ==
  /\ Holds(c, "start", "tap") /\ At(c, "failed") /\ session' = {}
  /\ dir' = [i \in Id |-> IF \E s \in session : s.id = i THEN "none" ELSE dir[i]]
  /\ UNCHANGED <<tap, task, flag, loop, mail, ui, started, asked, dropped, overtaken>>

\* Under the lock again; a tap that is replaced is stopped.
Register(c) ==
  /\ Holds(c, "start", "register") /\ At(c, "emit")
  /\ tap' = {[of |-> c.on, paused |-> FALSE]} /\ task' = {c.on}
  /\ UNCHANGED <<session, flag, loop, dir, mail, ui, started, asked, dropped,
                 overtaken>>

-----------------------------------------------------------------------------
(* pause_walkthrough, resume_walkthrough *)

Toggle(c, cmd, from, to) ==
  /\ Holds(c, cmd, "lock")
  /\ IF \E s \in session : s.status = from
       THEN /\ session' = {[s EXCEPT !.status = to] : s \in session}
            /\ tap' = {[t EXCEPT !.paused = (to = "Paused")] : t \in tap}
            /\ At(c, "emit")
       ELSE At(c, "failed") /\ UNCHANGED <<session, tap>>
  /\ UNCHANGED <<task, flag, loop, dir, mail, ui, started, asked, dropped, overtaken>>

Pause(c)  == Toggle(c, "pause", "Recording", "Paused")
Resume(c) == Toggle(c, "resume", "Paused", "Recording")

\* What is emitted once the lock is released.
Announced == [start |-> "Recording", pause |-> "Paused", resume |-> "Recording",
              stop |-> "Processing", cancel |-> "Idle", discard |-> "Idle",
              retry |-> "Idle"]

Emit(c) ==
  /\ c \in calls /\ c.at = "emit" /\ Len(mail) < MaxMail
  /\ mail' = Told(Announced[c.cmd])
  /\ At(c, IF c.cmd = "stop" THEN "await" ELSE "ok")
  /\ UNCHANGED <<handle, loop, dir, ui, started, asked, dropped, overtaken>>

-----------------------------------------------------------------------------
(* stop_walkthrough, cancel_walkthrough *)

\* Deviation: the tap is told to stop capturing and kept.
StopCapture_KeepsTap(id) ==
  /\ flag' = [flag EXCEPT ![id] = TRUE] /\ task' = {}
  /\ tap' = {[t EXCEPT !.paused = TRUE] : t \in tap}

\* The signal, the tap with its end of the channel, and the task to wait for.
StopCapture(id) ==
  /\ flag' = [flag EXCEPT ![id] = TRUE] /\ task' = {} /\ tap' = {}

\* The command goes on with recording s and the task it took.
Taking(c, s, at) == [cmd |-> c.cmd, on |-> s.id, task |-> task, at |-> at]

Stop(c) ==
  /\ Holds(c, "stop", "lock")
  /\ IF \E s \in session : s.status \in {"Recording", "Paused"}
       THEN \E s \in session :
              /\ session' = {[s EXCEPT !.status = "Processing"]}
              /\ StopCapture(s.id)
              /\ calls' = Moved(c, Taking(c, s, "emit"))
       ELSE At(c, "failed") /\ UNCHANGED handle
  /\ UNCHANGED <<loop, dir, mail, ui, started, asked, dropped, overtaken>>

Cancel(c) ==
  /\ c \in calls /\ c.cmd \in Cancels /\ c.at = "lock"
  /\ IF session # {}
       THEN \E s \in session :
              /\ StopCapture(s.id) /\ session' = {}
              /\ calls' = Moved(c, Taking(c, s, "await"))
              /\ dropped' = IF s.status \in {"Recording", "Paused"} /\ task = {s.id}
                              THEN dropped \cup {s.id} ELSE dropped
       ELSE At(c, "failed") /\ UNCHANGED <<handle, dropped, overtaken>>
  /\ UNCHANGED <<loop, dir, mail, ui, started, asked, overtaken>>

\* Deviation: the task is left to end on its own.
Ended_Assumed(c) == TRUE
Ended(c) == \A i \in c.task : loop[i] \in {"loose", "ended"}

Await(c) ==
  /\ c \in calls /\ c.at = "await" /\ Ended(c)
  /\ At(c, IF c.cmd = "stop" THEN "read" ELSE "empty")
  /\ UNCHANGED <<handle, loop, dir, mail, ui, started, asked, dropped, overtaken>>

\* remove_dir_all lists, unlinks and then removes the directory: a file that
\* came meanwhile makes the last step fail, with a warning.
Empty(c) ==
  /\ c \in calls /\ c.at = "empty" /\ At(c, "unlink")
  /\ dir' = [dir EXCEPT ![c.on] = IF @ = "full" THEN "emptied" ELSE @]
  /\ UNCHANGED <<handle, loop, mail, ui, started, asked, dropped, overtaken>>

Unlink(c) ==
  /\ c \in calls /\ c.at = "unlink" /\ At(c, "emit")
  /\ dir' = [dir EXCEPT ![c.on] = IF @ = "emptied" THEN "none" ELSE @]
  /\ UNCHANGED <<handle, loop, mail, ui, started, asked, dropped, overtaken>>

\* A log line that does not parse ends the command; the session stays.
Read(c) ==
  /\ Holds(c, "stop", "read")
  /\ At(c, "process") \/ At(c, "failed")
  /\ UNCHANGED <<handle, loop, dir, mail, ui, started, asked, dropped, overtaken>>

\* A write into a directory that is gone fails.
Written(i) == dir' = [dir EXCEPT ![i] = IF @ = "none" THEN @ ELSE "full"]

\* Hover screenshots and actions.json.
Process(c) ==
  /\ Holds(c, "stop", "process") /\ At(c, "finish") /\ Written(c.on)
  /\ UNCHANGED <<handle, loop, mail, ui, started, asked, dropped, overtaken>>

\* Deviation: whatever session there is gets the draft.
SameSession_Any(id) == session # {}
SameSession(id) == \E s \in session : s.id = id

\* Update, save_session and both events under one lock.
Finish(c) ==
  /\ Holds(c, "stop", "finish") /\ At(c, "ok")
  /\ IF SameSession(c.on)
       THEN /\ session' = {[s EXCEPT !.status = "Review"] : s \in session}
            /\ mail' = Append(Append(mail, [kind |-> "draft", of |-> c.on]),
                              [kind |-> "state", status |-> "Review"])
            /\ Written(c.on)
       ELSE UNCHANGED <<session, mail, dir>>
  /\ UNCHANGED <<tap, task, flag, loop, ui, started, asked, dropped, overtaken>>

-----------------------------------------------------------------------------
(* process_capture_events *)

Fed(i) == \/ \E t \in tap : t.of = i
          \/ \E c \in calls : c.cmd = "start" /\ c.on = i /\ c.at = "register"

LoopTo(i, at) == loop' = [loop EXCEPT ![i] = at]

\* initialize_capture_services.  Between two apps the signal is looked at; a
\* connect that it interrupts has taken it.
Setup(i) ==
  /\ \/ loop[i] = "setup" /\ LoopTo(i, "loop")
     \/ loop[i] = "setup" /\ ~flag[i] /\ LoopTo(i, "connect")
     \/ loop[i] = "connect" /\ LoopTo(i, IF flag[i] THEN "deaf" ELSE "loop")
  /\ UNCHANGED <<handle, dir, calls, mail, ui, started, asked, dropped, overtaken>>

\* An event is persisted, by the loop or by the tasks it started, those that it
\* has given up included.
Record(i) ==
  /\ loop[i] \in {"deaf", "loop", "drain", "loose"} /\ dir[i] = "emptied" /\ Written(i)
  /\ loop[i] \in {"deaf", "loop"} => Fed(i)
  /\ overtaken' = IF loop[i] = "loose" THEN overtaken \cup {i} ELSE overtaken
  /\ UNCHANGED <<handle, loop, calls, mail, ui, started, asked, dropped>>

\* next_capture_event ends with the signal or with the channel.
Leave(i) ==
  /\ \/ loop[i] = "loop" /\ flag[i]
     \/ loop[i] \in {"deaf", "loop"} /\ ~Fed(i)
  /\ LoopTo(i, "drain")
  /\ UNCHANGED <<handle, dir, calls, mail, ui, started, asked, dropped, overtaken>>

\* drain_capture_tasks, frames and hovers, each with its own deadline.  At the
\* first of them the consumer of the clicks is let go, not aborted: the task ends
\* and it goes on.
Drain(i) ==
  /\ loop[i] = "drain" /\ \E at \in {"loose", "ended"} : LoopTo(i, at)
  /\ UNCHANGED <<handle, dir, calls, mail, ui, started, asked, dropped, overtaken>>

\* What was let go comes to its end.
Settle(i) ==
  /\ loop[i] = "loose" /\ LoopTo(i, "ended")
  /\ UNCHANGED <<handle, dir, calls, mail, ui, started, asked, dropped, overtaken>>

-----------------------------------------------------------------------------
(* The interface. *)

Issue(cmd, id) ==
  /\ Cardinality(calls) < MaxCalls /\ asked < MaxAsked /\ asked' = asked + 1
  /\ calls' = calls \cup {[cmd |-> cmd, on |-> id, task |-> {}, at |-> "lock"]}

UiStart ==
  /\ ui.status = "Idle" /\ started < MaxSessions
  /\ started' = started + 1 /\ Issue("start", started + 1)
  /\ ui' = [ui EXCEPT !.status = "Recording"]
  /\ UNCHANGED <<handle, loop, dir, mail, dropped, overtaken>>

UiBar(cmd) ==
  /\ ui.bar /\ Issue(cmd, 0)
  /\ \/ cmd = "pause" /\ ui.status = "Recording"
     \/ cmd = "resume" /\ ui.status = "Paused"
     \/ cmd = "stop" /\ ui.status \in {"Recording", "Paused"}
  /\ UNCHANGED <<handle, loop, dir, mail, ui, started, dropped, overtaken>>

UiCancel ==
  /\ ui.status \in {"Recording", "Paused"} /\ Issue("cancel", 0)
  /\ ui' = [status |-> "Processing", bar |-> FALSE]
  /\ UNCHANGED <<handle, loop, dir, mail, started, dropped, overtaken>>

\* Escape, and either way out of the save sheet.
UiDiscard ==
  /\ ui.status \in {"Processing", "Review"} /\ Issue("discard", 0)
  /\ UNCHANGED <<handle, loop, dir, mail, ui, started, dropped, overtaken>>

\* The answer of a command reaches the slice that issued it.
Reply(c) ==
  /\ c \in calls /\ c.at \in {"ok", "failed"}
  /\ ui' = CASE c.cmd = "start" /\ c.at = "ok" ->
                  [ui EXCEPT !.bar = @ \/ ui.status = "Recording"]
             [] \/ c.cmd = "discard"
                \/ c.cmd \in {"start", "cancel"} /\ c.at = "failed" ->
                  [ui EXCEPT !.status = "Idle"]
             [] OTHER -> ui
  /\ IF c.cmd = "start" /\ c.at = "ok" /\ ui.status # "Recording"
       THEN calls' = Moved(c, [cmd |-> "retry", on |-> 0, task |-> {}, at |-> "lock"])
       ELSE calls' = calls \ {c}
  /\ UNCHANGED <<handle, loop, dir, mail, started, asked, dropped, overtaken>>

\* setWalkthroughStatus, setWalkthroughDraft
Deliver ==
  /\ mail # <<>> /\ mail' = Tail(mail)
  /\ LET m == Head(mail) IN
     ui' = IF m.kind = "draft"
             THEN [ui EXCEPT !.status = "Review"]
             ELSE [status |-> m.status,
                   bar    |-> ui.bar /\ m.status \in {"Recording", "Paused"}]
  /\ UNCHANGED <<handle, loop, dir, calls, started, asked, dropped, overtaken>>

-----------------------------------------------------------------------------

Step(c) ==
  \/ Install(c) \/ Tap(c) \/ Rollback(c) \/ Register(c)
  \/ Pause(c) \/ Resume(c) \/ Emit(c)
  \/ Stop(c) \/ Cancel(c) \/ Await(c) \/ Empty(c) \/ Unlink(c)
  \/ Read(c) \/ Process(c) \/ Finish(c) \/ Reply(c)
Capture(i) == Setup(i) \/ Leave(i) \/ Drain(i) \/ Settle(i)
User == UiStart \/ UiCancel \/ UiDiscard
        \/ \E cmd \in {"pause", "resume", "stop"} : UiBar(cmd)

Next == \/ \E c \in calls : Step(c)
        \/ \E i \in Id : Capture(i) \/ Record(i)
        \/ Deliver \/ User

\* The commands in flight go on, and so do the capture tasks: each call they
\* wait for has a deadline.  One condition for all of them is enough, since
\* each has finitely many steps.  The user and the desktop owe nothing.
Fairness ==
  /\ WF_vars(\E i \in Id : Capture(i))
  /\ WF_vars(\E c \in calls : Step(c))
  /\ WF_vars(Deliver)

Spec == Init /\ [][Next]_vars /\ Fairness

-----------------------------------------------------------------------------
(* Properties *)

Quiet == calls = {} /\ mail = <<>>

\* What is reviewed was itself stopped: a stop that outlives its session, since
\* a cancel let the next one start meanwhile, makes no draft of the recording
\* that runs, and none reaches the interface.
ReviewIsStopped ==
  /\ \A s \in session : s.status = "Review" => flag[s.id]
  /\ \A n \in DOMAIN mail : mail[n].kind = "draft" => flag[mail[n].of]

\* A recording that is cancelled leaves nothing on disk, if the handle had its
\* capture task: the last event the task persists comes before the directory
\* is removed.  What stays behind was written during the removal, by a consumer
\* that the drain had given up.
CancelledIsGone == Quiet => \A i \in dropped : dir[i] = "none" \/ i \in overtaken

\* A stop or cancel command returns, though the signal it sends may already
\* have been taken by the setup of the capture.
InFlight(i) == \E c \in calls : c.on = i /\ c.cmd # "start" /\ c.at # "lock"
CommandsReturn == \A i \in Id : InFlight(i) ~> ~InFlight(i)
=============================================================================
