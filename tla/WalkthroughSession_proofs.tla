---------------------- MODULE WalkthroughSession_proofs ----------------------
(***************************************************************************)
(* Theorems about WalkthroughSession for any number of recordings and of   *)
(* commands: its types, that what is reviewed was stopped, and that a      *)
(* cancelled recording leaves nothing on disk; and about CdpTabs for any   *)
(* number of browsers: that, but for a search for a click the drain has    *)
(* given up, every script runs in its own app and the tab that is asked is *)
(* the one that was clicked.                                               *)
(***************************************************************************)
EXTENDS WalkthroughSession, MCCdpTabs, SequenceTheorems, TLAPS

-----------------------------------------------------------------------------
(* The invariant. *)

Ongoing == {"Recording", "Paused"}
Starts(c) == c \in calls /\ c.cmd = "start"
Stops(c)  == c \in calls /\ c.cmd = "stop"

\* Recordings are numbered in the order in which they are asked for, and one
\* command starts each.
Numbered ==
  /\ \A s \in session : s.id <= started
  /\ task \cup dropped \subseteq 1 .. started
  /\ \A c \in calls : c.on <= started /\ (c.cmd = "start" => c.on > 0)
  /\ \A c, d \in calls : Starts(c) /\ Starts(d) /\ c.on = d.on => c = d

\* A recording whose command has not had the lock yet is known to nobody; one
\* that has its capture task is through with its start.
Begun ==
  \A c \in calls : Starts(c) =>
    /\ c.at = "lock" => /\ \A s \in session : s.id # c.on
                        /\ \A d \in calls : d.on = c.on => d = c
    /\ c.at \in {"lock", "tap", "register"} => c.on \notin task \cup dropped

\* A stop command that found a session gave its signal, and what still runs has
\* none.
Signalled ==
  /\ \A c \in calls : Stops(c) /\ c.at \notin {"lock", "failed"} => c.on > 0 /\ flag[c.on]
  /\ \A s \in session, c \in calls : s.status \in Ongoing /\ Stops(c) => c.on # s.id

\* The capture task has ended; all that may still write is what it has given up.
Through(i) == loop[i] \in {"loose", "ended"}

\* The command that cancels recording i, on its way to remove the directory.
Removes(c, i) ==
  /\ c.cmd \in Cancels /\ c.on = i
  /\ \/ c.at = "await" /\ i \in c.task
     \/ c.at = "empty" /\ Through(i)
     \/ c.at = "unlink" /\ Through(i) /\ (dir[i] = "emptied" \/ i \in overtaken)

\* What is cancelled has no session and no stop any more, and its directory is
\* gone, about to be removed, or was written to during its removal.
Gone ==
  \A i \in dropped :
    /\ \A s \in session : s.id # i
    /\ \A c \in calls : Stops(c) => c.on # i
    /\ dir[i] = "none" \/ i \in overtaken \/ \E c \in calls : Removes(c, i)

SessionInv == Numbered /\ Begun /\ Signalled /\ ReviewIsStopped /\ Gone

-----------------------------------------------------------------------------
(* Types. *)

Stage == {"lock", "tap", "register", "emit", "await", "read", "process",
          "finish", "empty", "unlink", "ok", "failed"}

USE DEF Id

\* A command that goes on.
LEMMA AtType ==
  ASSUME TypeOK, NEW c \in calls, NEW at \in Stage, At(c, at)
  PROVE  /\ calls' \subseteq Call /\ [c EXCEPT !.at = at] \in Call
         /\ [c EXCEPT !.at = at].at = at /\ [c EXCEPT !.at = at].cmd = c.cmd
         /\ [c EXCEPT !.at = at].on = c.on /\ [c EXCEPT !.at = at].task = c.task
         /\ calls' = (calls \ {c}) \cup {[c EXCEPT !.at = at]}
<1>1. c \in Call
  BY DEF TypeOK
<1>2. /\ [c EXCEPT !.at = at] \in Call
      /\ [c EXCEPT !.at = at].at = at /\ [c EXCEPT !.at = at].cmd = c.cmd
      /\ [c EXCEPT !.at = at].on = c.on /\ [c EXCEPT !.at = at].task = c.task
  BY <1>1 DEF Call, Stage
<1> HIDE DEF Call
<1> QED BY <1>1, <1>2 DEF At, Moved, TypeOK

LEMMA NoteTypes ==
  /\ \A status \in Status \cup {"Idle"} : [kind |-> "state", status |-> status] \in Note
  /\ \A id \in Id : [kind |-> "draft", of |-> id] \in Note
BY DEF Note

LEMMA StatusType ==
  ASSUME TypeOK, NEW to \in Status, session' = {[s EXCEPT !.status = to] : s \in session}
  PROVE  IsOption(session, [id : Id, status : Status])'
<1>1. \A s \in session : [s EXCEPT !.status = to] \in [id : Id, status : Status]
  BY DEF TypeOK, IsOption
<1>2. \A x, y \in session : x = y
  BY DEF TypeOK, IsOption
<1> QED BY <1>1, <1>2 DEF IsOption

LEMMA TapType ==
  ASSUME TypeOK, NEW b \in BOOLEAN, tap' = {[t EXCEPT !.paused = b] : t \in tap}
  PROVE  IsOption(tap, [of : Id, paused : BOOLEAN])'
<1>1. \A t \in tap : [t EXCEPT !.paused = b] \in [of : Id, paused : BOOLEAN]
  BY DEF TypeOK, IsOption
<1>2. \A x, y \in tap : x = y
  BY DEF TypeOK, IsOption
<1> QED BY <1>1, <1>2 DEF IsOption

LEMMA OptionsStay ==
  ASSUME TypeOK
  PROVE  /\ UNCHANGED session => IsOption(session, [id : Id, status : Status])'
         /\ UNCHANGED tap => IsOption(tap, [of : Id, paused : BOOLEAN])'
         /\ UNCHANGED task => IsOption(task, Id)'
BY DEF TypeOK, IsOption

\* The commands that change the session.
LEMMA SessionTypes ==
  ASSUME TypeOK, NEW c \in calls, Install(c) \/ Rollback(c) \/ Pause(c) \/ Resume(c) \/ Finish(c),
         c.cmd = "start" => c.on \in Id
  PROVE  TypeOK'
<1>1. CASE Install(c)
  <2>1. calls' \subseteq Call
    BY <1>1, AtType DEF Install, Stage
  <2>2. IsOption(session, [id : Id, status : Status])'
    BY <1>1 DEF Install, Holds, IsOption, TypeOK, Status
  <2>3. dir' \in [Id -> {"none", "full", "emptied"}]
    BY <1>1 DEF Install, TypeOK
  <2> QED BY <1>1, <2>1, <2>2, <2>3 DEF Install, TypeOK, IsOption
<1>2. CASE Rollback(c)
  <2>1. calls' \subseteq Call
    BY <1>2, AtType DEF Rollback, Stage
  <2>2. IsOption(session, [id : Id, status : Status])'
    BY <1>2 DEF Rollback, IsOption
  <2>3. dir' \in [Id -> {"none", "full", "emptied"}]
    BY <1>2 DEF Rollback, TypeOK
  <2> QED BY <1>2, <2>1, <2>2, <2>3 DEF Rollback, TypeOK, IsOption
<1>3. ASSUME NEW cmd, NEW from, NEW to \in Status, Toggle(c, cmd, from, to) PROVE TypeOK'
  <2>1. calls' \subseteq Call
    BY <1>3, AtType DEF Toggle, Stage
  <2>2. IsOption(session, [id : Id, status : Status])'
    BY <1>3, StatusType, OptionsStay DEF Toggle
  <2>3. IsOption(tap, [of : Id, paused : BOOLEAN])'
    <3>1. (to = "Paused") \in BOOLEAN
      OBVIOUS
    <3> QED BY <1>3, <3>1, TapType, OptionsStay DEF Toggle
  <2> QED BY <1>3, <2>1, <2>2, <2>3 DEF Toggle, TypeOK, IsOption
<1>4. CASE Finish(c)
  <2>1. calls' \subseteq Call
    BY <1>4, AtType DEF Finish, Stage
  <2>2. IsOption(session, [id : Id, status : Status])'
    BY <1>4, StatusType, OptionsStay DEF Finish, Status
  <2>3. dir' \in [Id -> {"none", "full", "emptied"}]
    BY <1>4 DEF Finish, Written, TypeOK
  <2>4. mail' \in Seq(Note)
    <3>1. CASE SameSession(c.on)
      <4>1. c.on \in Id
        BY <3>1 DEF SameSession, TypeOK, IsOption
      <4>2. /\ [kind |-> "draft", of |-> c.on] \in Note
            /\ [kind |-> "state", status |-> "Review"] \in Note
        BY <4>1, NoteTypes DEF Status
      <4>3. mail' = Append(Append(mail, [kind |-> "draft", of |-> c.on]),
                           [kind |-> "state", status |-> "Review"])
        BY <1>4, <3>1 DEF Finish
      <4>4. mail \in Seq(Note)
        BY DEF TypeOK
      <4> HIDE DEF Note
      <4> QED BY <4>2, <4>3, <4>4, AppendProperties
    <3>2. CASE ~SameSession(c.on)
      BY <1>4, <3>2 DEF Finish, TypeOK
    <3> QED BY <3>1, <3>2
  <2> QED BY <1>4, <2>1, <2>2, <2>3, <2>4 DEF Finish, TypeOK, IsOption
<1> QED BY <1>1, <1>2, <1>3, <1>4 DEF Pause, Resume, Status

\* What a stop or cancel command makes of the session s it finds: d is the command
\* as it goes on.
TakesAway(c, d, s) ==
  /\ s \in session /\ d \in Call /\ d.cmd = c.cmd /\ d.on = s.id /\ d.task = task
  /\ calls' = (calls \ {c}) \cup {d}
  /\ flag' = [flag EXCEPT ![s.id] = TRUE] /\ task' = {} /\ tap' = {}
Refused(c) == At(c, "failed") /\ UNCHANGED <<session, tap, task, flag, dropped>>

LEMMA Carried ==
  ASSUME TypeOK, NEW c \in calls, NEW s \in session, NEW at \in Stage
  PROVE  /\ Taking(c, s, at) \in Call /\ Taking(c, s, at).cmd = c.cmd
         /\ Taking(c, s, at).on = s.id /\ Taking(c, s, at).task = task
         /\ Taking(c, s, at).at = at
<1>1. c \in [cmd : Command, on : Id \cup {0}, task : SUBSET Id, at : Stage]
  BY DEF TypeOK, Call, Stage
<1>2. s \in [id : Id, status : Status]
  BY DEF TypeOK, IsOption
<1>3. s.id \in Id /\ task \in SUBSET Id /\ c.cmd \in Command
  BY <1>1, <1>2 DEF TypeOK, IsOption
<1> HIDE DEF Id
<1> QED BY <1>3 DEF Taking, Call, Stage

LEMMA StopOutcome ==
  ASSUME TypeOK, NEW c \in calls, Stop(c)
  PROVE  /\ c.cmd = "stop" /\ c.at = "lock"
         /\ UNCHANGED <<loop, dir, mail, ui, started, asked, dropped, overtaken>>
         /\ \/ Refused(c)
            \/ \E s \in session, d \in Call, t \in [id : Id, status : Status] :
                 /\ TakesAway(c, d, s) /\ s.status \in Ongoing /\ d.at = "emit"
                 /\ session' = {t} /\ t.id = s.id /\ t.status = "Processing"
<1> DEFINE moved(s) == [s EXCEPT !.status = "Processing"]
<1>1. c.cmd = "stop" /\ c.at = "lock"
  BY DEF Stop, Holds
<1>2. UNCHANGED <<loop, dir, mail, ui, started, asked, dropped, overtaken>>
  BY DEF Stop
<1>3. \/ At(c, "failed") /\ UNCHANGED <<session, tap, task, flag>>
      \/ /\ \E s \in session : s.status \in Ongoing
         /\ \E s \in session : /\ session' = {moved(s)} /\ StopCapture(s.id)
                             /\ calls' = Moved(c, Taking(c, s, "emit"))
  BY Zenon DEF Stop, handle, Ongoing
<1>4. CASE At(c, "failed") /\ UNCHANGED <<session, tap, task, flag>>
  BY <1>1, <1>2, <1>4 DEF Refused
<1>5. ASSUME NEW s \in session, session' = {moved(s)}, StopCapture(s.id),
             calls' = Moved(c, Taking(c, s, "emit")), \E r \in session : r.status \in Ongoing
      PROVE  \E d \in Call, t \in [id : Id, status : Status] :
               /\ TakesAway(c, d, s) /\ s.status \in Ongoing /\ d.at = "emit"
               /\ session' = {t} /\ t.id = s.id /\ t.status = "Processing"
  <2>1. s.status \in Ongoing /\ s \in [id : Id, status : Status]
    BY <1>5 DEF TypeOK, IsOption
  <2>2. moved(s) \in [id : Id, status : Status] /\ moved(s).id = s.id /\ moved(s).status = "Processing"
    BY <2>1 DEF Status
  <2>3. /\ Taking(c, s, "emit") \in Call /\ Taking(c, s, "emit").cmd = c.cmd
        /\ Taking(c, s, "emit").on = s.id /\ Taking(c, s, "emit").task = task
        /\ Taking(c, s, "emit").at = "emit"
    BY Carried DEF Stage
  <2> HIDE DEF moved
  <2>4. TakesAway(c, Taking(c, s, "emit"), s)
    BY <1>5, <2>3 DEF TakesAway, StopCapture, Moved
  <2> QED BY <1>5, <2>1, <2>2, <2>3, <2>4
<1> HIDE DEF moved
<1> QED BY <1>1, <1>2, <1>3, <1>4, <1>5

LEMMA CancelOutcome ==
  ASSUME TypeOK, NEW c \in calls, Cancel(c)
  PROVE  /\ c.cmd \in Cancels /\ c.at = "lock"
         /\ UNCHANGED <<loop, dir, mail, ui, started, asked, overtaken>>
         /\ \/ Refused(c)
            \/ \E s \in session, d \in Call :
                 /\ TakesAway(c, d, s) /\ d.at = "await" /\ session' = {}
                 /\ \/ dropped' = dropped
                    \/ dropped' = dropped \cup {s.id} /\ s.status \in Ongoing /\ task = {s.id}
<1>1. c.cmd \in Cancels /\ c.at = "lock"
  BY DEF Cancel
<1>2. UNCHANGED <<loop, dir, mail, ui, started, asked, overtaken>>
  BY DEF Cancel
<1>3. \/ At(c, "failed") /\ UNCHANGED <<session, tap, task, flag, dropped>>
      \/ \E s \in session :
           /\ StopCapture(s.id) /\ session' = {} /\ calls' = Moved(c, Taking(c, s, "await"))
           /\ \/ dropped' = dropped
              \/ dropped' = dropped \cup {s.id} /\ s.status \in Ongoing /\ task = {s.id}
  BY Zenon DEF Cancel, handle, Ongoing
<1>4. ASSUME NEW s \in session, StopCapture(s.id), calls' = Moved(c, Taking(c, s, "await"))
      PROVE  \E d \in Call : TakesAway(c, d, s) /\ d.at = "await"
  <2>1. /\ Taking(c, s, "await") \in Call /\ Taking(c, s, "await").cmd = c.cmd
        /\ Taking(c, s, "await").on = s.id /\ Taking(c, s, "await").task = task
        /\ Taking(c, s, "await").at = "await"
    BY Carried DEF Stage
  <2> QED BY <1>4, <2>1 DEF TakesAway, StopCapture, Moved
<1> QED BY <1>1, <1>2, <1>3, <1>4 DEF Refused

\* The commands that take the session away.
LEMMA StopTypes ==
  ASSUME TypeOK, NEW c \in calls, Stop(c) \/ Cancel(c)
  PROVE  TypeOK'
<1>1. UNCHANGED <<loop, dir, mail, ui, started, asked, overtaken>>
  BY StopOutcome, CancelOutcome
<1>2. CASE Refused(c)
  <2>1. calls' \subseteq Call
    BY <1>2, AtType DEF Refused, Stage
  <2> QED BY <1>1, <1>2, <2>1, OptionsStay DEF Refused, TypeOK
<1>3. ASSUME NEW s \in session, NEW d \in Call, TakesAway(c, d, s),
             IsOption(session, [id : Id, status : Status])', dropped' \in {dropped, dropped \cup {s.id}}
      PROVE  TypeOK'
  <2>1. s.id \in Id /\ dropped' \subseteq Id
    BY <1>3 DEF TypeOK, IsOption
  <2>2. calls' \subseteq Call /\ flag' \in [Id -> BOOLEAN]
    BY <1>3, <2>1 DEF TakesAway, TypeOK
  <2>3. IsOption(task, Id)' /\ IsOption(tap, [of : Id, paused : BOOLEAN])'
    BY <1>3 DEF TakesAway, IsOption
  <2> QED BY <1>1, <1>3, <2>1, <2>2, <2>3 DEF TypeOK
<1>4. CASE Stop(c) /\ ~Refused(c)
  <2>1. PICK s \in session, d \in Call, t \in [id : Id, status : Status] :
          TakesAway(c, d, s) /\ session' = {t}
    BY <1>4, StopOutcome
  <2>2. IsOption(session, [id : Id, status : Status])' /\ dropped' = dropped
    BY <1>4, <2>1, StopOutcome DEF IsOption
  <2> QED BY <1>3, <2>1, <2>2
<1>5. CASE Cancel(c) /\ ~Refused(c)
  <2>1. PICK s \in session, d \in Call :
          TakesAway(c, d, s) /\ session' = {} /\ dropped' \in {dropped, dropped \cup {s.id}}
    BY <1>5, CancelOutcome
  <2>2. IsOption(session, [id : Id, status : Status])'
    BY <2>1 DEF IsOption
  <2> QED BY <1>3, <2>1, <2>2
<1> QED BY <1>2, <1>4, <1>5

LEMMA AnnouncedType ==
  ASSUME TypeOK, NEW c \in calls
  PROVE  Announced[c.cmd] \in Status \cup {"Idle"}
<1>1. c.cmd \in {"start", "pause", "resume", "stop", "cancel", "discard", "retry"}
  BY DEF TypeOK, Call, Command, Cancels
<1> QED BY <1>1 DEF Announced, Status

\* The steps of a command that leave the session alone.
LEMMA WalkTypes ==
  ASSUME TypeOK, NEW c \in calls, c.cmd = "start" => c.on \in Id,
         \/ Tap(c) \/ Register(c) \/ Emit(c) \/ Await(c) \/ Empty(c) \/ Unlink(c)
         \/ Read(c) \/ Process(c) \/ Reply(c)
  PROVE  TypeOK'
<1>1. CASE Tap(c) \/ Register(c) \/ Await(c) \/ Empty(c) \/ Unlink(c) \/ Read(c) \/ Process(c)
  <2>1. calls' \subseteq Call
    BY <1>1, AtType DEF Tap, Register, Await, Empty, Unlink, Read, Process, Stage
  <2>2. loop' \in [Id -> {"none", "setup", "connect", "deaf", "loop", "drain", "loose", "ended"}]
    BY <1>1 DEF Tap, Register, Await, Empty, Unlink, Read, Process, TypeOK
  <2>3. dir' \in [Id -> {"none", "full", "emptied"}]
    BY <1>1 DEF Tap, Register, Await, Empty, Unlink, Read, Process, Written, TypeOK
  <2>4. IsOption(tap, [of : Id, paused : BOOLEAN])' /\ IsOption(task, Id)'
    <3>1. CASE Register(c)
      BY <1>1, <3>1 DEF Register, Holds, IsOption
    <3>2. CASE ~Register(c)
      BY <1>1, <3>2, OptionsStay DEF Tap, Await, Empty, Unlink, Read, Process, handle
    <3> QED BY <3>1, <3>2
  <2>5. UNCHANGED <<session, flag, mail, ui, started, asked, dropped, overtaken>>
    BY <1>1 DEF Tap, Register, Await, Empty, Unlink, Read, Process, handle
  <2> QED BY <2>1, <2>2, <2>3, <2>4, <2>5 DEF TypeOK, IsOption
<1>2. CASE Emit(c)
  <2>1. calls' \subseteq Call
    BY <1>2, AtType DEF Emit, Stage
  <2>2. Announced[c.cmd] \in Status \cup {"Idle"}
    BY AnnouncedType
  <2>3. mail' \in Seq(Note)
    BY <1>2, <2>2, NoteTypes, AppendProperties DEF Emit, Told, TypeOK
  <2> QED BY <1>2, <2>1, <2>3 DEF Emit, handle, TypeOK, IsOption
<1>3. CASE Reply(c)
  <2>1. [cmd |-> "retry", on |-> 0, task |-> {}, at |-> "lock"] \in Call
    BY DEF Call, Command, Cancels
  <2>2. calls' \subseteq Call
    BY <1>3, <2>1 DEF Reply, Moved, TypeOK
  <2>3. ui' \in [status : Status \cup {"Idle"}, bar : BOOLEAN]
    BY <1>3 DEF Reply, TypeOK
  <2> QED BY <1>3, <2>2, <2>3 DEF Reply, handle, TypeOK, IsOption
<1> QED BY <1>1, <1>2, <1>3

\* The capture tasks, the interface and its user.
LEMMA OtherTypes ==
  ASSUME TypeOK, (\E i \in Id : Capture(i) \/ Record(i)) \/ Deliver \/ User
  PROVE  TypeOK'
<1>1. ASSUME NEW i \in Id, Capture(i) \/ Record(i) PROVE TypeOK'
  <2>1. loop' \in [Id -> {"none", "setup", "connect", "deaf", "loop", "drain", "loose", "ended"}]
    BY <1>1 DEF Capture, Setup, Leave, Drain, Settle, Record, LoopTo, TypeOK
  <2>2. dir' \in [Id -> {"none", "full", "emptied"}]
    BY <1>1 DEF Capture, Setup, Leave, Drain, Settle, Record, Written, TypeOK
  <2>3. UNCHANGED <<handle, calls, mail, ui, started, asked, dropped>> /\ overtaken' \subseteq Id
    BY <1>1 DEF Capture, Setup, Leave, Drain, Settle, Record, TypeOK
  <2> QED BY <2>1, <2>2, <2>3 DEF handle, TypeOK, IsOption
<1>2. CASE Deliver
  <2>1. mail' \in Seq(Note) /\ Head(mail) \in Note
    BY <1>2, HeadTailProperties DEF Deliver, TypeOK
  <2>2. ui' \in [status : Status \cup {"Idle"}, bar : BOOLEAN]
    <3>1. CASE Head(mail).kind = "draft"
      BY <1>2, <3>1 DEF Deliver, TypeOK, Status
    <3>2. CASE Head(mail).kind # "draft"
      <4>1. Head(mail).status \in Status \cup {"Idle"}
        BY <2>1, <3>2 DEF Note
      <4>2. ui.bar \in BOOLEAN
        BY DEF TypeOK
      <4> QED BY <1>2, <3>2, <4>1, <4>2 DEF Deliver
    <3> QED BY <3>1, <3>2
  <2> QED BY <1>2, <2>1, <2>2 DEF Deliver, handle, TypeOK, IsOption
<1>3. ASSUME NEW cmd \in Command, NEW id \in Id \cup {0}, Issue(cmd, id)
      PROVE  calls' \subseteq Call /\ asked' \in 0 .. MaxAsked
  <2>1. [cmd |-> cmd, on |-> id, task |-> {}, at |-> "lock"] \in Call
    BY DEF Call
  <2>2. asked' \in 0 .. MaxAsked
    BY <1>3, BoundAssumption DEF Issue, TypeOK
  <2> QED BY <1>3, <2>1, <2>2 DEF Issue, TypeOK
<1>4. CASE UiStart
  <2>1. started + 1 \in Id /\ started' \in 0 .. MaxSessions
    BY <1>4, BoundAssumption DEF UiStart, TypeOK
  <2>2. calls' \subseteq Call /\ asked' \in 0 .. MaxAsked
    BY <1>3, <1>4, <2>1 DEF UiStart, Command
  <2>3. ui' \in [status : Status \cup {"Idle"}, bar : BOOLEAN]
    BY <1>4 DEF UiStart, TypeOK, Status
  <2> QED BY <1>4, <2>1, <2>2, <2>3 DEF UiStart, handle, TypeOK, IsOption
<1>5. CASE UiCancel \/ UiDiscard \/ \E cmd \in {"pause", "resume", "stop"} : UiBar(cmd)
  <2>1. calls' \subseteq Call /\ asked' \in 0 .. MaxAsked
    BY <1>3, <1>5 DEF UiCancel, UiDiscard, UiBar, Command, Cancels
  <2>2. ui' \in [status : Status \cup {"Idle"}, bar : BOOLEAN]
    <3>1. CASE UiCancel
      BY <3>1 DEF UiCancel, Status
    <3>2. CASE ~UiCancel
      BY <1>5, <3>2 DEF UiDiscard, UiBar, TypeOK
    <3> QED BY <3>1, <3>2
  <2> QED BY <1>5, <2>1, <2>2 DEF UiCancel, UiDiscard, UiBar, handle, TypeOK, IsOption
<1> QED BY <1>1, <1>2, <1>4, <1>5 DEF User
-----------------------------------------------------------------------------
(* What a step of a command may do to the rest. *)

\* Command c goes on as d.  Only a start goes on as a start, and only a stop as a
\* stop; the recording is another one only if it is the session's.
Goes(c, d) ==
  /\ d \in Call /\ calls \ {c} \subseteq calls' /\ calls' \subseteq (calls \ {c}) \cup {d}
  /\ d.on \in {0, c.on} \/ \E s \in session : d.on = s.id
  /\ d.cmd = "start" => /\ c.cmd = "start" /\ d.on = c.on /\ d.at # "lock"
                        /\ d.at \in {"tap", "register"} => c.at \in {"lock", "tap", "register"}
  /\ d.cmd = "stop" =>
       /\ c.cmd = "stop"
       /\ \/ d.on = c.on /\ (d.at = "failed" \/ c.at \notin {"lock", "failed"})
          \/ /\ d.on > 0 /\ flag'[d.on] /\ \E s \in session : d.on = s.id
             /\ \A s \in session' : s.status \notin Ongoing

\* A session is what it was, or the one that c has started; only its own stop has
\* it reviewed, and only a start through with it hands over the capture task.
Keeps(c, at) ==
  /\ started' = started
  /\ \A s \in session' :
       \/ \E t \in session :
            /\ t.id = s.id /\ (s.status \in Ongoing => t.status \in Ongoing)
            /\ s.status = "Review" => t.status = "Review" \/ flag'[s.id]
       \/ c.cmd = "start" /\ c.at = "lock" /\ s.id = c.on /\ s.status # "Review"
  /\ \A k \in task' \cup dropped' :
       \/ k \in task \cup dropped
       \/ c.cmd = "start" /\ k = c.on /\ at \notin {"lock", "tap", "register"}
  /\ \A i \in Id : flag[i] => flag'[i]
  /\ \A n \in DOMAIN mail' : mail'[n].kind = "draft" =>
       (\E m \in DOMAIN mail : mail[m] = mail'[n]) \/ flag'[mail'[n].of]

LEMMA AtGoes ==
  ASSUME TypeOK, NEW c \in calls, NEW at \in Stage \ {"lock"}, At(c, at),
         at \in {"tap", "register"} => c.at \in {"lock", "tap", "register"},
         c.cmd = "stop" => at = "failed" \/ c.at \notin {"lock", "failed"}
  PROVE  /\ Goes(c, [c EXCEPT !.at = at]) /\ [c EXCEPT !.at = at].at = at
         /\ calls' = (calls \ {c}) \cup {[c EXCEPT !.at = at]}
<1> DEFINE d == [c EXCEPT !.at = at]
<1>1. /\ calls' = (calls \ {c}) \cup {d} /\ d \in Call
      /\ d.at = at /\ d.cmd = c.cmd /\ d.on = c.on
  BY AtType
<1> HIDE DEF d
<1>2. Goes(c, d)
  BY <1>1 DEF Goes
<1> QED BY <1>1, <1>2 DEF d

\* What was there before the step still bears witness to itself.
LEMMA Unmoved ==
  ASSUME TypeOK
  PROVE  /\ UNCHANGED session => \A s \in session' : \E t \in session :
              t.id = s.id /\ t.status = s.status
         /\ UNCHANGED flag => \A i \in Id : flag[i] => flag'[i]
         /\ UNCHANGED mail => \A n \in DOMAIN mail' : \E m \in DOMAIN mail : mail[m] = mail'[n]
BY Zenon

\* What is in the box after one more note.
LEMMA Posted ==
  ASSUME NEW box \in Seq(Note), NEW note \in Note
  PROVE  /\ Append(box, note) \in Seq(Note)
         /\ \A n \in DOMAIN Append(box, note) :
              \/ Append(box, note)[n] = note
              \/ n \in DOMAIN box /\ Append(box, note)[n] = box[n]
<1> HIDE DEF Note
<1>1. /\ Append(box, note) \in Seq(Note) /\ Len(Append(box, note)) = Len(box) + 1
      /\ \A n \in 1 .. Len(box) : Append(box, note)[n] = box[n]
      /\ Append(box, note)[Len(box) + 1] = note
  BY AppendProperties
<1>2. DOMAIN Append(box, note) = 1 .. Len(Append(box, note)) /\ DOMAIN box = 1 .. Len(box)
      /\ Len(box) \in Nat
  BY <1>1, LenProperties
<1> DEFINE after == Append(box, note)
<1> HIDE DEF after
<1>3. ASSUME NEW n \in DOMAIN after PROVE n \in DOMAIN box \/ n = Len(box) + 1
  <2>1. n \in 1 .. Len(box) + 1 /\ DOMAIN box = 1 .. Len(box) /\ Len(box) \in Nat
    BY <1>1, <1>2, <1>3 DEF after
  <2> QED BY <2>1
<1> QED BY <1>1, <1>2, <1>3 DEF after

\* The steps of a command that change neither the session nor its signal.
LEMMA WalkKeeps ==
  ASSUME TypeOK, NEW c \in calls,
         \/ Tap(c) \/ Register(c) \/ Emit(c) \/ Await(c) \/ Empty(c) \/ Unlink(c)
         \/ Read(c) \/ Process(c)
  PROVE  \E at \in Stage : /\ Goes(c, [c EXCEPT !.at = at]) /\ Keeps(c, at)
                          /\ [c EXCEPT !.at = at].at = at
<1>1. UNCHANGED <<session, flag, started, dropped>>
  BY DEF Tap, Register, Emit, Await, Empty, Unlink, Read, Process, handle
<1>2. ASSUME NEW at \in Stage,
             \A k \in task' : k \in task \/ (c.cmd = "start" /\ k = c.on /\ at = "emit"),
             \A n \in DOMAIN mail' : mail'[n].kind = "draft" =>
               (\E m \in DOMAIN mail : mail[m] = mail'[n])
      PROVE  Keeps(c, at)
  <2>1. \A s \in session' : \E t \in session : t.id = s.id /\ t.status = s.status
    BY <1>1, Unmoved
  <2> QED BY <1>1, <1>2, <2>1, Unmoved DEF Keeps
<1>3. ASSUME NEW at \in Stage, at # "lock", UNCHANGED <<task, mail>>, At(c, at),
             at \in {"tap", "register"} => c.at = "tap",
             c.cmd = "stop" => at = "failed" \/ c.at \notin {"lock", "failed"}
      PROVE  /\ Goes(c, [c EXCEPT !.at = at]) /\ Keeps(c, at)
             /\ [c EXCEPT !.at = at].at = at
  <2>1. Keeps(c, at)
    BY <1>2, <1>3, Unmoved
  <2> QED BY <1>3, <2>1, AtGoes
<1>4. CASE Tap(c)
  BY <1>3, <1>4 DEF Tap, Holds, handle, Stage
<1>5. CASE Register(c)
  <2>1. Keeps(c, "emit")
    BY <1>2, <1>5, Unmoved DEF Register, Holds, Stage
  <2> QED BY <1>5, <2>1, AtGoes DEF Register, Holds, Stage
<1>6. CASE Emit(c)
  <2> DEFINE at == IF c.cmd = "stop" THEN "await" ELSE "ok"
  <2>1. at \in Stage /\ at \notin {"lock", "tap", "register"}
    BY DEF Stage
  <2>2. Announced[c.cmd] \in Status \cup {"Idle"}
    BY AnnouncedType
  <2>3. \A n \in DOMAIN mail' : mail'[n].kind = "draft" =>
           (\E m \in DOMAIN mail : mail[m] = mail'[n])
    <3> DEFINE note == [kind |-> "state", status |-> Announced[c.cmd]]
    <3>1. note \in Note /\ note.kind = "state"
      BY <2>2, NoteTypes
    <3>2. mail' = Append(mail, note) /\ mail \in Seq(Note)
      BY <1>6 DEF Emit, Told, TypeOK
    <3> HIDE DEF note, Note
    <3>3. \A n \in DOMAIN mail' : mail'[n] = note \/ (n \in DOMAIN mail /\ mail'[n] = mail[n])
      BY <3>1, <3>2, Posted, Zenon
    <3> QED BY <3>1, <3>3
  <2>4. Keeps(c, at)
    <3>1. UNCHANGED task
      BY <1>6 DEF Emit, handle
    <3> QED BY <1>2, <2>1, <2>3, <3>1
  <2>5. At(c, at) /\ c.at = "emit"
    BY <1>6 DEF Emit
  <2> HIDE DEF at
  <2> QED BY <2>1, <2>4, <2>5, AtGoes
<1>7. CASE Await(c)
  <2> DEFINE at == IF c.cmd = "stop" THEN "read" ELSE "empty"
  <2>1. at \in Stage /\ at \notin {"lock", "tap", "register"}
    BY DEF Stage
  <2>2. At(c, at) /\ c.at = "await" /\ UNCHANGED <<task, mail>>
    BY <1>7 DEF Await, handle
  <2> HIDE DEF at
  <2> QED BY <1>3, <2>1, <2>2
<1>8. CASE Empty(c) \/ Unlink(c) \/ Read(c) \/ Process(c)
  <2>1. PICK at \in {"unlink", "emit", "process", "failed", "finish"} : At(c, at)
    BY <1>8 DEF Empty, Unlink, Read, Process
  <2>2. c.at \in {"empty", "unlink", "read", "process"} /\ UNCHANGED <<task, mail>>
    BY <1>8 DEF Empty, Unlink, Read, Process, Holds, handle
  <2> QED BY <1>3, <2>1, <2>2 DEF Stage
<1> QED BY <1>4, <1>5, <1>6, <1>7, <1>8

\* The steps that change the session: its start, its pauses and its review.
LEMMA SessionKeeps ==
  ASSUME TypeOK, Signalled, NEW c \in calls,
         Install(c) \/ Rollback(c) \/ Pause(c) \/ Resume(c) \/ Finish(c)
  PROVE  \E at \in Stage : /\ Goes(c, [c EXCEPT !.at = at]) /\ Keeps(c, at)
                           /\ [c EXCEPT !.at = at].at = at
<1>1. \A s \in session : s \in [id : Id, status : Status]
  BY DEF TypeOK, IsOption
<1>2. CASE Install(c)
  <2>1. UNCHANGED <<task, flag, mail, started, dropped>> /\ c.cmd = "start" /\ c.at = "lock"
    BY <1>2 DEF Install, Holds
  <2>2. CASE At(c, "failed") /\ UNCHANGED session
    <3>1. \A s \in session' : \E t \in session : t.id = s.id /\ t.status = s.status
      BY <2>2, Unmoved
    <3>2. Keeps(c, "failed")
      BY <2>1, <3>1, Unmoved DEF Keeps
    <3> QED BY <2>1, <2>2, <3>2, AtGoes DEF Stage
  <2>3. CASE At(c, "tap") /\ session' = {[id |-> c.on, status |-> "Recording"]}
    <3>1. Keeps(c, "tap")
      BY <2>1, <2>3, Unmoved DEF Keeps
    <3> QED BY <2>1, <2>3, <3>1, AtGoes DEF Stage
  <2> QED BY <1>2, <2>2, <2>3 DEF Install
<1>3. CASE Rollback(c)
  <2>1. /\ UNCHANGED <<task, flag, mail, started, dropped>> /\ session' = {}
        /\ c.cmd = "start" /\ c.at = "tap" /\ At(c, "failed")
    BY <1>3 DEF Rollback, Holds
  <2>2. Keeps(c, "failed")
    BY <2>1, Unmoved DEF Keeps
  <2> QED BY <2>1, <2>2, AtGoes DEF Stage
<1>4. ASSUME NEW cmd \in {"pause", "resume"}, NEW from \in Ongoing, NEW to \in Ongoing,
             Toggle(c, cmd, from, to)
      PROVE  \E at \in Stage : /\ Goes(c, [c EXCEPT !.at = at]) /\ Keeps(c, at)
                               /\ [c EXCEPT !.at = at].at = at
  <2>1. UNCHANGED <<task, flag, mail, started, dropped>> /\ c.cmd = cmd
    BY <1>4 DEF Toggle, Holds
  <2>2. PICK at \in {"emit", "failed"} : At(c, at)
    BY <1>4 DEF Toggle
  <2>3. \A s \in session' : \E t \in session :
           t.id = s.id /\ (t.status = s.status \/ (s.status = to /\ t.status = from))
    <3>1. CASE UNCHANGED session
      BY <3>1
    <3>2. CASE /\ \E s \in session : s.status = from
               /\ session' = {[s EXCEPT !.status = to] : s \in session}
      <4>1. \A s \in session : s.status = from
        BY <3>2 DEF TypeOK, IsOption
      <4>2. \A s \in session : [s EXCEPT !.status = to].id = s.id /\ [s EXCEPT !.status = to].status = to
        BY <1>1
      <4> QED BY <3>2, <4>1, <4>2
    <3> QED BY <1>4, <3>1, <3>2 DEF Toggle
  <2>4. Keeps(c, at)
    BY <1>4, <2>1, <2>3, Unmoved DEF Keeps, Ongoing
  <2> QED BY <2>1, <2>2, <2>4, AtGoes DEF Stage
<1>5. CASE Finish(c)
  <2>1. /\ UNCHANGED <<task, flag, started, dropped>>
        /\ c.cmd = "stop" /\ c.at = "finish" /\ At(c, "ok")
    BY <1>5 DEF Finish, Holds
  <2>2. c.on \in Id /\ flag[c.on]
    BY <2>1 DEF Signalled, Stops, TypeOK, Call
  <2>3. CASE ~SameSession(c.on)
    <3>1. UNCHANGED <<session, mail>>
      BY <1>5, <2>3 DEF Finish
    <3>2. \A s \in session' : \E t \in session : t.id = s.id /\ t.status = s.status
      BY <3>1, Unmoved
    <3>3. Keeps(c, "ok")
      BY <2>1, <3>1, <3>2, Unmoved DEF Keeps
    <3> QED BY <2>1, <3>3, AtGoes DEF Stage
  <2>4. CASE SameSession(c.on)
    <3>1. \A s \in session : s.id = c.on
      BY <2>4 DEF SameSession, TypeOK, IsOption
    <3>2. \A s \in session' : s.status = "Review" /\ \E t \in session : t.id = s.id /\ s.id = c.on
      <4>1. session' = {[s EXCEPT !.status = "Review"] : s \in session}
        BY <1>5, <2>4 DEF Finish
      <4>2. \A s \in session : /\ [s EXCEPT !.status = "Review"].id = s.id
                               /\ [s EXCEPT !.status = "Review"].status = "Review"
        BY <1>1
      <4> QED BY <3>1, <4>1, <4>2
    <3>3. \A n \in DOMAIN mail' : mail'[n].kind = "draft" =>
             (\E m \in DOMAIN mail : mail[m] = mail'[n]) \/ mail'[n].of = c.on
      <4> DEFINE draft == [kind |-> "draft", of |-> c.on]
                 state == [kind |-> "state", status |-> "Review"]
                 first == Append(mail, draft)
      <4>1. draft \in Note /\ state \in Note /\ draft.of = c.on /\ state.kind = "state"
        BY <2>2, NoteTypes DEF Status
      <4>2. mail' = Append(first, state) /\ mail \in Seq(Note)
        BY <1>5, <2>4 DEF Finish, TypeOK
      <4> HIDE DEF draft, state, Note
      <4>3. /\ first \in Seq(Note)
            /\ \A n \in DOMAIN first : first[n] = draft \/ (n \in DOMAIN mail /\ first[n] = mail[n])
        BY <4>1, <4>2, Posted, Zenon
      <4> HIDE DEF first
      <4>4. \A n \in DOMAIN mail' : mail'[n] = state \/ (n \in DOMAIN first /\ mail'[n] = first[n])
        BY <4>1, <4>2, <4>3, Posted, Zenon
      <4> QED BY <4>1, <4>3, <4>4
    <3>4. Keeps(c, "ok")
      BY <2>1, <2>2, <3>2, <3>3, Unmoved DEF Keeps, Ongoing
    <3> QED BY <2>1, <3>4, AtGoes DEF Stage
  <2> QED BY <2>3, <2>4
<1> QED BY <1>2, <1>3, <1>4, <1>5 DEF Pause, Resume, Ongoing

\* A stop, a cancel, and the answer of a command.
LEMMA StopKeeps ==
  ASSUME TypeOK, Numbered, Signalled, NEW c \in calls, Stop(c) \/ Cancel(c) \/ Reply(c)
  PROVE  \E d \in Call : Goes(c, d) /\ Keeps(c, d.at)
<1>1. CASE Refused(c) /\ (Stop(c) \/ Cancel(c))
  <2>1. UNCHANGED <<session, task, flag, mail, started, dropped>> /\ At(c, "failed")
    BY <1>1, StopOutcome, CancelOutcome DEF Refused
  <2>2. \A s \in session' : \E t \in session : t.id = s.id /\ t.status = s.status
    BY <2>1, Unmoved
  <2>3. Keeps(c, "failed")
    BY <2>1, <2>2, Unmoved DEF Keeps
  <2>4. [c EXCEPT !.at = "failed"] \in Call
    BY <2>1, AtType DEF Stage
  <2> QED BY <2>1, <2>3, <2>4, AtGoes DEF Stage
<1>2. ASSUME NEW s \in session, NEW d \in Call, TakesAway(c, d, s)
      PROVE  /\ s.id \in Id /\ calls \ {c} \subseteq calls' /\ calls' \subseteq (calls \ {c}) \cup {d}
             /\ d.cmd = c.cmd /\ d.on = s.id /\ task' = {}
             /\ flag'[s.id] /\ \A i \in Id : flag[i] => flag'[i]
  BY <1>2 DEF TakesAway, TypeOK, IsOption
<1>3. CASE Stop(c) /\ ~Refused(c)
  <2>1. PICK s \in session, d \in Call, t \in [id : Id, status : Status] :
          /\ TakesAway(c, d, s) /\ s.status \in Ongoing /\ d.at = "emit"
          /\ session' = {t} /\ t.id = s.id /\ t.status = "Processing"
    BY <1>3, StopOutcome
  <2>2. c.cmd = "stop" /\ UNCHANGED <<mail, started, dropped>>
    BY <1>3, StopOutcome
  <2>3. Goes(c, d)
    BY <1>2, <2>1, <2>2 DEF Goes, Ongoing
  <2>4. Keeps(c, d.at)
    BY <1>2, <2>1, <2>2, Unmoved DEF Keeps, Ongoing
  <2> QED BY <2>3, <2>4
<1>4. CASE Cancel(c) /\ ~Refused(c)
  <2>1. PICK s \in session, d \in Call :
          /\ TakesAway(c, d, s) /\ d.at = "await" /\ session' = {}
          /\ \/ dropped' = dropped
             \/ dropped' = dropped \cup {s.id} /\ s.status \in Ongoing /\ task = {s.id}
    BY <1>4, CancelOutcome
  <2>2. c.cmd \in Cancels /\ UNCHANGED <<mail, started>>
    BY <1>4, CancelOutcome
  <2>3. Goes(c, d)
    BY <1>2, <2>1, <2>2 DEF Goes, Cancels
  <2>4. Keeps(c, d.at)
    BY <1>2, <2>1, <2>2, Unmoved DEF Keeps
  <2> QED BY <2>3, <2>4
<1>5. CASE Reply(c)
  <2> DEFINE d == [cmd |-> "retry", on |-> 0, task |-> {}, at |-> "lock"]
  <2>1. d \in Call
    BY DEF Call, Command, Cancels
  <2>2. /\ UNCHANGED <<session, task, flag, mail, started, dropped>>
        /\ calls \ {c} \subseteq calls' /\ calls' \subseteq (calls \ {c}) \cup {d}
    BY <1>5 DEF Reply, handle, Moved
  <2>3. d.on = 0 /\ d.cmd = "retry"
    OBVIOUS
  <2> HIDE DEF d
  <2>4. Goes(c, d)
    BY <2>1, <2>2, <2>3 DEF Goes
  <2>5. \A s \in session' : \E t \in session : t.id = s.id /\ t.status = s.status
    BY <2>2, Unmoved
  <2>6. Keeps(c, d.at)
    BY <2>2, <2>5, Unmoved DEF Keeps
  <2> QED BY <2>1, <2>4, <2>6
<1> QED BY <1>1, <1>3, <1>4, <1>5

LEMMA StepGoes ==
  ASSUME TypeOK, Numbered, Signalled, NEW c \in calls, Step(c)
  PROVE  \E d \in Call : Goes(c, d) /\ Keeps(c, d.at)
<1>1. (\E at \in Stage : /\ Goes(c, [c EXCEPT !.at = at]) /\ Keeps(c, at)
                         /\ [c EXCEPT !.at = at].at = at)
      => \E d \in Call : Goes(c, d) /\ Keeps(c, d.at)
  BY DEF Goes
<1>2. CASE \/ Tap(c) \/ Register(c) \/ Emit(c) \/ Await(c) \/ Empty(c) \/ Unlink(c)
           \/ Read(c) \/ Process(c)
  BY <1>1, <1>2, WalkKeeps
<1>3. CASE Install(c) \/ Rollback(c) \/ Pause(c) \/ Resume(c) \/ Finish(c)
  BY <1>1, <1>3, SessionKeeps
<1>4. CASE Stop(c) \/ Cancel(c) \/ Reply(c)
  BY <1>4, StopKeeps
<1> QED BY <1>2, <1>3, <1>4 DEF Step

-----------------------------------------------------------------------------
(* A step of a command keeps the invariant. *)

\* Numbers, beginnings and signals follow from what a step may do.
LEMMA GoesKeeps ==
  ASSUME TypeOK, Numbered, Begun, Signalled, ReviewIsStopped,
         NEW c \in calls, NEW d \in Call, Goes(c, d), Keeps(c, d.at)
  PROVE  Numbered' /\ Begun' /\ Signalled' /\ ReviewIsStopped'
<1> USE DEF Goes, Keeps
<1>1. /\ started \in Nat /\ started \in 0 .. MaxSessions /\ \A k \in calls : k \in Call /\ k.on \in Nat
      /\ d.on \in Nat /\ \A s \in session : s.id \in Id /\ s.id \in Nat
      /\ c.on \in Nat
  BY BoundAssumption DEF TypeOK, Call, IsOption
<1>2. \A k \in calls' : k \in calls \ {c} \/ k = d
  OBVIOUS
<1>3. \A k \in calls \ {c} : Starts(k) /\ c.cmd = "start" => k.on # c.on
  BY DEF Numbered, Starts
<1>4. Numbered'
  <2>1. \A s \in session' : s.id <= started'
    BY <1>1 DEF Numbered
  <2>2. (task \cup dropped)' \subseteq 1 .. started'
    <3>1. c.cmd = "start" => c.on \in 1 .. started
      BY <1>1 DEF Numbered
    <3> QED BY <3>1 DEF Numbered
  <2>3. \A k \in calls' : k.on <= started' /\ (k.cmd = "start" => k.on > 0)
    <3>1. d.on <= started /\ (d.cmd = "start" => d.on > 0)
      BY <1>1 DEF Numbered
    <3> QED BY <1>2, <3>1 DEF Numbered
  <2>4. \A k, l \in calls' : k.cmd = "start" /\ l.cmd = "start" /\ k.on = l.on => k = l
    BY <1>2, <1>3 DEF Numbered, Starts
  <2> QED BY <2>1, <2>2, <2>3, <2>4 DEF Numbered, Starts
<1>5. Begun'
  <2> SUFFICES ASSUME NEW k \in calls', k.cmd = "start"
               PROVE  /\ k.at = "lock" => /\ \A s \in session' : s.id # k.on
                                          /\ \A l \in calls' : l.on = k.on => l = k
                      /\ k.at \in {"lock", "tap", "register"} => k.on \notin task' \cup dropped'
    BY DEF Begun, Starts
  <2>1. CASE k \in calls \ {c}
    <3>1. k.on > 0 /\ (c.cmd = "start" => c.on # k.on)
      BY <1>3, <2>1 DEF Numbered, Starts
    <3>2. k.at = "lock" => /\ \A s \in session : s.id # k.on
                           /\ \A l \in calls : l.on = k.on => l = k
      BY <2>1 DEF Begun, Starts
    <3>3. ASSUME k.at = "lock" PROVE \A s \in session' : s.id # k.on
      BY <3>1, <3>2, <3>3
    <3>4. ASSUME k.at = "lock", NEW l \in calls', l.on = k.on PROVE l = k
      <4>1. CASE l \in calls
        BY <3>2, <3>4, <4>1
      <4>2. CASE l = d
        <5>1. d.on # c.on
          BY <2>1, <3>2, <3>4, <4>2
        <5> QED BY <3>1, <3>2, <3>4, <4>2, <5>1
      <4> QED BY <1>2, <4>1, <4>2
    <3>5. k.at \in {"lock", "tap", "register"} => k.on \notin task' \cup dropped'
      <4>1. k.at \in {"lock", "tap", "register"} => k.on \notin task \cup dropped
        BY <2>1 DEF Begun, Starts
      <4> QED BY <3>1, <4>1
    <3> QED BY <3>3, <3>4, <3>5
  <2>2. CASE k = d
    <3>1. c.cmd = "start" /\ k.on = c.on /\ k.at # "lock"
          /\ (k.at \in {"tap", "register"} => c.at \in {"lock", "tap", "register"})
      BY <2>2
    <3>2. c.at \in {"lock", "tap", "register"} => c.on \notin task \cup dropped
      BY <3>1 DEF Begun, Starts
    <3> QED BY <2>2, <3>1, <3>2
  <2> QED BY <1>2, <2>1, <2>2
<1>6. Signalled'
  <2>1. ASSUME NEW k \in calls', k.cmd = "stop", k.at \notin {"lock", "failed"}
        PROVE  k.on > 0 /\ flag'[k.on]
    <3>1. ASSUME NEW l \in calls, l.cmd = "stop", l.at \notin {"lock", "failed"}
          PROVE  l.on > 0 /\ l.on \in Id /\ flag[l.on]
      <4>1. l.on > 0 /\ flag[l.on] /\ l.on \in Id \cup {0}
        BY <1>1, <3>1 DEF Signalled, Stops, Call
      <4> QED BY <4>1
    <3>2. CASE k \in calls
      BY <2>1, <3>1, <3>2
    <3>3. CASE k = d
      BY <2>1, <3>1, <3>3
    <3> QED BY <1>2, <3>2, <3>3
  <2>2. ASSUME NEW s \in session', NEW k \in calls', s.status \in Ongoing, k.cmd = "stop"
        PROVE  k.on # s.id
    <3>1. CASE k \in calls \ {c}
      <4>1. CASE c.cmd = "start" /\ c.at = "lock" /\ s.id = c.on
        BY <3>1, <4>1 DEF Begun, Starts
      <4>2. CASE \E t \in session : t.id = s.id /\ t.status \in Ongoing
        BY <2>2, <3>1, <4>2 DEF Signalled, Stops
      <4> QED BY <2>2, <4>1, <4>2
    <3>2. CASE k = d
      <4>1. c.cmd = "stop" /\ d.on = c.on
        BY <2>2, <3>2
      <4>2. PICK t \in session : t.id = s.id /\ t.status \in Ongoing
        BY <2>2, <4>1
      <4> QED BY <3>2, <4>1, <4>2 DEF Signalled, Stops
    <3> QED BY <1>2, <3>1, <3>2
  <2> QED BY <2>1, <2>2 DEF Signalled, Stops
<1>7. ReviewIsStopped'
  <2>1. ASSUME NEW s \in session', s.status = "Review" PROVE flag'[s.id]
    <3>1. PICK t \in session : t.id = s.id /\ (t.status = "Review" \/ flag'[s.id])
      BY <2>1
    <3> QED BY <1>1, <3>1 DEF ReviewIsStopped
  <2>2. ASSUME NEW n \in DOMAIN mail', mail'[n].kind = "draft" PROVE flag'[mail'[n].of]
    <3>1. CASE \E m \in DOMAIN mail : mail[m] = mail'[n]
      <4>1. PICK m \in DOMAIN mail : mail[m] = mail'[n]
        BY <3>1
      <4>2. mail[m] \in Note
        <5>1. mail \in Seq(Note)
          BY DEF TypeOK
        <5> HIDE DEF Note
        <5> QED BY <4>1, <5>1, ElementOfSeq, LenProperties
      <4>3. mail[m].of \in Id /\ flag[mail[m].of]
        BY <2>2, <4>1, <4>2 DEF Note, ReviewIsStopped
      <4> QED BY <4>1, <4>3
    <3> QED BY <2>2, <3>1
  <2> QED BY <2>1, <2>2 DEF ReviewIsStopped
<1> QED BY <1>4, <1>5, <1>6, <1>7

\* While the remover of a cancelled recording is on its way, its capture task and
\* its directory change in its favour only.
LEMMA DroppedRests ==
  ASSUME TypeOK, Begun, Signalled, Gone, NEW c \in calls, Step(c), NEW i \in dropped
  PROVE  /\ loop'[i] = loop[i] /\ UNCHANGED overtaken
         /\ \/ dir'[i] = dir[i] \/ dir'[i] = "none"
            \/ dir[i] = "full" /\ dir'[i] = "emptied"
<1>1. i \in Id /\ loop \in [Id -> {"none", "setup", "connect", "deaf", "loop", "drain", "loose", "ended"}]
      /\ dir \in [Id -> {"none", "full", "emptied"}]
  BY DEF TypeOK
<1>2. (c.cmd = "start" /\ c.at \in {"lock", "tap", "register"}) => c.on # i
  BY DEF Begun, Starts
<1>3. c.cmd = "stop" => c.on # i
  BY DEF Gone, Stops
<1>4. CASE Install(c) \/ Rollback(c)
  BY <1>1, <1>2, <1>4 DEF Install, Rollback, Holds
<1>5. CASE Tap(c)
  BY <1>1, <1>2, <1>5 DEF Tap, Holds
<1>6. CASE Process(c) \/ Finish(c)
  BY <1>1, <1>3, <1>6 DEF Process, Finish, Holds, Written
<1>7. CASE Empty(c) \/ Unlink(c)
  BY <1>1, <1>7 DEF Empty, Unlink
<1>8. CASE Stop(c) \/ Cancel(c)
  BY <1>8, StopOutcome, CancelOutcome
<1>9. CASE Register(c) \/ Pause(c) \/ Resume(c) \/ Emit(c) \/ Await(c) \/ Read(c) \/ Reply(c)
  BY <1>9 DEF Register, Pause, Resume, Toggle, Emit, Await, Read, Reply
<1> QED BY <1>4, <1>5, <1>6, <1>7, <1>8, <1>9 DEF Step

\* The remover itself does its part.
LEMMA RemoverGoes ==
  ASSUME TypeOK, NEW c \in calls, Step(c), NEW i \in dropped, Removes(c, i)
  PROVE  dir'[i] = "none" \/ i \in overtaken' \/ \E r \in calls' : Removes(r, i)'
<1>1. i \in Id /\ dir \in [Id -> {"none", "full", "emptied"}]
      /\ c.cmd \in Cancels /\ c.on = i
  BY DEF TypeOK, Removes
<1>2. c.cmd \notin {"start", "pause", "resume", "stop"}
  BY <1>1 DEF Cancels
<1>3. Await(c) \/ Empty(c) \/ Unlink(c)
  BY <1>2 DEF Removes, Step, Install, Tap, Rollback, Register, Pause, Resume, Toggle, Emit,
              Stop, Cancel, Read, Process, Finish, Reply, Holds
<1>4. ASSUME NEW at \in Stage, At(c, at)
      PROVE  \E r \in calls' : r.cmd = c.cmd /\ r.on = c.on /\ r.at = at
  <2> DEFINE r == [c EXCEPT !.at = at]
  <2>1. r \in calls' /\ r.cmd = c.cmd /\ r.on = c.on /\ r.at = at
    BY <1>4, AtType
  <2> HIDE DEF r
  <2> QED BY <2>1
<1>5. CASE Await(c)
  <2>1. At(c, "empty") /\ c.at = "await" /\ UNCHANGED loop /\ Ended(c)
    BY <1>2, <1>5 DEF Await
  <2>2. Through(i)
    BY <2>1 DEF Removes, Ended, Through
  <2>3. PICK r \in calls' : r.cmd = c.cmd /\ r.on = c.on /\ r.at = "empty"
    BY <1>4, <2>1 DEF Stage
  <2> QED BY <1>1, <2>1, <2>2, <2>3 DEF Removes, Through
<1>6. CASE Empty(c)
  <2>1. At(c, "unlink") /\ c.at = "empty" /\ UNCHANGED loop /\ Through(i)
    BY <1>6 DEF Empty, Removes
  <2>2. dir'[i] \in {"none", "emptied"}
    BY <1>1, <1>6 DEF Empty
  <2>3. PICK r \in calls' : r.cmd = c.cmd /\ r.on = c.on /\ r.at = "unlink"
    BY <1>4, <2>1 DEF Stage
  <2> QED BY <1>1, <2>1, <2>2, <2>3 DEF Removes, Through
<1>7. CASE Unlink(c)
  <2>1. (dir[i] = "emptied" \/ i \in overtaken) /\ UNCHANGED overtaken
    BY <1>7 DEF Unlink, Removes
  <2> QED BY <1>1, <1>7, <2>1 DEF Unlink
<1> QED BY <1>3, <1>5, <1>6, <1>7

LEMMA StepKeepsGone ==
  ASSUME TypeOK, SessionInv, NEW c \in calls, Step(c)
  PROVE  Gone'
<1> USE DEF SessionInv
<1>1. PICK d \in Call : Goes(c, d) /\ Keeps(c, d.at)
  BY StepGoes
<1>2. ASSUME NEW i \in dropped
      PROVE  /\ \A s \in session' : s.id # i
             /\ \A k \in calls' : k.cmd = "stop" => k.on # i
             /\ dir'[i] = "none" \/ i \in overtaken' \/ \E r \in calls' : Removes(r, i)'
  <2>1. \A s \in session : s.id # i
    BY DEF Gone
  <2>2. \A k \in calls : k.cmd = "stop" => k.on # i
    BY DEF Gone, Stops
  <2>3. c.cmd = "start" /\ c.at = "lock" => c.on # i
    BY DEF Begun, Starts
  <2>4. \A s \in session' : s.id # i
    BY <1>1, <2>1, <2>3 DEF Keeps
  <2>5. \A k \in calls' : k.cmd = "stop" => k.on # i
    <3>1. d.cmd = "stop" => d.on # i
      BY <1>1, <2>1, <2>2 DEF Goes
    <3> QED BY <1>1, <2>2, <3>1 DEF Goes
  <2>6. dir'[i] = "none" \/ i \in overtaken' \/ \E r \in calls' : Removes(r, i)'
    <3>1. /\ loop'[i] = loop[i] /\ UNCHANGED overtaken
          /\ \/ dir'[i] = dir[i] \/ dir'[i] = "none"
             \/ dir[i] = "full" /\ dir'[i] = "emptied"
      BY DroppedRests
    <3>2. CASE dir[i] = "none" \/ i \in overtaken
      BY <3>1, <3>2
    <3>3. CASE Removes(c, i)
      BY <3>3, RemoverGoes
    <3>4. ASSUME NEW r \in calls \ {c}, Removes(r, i), dir'[i] # "none" PROVE Removes(r, i)'
      BY <3>1, <3>4 DEF Removes, Through
    <3>5. calls \ {c} \subseteq calls'
      BY <1>1 DEF Goes
    <3> QED BY <3>2, <3>3, <3>4, <3>5 DEF Gone
  <2> QED BY <2>4, <2>5, <2>6
<1>3. ASSUME NEW i \in dropped' \ dropped
      PROVE  /\ \A s \in session' : s.id # i
             /\ \A k \in calls' : k.cmd = "stop" => k.on # i
             /\ \E r \in calls' : Removes(r, i)'
  <2>1. Cancel(c)
    BY <1>3, StopOutcome DEF Step, Install, Tap, Rollback, Register, Pause, Resume, Toggle, Emit,
       Await, Empty, Unlink, Read, Process, Finish, Reply
  <2>2. ~Refused(c)
    BY <1>3 DEF Refused
  <2>3. PICK s \in session, e \in Call :
          /\ TakesAway(c, e, s) /\ e.at = "await" /\ session' = {}
          /\ dropped' = dropped \cup {s.id} /\ s.status \in Ongoing /\ task = {s.id}
    BY <1>3, <2>1, <2>2, CancelOutcome
  <2>4. i = s.id /\ c.cmd \in Cancels /\ e.cmd = c.cmd /\ e.on = i /\ e.task = task
        /\ calls' = (calls \ {c}) \cup {e}
    BY <1>3, <2>1, <2>3, CancelOutcome DEF TakesAway
  <2>5. \A k \in calls' : k.cmd = "stop" => k.on # i
    BY <2>3, <2>4 DEF Signalled, Stops, Cancels
  <2>6. Removes(e, i)'
    BY <2>3, <2>4 DEF Removes
  <2> QED BY <2>3, <2>4, <2>5, <2>6
<1> QED BY <1>2, <1>3 DEF Gone, Stops

-----------------------------------------------------------------------------
(* So do the capture tasks, the interface and its user. *)

LEMMA OtherKeeps ==
  ASSUME TypeOK, SessionInv, (\E i \in Id : Capture(i) \/ Record(i)) \/ Deliver \/ User
  PROVE  SessionInv'
<1> USE DEF SessionInv
<1>1. started \in Nat /\ \A i \in dropped : i \in Id
  <2>1. MaxSessions \in Nat /\ started \in 0 .. MaxSessions /\ dropped \subseteq Id
    BY BoundAssumption DEF TypeOK
  <2> QED BY <2>1
<1>2. CASE \E i \in Id : Capture(i) \/ Record(i)
  <2>1. PICK i \in Id : Capture(i) \/ Record(i)
    BY <1>2
  <2>2. UNCHANGED <<session, task, flag, calls, mail, started, dropped>>
    BY <2>1 DEF Capture, Setup, Leave, Drain, Settle, Record, handle
  <2>3. ASSUME NEW j \in Id, Through(j)
        PROVE  /\ Through(j)' /\ (dir'[j] = dir[j] \/ j \in overtaken')
               /\ overtaken \subseteq overtaken'
    <3>1. CASE Capture(i)
      BY <2>1, <2>3, <3>1 DEF Capture, Setup, Leave, Drain, Settle, LoopTo, Through, TypeOK
    <3>2. CASE Record(i)
      BY <2>1, <2>3, <3>2 DEF Record, Written, Through, TypeOK
    <3> QED BY <2>1, <3>1, <3>2
  <2>4. ASSUME NEW j \in Id
        PROVE  /\ dir[j] = "none" => dir'[j] = "none"
               /\ j \in overtaken => j \in overtaken'
    BY <2>1 DEF Capture, Setup, Leave, Drain, Settle, Record, Written, TypeOK
  <2>5. ASSUME NEW j \in dropped, NEW r \in calls, Removes(r, j) PROVE Removes(r, j)'
    BY <1>1, <2>2, <2>3, <2>5 DEF Removes, Through
  <2>6. Gone'
    <3>1. ASSUME NEW j \in dropped
          PROVE  dir'[j] = "none" \/ j \in overtaken' \/ \E r \in calls : Removes(r, j)'
      BY <1>1, <2>4, <2>5 DEF Gone
    <3> QED BY <2>2, <3>1 DEF Gone, Stops
  <2>7. Numbered' /\ Begun' /\ Signalled' /\ ReviewIsStopped'
    BY <2>2 DEF Numbered, Begun, Signalled, ReviewIsStopped, Starts, Stops
  <2> QED BY <2>6, <2>7
<1>3. CASE Deliver
  <2>1. UNCHANGED <<session, task, flag, loop, dir, calls, started, dropped, overtaken>>
    BY <1>3 DEF Deliver, handle
  <2>2. \A n \in DOMAIN mail' : n + 1 \in DOMAIN mail /\ mail'[n] = mail[n + 1]
    <3>1. mail \in Seq(Note) /\ mail # <<>> /\ mail' = Tail(mail)
      BY <1>3 DEF Deliver, TypeOK
    <3> HIDE DEF Note
    <3>2. /\ Tail(mail) \in Seq(Note) /\ Len(Tail(mail)) = Len(mail) - 1
          /\ \A n \in 1 .. Len(Tail(mail)) : Tail(mail)[n] = mail[n + 1]
      BY <3>1, HeadTailProperties
    <3>3. Len(mail) \in Nat /\ DOMAIN mail = 1 .. Len(mail) /\ DOMAIN mail' = 1 .. Len(mail')
      BY <3>1, <3>2, LenProperties
    <3> DEFINE rest == Tail(mail)
    <3> HIDE DEF rest
    <3> QED BY <3>1, <3>2, <3>3 DEF rest
  <2>3. ReviewIsStopped'
    BY <2>1, <2>2 DEF ReviewIsStopped
  <2>4. Numbered' /\ Begun' /\ Signalled'
    BY <2>1 DEF Numbered, Begun, Signalled, Starts, Stops
  <2>5. \A r, j : Removes(r, j)' <=> Removes(r, j)
    BY <2>1 DEF Removes, Through
  <2>6. Gone'
    BY <2>1, <2>5 DEF Gone, Stops
  <2> QED BY <2>3, <2>4, <2>6
<1>4. CASE User
  <2>1. UNCHANGED <<session, task, flag, loop, dir, mail, dropped, overtaken>>
    BY <1>4 DEF User, UiStart, UiBar, UiCancel, UiDiscard, handle
  <2>2. PICK d :
          /\ calls' = calls \cup {d} /\ d.at = "lock"
          /\ \/ d.cmd = "start" /\ d.on = started + 1 /\ started' = started + 1
             \/ d.cmd # "start" /\ d.on = 0 /\ started' = started
    <3>1. ASSUME NEW cmd, NEW id, Issue(cmd, id)
          PROVE  \E d : calls' = calls \cup {d} /\ d.at = "lock" /\ d.cmd = cmd /\ d.on = id
      <4> DEFINE e == [cmd |-> cmd, on |-> id, task |-> {}, at |-> "lock"]
      <4>1. calls' = calls \cup {e} /\ e.at = "lock" /\ e.cmd = cmd /\ e.on = id
        BY <3>1 DEF Issue
      <4> HIDE DEF e
      <4> QED BY <4>1
    <3>2. CASE UiStart
      BY <3>1, <3>2 DEF UiStart
    <3>3. CASE UiCancel \/ UiDiscard \/ \E cmd \in {"pause", "resume", "stop"} : UiBar(cmd)
      BY <3>1, <3>3 DEF UiCancel, UiDiscard, UiBar
    <3> QED BY <1>4, <3>2, <3>3 DEF User
  <2>3. /\ \A c \in calls : c.on <= started /\ c.on \in Nat
        /\ \A s \in session : s.id <= started /\ s.id \in Nat
    BY DEF Numbered, TypeOK, Call, IsOption
  <2>4. /\ \A c \in calls : c.on # started + 1
        /\ \A s \in session : s.id # started + 1 /\ s.id # 0
        /\ started + 1 \notin task \cup dropped /\ 0 \notin dropped
    BY <1>1, <2>3 DEF Numbered, TypeOK, IsOption
  <2>5. Numbered'
    BY <1>1, <2>1, <2>2, <2>3, <2>4 DEF Numbered, Starts
  <2>6. Begun'
    <3>1. ASSUME NEW c \in calls, c.cmd = "start", c.at = "lock" PROVE d.on # c.on
      BY <1>1, <2>2, <2>4, <3>1 DEF Numbered
    <3> QED BY <2>1, <2>2, <2>4, <3>1 DEF Begun, Starts
  <2>7. Signalled' /\ ReviewIsStopped'
    BY <2>1, <2>2, <2>4 DEF Signalled, ReviewIsStopped, Stops
  <2>8. \A r, j : Removes(r, j)' <=> Removes(r, j)
    BY <2>1 DEF Removes, Through
  <2>9. Gone'
    BY <2>1, <2>2, <2>4, <2>8 DEF Gone, Stops
  <2> QED BY <2>5, <2>6, <2>7, <2>9
<1> QED BY <1>2, <1>3, <1>4

LEMMA InitHolds == Init => TypeOK /\ SessionInv
<1> SUFFICES ASSUME Init PROVE TypeOK /\ SessionInv
  OBVIOUS
<1>1. TypeOK
  BY BoundAssumption, EmptySeq DEF Init, TypeOK, IsOption, Status
<1>2. SessionInv
  BY BoundAssumption DEF Init, SessionInv, Numbered, Begun, Signalled, ReviewIsStopped, Gone,
                        Starts, Stops
<1> QED BY <1>1, <1>2

LEMMA NextKeeps == TypeOK /\ SessionInv /\ [Next]_vars => TypeOK' /\ SessionInv'
<1> SUFFICES ASSUME TypeOK, SessionInv, [Next]_vars PROVE TypeOK' /\ SessionInv'
  OBVIOUS
<1>1. ASSUME NEW c \in calls, Step(c) PROVE TypeOK' /\ SessionInv'
  <2>1. c.cmd = "start" => c.on \in Id
    BY DEF SessionInv, Numbered, TypeOK, Call
  <2>2. TypeOK'
    BY <1>1, <2>1, SessionTypes, StopTypes, WalkTypes DEF Step
  <2>3. PICK d \in Call : Goes(c, d) /\ Keeps(c, d.at)
    BY <1>1, StepGoes DEF SessionInv
  <2>4. Numbered' /\ Begun' /\ Signalled' /\ ReviewIsStopped'
    BY <2>3, GoesKeeps DEF SessionInv
  <2>5. Gone'
    BY <1>1, StepKeepsGone
  <2> QED BY <2>2, <2>4, <2>5 DEF SessionInv
<1>2. CASE (\E i \in Id : Capture(i) \/ Record(i)) \/ Deliver \/ User
  BY <1>2, OtherTypes, OtherKeeps
<1>3. CASE UNCHANGED vars
  BY <1>3 DEF vars, handle, TypeOK, IsOption, SessionInv, Numbered, Begun, Signalled,
              ReviewIsStopped, Gone, Removes, Through, Starts, Stops
<1> QED BY <1>1, <1>2, <1>3 DEF Next

\* The invariant, of every behaviour.
LEMMA SessionInvariant == Spec => [](TypeOK /\ SessionInv)
<1> QED BY InitHolds, NextKeeps, PTL DEF Spec

-----------------------------------------------------------------------------
(* What the invariant says of the walkthrough. *)

\* Every command, event and directory of the walkthrough (commands/walkthrough.rs)
\* keeps its type, for any number of recordings and commands.
THEOREM WalkthroughTyping == Spec => []TypeOK
BY SessionInvariant, PTL

\* Only a recording whose own stop has given the signal is reviewed, in the handle
\* (update under the lock in stop_walkthrough) as in the events to the interface.
THEOREM ReviewIsStoppedHolds == Spec => []ReviewIsStopped
<1>1. TypeOK /\ SessionInv => ReviewIsStopped
  BY DEF SessionInv
<1> QED BY <1>1, SessionInvariant, PTL

\* When no command is left, a recording that was cancelled at work has left nothing
\* on disk, since cancel_walkthrough removes the directory after the task has ended,
\* except one into which a consumer that drain_capture_tasks had given up wrote while
\* it was being removed.
THEOREM CancelledIsGoneHolds == Spec => []CancelledIsGone
<1>1. TypeOK /\ SessionInv => CancelledIsGone
  BY DEF SessionInv, Gone, CancelledIsGone, Quiet
<1> QED BY <1>1, SessionInvariant, PTL

-----------------------------------------------------------------------------
(* The tabs a recording goes back to (CdpTabs, the C of MCCdpTabs).        *)

AnyClick == [id : Nat, app : C!App, tab : Nat]
AnyTab == [id : Nat, url : Url \cup {Home}, hears : BOOLEAN, queue : Seq(AnyClick)]

\* The tabs of an app: each has a number of its own, below n, and hears of the clicks
\* into the app only.
TabsOf(a, t, n) ==
  /\ t \in Seq(AnyTab)
  /\ \A k, l \in 1 .. Len(t) : t[k].id < n /\ (t[k].id = t[l].id => k = l)
  /\ \A k \in 1 .. Len(t) : \A q \in 1 .. Len(t[k].queue) : t[k].queue[q].app = a

Desktop ==
  /\ acts \in [moves : Nat, clicks : Nat] /\ fresh \in Nat
  /\ tabs \in [C!App -> Seq(AnyTab)]
  /\ \A a \in C!App : TabsOf(a, tabs[a], fresh)

\* At most one connection; while scripts are installed it is the app's they are for,
\* while a click is looked for, the app's of the click, and while hovers are asked
\* for, the app's that is asked, unless it was taken by the other of two tasks.
Connected ==
  /\ conn \in SUBSET [app : C!App, tab : Nat] /\ \A c, d \in conn : c = d
  /\ \A c \in conn : /\ pc \in {"inject", "hover", "list"} => c.app = Apps[turn]
                     /\ job.at # "idle" =>
                          c.app = Head(requests).app \/ (late /\ "clicks" \in crossed)
                     /\ hover.of # {} =>
                          hover.of = {c.app} \/ (late /\ "hovers" \in crossed)

\* The set-up is over before a click is looked for, and remembers one page of an app.
Remembering ==
  /\ pc \in {"app", "quit", "wait", "force", "launch", "connect", "inject", "hover",
             "list", "disconnect", "recording"}
  /\ pc # "recording" => turn \in 1 .. Len(Apps) /\ requests = <<>>
  /\ DOMAIN known \subseteq C!App /\ \A u, v \in page : u = v
  /\ \A a \in DOMAIN known : \A u, v \in known[a] : u = v

Asking ==
  /\ requests \in Seq(AnyClick)
  /\ job \in [at : {"idle", "list", "select", "poll", "check"}, tries : Nat, index : SUBSET Nat]
  /\ job.at # "idle" => requests # <<>>
  /\ job.at = "list" => job.index = {}
  /\ \A answer \in answers : answer.entry.app = answer.of.app \/ answer.mixed

\* The end of the recording asks one app at a time; by then no click is looked for,
\* unless the drain has given one up.
Fetching ==
  /\ hover \in [at : {"recording", "drain", "next", "list", "select", "stop", "retrieve",
                      "leave", "over"},
                left : SUBSET C!App, of : SUBSET C!App, index : SUBSET Nat]
  /\ hover.at # "recording" => pc = "recording"
  /\ hover.at \in {"recording", "drain", "next", "over"} => hover.of = {}
  /\ hover.at \in {"recording", "drain", "next", "list"} => hover.index = {}
  /\ hover.at \notin {"recording", "drain"} /\ ~late => requests = <<>> /\ job.at = "idle"

TabsInv == Desktop /\ Connected /\ Remembering /\ Asking /\ Fetching

-----------------------------------------------------------------------------

\* No tabs are the tabs of any app, and so is a first one.
LEMMA NoTabs == ASSUME NEW a, NEW n PROVE TabsOf(a, <<>>, n)
BY DEF TabsOf

\* A new tab has no clicks.
LEMMA NewTab ==
  ASSUME NEW a, NEW n \in Nat, NEW u \in Url \cup {Home}
  PROVE  /\ C!Tab(n, u) \in AnyTab /\ C!Tab(n, u).id = n
         /\ C!Tab(n, u).queue = <<>> /\ Len(C!Tab(n, u).queue) = 0
BY DEF C!Tab, AnyTab

LEMMA FirstTab ==
  ASSUME NEW a, NEW n \in Nat, NEW u \in Url \cup {Home}
  PROVE  TabsOf(a, <<C!Tab(n, u)>>, n + 1)
<1> DEFINE t == <<C!Tab(n, u)>>
<1>1. t \in Seq(AnyTab) /\ Len(t) = 1 /\ t[1] = C!Tab(n, u)
  BY NewTab
<1> HIDE DEF t
<1> QED BY <1>1, NewTab DEF TabsOf

\* What the sequence with one more, or one less, has where.
LEMMA Inserted ==
  ASSUME NEW S, NEW s \in Seq(S), NEW e \in S, NEW k \in 1 .. Len(s) + 1
  PROVE  LET t == C!InsertAt(s, k, e) IN
         /\ t \in Seq(S) /\ Len(t) = Len(s) + 1
         /\ \A i \in 1 .. Len(s) + 1 :
              t[i] = IF i < k THEN s[i] ELSE IF i = k THEN e ELSE s[i - 1]
<1> DEFINE l == SubSeq(s, 1, k - 1)
           r == SubSeq(s, k, Len(s))
<1>1. /\ l \in Seq(S) /\ Len(l) = k - 1 /\ \A i \in 1 .. k - 1 : l[i] = s[i]
      /\ r \in Seq(S) /\ Len(r) = Len(s) - k + 1
      /\ \A i \in 1 .. Len(s) - k + 1 : r[i] = s[i + k - 1]
  OBVIOUS
<1> HIDE DEF l, r
<1> DEFINE m == l \o <<e>>
<1>2. m \in Seq(S) /\ Len(m) = k /\ m[k] = e /\ \A i \in 1 .. k - 1 : m[i] = s[i]
  <2>1. <<e>> \in Seq(S) /\ Len(<<e>>) = 1 /\ <<e>>[1] = e
    OBVIOUS
  <2>2. /\ m \in Seq(S) /\ Len(m) = Len(l) + 1
        /\ \A i \in 1 .. Len(l) + 1 : m[i] = IF i <= Len(l) THEN l[i] ELSE <<e>>[i - Len(l)]
    BY <1>1, <2>1, ConcatProperties
  <2> HIDE DEF m
  <2> QED BY <1>1, <2>1, <2>2
<1> HIDE DEF m
<1>3. /\ m \o r \in Seq(S) /\ Len(m \o r) = Len(s) + 1
      /\ \A i \in 1 .. Len(s) + 1 : (m \o r)[i] = IF i <= k THEN m[i] ELSE r[i - k]
  <2>1. /\ m \o r \in Seq(S) /\ Len(m \o r) = Len(m) + Len(r)
        /\ \A i \in 1 .. Len(m) + Len(r) :
             (m \o r)[i] = IF i <= Len(m) THEN m[i] ELSE r[i - Len(m)]
    <3>1. m \in Seq(S) /\ r \in Seq(S)
      BY <1>1, <1>2
    <3> QED BY <3>1, ConcatProperties
  <2> QED BY <1>1, <1>2, <2>1
<1>4. C!InsertAt(s, k, e) = m \o r
  BY DEF C!InsertAt, m, l, r
<1> QED BY <1>1, <1>2, <1>3, <1>4

LEMMA Removed ==
  ASSUME NEW S, NEW s \in Seq(S), NEW k \in 1 .. Len(s)
  PROVE  LET t == C!RemoveAt(s, k) IN
         /\ t \in Seq(S) /\ Len(t) = Len(s) - 1
         /\ \A i \in 1 .. Len(s) - 1 : t[i] = IF i < k THEN s[i] ELSE s[i + 1]
<1> DEFINE l == SubSeq(s, 1, k - 1)
           r == SubSeq(s, k + 1, Len(s))
<1>1. /\ l \in Seq(S) /\ Len(l) = k - 1 /\ \A i \in 1 .. k - 1 : l[i] = s[i]
      /\ r \in Seq(S) /\ Len(r) = Len(s) - k
      /\ \A i \in 1 .. Len(s) - k : r[i] = s[i + k]
  OBVIOUS
<1> HIDE DEF l, r
<1>3. /\ l \o r \in Seq(S) /\ Len(l \o r) = Len(l) + Len(r)
      /\ \A i \in 1 .. Len(l) + Len(r) :
           (l \o r)[i] = IF i <= Len(l) THEN l[i] ELSE r[i - Len(l)]
  BY <1>1, ConcatProperties
<1>4. C!RemoveAt(s, k) = l \o r
  BY DEF C!RemoveAt, l, r
<1> DEFINE t == C!RemoveAt(s, k)
<1>5. t \in Seq(S) /\ Len(t) = Len(s) - 1
  <2>1. Len(l) + Len(r) = Len(s) - 1
    BY <1>1
  <2> QED BY <1>3, <1>4, <2>1
<1>6. ASSUME NEW i \in 1 .. Len(s) - 1 PROVE t[i] = IF i < k THEN s[i] ELSE s[i + 1]
  <2>1. i \in 1 .. Len(l) + Len(r) /\ t[i] = (l \o r)[i]
    BY <1>1, <1>4
  <2>2. CASE i < k
    BY <2>1, <2>2, <1>1, <1>3
  <2>3. CASE i >= k
    <3>1. i - Len(l) \in 1 .. Len(s) - k /\ t[i] = r[i - Len(l)]
      BY <2>1, <2>3, <1>1, <1>3
    <3> QED BY <3>1, <2>3, <1>1
  <2> QED BY <2>2, <2>3
<1> QED BY <1>5, <1>6

\* What TabsOf says of the place of a tab.
LEMMA TabFacts ==
  ASSUME NEW a, NEW n, NEW t, TabsOf(a, t, n)
  PROVE  /\ t \in Seq(AnyTab) /\ Len(t) \in Nat /\ DOMAIN t = 1 .. Len(t)
         /\ \A k \in 1 .. Len(t) : t[k] \in AnyTab /\ t[k].id \in Nat
<1>1. t \in Seq(AnyTab)
  BY DEF TabsOf
<1>2. Len(t) \in Nat /\ DOMAIN t = 1 .. Len(t) /\ \A k \in 1 .. Len(t) : t[k] \in AnyTab
  BY <1>1
<1> QED BY <1>1, <1>2 DEF AnyTab

\* A tab is opened, closed, or changed without its number: those of the app stay its own.
LEMMA TabOpened ==
  ASSUME NEW a, NEW n \in Nat, NEW t, TabsOf(a, t, n), NEW u \in Url \cup {Home},
         NEW k \in 1 .. Len(t) + 1
  PROVE  TabsOf(a, C!InsertAt(t, k, C!Tab(n, u)), n + 1)
<1> DEFINE x == C!Tab(n, u)
           s == C!InsertAt(t, k, x)
<1>0. t \in Seq(AnyTab) /\ Len(t) \in Nat /\ \A l \in 1 .. Len(t) : t[l].id \in Nat
  BY TabFacts
<1>1. x \in AnyTab /\ x.id = n /\ Len(x.queue) = 0
  BY NewTab
<1> HIDE DEF x
<1>2. /\ s \in Seq(AnyTab) /\ Len(s) = Len(t) + 1
      /\ \A i \in 1 .. Len(t) + 1 :
           s[i] = IF i < k THEN t[i] ELSE IF i = k THEN x ELSE t[i - 1]
  BY <1>0, <1>1, Inserted
<1> HIDE DEF s
<1> DEFINE at(i) == IF i < k THEN i ELSE i - 1
<1>5. \A i, j \in 1 .. Len(t) : t[i].id < n /\ (t[i].id = t[j].id => i = j)
  BY DEF TabsOf
<1>6. \A i \in 1 .. Len(t) : \A q \in 1 .. Len(t[i].queue) : t[i].queue[q].app = a
  BY DEF TabsOf
<1>7. ASSUME NEW i \in 1 .. Len(s)
      PROVE  \/ i = k /\ s[i] = x
             \/ i # k /\ at(i) \in 1 .. Len(t) /\ s[i] = t[at(i)]
  <2>1. i \in 1 .. Len(t) + 1
    BY <1>2
  <2>2. CASE i < k
    BY <2>1, <2>2, <1>0, <1>2
  <2>3. CASE i = k
    BY <2>1, <2>3, <1>2
  <2>4. CASE i > k
    BY <2>1, <2>4, <1>0, <1>2
  <2> QED BY <2>1, <2>2, <2>3, <2>4
<1>9. \A i, j \in 1 .. Len(s) : i # k /\ j # k /\ at(i) = at(j) => i = j
  BY <1>0, <1>2
<1> HIDE DEF at
<1>3. ASSUME NEW i \in 1 .. Len(s), NEW j \in 1 .. Len(s)
      PROVE  s[i].id < n + 1 /\ (s[i].id = s[j].id => i = j)
  <2>1. s[i].id < n + 1 /\ (s[i].id = n <=> i = k) /\ (s[j].id = n <=> j = k)
    <3>1. ASSUME NEW l \in 1 .. Len(s) PROVE s[l].id < n + 1 /\ (s[l].id = n <=> l = k)
      <4>1. CASE l = k
        BY <4>1, <1>1, <1>7
      <4>2. CASE l # k
        BY <4>2, <1>0, <1>5, <1>7
      <4> QED BY <4>1, <4>2
    <3> QED BY <3>1
  <2>2. CASE i # k /\ j # k
    BY <2>1, <2>2, <1>5, <1>7, <1>9
  <2> QED BY <2>1, <2>2
<1>4. ASSUME NEW i \in 1 .. Len(s), NEW q \in 1 .. Len(s[i].queue)
      PROVE  s[i].queue[q].app = a
  <2>1. CASE i = k
    BY <2>1, <1>1, <1>7
  <2>2. CASE i # k
    BY <2>2, <1>6, <1>7
  <2> QED BY <2>1, <2>2
<1>8. TabsOf(a, s, n + 1)
  BY <1>2, <1>3, <1>4 DEF TabsOf
<1> QED BY <1>8 DEF s, x

LEMMA TabClosed ==
  ASSUME NEW a, NEW n \in Nat, NEW t, TabsOf(a, t, n), NEW k \in 1 .. Len(t)
  PROVE  TabsOf(a, C!RemoveAt(t, k), n)
<1> DEFINE s == C!RemoveAt(t, k)
<1>0. t \in Seq(AnyTab) /\ Len(t) \in Nat
  BY TabFacts
<1>2. /\ s \in Seq(AnyTab) /\ Len(s) = Len(t) - 1
      /\ \A i \in 1 .. Len(t) - 1 : s[i] = IF i < k THEN t[i] ELSE t[i + 1]
  BY <1>0, Removed
<1> HIDE DEF s
<1> DEFINE at(i) == IF i < k THEN i ELSE i + 1
<1>5. \A i, j \in 1 .. Len(t) : t[i].id < n /\ (t[i].id = t[j].id => i = j)
  BY DEF TabsOf
<1>6. \A i \in 1 .. Len(t) : \A q \in 1 .. Len(t[i].queue) : t[i].queue[q].app = a
  BY DEF TabsOf
<1>7. ASSUME NEW i \in 1 .. Len(s)
      PROVE  at(i) \in 1 .. Len(t) /\ s[i] = t[at(i)]
  BY <1>0, <1>2
<1>3. ASSUME NEW i \in 1 .. Len(s), NEW j \in 1 .. Len(s)
      PROVE  s[i].id < n /\ (s[i].id = s[j].id => i = j)
  BY <1>0, <1>5, <1>7
<1>4. ASSUME NEW i \in 1 .. Len(s), NEW q \in 1 .. Len(s[i].queue)
      PROVE  s[i].queue[q].app = a
  BY <1>6, <1>7
<1>8. TabsOf(a, s, n)
  BY <1>2, <1>3, <1>4 DEF TabsOf
<1> QED BY <1>8 DEF s

LEMMA TabChanged ==
  ASSUME NEW a, NEW n \in Nat, NEW t, TabsOf(a, t, n), NEW k \in 1 .. Len(t),
         NEW r \in AnyTab, r.id = t[k].id,
         \A q \in 1 .. Len(r.queue) : r.queue[q].app = a
  PROVE  TabsOf(a, [t EXCEPT ![k] = r], n)
BY DEF TabsOf

\* The desktop, when the tabs of one app change.
LEMMA DesktopChanged ==
  ASSUME Desktop, NEW a \in C!App, NEW t, NEW n \in {fresh, fresh + 1}, TabsOf(a, t, n),
         tabs' = [tabs EXCEPT ![a] = t], fresh' = n, acts' \in [moves : Nat, clicks : Nat]
  PROVE  Desktop'
<1>1. fresh' \in Nat /\ fresh \in Nat /\ fresh <= fresh' /\ tabs' \in [C!App -> Seq(AnyTab)]
  BY DEF Desktop, TabsOf
<1>2. ASSUME NEW b \in C!App PROVE TabsOf(b, tabs'[b], fresh')
  <2>1. CASE b = a
    BY <2>1 DEF Desktop
  <2>2. CASE b # a
    <3>1. tabs'[b] = tabs[b] /\ TabsOf(b, tabs[b], fresh) /\ tabs[b] \in Seq(AnyTab)
      BY <2>2 DEF Desktop
    <3>2. \A k \in 1 .. Len(tabs[b]) : tabs[b][k].id \in Nat
      BY <3>1, TabFacts
    <3> QED BY <1>1, <3>1, <3>2 DEF TabsOf
  <2> QED BY <2>1, <2>2
<1> QED BY <1>1, <1>2 DEF Desktop, TabsOf

\* The invariant at the start.
LEMMA TabsStart == ASSUME C!Init PROVE TabsInv
<1>1. Desktop
  <2>1. tabs = [a \in C!App |-> IF proc[a] = "none" THEN <<>> ELSE <<C!Tab(1, Home)>>]
    BY DEF C!Init
  <2>2. ASSUME NEW a \in C!App PROVE TabsOf(a, tabs[a], 2)
    <3>1. TabsOf(a, <<>>, 2)
      BY NoTabs
    <3>2. TabsOf(a, <<C!Tab(1, Home)>>, 1 + 1)
      BY FirstTab
    <3> QED BY <2>1, <3>1, <3>2
  <2>3. tabs \in [C!App -> Seq(AnyTab)]
    BY <2>1, <2>2 DEF TabsOf
  <2> QED BY <2>2, <2>3 DEF C!Init, Desktop
<1>2. Len(Apps) \in Nat /\ Len(Apps) >= 1
  BY AppsAssumption, EmptySeq
<1>3. Connected /\ Remembering
  BY <1>2 DEF C!Init, Connected, Remembering
<1>4. Asking /\ Fetching
  BY DEF C!Init, C!Idle, Asking, Fetching
<1> QED BY <1>1, <1>3, <1>4 DEF TabsInv

LEMMA DesktopSame == Desktop /\ UNCHANGED <<tabs, fresh, acts>> => Desktop'
BY DEF Desktop

\* An app exits with its tabs and the connection to it.
LEMMA Exited ==
  ASSUME Desktop, NEW a \in C!App, C!Exit(a), UNCHANGED fresh,
         acts' \in [moves : Nat, clicks : Nat]
  PROVE  Desktop' /\ conn' = {c \in conn : c.app # a}
<1>1. TabsOf(a, <<>>, fresh)
  BY NoTabs
<1> QED BY <1>1, DesktopChanged DEF C!Exit

\* cdp_connect leaves one connection, to the app's first page.
LEMMA AttachFacts ==
  ASSUME Desktop, NEW a \in C!App, C!Reachable(a), C!Attach(a)
  PROVE  /\ conn' \in SUBSET [app : C!App, tab : Nat] /\ \A c, d \in conn' : c = d
         /\ \A c \in conn' : c.app = a
<1>1. tabs[a] # <<>> /\ conn' = {[app |-> a, tab |-> tabs[a][1].id]}
  BY DEF C!Reachable, C!Attach
<1>2. tabs[a][1].id \in Nat
  <2>1. TabsOf(a, tabs[a], fresh)
    BY DEF Desktop
  <2>2. Len(tabs[a]) \in Nat /\ Len(tabs[a]) >= 1
    BY <1>1, <2>1, TabFacts, EmptySeq
  <2> QED BY <2>1, <2>2, TabFacts
<1> QED BY <1>1, <1>2

\* One that fails leaves at most one, the app's or the one there was.
LEMMA FailedFacts ==
  ASSUME TabsInv, NEW a \in C!App, C!FailsToConnect(a)
  PROVE  conn' \in SUBSET [app : C!App, tab : Nat] /\ \A c, d \in conn' : c = d
<1>1. CASE conn' \in {conn, {}}
  BY <1>1 DEF TabsInv, Connected
<1>2. CASE C!Reachable(a) /\ C!Attach(a)
  BY <1>2, AttachFacts DEF TabsInv
<1> QED BY <1>1, <1>2 DEF C!FailsToConnect

LEMMA HereIsApp ==
  ASSUME Remembering, pc # "recording"
  PROVE  Apps[turn] \in C!App
BY AppsAssumption DEF Remembering

\* The next app, or the recording.
LEMMA NextAppKeeps ==
  ASSUME TabsInv, pc # "recording", C!NextApp, UNCHANGED <<requests, job, answers, hover, late, crossed>>,
         conn' \in SUBSET [app : C!App, tab : Nat], \A c, d \in conn' : c = d,
         DOMAIN known' \subseteq C!App,
         \A a \in DOMAIN known' : \A u, v \in known'[a] : u = v
  PROVE  Connected' /\ Remembering' /\ Asking' /\ Fetching'
<1>1. Len(Apps) \in Nat
  BY AppsAssumption
<1>2. Remembering'
  BY <1>1 DEF TabsInv, Remembering, C!NextApp
<1>3. Connected'
  BY DEF TabsInv, Connected, C!NextApp, Remembering, Asking, Fetching
<1>4. Asking' /\ Fetching'
  BY DEF TabsInv, Asking, Fetching
<1> QED BY <1>2, <1>3, <1>4

LEMMA InterruptedKeeps ==
  ASSUME TabsInv, pc # "recording", C!Interrupted, UNCHANGED <<requests, job, answers, hover, late, crossed>>,
         conn' \in SUBSET [app : C!App, tab : Nat], \A c, d \in conn' : c = d
  PROVE  Connected' /\ Remembering' /\ Asking' /\ Fetching'
BY DEF TabsInv, C!Interrupted, Connected, Remembering, Asking, Fetching

\* The set-up keeps the invariant.
LEMMA PrepareKeeps ==
  ASSUME TabsInv, C!Prepare
  PROVE  TabsInv'
<1>1. Desktop'
  BY DesktopSame DEF C!Prepare, C!desktop, TabsInv
<1>2. CASE C!Interrupted
  BY <1>1, <1>2, InterruptedKeeps DEF C!Prepare, C!clicks, C!fetch, TabsInv, Connected
<1>3. CASE UNCHANGED turn /\ UNCHANGED <<page, known>> /\ pc' \in {"connect", "quit"}
  BY <1>1, <1>3 DEF C!Prepare, C!clicks, C!fetch, TabsInv, Connected, Remembering, Asking, Fetching
<1> QED BY <1>2, <1>3 DEF C!Prepare

LEMMA QuitKeeps ==
  ASSUME TabsInv, C!QuitApp \/ C!WaitForExit \/ C!ForceQuit
  PROVE  TabsInv'
<1>1. /\ pc \in {"quit", "wait", "force"} /\ pc' \in {"quit", "wait", "force", "launch"}
      /\ UNCHANGED <<fresh, acts, turn, page, known, requests, job, answers, hover, late, crossed>>
      /\ C!Exit(C!Here) \/ UNCHANGED <<tabs, conn>>
  BY DEF C!QuitApp, C!WaitForExit, C!ForceQuit, C!desktop, C!clicks, C!fetch
<1>2. Desktop' /\ conn' \subseteq conn
  BY <1>1, Exited, HereIsApp, DesktopSame DEF TabsInv, C!Here, Desktop, Remembering
<1> QED BY <1>1, <1>2 DEF TabsInv, Connected, Remembering, Asking, Fetching

LEMMA LaunchKeeps ==
  ASSUME TabsInv, C!Launch
  PROVE  TabsInv'
<1>1. pc = "launch" /\ UNCHANGED <<acts, conn, requests, job, answers, hover, late, crossed>>
  BY DEF C!Launch, C!clicks, C!fetch
<1>2. Desktop'
  <2>1. CASE tabs' = [tabs EXCEPT ![Apps[turn]] = <<C!Tab(fresh, Home)>>] /\ fresh' = fresh + 1
    <3>1. Apps[turn] \in C!App /\ fresh \in Nat
      BY <1>1, HereIsApp DEF TabsInv, Desktop
    <3>2. TabsOf(Apps[turn], <<C!Tab(fresh, Home)>>, fresh + 1)
      BY <3>1, FirstTab
    <3> QED BY <1>1, <2>1, <3>1, <3>2, DesktopChanged DEF TabsInv, Desktop
  <2>2. CASE UNCHANGED <<tabs, fresh>>
    BY <1>1, <2>2, DesktopSame DEF TabsInv
  <2> QED BY <2>1, <2>2 DEF C!Launch, C!Here
<1>3. CASE C!Fail
  BY <1>1, <1>2, <1>3, NextAppKeeps DEF C!Fail, TabsInv, Connected, Remembering
<1>4. CASE pc' = "connect" /\ UNCHANGED <<turn, page, known>>
  BY <1>1, <1>2, <1>4 DEF TabsInv, Connected, Remembering, Asking, Fetching
<1> QED BY <1>3, <1>4 DEF C!Launch

LEMMA ConnectKeeps ==
  ASSUME TabsInv, C!ConnectForSetup
  PROVE  TabsInv'
<1>1. pc = "connect" /\ UNCHANGED <<requests, job, answers, hover, late, crossed>> /\ Desktop'
  BY DesktopSame DEF C!ConnectForSetup, C!clicks, C!fetch, C!desktop, TabsInv
<1>6. ASSUME C!FailsToConnect(C!Here)
      PROVE  conn' \in SUBSET [app : C!App, tab : Nat] /\ \A c, d \in conn' : c = d
  BY <1>1, <1>6, HereIsApp, FailedFacts DEF TabsInv, C!Here
<1>2. CASE C!Interrupted /\ C!FailsToConnect(C!Here)
  BY <1>1, <1>2, <1>6, InterruptedKeeps DEF TabsInv
<1>3. CASE /\ C!Reachable(C!Here) /\ C!Attach(C!Here) /\ pc' = "inject"
           /\ UNCHANGED <<turn, page, known>>
  <2> DEFINE a == Apps[turn]
  <2>1. a \in C!App /\ C!Reachable(a) /\ C!Attach(a)
    BY <1>1, <1>3, HereIsApp DEF TabsInv, C!Here
  <2>2. /\ conn' \in SUBSET [app : C!App, tab : Nat] /\ \A c, d \in conn' : c = d
        /\ \A c \in conn' : c.app = a
    BY <2>1, AttachFacts DEF TabsInv
  <2>3. Connected'
    BY <1>1, <1>3, <2>1, <2>2 DEF TabsInv, Connected, Remembering, Asking, Fetching
  <2> QED BY <1>1, <1>3, <2>3 DEF TabsInv, Remembering, Asking, Fetching
<1>4. CASE UNCHANGED <<pc, turn, page, known>> /\ C!FailsToConnect(C!Here)
  BY <1>1, <1>4, <1>6 DEF TabsInv, Connected, Remembering, Asking, Fetching
<1>5. CASE C!Fail /\ C!FailsToConnect(C!Here)
  BY <1>1, <1>5, <1>6, NextAppKeeps DEF C!Fail, TabsInv, Remembering
<1> QED BY <1>2, <1>3, <1>4, <1>5 DEF C!ConnectForSetup

\* One tab of an app changes, and keeps its number.
LEMMA TabTouched ==
  ASSUME Desktop, NEW a \in C!App, NEW k \in 1 .. Len(tabs[a]), NEW r \in AnyTab,
         r.id = tabs[a][k].id, \A q \in 1 .. Len(r.queue) : r.queue[q].app = a,
         tabs' = [tabs EXCEPT ![a] = [@ EXCEPT ![k] = r]], UNCHANGED fresh,
         acts' \in [moves : Nat, clicks : Nat]
  PROVE  Desktop'
<1>1. TabsOf(a, [tabs[a] EXCEPT ![k] = r], fresh)
  BY TabChanged DEF Desktop
<1> QED BY <1>1, DesktopChanged

\* What the desktop says of the tabs of one app.
LEMMA OneTab ==
  ASSUME Desktop, NEW a \in C!App
  PROVE  /\ TabsOf(a, tabs[a], fresh) /\ Len(tabs[a]) \in Nat
         /\ DOMAIN tabs[a] = 1 .. Len(tabs[a])
         /\ \A k \in 1 .. Len(tabs[a]) :
              /\ tabs[a][k] \in AnyTab /\ tabs[a][k].id \in Nat
              /\ tabs[a][k].queue \in Seq(AnyClick)
              /\ \A q \in 1 .. Len(tabs[a][k].queue) : tabs[a][k].queue[q].app = a
         /\ \A k, l \in 1 .. Len(tabs[a]) : tabs[a][k].id = tabs[a][l].id => k = l
<1>1. TabsOf(a, tabs[a], fresh)
  BY DEF Desktop
<1>2. \A k \in 1 .. Len(tabs[a]) : tabs[a][k] \in AnyTab
  BY <1>1, TabFacts
<1> QED BY <1>1, <1>2, TabFacts DEF TabsOf, AnyTab

\* What the server has selected is one tab of the app it is connected to.
LEMMA PlaceFacts ==
  ASSUME Desktop, NEW c \in [app : C!App, tab : Nat]
  PROVE  /\ C!Places(c.app, c.tab) \subseteq 1 .. Len(tabs[c.app])
         /\ \A k, l \in C!Places(c.app, c.tab) : k = l
BY OneTab DEF C!Places

LEMMA InjectKeeps ==
  ASSUME TabsInv, C!InjectClickListener \/ C!InjectHoverListener
  PROVE  TabsInv'
<1>1. /\ pc \in {"inject", "hover"} /\ pc' \in {"hover", "list"}
      /\ UNCHANGED <<fresh, acts, conn, turn, page, known, requests, job, answers, hover,
                     late, crossed>>
  BY DEF C!InjectClickListener, C!InjectHoverListener, C!desktop, C!clicks, C!fetch
<1>2. ASSUME NEW c \in conn, NEW k \in C!Places(c.app, c.tab),
             tabs' = [tabs EXCEPT ![c.app][k].hears = TRUE]
      PROVE  Desktop'
  <2> DEFINE a == c.app
             r == [tabs[a][k] EXCEPT !.hears = TRUE]
  <2>1. c \in [app : C!App, tab : Nat] /\ a \in C!App
    BY DEF TabsInv, Connected
  <2>2. k \in 1 .. Len(tabs[a]) /\ Desktop
    BY <2>1, PlaceFacts DEF TabsInv
  <2>3. tabs[a][k] \in AnyTab /\ \A q \in 1 .. Len(tabs[a][k].queue) : tabs[a][k].queue[q].app = a
    BY <2>1, <2>2, OneTab
  <2>4. r \in AnyTab /\ r.id = tabs[a][k].id /\ r.queue = tabs[a][k].queue
    BY <2>3 DEF AnyTab
  <2>5. tabs' = [tabs EXCEPT ![a] = [@ EXCEPT ![k] = r]]
    BY <1>2
  <2>6. acts' \in [moves : Nat, clicks : Nat] /\ UNCHANGED fresh
    BY <1>1, <2>2 DEF Desktop
  <2>7. \A q \in 1 .. Len(r.queue) : r.queue[q].app = a
    BY <2>3, <2>4
  <2> HIDE DEF r
  <2> QED BY <2>1, <2>2, <2>4, <2>5, <2>6, <2>7, TabTouched
<1>3. Desktop'
  BY <1>1, <1>2, DesktopSame
     DEF C!InjectClickListener, C!InjectHoverListener, C!desktop, TabsInv
<1> QED BY <1>1, <1>3 DEF TabsInv, Connected, Remembering, Asking, Fetching

LEMMA ListKeeps ==
  ASSUME TabsInv, C!ListPages
  PROVE  TabsInv'
<1>1. Desktop' /\ pc = "list" /\ pc' = "disconnect"
      /\ UNCHANGED <<conn, turn, known, requests, job, answers, hover, late, crossed>>
  BY DesktopSame DEF C!ListPages, C!desktop, C!clicks, C!fetch, TabsInv
<1>2. ASSUME NEW list \in C!Listed, NEW u \in C!Remembered(list), NEW v \in C!Remembered(list)
      PROVE  u = v
  <2>1. PICK c \in conn :
          list = [urls |-> [k \in DOMAIN tabs[c.app] |-> tabs[c.app][k].url],
                  selected |-> C!Places(c.app, c.tab)]
    BY <1>2 DEF C!Listed
  <2>2. \A k, l \in list.selected : k = l
    BY <2>1, PlaceFacts DEF TabsInv, Connected
  <2> QED BY <2>2 DEF C!Remembered
<1>3. \A u, v \in page' : u = v
  BY <1>2 DEF C!ListPages
<1> QED BY <1>1, <1>3 DEF TabsInv, Connected, Remembering, Asking, Fetching

LEMMA DisconnectKeeps ==
  ASSUME TabsInv, C!Disconnect
  PROVE  TabsInv'
<1>1. /\ Desktop' /\ pc = "disconnect" /\ UNCHANGED <<requests, job, answers, hover, late, crossed>>
      /\ conn' \in {conn, {}} /\ C!NextApp
  BY DesktopSame DEF C!Disconnect, C!Fail, C!desktop, C!clicks, C!fetch, TabsInv
<1>2. DOMAIN known' \subseteq C!App /\ \A a \in DOMAIN known' : \A u, v \in known'[a] : u = v
  BY HereIsApp DEF C!Disconnect, C!Fail, C!Here, TabsInv, Remembering
<1> QED BY <1>1, <1>2, NextAppKeeps DEF TabsInv, Connected

\* The user leaves the set-up and the clicks alone; an app may end with its connection.
LEMMA UserKeeps ==
  ASSUME TabsInv, Desktop', conn' \subseteq conn,
         UNCHANGED <<pc, turn, page, known, requests, job, answers, hover, late, crossed>>
  PROVE  TabsInv'
BY DEF TabsInv, Connected, Remembering, Asking, Fetching

\* What the user does keeps it.
LEMMA MovedActs == Desktop /\ C!Moved => acts' \in [moves : Nat, clicks : Nat]
BY DEF Desktop, C!Moved

LEMMA OpenKeeps ==
  ASSUME TabsInv, NEW a \in C!App, NEW k, NEW url \in Url, C!Open(a, k, url),
         k \in 1 .. Len(tabs[a]) + 1
  PROVE  TabsInv'
<1>1. /\ tabs' = [tabs EXCEPT ![a] = C!InsertAt(@, k, C!Tab(fresh, url))]
      /\ fresh' = fresh + 1 /\ acts' \in [moves : Nat, clicks : Nat]
      /\ UNCHANGED <<conn, pc, turn, page, known, requests, job, answers, hover, late, crossed>>
  BY MovedActs DEF C!Open, C!setup, C!clicks, C!fetch, TabsInv
<1>2. TabsOf(a, C!InsertAt(tabs[a], k, C!Tab(fresh, url)), fresh + 1)
  BY OneTab, TabOpened DEF TabsInv, Desktop
<1>3. Desktop'
  BY <1>1, <1>2, DesktopChanged DEF TabsInv, Desktop
<1> QED BY <1>1, <1>3, UserKeeps

LEMMA CloseKeeps ==
  ASSUME TabsInv, NEW a \in C!App, NEW k \in DOMAIN tabs[a], C!Close(a, k)
  PROVE  TabsInv'
<1>1. /\ tabs' = [tabs EXCEPT ![a] = C!RemoveAt(@, k)]
      /\ fresh' = fresh /\ acts' \in [moves : Nat, clicks : Nat]
      /\ UNCHANGED <<conn, pc, turn, page, known, requests, job, answers, hover, late, crossed>>
  BY MovedActs DEF C!Close, C!setup, C!clicks, C!fetch, TabsInv
<1>2. TabsOf(a, C!RemoveAt(tabs[a], k), fresh)
  BY OneTab, TabClosed DEF TabsInv, Desktop
<1>3. Desktop'
  BY <1>1, <1>2, DesktopChanged DEF TabsInv, Desktop
<1> QED BY <1>1, <1>3, UserKeeps

LEMMA NavigateKeeps ==
  ASSUME TabsInv, NEW a \in C!App, NEW k \in DOMAIN tabs[a], NEW url \in Url,
         C!Navigate(a, k, url)
  PROVE  TabsInv'
<1> DEFINE old == tabs[a][k]
           r == C!Tab(old.id, url)
           s == [old EXCEPT !.url = url]
<1>1. /\ fresh' = fresh /\ acts' \in [moves : Nat, clicks : Nat]
      /\ UNCHANGED <<conn, pc, turn, page, known, requests, job, answers, hover, late, crossed>>
  BY MovedActs DEF C!Navigate, C!setup, C!clicks, C!fetch, TabsInv
<1>2. /\ k \in 1 .. Len(tabs[a]) /\ old \in AnyTab /\ old.id \in Nat
      /\ \A q \in 1 .. Len(old.queue) : old.queue[q].app = a
  BY OneTab DEF TabsInv
<1>3. \/ tabs' = [tabs EXCEPT ![a] = [@ EXCEPT ![k] = r]]
      \/ tabs' = [tabs EXCEPT ![a] = [@ EXCEPT ![k] = s]]
  BY DEF C!Navigate
<1>4. r \in AnyTab /\ r.id = old.id /\ \A q \in 1 .. Len(r.queue) : r.queue[q].app = a
  BY <1>2, NewTab
<1>5. s \in AnyTab /\ s.id = old.id /\ s.queue = old.queue
  BY <1>2 DEF AnyTab
<1> HIDE DEF r, s
<1>6. CASE tabs' = [tabs EXCEPT ![a] = [@ EXCEPT ![k] = r]]
  BY <1>1, <1>2, <1>4, <1>6, TabTouched, UserKeeps DEF TabsInv
<1>7. CASE tabs' = [tabs EXCEPT ![a] = [@ EXCEPT ![k] = s]]
  BY <1>1, <1>2, <1>5, <1>7, TabTouched, UserKeeps DEF TabsInv
<1> QED BY <1>3, <1>6, <1>7

LEMMA UserQuitsKeeps ==
  ASSUME TabsInv, NEW a \in C!App, C!UserQuits(a)
  PROVE  TabsInv'
BY MovedActs, Exited, UserKeeps DEF C!UserQuits, C!setup, C!clicks, C!fetch, TabsInv

LEMMA CancelKeeps == ASSUME TabsInv, C!Cancel PROVE TabsInv'
BY DesktopSame, UserKeeps DEF C!Cancel, C!desktop, C!clicks, C!fetch, TabsInv

\* What appending to a queue of clicks and taking from it leaves.
LEMMA QueueMoves ==
  ASSUME NEW s \in Seq(AnyClick)
  PROVE  /\ Len(s) \in Nat
         /\ \A e \in AnyClick :
              /\ Append(s, e) \in Seq(AnyClick) /\ Append(s, e) # <<>>
              /\ s # <<>> => Head(Append(s, e)) = Head(s)
              /\ Len(Append(s, e)) = Len(s) + 1
              /\ \A i \in 1 .. Len(s) + 1 : Append(s, e)[i] = IF i = Len(s) + 1 THEN e ELSE s[i]
         /\ s # <<>> =>
              /\ Len(s) >= 1 /\ Head(s) = s[1] /\ Head(s) \in AnyClick
              /\ Tail(s) \in Seq(AnyClick) /\ Len(Tail(s)) = Len(s) - 1
              /\ \A i \in 1 .. Len(s) - 1 : Tail(s)[i] = s[i + 1]
<1>1. Len(s) \in Nat /\ (s # <<>> => Len(s) >= 1)
  BY EmptySeq
<1>2. ASSUME NEW e \in AnyClick
      PROVE  /\ Append(s, e) \in Seq(AnyClick) /\ Append(s, e) # <<>>
             /\ s # <<>> => Head(Append(s, e)) = Head(s)
             /\ Len(Append(s, e)) = Len(s) + 1
             /\ \A i \in 1 .. Len(s) + 1 : Append(s, e)[i] = IF i = Len(s) + 1 THEN e ELSE s[i]
  BY <1>1, EmptySeq
<1>3. ASSUME s # <<>>
      PROVE  /\ Head(s) = s[1] /\ Head(s) \in AnyClick
             /\ Tail(s) \in Seq(AnyClick) /\ Len(Tail(s)) = Len(s) - 1
             /\ \A i \in 1 .. Len(s) - 1 : Tail(s)[i] = s[i + 1]
  BY <1>1, <1>3
<1> QED BY <1>1, <1>2, <1>3

LEMMA ClickKeeps ==
  ASSUME TabsInv, NEW a \in C!App, NEW k \in DOMAIN tabs[a], C!Click(a, k)
  PROVE  TabsInv'
<1> DEFINE click == [id |-> acts.clicks + 1, app |-> a, tab |-> tabs[a][k].id]
           old == tabs[a][k]
           r == [old EXCEPT !.queue = Append(@, click)]
<1>1. /\ k \in 1 .. Len(tabs[a]) /\ old \in AnyTab /\ old.id \in Nat
      /\ old.queue \in Seq(AnyClick)
      /\ \A q \in 1 .. Len(old.queue) : old.queue[q].app = a
  BY OneTab DEF TabsInv
<1>2. /\ pc = "recording" /\ hover.at = "recording" /\ fresh' = fresh
      /\ acts' = [acts EXCEPT !.clicks = @ + 1]
      /\ UNCHANGED <<conn, pc, turn, page, known, job, answers, hover, late, crossed>>
      /\ tabs' = [tabs EXCEPT ![a] = [@ EXCEPT ![k] = r]] \/ UNCHANGED tabs
      /\ requests' = Append(requests, click) \/ UNCHANGED requests
  BY DEF C!Click, C!setup, C!fetch
<1>3. click \in AnyClick /\ acts' \in [moves : Nat, clicks : Nat]
  <2>1. acts \in [moves : Nat, clicks : Nat] /\ acts' = [acts EXCEPT !.clicks = @ + 1]
    BY <1>2 DEF TabsInv, Desktop
  <2> QED BY <1>1, <2>1 DEF AnyClick
<1>4. /\ r \in AnyTab /\ r.id = old.id
      /\ \A q \in 1 .. Len(r.queue) : r.queue[q].app = a
  <2>1. r.id = old.id /\ r.queue = Append(old.queue, click) /\ click.app = a
    BY <1>1 DEF AnyTab
  <2> HIDE DEF click
  <2>2. Append(old.queue, click) \in Seq(AnyClick)
    BY <1>1, <1>3, QueueMoves
  <2>3. r \in AnyTab
    BY <1>1, <2>2 DEF AnyTab
  <2>4. ASSUME NEW q \in 1 .. Len(old.queue) + 1 PROVE Append(old.queue, click)[q].app = a
    BY <1>1, <1>3, <2>1, QueueMoves
  <2>5. Len(Append(old.queue, click)) = Len(old.queue) + 1
    BY <1>1, <1>3, QueueMoves
  <2> HIDE DEF r
  <2> QED BY <2>1, <2>3, <2>4, <2>5
<1> HIDE DEF click, r
<1>5. Desktop'
  <2>1. CASE tabs' = [tabs EXCEPT ![a] = [@ EXCEPT ![k] = r]]
    BY <1>1, <1>2, <1>3, <1>4, <2>1, TabTouched DEF TabsInv
  <2>2. CASE UNCHANGED tabs
    BY <1>2, <1>3, <2>2 DEF TabsInv, Desktop
  <2> QED BY <1>2, <2>1, <2>2
<1>6. /\ requests' \in Seq(AnyClick) /\ (requests # <<>> => requests' # <<>>)
      /\ requests # <<>> => Head(requests') = Head(requests)
  BY <1>2, <1>3, QueueMoves DEF TabsInv, Asking
<1> QED BY <1>2, <1>5, <1>6 DEF TabsInv, Connected, Remembering, Asking, Fetching

\* The click that is looked for, and the app it was into.
LEMMA AskedFacts ==
  ASSUME TabsInv, requests # <<>>
  PROVE  /\ Head(requests) \in AnyClick /\ Head(requests).app \in C!App
         /\ Tail(requests) \in Seq(AnyClick) /\ pc = "recording"
<1>1. Head(requests) \in AnyClick /\ Tail(requests) \in Seq(AnyClick)
  BY QueueMoves DEF TabsInv, Asking
<1> QED BY <1>1 DEF AnyClick, TabsInv, Remembering

\* The consumer goes on, or is done with the click.
LEMMA ConsumerKeeps ==
  ASSUME TabsInv, Desktop', requests # <<>>, UNCHANGED <<pc, turn, page, known, hover, late>>,
         \A answer \in answers' : answer.entry.app = answer.of.app \/ answer.mixed,
         conn' \in SUBSET [app : C!App, tab : Nat], \A c, d \in conn' : c = d,
         \A c \in conn' : hover.of # {} => hover.of = {c.app} \/ (late /\ "hovers" \in crossed'),
         \/ C!GiveUp
         \/ /\ UNCHANGED requests
            /\ job' \in [at : {"list", "select", "poll", "check"}, tries : Nat, index : SUBSET Nat]
            /\ job'.at = "list" => job'.index = {}
            /\ \A c \in conn' :
                 c.app = Head(requests).app \/ (late /\ "clicks" \in crossed')
  PROVE  TabsInv'
<1>1. Fetching' /\ Remembering'
  <2>1. late \/ hover.at \in {"recording", "drain"}
    BY DEF TabsInv, Fetching
  <2> QED BY <2>1, AskedFacts DEF TabsInv, Remembering, Fetching
<1>2. CASE C!GiveUp
  <2>1. job' = [at |-> "idle", tries |-> 0, index |-> {}] /\ requests' = Tail(requests)
    BY <1>2 DEF C!GiveUp, C!Idle
  <2> QED BY <1>1, <2>1, AskedFacts DEF TabsInv, Connected, Remembering, Asking
<1>3. CASE /\ UNCHANGED requests
           /\ job' \in [at : {"list", "select", "poll", "check"}, tries : Nat, index : SUBSET Nat]
           /\ job'.at = "list" => job'.index = {}
           /\ \A c \in conn' :
                c.app = Head(requests).app \/ (late /\ "clicks" \in crossed')
  BY <1>1, <1>3, AskedFacts DEF TabsInv, Connected, Remembering, Asking
<1> QED BY <1>2, <1>3

\* What the consumer is at next, with or without a page to select.
LEMMA Going ==
  ASSUME NEW at \in {"list", "select", "poll", "check"}, NEW index \in SUBSET Nat
  PROVE  /\ [C!Idle EXCEPT !.at = at] \in
              [at : {"list", "select", "poll", "check"}, tries : Nat, index : SUBSET Nat]
         /\ [C!Idle EXCEPT !.at = at].index = {} /\ [C!Idle EXCEPT !.at = at].at = at
         /\ [C!Idle EXCEPT !.at = at, !.index = index] \in
              [at : {"list", "select", "poll", "check"}, tries : Nat, index : SUBSET Nat]
         /\ [C!Idle EXCEPT !.at = at, !.index = index].at = at
         /\ [C!Idle EXCEPT !.at = at, !.index = index].index = index
BY DEF C!Idle

\* The consumer keeps it.
LEMMA ReconnectKeeps == ASSUME TabsInv, C!Reconnect PROVE TabsInv'
<1> DEFINE a == Head(requests).app
<1>1. /\ requests # <<>> /\ Desktop' /\ a \in C!App
      /\ UNCHANGED <<pc, turn, page, known, answers, hover, late>>
  BY DesktopSame, AskedFacts DEF C!Reconnect, C!desktop, C!setup, TabsInv
<1>2. ASSUME hover.of # {} PROVE late /\ "hovers" \in crossed'
  <2>1. late
    BY <1>1, <1>2 DEF TabsInv, Fetching
  <2>2. "hovers" \in crossed'
    BY <1>2 DEF C!Reconnect, C!Taken, C!AtWork
  <2> QED BY <2>1, <2>2
<1>3. \A answer \in answers' : answer.entry.app = answer.of.app \/ answer.mixed
  BY <1>1 DEF TabsInv, Asking
<1>4. CASE C!FailsToConnect(a) /\ C!GiveUp
  BY <1>1, <1>2, <1>3, <1>4, FailedFacts, ConsumerKeeps
<1>5. CASE /\ C!Reachable(a) /\ C!Attach(a) /\ UNCHANGED requests
           /\ \E at \in {"poll", "list"} : job' = [C!Idle EXCEPT !.at = at]
  <2>1. conn' \in SUBSET [app : C!App, tab : Nat] /\ \A c, d \in conn' : c = d
    BY <1>1, <1>5, AttachFacts DEF TabsInv
  <2>2. \A c \in conn' : c.app = a
    BY <1>1, <1>5, AttachFacts DEF TabsInv
  <2>3. /\ job' \in [at : {"list", "select", "poll", "check"}, tries : Nat, index : SUBSET Nat]
        /\ job'.index = {}
    BY <1>5, Going
  <2> QED BY <1>1, <1>2, <1>3, <1>5, <2>1, <2>2, <2>3, ConsumerKeeps
<1> QED BY <1>4, <1>5 DEF C!Reconnect, C!Goto, C!Asked

\* The listed pages are those of the app the server is connected to.
LEMMA ListedFacts ==
  ASSUME TabsInv, NEW list \in C!Listed
  PROVE  \E c \in conn :
           /\ c.app \in C!App /\ DOMAIN list.urls = 1 .. Len(tabs[c.app])
           /\ DOMAIN list.urls \subseteq Nat
           /\ \A k \in 1 .. Len(tabs[c.app]) : list.urls[k] = tabs[c.app][k].url
<1>1. PICK c \in conn :
        list = [urls |-> [k \in DOMAIN tabs[c.app] |-> tabs[c.app][k].url],
                selected |-> C!Places(c.app, c.tab)]
  BY DEF C!Listed
<1>2. c.app \in C!App
  BY DEF TabsInv, Connected
<1>3. DOMAIN tabs[c.app] = 1 .. Len(tabs[c.app]) /\ Len(tabs[c.app]) \in Nat
  BY <1>2, OneTab DEF TabsInv
<1>4. list.urls = [k \in 1 .. Len(tabs[c.app]) |-> tabs[c.app][k].url]
  BY <1>1, <1>3
<1> QED BY <1>2, <1>3, <1>4

\* A page that alone has the address is the one that is picked.
LEMMA PickFacts ==
  ASSUME NEW urls, NEW url
  PROVE  /\ C!PickPage(urls, url) \subseteq DOMAIN urls
         /\ \A k \in DOMAIN urls :
              DOMAIN urls \subseteq Nat /\ {l \in DOMAIN urls : urls[l] = url} = {k} => C!PickPage(urls, url) = {k}
<1>1. C!PickPage(urls, url) \subseteq DOMAIN urls
  BY DEF C!PickPage, C!First
<1>2. ASSUME NEW k \in DOMAIN urls, DOMAIN urls \subseteq Nat, {l \in DOMAIN urls : urls[l] = url} = {k}
      PROVE  C!PickPage(urls, url) = {k}
  <2> DEFINE exact == {l \in {m \in DOMAIN urls : urls[m] = url} :
                         \A n \in {m \in DOMAIN urls : urls[m] = url} : l <= n}
  <2>1. exact = {k}
    BY <1>2
  <2> HIDE DEF exact
  <2>2. C!PickPage(urls, url) = exact
    BY <2>1 DEF C!PickPage, C!First, exact
  <2> QED BY <2>1, <2>2
<1> QED BY <1>1, <1>2

LEMMA RestoreKeeps == ASSUME TabsInv, C!Restore PROVE TabsInv'
<1>1. /\ job.at = "list" /\ requests # <<>> /\ Desktop'
      /\ UNCHANGED <<conn, pc, turn, page, known, requests, answers, hover, late, crossed>>
  BY DesktopSame DEF C!Restore, C!desktop, C!setup, C!fetch, TabsInv, Asking
<1>2. /\ job' \in [at : {"list", "select", "poll", "check"}, tries : Nat, index : SUBSET Nat]
      /\ job'.at # "list"
  <2>1. ASSUME NEW list \in C!Listed, NEW url, NEW at \in {"poll", "select"},
               job' = [C!Idle EXCEPT !.at = at, !.index = C!PickPage(list.urls, url)]
        PROVE  /\ job' \in [at : {"list", "select", "poll", "check"}, tries : Nat, index : SUBSET Nat]
               /\ job'.at # "list"
    <3> DEFINE index == C!PickPage(list.urls, url)
    <3>1. DOMAIN list.urls \subseteq Nat
      BY ListedFacts
    <3>2. index \subseteq DOMAIN list.urls
      BY PickFacts
    <3>3. index \in SUBSET Nat
      BY <3>1, <3>2
    <3> HIDE DEF index
    <3> QED BY <2>1, <3>3, Going DEF index
  <2>2. CASE job' = [C!Idle EXCEPT !.at = "poll"]
    BY <2>2, Going
  <2> QED BY <2>1, <2>2 DEF C!Restore, C!Goto
<1> QED BY <1>1, <1>2, ConsumerKeeps DEF TabsInv, Connected, Asking

\* cdp_select_page stays in the app.
LEMMA SelectFacts ==
  ASSUME TabsInv, NEW index, C!Select(index)
  PROVE  /\ conn' \in SUBSET [app : C!App, tab : Nat] /\ \A c, d \in conn' : c = d
         /\ \A c \in conn' : \E d \in conn : c.app = d.app
<1>1. ASSUME NEW c \in conn, NEW k \in DOMAIN tabs[c.app],
             conn' = {[c EXCEPT !.tab = tabs[c.app][k].id]}
      PROVE  /\ conn' \in SUBSET [app : C!App, tab : Nat] /\ \A d, e \in conn' : d = e
             /\ \A d \in conn' : d.app = c.app
  <2>1. c \in [app : C!App, tab : Nat] /\ c.app \in C!App
    BY DEF TabsInv, Connected
  <2>2. tabs[c.app][k].id \in Nat
    BY <2>1, OneTab DEF TabsInv
  <2> QED BY <1>1, <2>1, <2>2
<1>2. CASE UNCHANGED conn
  BY <1>2 DEF TabsInv, Connected
<1> QED BY <1>1, <1>2 DEF C!Select

LEMMA SelectKeeps == ASSUME TabsInv, C!SelectPage PROVE TabsInv'
<1>1. /\ job.at = "select" /\ requests # <<>> /\ Desktop' /\ C!Select(job.index)
      /\ UNCHANGED <<pc, turn, page, known, requests, answers, hover, late, crossed>>
  BY DesktopSame DEF C!SelectPage, C!desktop, C!setup, C!fetch, TabsInv, Asking
<1>2. /\ job' \in [at : {"list", "select", "poll", "check"}, tries : Nat, index : SUBSET Nat]
      /\ job'.at # "list"
  BY Going DEF C!SelectPage, C!Goto
<1>3. /\ conn' \in SUBSET [app : C!App, tab : Nat] /\ \A c, d \in conn' : c = d
      /\ \A c \in conn' : \E d \in conn : c.app = d.app
  BY <1>1, SelectFacts
<1>4. ASSUME NEW c \in conn'
      PROVE  /\ c.app = Head(requests).app \/ (late /\ "clicks" \in crossed')
             /\ hover.of # {} => hover.of = {c.app} \/ (late /\ "hovers" \in crossed')
  BY <1>1, <1>3 DEF TabsInv, Connected
<1> QED BY <1>1, <1>2, <1>3, <1>4, ConsumerKeeps DEF TabsInv, Asking

LEMMA PollKeeps == ASSUME TabsInv, C!Poll PROVE TabsInv'
<1>1. /\ job.at = "poll" /\ requests # <<>>
      /\ UNCHANGED <<fresh, acts, conn, pc, turn, page, known, hover, late, crossed>>
      /\ acts' \in [moves : Nat, clicks : Nat]
  BY DEF C!Poll, C!setup, C!fetch, TabsInv, Desktop, Asking
<1>2. ASSUME NEW c \in conn, NEW k \in C!Places(c.app, c.tab),
             tabs[c.app][k].queue # <<>>,
             answers' = answers \cup {[of |-> C!Asked, entry |-> Head(tabs[c.app][k].queue),
                                        mixed |-> C!Mixed("clicks")]},
             tabs' = [tabs EXCEPT ![c.app][k].queue = Tail(@)], C!GiveUp
      PROVE  TabsInv'
  <2> DEFINE a == c.app
             old == tabs[a][k]
             r == [old EXCEPT !.queue = Tail(@)]
  <2>1. /\ a \in C!App /\ k \in 1 .. Len(tabs[a])
        /\ a = Head(requests).app \/ C!Mixed("clicks")
    BY <1>1, PlaceFacts DEF TabsInv, Connected, C!Mixed
  <2>2. /\ old \in AnyTab /\ old.queue \in Seq(AnyClick)
        /\ \A q \in 1 .. Len(old.queue) : old.queue[q].app = a
    BY <2>1, OneTab DEF TabsInv
  <2>3. /\ Len(old.queue) \in Nat /\ Len(old.queue) >= 1 /\ Head(old.queue) = old.queue[1]
        /\ Tail(old.queue) \in Seq(AnyClick) /\ Len(Tail(old.queue)) = Len(old.queue) - 1
        /\ \A i \in 1 .. Len(old.queue) - 1 : Tail(old.queue)[i] = old.queue[i + 1]
    BY <1>2, <2>2, QueueMoves
  <2>4. r \in AnyTab /\ r.id = old.id /\ r.queue = Tail(old.queue)
    BY <2>2, <2>3 DEF AnyTab
  <2>5. \A q \in 1 .. Len(r.queue) : r.queue[q].app = a
    BY <2>2, <2>3, <2>4
  <2>6. tabs' = [tabs EXCEPT ![a] = [@ EXCEPT ![k] = r]]
    BY <1>2
  <2> HIDE DEF r
  <2>7. Desktop'
    BY <1>1, <2>1, <2>4, <2>5, <2>6, TabTouched DEF TabsInv
  <2>8. \A answer \in answers' : answer.entry.app = answer.of.app \/ answer.mixed
    <3> DEFINE e == Head(old.queue)
               m == C!Mixed("clicks")
    <3>1. e.app = a /\ (C!Asked.app = a \/ m)
      BY <2>1, <2>2, <2>3 DEF C!Asked
    <3>2. answers' = answers \cup {[of |-> C!Asked, entry |-> e, mixed |-> m]}
      BY <1>2
    <3> HIDE DEF e, m
    <3> QED BY <3>1, <3>2 DEF TabsInv, Asking
  <2> QED BY <1>1, <1>2, <2>7, <2>8, ConsumerKeeps DEF TabsInv, Connected
<1>3. ASSUME UNCHANGED <<tabs, answers>>, C!GiveUp
      PROVE  TabsInv'
  BY <1>1, <1>3, DesktopSame, ConsumerKeeps DEF TabsInv, Connected, Asking
<1>4. ASSUME UNCHANGED <<tabs, answers, requests>>,
             job' = IF job.tries + 1 < EmptyPolls THEN [job EXCEPT !.tries = @ + 1]
                    ELSE [C!Idle EXCEPT !.at = "check"]
      PROVE  TabsInv'
  <2>1. /\ job' \in [at : {"list", "select", "poll", "check"}, tries : Nat, index : SUBSET Nat]
        /\ job'.at # "list"
    <3>1. CASE job' = [job EXCEPT !.tries = @ + 1]
      BY <1>1, <3>1 DEF TabsInv, Asking
    <3>2. CASE job' = [C!Idle EXCEPT !.at = "check"]
      BY <3>2, Going
    <3> QED BY <1>4, <3>1, <3>2
  <2> QED BY <1>1, <1>4, <2>1, DesktopSame, ConsumerKeeps DEF TabsInv, Connected, Asking
<1> QED BY <1>2, <1>3, <1>4 DEF C!Poll

LEMMA ReinjectKeeps == ASSUME TabsInv, C!Reinject PROVE TabsInv'
<1>1. /\ job.at = "check" /\ requests # <<>> /\ C!GiveUp
      /\ UNCHANGED <<fresh, acts, conn, pc, turn, page, known, answers, hover, late, crossed>>
      /\ acts' \in [moves : Nat, clicks : Nat]
  BY DEF C!Reinject, C!setup, C!fetch, TabsInv, Desktop, Asking
<1>2. ASSUME NEW c \in conn, NEW k \in C!Places(c.app, c.tab),
             tabs' = [tabs EXCEPT ![c.app][k].hears = TRUE,
                                  ![c.app][k].queue = <<>>]
      PROVE  Desktop'
  <2> DEFINE a == c.app
             old == tabs[a][k]
             r == [old EXCEPT !.hears = TRUE, !.queue = <<>>]
  <2>1. a \in C!App /\ k \in 1 .. Len(tabs[a])
    BY PlaceFacts DEF TabsInv, Connected
  <2>2. old \in AnyTab /\ tabs \in [C!App -> Seq(AnyTab)] /\ tabs[a] \in Seq(AnyTab)
    BY <2>1, OneTab DEF TabsInv, Desktop
  <2>3. r \in AnyTab /\ r.id = old.id /\ \A q \in 1 .. Len(r.queue) : r.queue[q].app = a
    <3>1. r.id = old.id /\ r.queue = <<>> /\ <<>> \in Seq(AnyClick) /\ Len(<<>>) = 0
      BY <2>2 DEF AnyTab
    <3>2. r \in AnyTab
      BY <2>2, <3>1 DEF AnyTab
    <3> HIDE DEF r
    <3> QED BY <3>1, <3>2
  <2>4. tabs' = [tabs EXCEPT ![a] = [@ EXCEPT ![k] = r]]
    BY <1>2, <2>1, <2>2
  <2> HIDE DEF r
  <2> QED BY <1>1, <2>1, <2>3, <2>4, TabTouched DEF TabsInv
<1>3. Desktop'
  BY <1>1, <1>2, DesktopSame DEF C!Reinject, TabsInv
<1> QED BY <1>1, <1>3, ConsumerKeeps DEF TabsInv, Connected, Asking

\* The end of the recording goes on, and the connection stays in an app it was in or
\* goes.
LEMMA FetchKeeps ==
  ASSUME TabsInv, Desktop', UNCHANGED <<pc, turn, page, known, requests, job, answers>>,
         conn' \in SUBSET [app : C!App, tab : Nat], \A c, d \in conn' : c = d,
         Fetching', pc = "recording",
         \A c \in conn' :
           /\ job.at # "idle" => c.app = Head(requests).app \/ (late' /\ "clicks" \in crossed')
           /\ hover.of' # {} => hover.of' = {c.app} \/ (late' /\ "hovers" \in crossed')
  PROVE  TabsInv'
BY DEF TabsInv, Connected, Remembering, Asking

\* The same where no other connection is made: the app that is asked stays or is left.
LEMMA FetchStays ==
  ASSUME TabsInv, UNCHANGED <<tabs, fresh, acts>>,
         UNCHANGED <<pc, turn, page, known, requests, job, answers, late, crossed>>,
         conn' \in SUBSET [app : C!App, tab : Nat], \A c, d \in conn' : c = d,
         \A c \in conn' : \E d \in conn : c.app = d.app,
         hover.at \notin {"recording", "drain"}, hover.of' \in {hover.of, {}},
         hover' \in [at : {"next", "list", "select", "stop", "retrieve", "leave", "over"},
                    left : SUBSET C!App, of : SUBSET C!App, index : SUBSET Nat],
         hover.at' \in {"next", "over"} => hover.of' = {},
         hover.at' \in {"next", "list"} => hover.index' = {}
  PROVE  TabsInv'
<1>1. Desktop' /\ pc = "recording"
  BY DesktopSame DEF TabsInv, Fetching
<1>2. Fetching'
  BY <1>1 DEF TabsInv, Fetching
<1>3. ASSUME NEW c \in conn'
      PROVE  /\ job.at # "idle" => c.app = Head(requests).app \/ (late' /\ "clicks" \in crossed')
             /\ hover.of' # {} => hover.of' = {c.app} \/ (late' /\ "hovers" \in crossed')
  BY DEF TabsInv, Connected
<1> QED BY <1>1, <1>2, <1>3, FetchKeeps

LEMMA DrainKeeps == ASSUME TabsInv, C!StopRecording \/ C!Drain PROVE TabsInv'
<1>1. /\ hover.at \in {"recording", "drain"} /\ hover.of = {} /\ pc = "recording"
      /\ UNCHANGED <<conn, pc, turn, page, known, requests, job, answers, crossed>>
      /\ Desktop'
  BY DesktopSame
     DEF C!StopRecording, C!Drain, C!desktop, C!setup, TabsInv, Fetching
<1>2. /\ hover' \in [at : {"drain", "next"}, left : SUBSET C!App, of : SUBSET C!App,
                     index : SUBSET Nat]
      /\ hover.of' = {} /\ hover.index' = {} /\ (hover.at' # "drain" => late' = ~C!Through)
  BY DEF C!StopRecording, C!Drain, C!Begin, TabsInv, Fetching, Remembering
<1>3. C!Through => requests = <<>> /\ job.at = "idle"
  BY DEF C!Through, C!Idle
<1>5. hover.at' # "drain" /\ ~late' => C!Through
  BY <1>2, Zenon
<1>6. Fetching'
  BY <1>1, <1>2, <1>3, <1>5 DEF TabsInv, Fetching
<1>7. UNCHANGED late \/ late' = ~C!Through
  BY DEF C!StopRecording, C!Drain
<1>4. ASSUME NEW c \in conn, job.at # "idle"
      PROVE  c.app = Head(requests).app \/ (late' /\ "clicks" \in crossed')
  <2>1. late => late'
    BY <1>3, <1>4, <1>7, Zenon
  <2> QED BY <1>1, <1>4, <2>1 DEF TabsInv, Connected
<1> QED BY <1>1, <1>2, <1>4, <1>6, FetchKeeps DEF TabsInv, Connected

LEMMA ConnectForHoversKeeps ==
  ASSUME TabsInv, NEW a \in C!App, C!ConnectForHovers(a)
  PROVE  TabsInv'
<1>1. /\ hover.at = "next" /\ hover.of = {} /\ pc = "recording" /\ Desktop'
      /\ UNCHANGED <<tabs, fresh, acts, pc, turn, page, known, requests, job, answers, late>>
  BY DesktopSame DEF C!ConnectForHovers, C!desktop, C!setup, TabsInv, Fetching
<1>2. ASSUME job.at # "idle" PROVE late' /\ "clicks" \in crossed'
  <2>1. late'
    BY <1>1, <1>2 DEF TabsInv, Fetching
  <2>2. "clicks" \in crossed'
    BY <1>2 DEF C!ConnectForHovers, C!Taken, C!AtWork
  <2> QED BY <2>1, <2>2
<1>3. CASE C!FailsToConnect(a) /\ C!Skip(a)
  <2>1. Fetching' /\ hover.of' = {}
    BY <1>1, <1>3 DEF C!Skip, TabsInv, Fetching
  <2> QED BY <1>1, <1>2, <1>3, <2>1, FailedFacts, FetchKeeps
<1>4. CASE /\ C!Reachable(a) /\ C!Attach(a)
           /\ \E at \in {"stop", "list"} : hover' = [hover EXCEPT !.at = at, !.of = {a}]
  <2>1. /\ conn' \in SUBSET [app : C!App, tab : Nat] /\ \A c, d \in conn' : c = d
        /\ \A c \in conn' : c.app = a
    BY <1>4, AttachFacts DEF TabsInv
  <2>2. hover.of' = {a} /\ hover.index' = {}
    BY <1>1, <1>4 DEF TabsInv, Fetching
  <2>3. Fetching'
    BY <1>1, <1>4, <2>2 DEF TabsInv, Fetching
  <2> QED BY <1>1, <1>2, <2>1, <2>2, <2>3, FetchKeeps
<1> QED BY <1>3, <1>4 DEF C!ConnectForHovers

LEMMA HoversKeep ==
  ASSUME TabsInv, C!FetchOver \/ C!RestoreForHovers \/ C!SelectForHovers \/ C!StopHovers
  PROVE  TabsInv'
<1>1. /\ hover.at \notin {"recording", "drain"}
      /\ UNCHANGED <<tabs, fresh, acts>>
      /\ UNCHANGED <<pc, turn, page, known, requests, job, answers, late, crossed>>
  BY DEF C!FetchOver, C!RestoreForHovers, C!SelectForHovers, C!StopHovers, C!desktop, C!setup
<1>2. /\ conn' \in SUBSET [app : C!App, tab : Nat] /\ \A c, d \in conn' : c = d
      /\ \A c \in conn' : \E d \in conn : c.app = d.app
  <2>1. CASE UNCHANGED conn
    BY <2>1 DEF TabsInv, Connected
  <2>2. CASE C!Select(hover.index)
    BY <2>2, SelectFacts
  <2> QED BY <2>1, <2>2 DEF C!FetchOver, C!RestoreForHovers, C!SelectForHovers, C!StopHovers
<1>3. ASSUME NEW at \in {"stop", "retrieve", "over", "select"}, NEW index \in SUBSET Nat,
             hover' = [hover EXCEPT !.at = at, !.index = index],
             at = "over" => hover.at = "next"
      PROVE  TabsInv'
  <2>1. /\ hover.of' = hover.of /\ hover.at' = at
        /\ hover' \in [at : {"next", "list", "select", "stop", "retrieve", "leave", "over"},
                       left : SUBSET C!App, of : SUBSET C!App, index : SUBSET Nat]
        /\ at = "over" => hover.of = {}
    BY <1>3 DEF TabsInv, Fetching
  <2> QED BY <1>1, <1>2, <2>1, FetchStays
<1>4. CASE C!FetchOver \/ C!SelectForHovers \/ C!StopHovers
  BY <1>3, <1>4 DEF C!FetchOver, C!SelectForHovers, C!StopHovers, C!On
<1>5. CASE C!RestoreForHovers
  <2>1. CASE hover' = [hover EXCEPT !.at = "stop", !.index = {}]
    <3>1. "stop" \in {"stop", "retrieve", "over", "select"} /\ {} \in SUBSET Nat /\ "stop" # "over"
      OBVIOUS
    <3> QED BY <1>3, <2>1, <3>1, Zenon
  <2>2. ASSUME NEW list \in C!Listed, NEW url, NEW at \in {"stop", "select"},
               hover' = [hover EXCEPT !.at = at, !.index = C!PickPage(list.urls, url)]
        PROVE  TabsInv'
    <3>1. C!PickPage(list.urls, url) \in SUBSET Nat
      <4>1. DOMAIN list.urls \subseteq Nat
        BY ListedFacts
      <4>2. C!PickPage(list.urls, url) \subseteq DOMAIN list.urls
        BY PickFacts
      <4> QED BY <4>1, <4>2
    <3> QED BY <1>3, <2>2, <3>1
  <2> QED BY <1>5, <2>1, <2>2 DEF C!RestoreForHovers, C!On
<1> QED BY <1>4, <1>5

LEMMA LeaveKeeps ==
  ASSUME TabsInv, NEW a \in C!App, C!RetrieveHovers(a) \/ C!LeaveApp(a)
  PROVE  TabsInv'
<1>1. /\ hover.at \in {"retrieve", "leave"} /\ conn' \in {conn, {}}
      /\ UNCHANGED <<tabs, fresh, acts>>
      /\ UNCHANGED <<pc, turn, page, known, requests, job, answers, late, crossed>>
      /\ C!On("leave") \/ C!Skip(a)
  BY DEF C!RetrieveHovers, C!LeaveApp, C!desktop, C!setup
<1>2. /\ hover' \in [at : {"next", "leave"}, left : SUBSET C!App, of : SUBSET C!App,
                     index : SUBSET Nat]
      /\ hover.of' \in {hover.of, {}} /\ (hover.at' = "next" => hover.of' = {} /\ hover.index' = {})
  BY <1>1 DEF C!On, C!Skip, TabsInv, Fetching
<1>3. /\ conn' \in SUBSET [app : C!App, tab : Nat] /\ \A c, d \in conn' : c = d
      /\ \A c \in conn' : \E d \in conn : c.app = d.app
  BY <1>1 DEF TabsInv, Connected
<1> QED BY <1>1, <1>2, <1>3, FetchStays

\* Every step keeps the invariant.
LEMMA TabsKept ==
  ASSUME TabsInv, [C!Next]_(C!vars)
  PROVE  TabsInv'
<1>1. CASE C!SetUp
  BY <1>1, PrepareKeeps, QuitKeeps, LaunchKeeps, ConnectKeeps, InjectKeeps, ListKeeps,
     DisconnectKeeps DEF C!SetUp
<1>2. CASE C!Consume
  BY <1>2, ReconnectKeeps, RestoreKeeps, SelectKeeps, PollKeeps, ReinjectKeeps DEF C!Consume
<1>9. CASE C!Fetch \/ C!StopRecording
  BY <1>9, DrainKeeps, ConnectForHoversKeeps, HoversKeep, LeaveKeeps DEF C!Fetch
<1>3. CASE C!Cancel
  BY <1>3, CancelKeeps
<1>4. ASSUME NEW a \in C!App, C!UserQuits(a) PROVE TabsInv'
  BY <1>4, UserQuitsKeeps
<1>5. ASSUME NEW a \in C!App, NEW k \in DOMAIN tabs[a], C!Close(a, k) \/ C!Click(a, k)
      PROVE  TabsInv'
  BY <1>5, CloseKeeps, ClickKeeps
<1>6. ASSUME NEW a \in C!App, NEW k \in 1 .. MaxTabs, NEW url \in Url, C!Open(a, k, url)
      PROVE  TabsInv'
  BY <1>6, OpenKeeps DEF C!Open
<1>7. ASSUME NEW a \in C!App, NEW k \in DOMAIN tabs[a], NEW url \in Url, C!Navigate(a, k, url)
      PROVE  TabsInv'
  BY <1>7, NavigateKeeps
<1>8. CASE UNCHANGED C!vars
  BY <1>8, DesktopSame, UserKeeps DEF C!vars, C!desktop, C!setup, C!clicks, C!fetch, TabsInv
<1> QED BY <1>1, <1>2, <1>3, <1>4, <1>5, <1>6, <1>7, <1>8, <1>9 DEF C!Next

\* It says what the property says of the apps.
LEMMA InItsApp == TabsInv => C!RunsInItsApp
BY DEF TabsInv, Connected, Asking, C!RunsInItsApp, C!Here, C!Asked, C!Mixed

\* The one tab with the remembered address is the one that is picked from a list of
\* its app's.
LEMMA PickedRight ==
  ASSUME TabsInv, NEW a \in DOMAIN known, NEW url \in known[a], NEW k \in DOMAIN tabs[a],
         {l \in DOMAIN tabs[a] : tabs[a][l].url = url} = {k},
         NEW list \in C!Listed, NEW u \in known[a], \A c \in conn : c.app = a
  PROVE  C!PickPage(list.urls, u) = {k}
<1>1. u = url
  BY DEF TabsInv, Remembering
<1>2. /\ a \in C!App /\ DOMAIN list.urls = 1 .. Len(tabs[a]) /\ DOMAIN list.urls \subseteq Nat
      /\ \A l \in 1 .. Len(tabs[a]) : list.urls[l] = tabs[a][l].url
  BY ListedFacts
<1>3. DOMAIN tabs[a] = 1 .. Len(tabs[a])
  BY <1>2, OneTab DEF TabsInv
<1>4. {l \in DOMAIN list.urls : list.urls[l] = u} = {k} /\ k \in DOMAIN list.urls
  BY <1>1, <1>2, <1>3
<1> QED BY <1>2, <1>4, PickFacts

\* The tab that is asked is that one, for clicks and for hovers.
LEMMA ItsTabKept ==
  ASSUME TabsInv, [C!Next]_(C!vars)
  PROVE  C!KeepsItsTab
<1> SUFFICES ASSUME NEW a \in DOMAIN known, NEW url \in known[a], NEW k \in DOMAIN tabs[a],
                    {l \in DOMAIN tabs[a] : tabs[a][l].url = url} = {k}
             PROVE  /\ job.at = "list" /\ job'.index # {} /\ C!Asked.app = a =>
                         job'.index = {k} \/ C!Mixed("clicks")
                    /\ hover.at = "list" /\ hover'.index # {} /\ a \in hover.of =>
                         hover'.index = {k} \/ C!Mixed("hovers")
  BY DEF C!KeepsItsTab
<1>1. ASSUME job.at = "list", job'.index # {}, C!Asked.app = a, ~C!Mixed("clicks")
      PROVE  job'.index = {k}
  <2>1. job' # job
    BY <1>1 DEF TabsInv, Asking
  <2>2. C!Restore
    BY <1>1, <2>1
       DEF C!Next, C!SetUp, C!Consume, C!Fetch, C!Prepare, C!QuitApp, C!WaitForExit,
           C!ForceQuit, C!Launch, C!ConnectForSetup, C!InjectClickListener,
           C!InjectHoverListener, C!ListPages, C!Disconnect,
           C!UserQuits, C!Close, C!Click, C!Open, C!Navigate, C!Cancel,
           C!Reconnect, C!SelectPage, C!Poll, C!Reinject, C!StopRecording, C!Drain,
           C!ConnectForHovers, C!FetchOver, C!RestoreForHovers, C!SelectForHovers,
           C!StopHovers, C!RetrieveHovers, C!LeaveApp, C!clicks, C!vars
  <2>3. PICK list \in C!Listed, u \in known[a] : job'.index = C!PickPage(list.urls, u)
    <3>1. [C!Idle EXCEPT !.at = "poll"].index = {}
      BY Going
    <3>2. PICK list \in C!Listed, u \in known[a] :
            LET index == C!PickPage(list.urls, u) IN
            job' = [C!Idle EXCEPT !.at = IF index \subseteq list.selected THEN "poll" ELSE "select",
                                    !.index = index]
      BY <1>1, <2>2, <3>1 DEF C!Restore, C!Goto
    <3> QED BY <3>2 DEF C!Idle
  <2>4. \A c \in conn : c.app = a
    BY <1>1 DEF TabsInv, Connected, C!Asked, C!Mixed
  <2> QED BY <2>3, <2>4, PickedRight
<1>2. ASSUME hover.at = "list", hover'.index # {}, a \in hover.of, ~C!Mixed("hovers")
      PROVE  hover'.index = {k}
  <2>1. hover' # hover
    BY <1>2 DEF TabsInv, Fetching
  <2>2. C!RestoreForHovers
    BY <1>2, <2>1
       DEF C!Next, C!SetUp, C!Consume, C!Fetch, C!Prepare, C!QuitApp, C!WaitForExit,
           C!ForceQuit, C!Launch, C!ConnectForSetup, C!InjectClickListener,
           C!InjectHoverListener, C!ListPages, C!Disconnect,
           C!UserQuits, C!Close, C!Click, C!Open, C!Navigate, C!Cancel,
           C!Reconnect, C!Restore, C!SelectPage, C!Poll, C!Reinject, C!StopRecording,
           C!Drain, C!ConnectForHovers, C!FetchOver, C!SelectForHovers,
           C!StopHovers, C!RetrieveHovers, C!LeaveApp, C!clicks, C!fetch, C!vars
  <2>3. \A c \in conn : hover.of = {c.app}
    BY <1>2 DEF TabsInv, Connected, C!Mixed
  <2>4. /\ hover \in [at : {"list"}, left : SUBSET C!App, of : SUBSET C!App, index : SUBSET Nat]
        /\ [hover EXCEPT !.at = "stop", !.index = {}].index = {}
    BY <1>2 DEF TabsInv, Fetching
  <2>5. PICK list \in C!Listed, b \in hover.of :
          \E u \in known[b] : hover'.index = C!PickPage(list.urls, u)
    <3>1. hover' # [hover EXCEPT !.at = "stop", !.index = {}]
      BY <1>2, <2>4
    <3>2. PICK list \in C!Listed, b \in hover.of :
            \E u \in known[b] :
              LET index == C!PickPage(list.urls, u) IN
              hover' = [hover EXCEPT !.at = IF index \subseteq list.selected THEN "stop" ELSE "select",
                                     !.index = index]
      BY <2>2, <3>1 DEF C!RestoreForHovers, C!On
    <3>3. PICK u \in known[b] :
            hover'.index = C!PickPage(list.urls, u)
      BY <2>4, <3>2
    <3> QED BY <3>3
  <2>6. (\A c \in conn : c.app = a) /\ b = a
    <3>1. PICK c \in conn : TRUE
      BY ListedFacts
    <3> QED BY <1>2, <2>3, <3>1
  <2> QED BY <2>5, <2>6, PickedRight
<1> QED BY <1>1, <1>2

\* With the one connection that goes back and forth between any number of apps,
\* whatever the user does to them and whichever calls fail: no script runs in
\* another app than its own, no click is answered from another app, and a tab that
\* has kept its address is the tab that is asked (cdp_setup.rs, cdp_click.rs,
\* hover.rs), unless the drain has given up a search for a click and it or the end
\* of the recording has taken the other's connection.
THEOREM TabsHold ==
  C!Spec => [](TabsInv /\ C!RunsInItsApp) /\ [][C!KeepsItsTab]_(C!vars)
<1>1. C!Init => TabsInv
  BY TabsStart
<1>2. TabsInv /\ [C!Next]_(C!vars) => TabsInv'
  BY TabsKept
<1>3. TabsInv /\ [C!Next]_(C!vars) => C!KeepsItsTab
  BY ItsTabKept
<1> QED BY <1>1, <1>2, <1>3, InItsApp, PTL DEF C!Spec

\* The same as the run calls states it, of the part that is about the tabs: the apps
\* of every script and every answer after each step, and the tab in the step.
THEOREM TabsAreRightHolds == C!Spec => TabsAreRight
<1>1. TabsInv /\ [C!Next]_(C!vars) =>
        [part = "tabs" => C!RunsInItsApp' /\ C!KeepsItsTab]_(C!vars)
  <2> SUFFICES ASSUME TabsInv, [C!Next]_(C!vars)
               PROVE  C!RunsInItsApp' /\ C!KeepsItsTab
    OBVIOUS
  <2>1. TabsInv'
    BY TabsKept
  <2> QED BY <2>1, ItsTabKept
       DEF TabsInv, Connected, Asking, C!RunsInItsApp, C!Here, C!Asked, C!Mixed
<1>2. C!Spec => [](TabsInv /\ C!RunsInItsApp) /\ [][C!KeepsItsTab]_(C!vars)
  BY TabsHold
<1> QED BY <1>1, <1>2, PTL DEF TabsAreRight, C!Spec
=============================================================================
