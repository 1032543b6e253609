----------------------- MODULE ExecutorSession_proofs -----------------------
(***************************************************************************)
(* Theorems about ExecutorSession for any number of runs: its types, who   *)
(* holds the handle, and what the user interface settles at, whatever the  *)
(* number of commands under way; and, for commands that come one at a      *)
(* time, that one wanted run drives the desktop and every run nobody       *)
(* stopped is accounted for.                                               *)
(***************************************************************************)
EXTENDS ExecutorSession, SequenceTheorems, TLAPS

USE ExecutorAssumption

-----------------------------------------------------------------------------
(* The invariant, for any commands. *)

Channel == {<<>>, <<"running">>, <<"idle">>, <<"running", "idle">>}

\* A run that is not started yet has left no trace.
Unstarted ==
  \A r \in Run : r > gen =>
    /\ pc[r] = "none" /\ fwd[r] = "none" /\ events[r] = <<>>
    /\ r \notin aborted

\* The slots name no run to come, and token and command channel go together.
Handle ==
  /\ cmd = token /\ token \in {0, gen} /\ task <= gen
  /\ \A c \in Command : own[c] <= gen

\* The newest run has its token until it is stopped or over.
Newest ==
  \A r \in Run : r = gen =>
    /\ fwd[r] = "done" => token = 0
    /\ Alive(r) /\ r \notin cancelled => token = r

\* A forwarder ends only after the task whose channel it reads.
Closed == \A r \in Run : fwd[r] \in {"closing", "done"} => pc[r] = "gone"

\* What a channel may hold, given where the task is.
Queue ==
  \A r \in Run :
    /\ events[r] \in Channel
    /\ pc[r] \in {"none", "new"} => events[r] = <<>>
    /\ pc[r] # "gone" => events[r] \in {<<>>, <<"running">>}
    /\ r \in sawIdle => pc[r] = "gone" /\ events[r] = <<>>

\* What is shown as running has a forwarder that owes an idle.
Shown == ui = "running" => \E r \in Run : fwd[r] = "open" /\ r \notin sawIdle

SessionInv == TypeOK /\ Unstarted /\ Handle /\ Newest /\ Closed /\ Queue /\ Shown

(* The invariant, for commands that come one at a time. *)

OneAtATime == \A c, d \in Command : c = d

\* A command that goes on has found the handle free, and it still is.
Turns == \A c \in Command : at[c] = "checked" => token = 0

\* A run that drives and is not stopped has the handle.
Lone == \A r \in Run : Driving(r) /\ r \notin cancelled => token = r

\* An abort hits runs that are cancelled as well.
Dropped == \A r \in aborted : Driving(r) => r \in cancelled

\* The record is written before the last events are sent.
Written == \A r \in Run : pc[r] = "sending" => record[r] = "final"

SerialInv == Turns /\ Lone /\ Dropped /\ Written /\ Accounted

-----------------------------------------------------------------------------
(* Lemmas. *)

\* What Append does, by position.
LEMMA Appended ==
  ASSUME NEW S, NEW s \in Seq(S), NEW e \in S
  PROVE  /\ Append(s, e) \in Seq(S) /\ Len(Append(s, e)) = Len(s) + 1
         /\ Append(s, e)[Len(s) + 1] = e
         /\ \A i \in 1 .. Len(s) : Append(s, e)[i] = s[i]
OBVIOUS

\* The whole life of a channel: running is sent first, then idle.
LEMMA RunningThenIdle == Append(<<"running">>, "idle") = <<"running", "idle">>
<1> DEFINE S == {"running", "idle"}
           s == <<"running">>
           t == <<"running", "idle">>
<1>1. s \in Seq(S) /\ Len(s) = 1 /\ s[1] = "running" /\ "idle" \in S
  OBVIOUS
<1>2. t \in Seq(S) /\ Len(t) = 2 /\ t[1] = "running" /\ t[2] = "idle"
  OBVIOUS
<1> HIDE DEF S, s, t
<1> DEFINE u == Append(s, "idle")
<1>3. /\ u \in Seq(S) /\ Len(u) = Len(s) + 1 /\ u[Len(s) + 1] = "idle"
      /\ \A i \in 1 .. Len(s) : u[i] = s[i]
  BY <1>1, Appended, SMTT(30)
<1> HIDE DEF u
<1>4. u = t
  <2>1. Len(u) = Len(t) /\ \A i \in 1 .. Len(u) : u[i] = t[i]
    BY <1>1, <1>2, <1>3
  <2> QED BY <1>2, <1>3, <2>1, SeqEqual
<1> QED BY <1>4 DEF s, t, u

\* What sending and receiving does to a channel, and how it is typed.
LEMMA ChannelMoves ==
  /\ Append(<<>>, "running") = <<"running">> /\ Append(<<>>, "idle") = <<"idle">>
  /\ Append(<<"running">>, "idle") = <<"running", "idle">>
  /\ Head(<<"running">>) = "running" /\ Tail(<<"running">>) = <<>>
  /\ Head(<<"idle">>) = "idle" /\ Tail(<<"idle">>) = <<>>
  /\ Head(<<"running", "idle">>) = "running" /\ Tail(<<"running", "idle">>) = <<"idle">>
  /\ \A q \in Channel : q \in Seq({"running", "idle"}) /\ Len(q) <= 2
<1>1. Append(<<>>, "running") = <<"running">> /\ Append(<<>>, "idle") = <<"idle">>
  OBVIOUS
<1>2. Head(<<"running">>) = "running" /\ Tail(<<"running">>) = <<>>
  OBVIOUS
<1>3. Head(<<"idle">>) = "idle" /\ Tail(<<"idle">>) = <<>>
  OBVIOUS
<1>4. Head(<<"running", "idle">>) = "running" /\ Tail(<<"running", "idle">>) = <<"idle">>
  OBVIOUS
<1>5. <<>> \in Seq({"running", "idle"}) /\ Len(<<>>) <= 2
  OBVIOUS
<1>6. <<"running">> \in Seq({"running", "idle"}) /\ Len(<<"running">>) <= 2
  OBVIOUS
<1>7. <<"idle">> \in Seq({"running", "idle"}) /\ Len(<<"idle">>) <= 2
  OBVIOUS
<1>8. <<"running", "idle">> \in Seq({"running", "idle"}) /\ Len(<<"running", "idle">>) <= 2
  OBVIOUS
<1> QED BY <1>1, <1>2, <1>3, <1>4, <1>5, <1>6, <1>7, <1>8, RunningThenIdle DEF Channel

\* At the start nothing has run.
LEMMA SessionInit == Init => SessionInv
<1> SUFFICES ASSUME Init PROVE SessionInv
  OBVIOUS
<1>1. TypeOK
  BY DEF Init, TypeOK, Run, Slot
<1>2. Unstarted /\ Handle /\ Newest /\ Closed /\ Shown
  BY DEF Init, Unstarted, Handle, Newest, Closed, Shown, Run, Slot, Alive, Driving
<1>3. Queue
  BY DEF Init, Queue, Channel
<1> QED BY <1>1, <1>2, <1>3 DEF SessionInv

(* Every step keeps the invariant. *)

\* A command that looks at the handle, or gives up, changes nothing but its place.
LEMMA LookKeeps ==
  ASSUME SessionInv, NEW c \in Command, Check(c) \/ GiveUp(c)
  PROVE  SessionInv'
<1>1. UNCHANGED <<handleVars, own, stopVars, runVars, events, feedVars>>
  BY DEF Check, GiveUp
<1>2. at' \in [Command -> {"idle", "checked", "installed"}]
  BY DEF Check, GiveUp, SessionInv, TypeOK
<1> QED BY <1>1, <1>2 DEF SessionInv, TypeOK, Unstarted, Handle, Newest, Closed, Queue, Shown,
                          Alive, Driving, handleVars, stopVars, runVars, feedVars

\* The new run takes the handle from whoever had it.
LEMMA InstallKeeps ==
  ASSUME SessionInv, NEW c \in Command, Install(c)
  PROVE  SessionInv'
<1> USE DEF SessionInv
<1>1. TypeOK'
  BY DEF TypeOK, Run, Slot, Install, stopVars
<1>2. Unstarted'
  <2> SUFFICES ASSUME NEW r \in Run, r > gen'
               PROVE  /\ pc'[r] = "none" /\ fwd'[r] = "none" /\ events'[r] = <<>>
                      /\ r \notin aborted'
    BY DEF Unstarted
  <2>1. r > gen /\ r # gen + 1
    BY DEF Install, TypeOK, Run, Slot
  <2>2. pc'[r] = pc[r] /\ fwd'[r] = fwd[r] /\ events' = events /\ aborted' = aborted
    BY <2>1 DEF Install, TypeOK, stopVars
  <2> QED BY <2>1, <2>2 DEF Unstarted
<1>3. Handle'
  BY DEF Handle, TypeOK, Run, Slot, Install
<1>4. Newest'
  BY DEF Newest, Alive, Driving, TypeOK, Install, stopVars
<1>5. Closed'
  BY DEF Closed, TypeOK, Install
<1>6. Queue'
  <2>1. gen + 1 \in Run /\ gen + 1 > gen
    BY DEF Install, TypeOK, Run, Slot
  <2>2. pc[gen + 1] = "none" /\ events[gen + 1] = <<>>
    BY <2>1 DEF Unstarted
  <2>3. pc' = [pc EXCEPT ![gen + 1] = "new"] /\ events' = events /\ sawIdle' = sawIdle
    BY DEF Install
  <2> QED BY <2>1, <2>2, <2>3 DEF Queue, TypeOK
<1>7. Shown'
  BY DEF Shown, TypeOK, Install
<1> QED BY <1>1, <1>2, <1>3, <1>4, <1>5, <1>6, <1>7

\* Storing the task concerns its slot alone.
LEMMA StoreTaskKeeps ==
  ASSUME SessionInv, NEW c \in Command, StoreTask(c)
  PROVE  SessionInv'
<1> USE DEF SessionInv
<1>1. TypeOK'
  BY DEF TypeOK, Run, Slot, StoreTask, stopVars, runVars, feedVars
<1>2. Unstarted'
  BY DEF Unstarted, TypeOK, StoreTask, stopVars, runVars, feedVars
<1>3. Handle'
  BY DEF Handle, TypeOK, Run, Slot, StoreTask
<1>4. Newest'
  BY DEF Newest, Alive, Driving, TypeOK, StoreTask, stopVars, runVars, feedVars
<1>5. Closed'
  BY DEF Closed, TypeOK, StoreTask, runVars, feedVars
<1>6. Queue'
  BY DEF Queue, Channel, TypeOK, StoreTask, runVars, feedVars
<1>7. Shown'
  BY DEF Shown, TypeOK, StoreTask, feedVars
<1> QED BY <1>1, <1>2, <1>3, <1>4, <1>5, <1>6, <1>7

\* A stop cancels the run whose token it takes.
LEMMA StopKeeps ==
  ASSUME SessionInv, Stop
  PROVE  SessionInv'
<1> USE DEF SessionInv
<1>1. TypeOK'
  BY DEF TypeOK, Run, Slot, Stop, commandVars, runVars, feedVars
<1>2. Unstarted'
  <2>1. gen' = gen /\ pc' = pc /\ fwd' = fwd /\ events' = events
    BY DEF Stop, runVars, feedVars
  <2>2. ASSUME NEW r \in Run, r > gen PROVE r \notin aborted'
    <3>1. r # task
      BY <2>2 DEF Handle, TypeOK, Run, Slot
    <3> QED BY <2>2, <3>1 DEF Stop, Unstarted
  <2> QED BY <2>1, <2>2 DEF Unstarted
<1>3. Handle'
  BY DEF Handle, TypeOK, Run, Slot, Stop, commandVars
<1>4. Newest'
  BY DEF Newest, Alive, Driving, TypeOK, Stop, runVars, feedVars
<1>5. Closed'
  BY DEF Closed, TypeOK, Stop, runVars, feedVars
<1>6. Queue'
  BY DEF Queue, Channel, TypeOK, Stop, runVars, feedVars
<1>7. Shown'
  BY DEF Shown, TypeOK, Stop, feedVars
<1> QED BY <1>1, <1>2, <1>3, <1>4, <1>5, <1>6, <1>7

\* A task on its way to its last events: no channel and no slot is touched.
LEMMA TaskMoveKeeps ==
  ASSUME SessionInv, NEW r \in Run,
         Bail(r) \/ Spawned(r) \/ StepsEnd(r) \/ Abort(r) \/ Save(r)
  PROVE  SessionInv'
<1> USE DEF SessionInv
<1>1. UNCHANGED <<handleVars, commandVars, stopVars, events, feedVars>>
  BY DEF Bail, Spawned, StepsEnd, Abort, Save
<1>2. /\ Alive(r) /\ \A s \in Run : s # r => pc'[s] = pc[s]
      /\ pc'[r] \in {"running", "saving", "sending", "gone"}
  BY DEF Bail, Spawned, StepsEnd, Abort, Save, Become, Alive, Driving, TypeOK
<1>3. /\ pc' \in [Run -> {"none", "new", "spawning", "running", "saving", "sending", "gone"}]
      /\ record' \in [Run -> {"none", "open", "final"}]
  BY DEF Bail, Spawned, StepsEnd, Abort, Save, Become, TypeOK
<1>4. TypeOK'
  BY <1>1, <1>3 DEF TypeOK, handleVars, commandVars, stopVars, feedVars
<1>5. pc[r] \notin {"none", "gone"}
  BY <1>2 DEF Alive, Driving
<1>6. Unstarted'
  BY <1>1, <1>2, <1>5 DEF Unstarted, handleVars, stopVars, feedVars
<1>7. Handle' /\ Shown'
  BY <1>1 DEF Handle, Shown, handleVars, commandVars, feedVars
<1>8. Newest'
  BY <1>1, <1>2 DEF Newest, Alive, Driving, handleVars, stopVars, feedVars
<1>9. Closed'
  BY <1>1, <1>2, <1>5 DEF Closed, feedVars
<1>10. Queue'
  BY <1>1, <1>2, <1>5 DEF Queue, Channel, feedVars
<1> QED BY <1>4, <1>6, <1>7, <1>8, <1>9, <1>10

\* The first event of a run.
LEMMA BeginKeeps ==
  ASSUME SessionInv, NEW r \in Run, Begin(r)
  PROVE  SessionInv'
<1> USE DEF SessionInv
<1>1. Unstarted'
  BY DEF Unstarted, TypeOK, Begin, Become, handleVars, stopVars, feedVars
<1>2. Handle'
  BY DEF Handle, TypeOK, Run, Slot, Begin, Become, handleVars, commandVars
<1>3. Newest'
  BY DEF Newest, Alive, Driving, TypeOK, Begin, Become, handleVars, stopVars, feedVars
<1>4. Closed'
  BY DEF Closed, TypeOK, Begin, Become, feedVars
<1>5. Queue'
  BY ChannelMoves DEF Queue, Channel, TypeOK, Begin, Become, feedVars
<1>6. Shown'
  BY DEF Shown, TypeOK, Begin, Become, feedVars
<1>7. TypeOK'
  <2>1. events' \in [Run -> Seq({"running", "idle"})] /\ \A s \in Run : Len(events'[s]) <= 2
    <3>1. events' = [s \in Run |-> events'[s]] /\ \A s \in Run : events'[s] \in Channel
      BY <1>5 DEF Queue, Begin, TypeOK
    <3> QED BY <3>1, ChannelMoves, Zenon
  <2>2. pc' \in [Run -> {"none", "new", "spawning", "running", "saving", "sending", "gone"}]
    BY DEF Begin, Become, TypeOK
  <2> QED BY <2>1, <2>2 DEF TypeOK, Begin, handleVars, commandVars, stopVars, feedVars
<1> QED BY <1>1, <1>2, <1>3, <1>4, <1>5, <1>6, <1>7

\* The last event of a run.
LEMMA SendIdleKeeps ==
  ASSUME SessionInv, NEW r \in Run, SendIdle(r)
  PROVE  SessionInv'
<1> USE DEF SessionInv
<1>1. Unstarted'
  BY DEF Unstarted, TypeOK, SendIdle, Become, handleVars, stopVars, feedVars
<1>2. Handle'
  BY DEF Handle, TypeOK, Run, Slot, SendIdle, Become, handleVars, commandVars
<1>3. Newest'
  BY DEF Newest, Alive, Driving, TypeOK, SendIdle, Become, handleVars, stopVars, feedVars
<1>4. Closed'
  BY DEF Closed, TypeOK, SendIdle, Become, feedVars
<1>5. Queue'
  BY ChannelMoves DEF Queue, Channel, TypeOK, SendIdle, Become, feedVars
<1>6. Shown'
  BY DEF Shown, TypeOK, SendIdle, Become, feedVars
<1>7. TypeOK'
  <2>1. events' \in [Run -> Seq({"running", "idle"})] /\ \A s \in Run : Len(events'[s]) <= 2
    <3>1. events' = [s \in Run |-> events'[s]] /\ \A s \in Run : events'[s] \in Channel
      BY <1>5 DEF Queue, SendIdle, TypeOK
    <3> QED BY <3>1, ChannelMoves, Zenon
  <2>2. pc' \in [Run -> {"none", "new", "spawning", "running", "saving", "sending", "gone"}]
    BY DEF SendIdle, Become, TypeOK
  <2> QED BY <2>1, <2>2 DEF TypeOK, SendIdle, handleVars, commandVars, stopVars, feedVars
<1> QED BY <1>1, <1>2, <1>3, <1>4, <1>5, <1>6, <1>7

\* The forwarder passes an event on.
LEMMA ForwardKeeps ==
  ASSUME SessionInv, NEW r \in Run, Forward(r)
  PROVE  SessionInv'
<1> USE DEF SessionInv
<1>1. TypeOK'
  BY DEF TypeOK, Run, Slot, Forward, handleVars, commandVars, stopVars, runVars
<1>2. Unstarted'
  BY DEF Unstarted, TypeOK, Forward, handleVars, stopVars, runVars
<1>3. Handle'
  BY DEF Handle, TypeOK, Run, Slot, Forward, handleVars, commandVars
<1>4. Newest'
  BY DEF Newest, Alive, Driving, TypeOK, Forward, handleVars, stopVars, runVars
<1>5. Closed'
  BY DEF Closed, TypeOK, Forward, runVars
<1>6. Queue'
  BY ChannelMoves DEF Queue, Channel, TypeOK, Forward, runVars
<1>7. Shown'
  BY DEF Shown, TypeOK, Queue, Channel, Forward
<1> QED BY <1>1, <1>2, <1>3, <1>4, <1>5, <1>6, <1>7

\* The forwarder finds the channel closed.
LEMMA DrainedKeeps ==
  ASSUME SessionInv, NEW r \in Run, Drained(r)
  PROVE  SessionInv'
<1> USE DEF SessionInv
<1>1. TypeOK'
  BY DEF TypeOK, Run, Slot, Drained, handleVars, commandVars, stopVars, runVars
<1>2. Unstarted'
  BY DEF Unstarted, TypeOK, Drained, handleVars, stopVars, runVars
<1>3. Handle'
  BY DEF Handle, TypeOK, Run, Slot, Drained, handleVars, commandVars
<1>4. Newest'
  BY DEF Newest, Alive, Driving, TypeOK, Drained, handleVars, stopVars, runVars
<1>5. Closed'
  BY DEF Closed, TypeOK, Drained, runVars
<1>6. Queue'
  BY DEF Queue, Channel, TypeOK, Drained, runVars
<1>7. Shown'
  BY DEF Shown, TypeOK, Drained
<1> QED BY <1>1, <1>2, <1>3, <1>4, <1>5, <1>6, <1>7

\* The handle is cleared of its own run only.
LEMMA CleanUpKeeps ==
  ASSUME SessionInv, NEW r \in Run, CleanUp(r)
  PROVE  SessionInv'
<1> USE DEF SessionInv
<1>1. TypeOK'
  <2>1. CASE gen = r
    BY <2>1 DEF TypeOK, Run, Slot, CleanUp, commandVars, stopVars, runVars
  <2>2. CASE gen # r
    BY <2>2 DEF TypeOK, Run, Slot, CleanUp, commandVars, stopVars, runVars
  <2> QED BY <2>1, <2>2
<1>2. Unstarted'
  BY DEF Unstarted, TypeOK, CleanUp, stopVars, runVars
<1>3. Handle'
  BY DEF Handle, TypeOK, Run, Slot, CleanUp, commandVars
<1>4. Newest'
  <2>1. CASE gen = r
    BY <2>1 DEF Newest, Alive, Driving, TypeOK, Closed, CleanUp, stopVars, runVars
  <2>2. CASE gen # r
    BY <2>2 DEF Newest, Alive, Driving, TypeOK, Closed, CleanUp, stopVars, runVars
  <2> QED BY <2>1, <2>2
<1>5. Closed'
  BY DEF Closed, TypeOK, CleanUp, runVars
<1>6. Queue'
  BY DEF Queue, Channel, TypeOK, CleanUp, runVars
<1>7. Shown'
  BY DEF Shown, TypeOK, CleanUp
<1> QED BY <1>1, <1>2, <1>3, <1>4, <1>5, <1>6, <1>7

\* Every step of every process keeps the invariant.
LEMMA SessionStep == SessionInv /\ [Next]_vars => SessionInv'
<1> SUFFICES ASSUME SessionInv, [Next]_vars PROVE SessionInv'
  OBVIOUS
<1>1. CASE Stop
  BY <1>1, StopKeeps
<1>2. ASSUME NEW c \in Command, Commands(c) PROVE SessionInv'
  BY <1>2, LookKeeps, InstallKeeps, StoreTaskKeeps DEF Commands
<1>3. ASSUME NEW r \in Run, Ends(r) PROVE SessionInv'
  BY <1>3, BeginKeeps, TaskMoveKeeps, SendIdleKeeps DEF Ends
<1>4. ASSUME NEW r \in Run, Spawned(r) \/ StepsEnd(r) PROVE SessionInv'
  BY <1>4, TaskMoveKeeps
<1>5. ASSUME NEW r \in Run, Forwards(r) PROVE SessionInv'
  BY <1>5, ForwardKeeps, DrainedKeeps, CleanUpKeeps DEF Forwards
<1>6. CASE UNCHANGED vars
  BY <1>6 DEF SessionInv, TypeOK, Unstarted, Handle, Newest, Closed, Queue, Shown, Alive, Driving,
              vars, handleVars, commandVars, stopVars, runVars, feedVars
<1> QED BY <1>1, <1>2, <1>3, <1>4, <1>5, <1>6 DEF Next

LEMMA SessionInvariant == Spec => []SessionInv
BY SessionInit, SessionStep, PTL DEF Spec

\* Every variable keeps its type; no channel ever holds more than two states,
\* far from the 64 it has room for.
THEOREM ExecutorTyping == Spec => []TypeOK
<1>1. SessionInv => TypeOK
  BY DEF SessionInv
<1> QED BY <1>1, SessionInvariant, PTL

\* The newest run can be stopped for as long as it runs.
THEOREM StoppableHolds == Spec => []Stoppable
<1>1. SessionInv => Stoppable
  BY DEF SessionInv, Newest, Stoppable
<1> QED BY <1>1, SessionInvariant, PTL

\* The command channel never belongs to a run that has been cleaned up.
THEOREM NotLockedOutHolds == Spec => []NotLockedOut
<1>1. SessionInv => NotLockedOut
  BY DEF SessionInv, Handle, Newest, NotLockedOut, TypeOK, Run, Slot
<1> QED BY <1>1, SessionInvariant, PTL

\* When all forwarders are through, the user interface shows idle.
THEOREM UiSettlesHolds == Spec => []UiSettles
<1>1. SessionInv => UiSettles
  BY DEF SessionInv, Shown, UiSettles, TypeOK
<1> QED BY <1>1, SessionInvariant, PTL

-----------------------------------------------------------------------------
(* Commands that come one at a time. *)

LEMMA SerialInit == Init => SerialInv
<1> SUFFICES ASSUME Init PROVE SerialInv
  OBVIOUS
<1> QED BY DEF Init, SerialInv, Turns, Lone, Dropped, Written, Accounted, Driving

\* A command changes nothing for the runs there are but who has the handle,
\* and it takes it when nobody wanted has it.
LEMMA CommandsKeep ==
  ASSUME SessionInv, SerialInv, OneAtATime, NEW c \in Command, Commands(c)
  PROVE  SerialInv'
<1> USE DEF SerialInv, SessionInv
<1>1. CASE Check(c) \/ GiveUp(c) \/ StoreTask(c)
  <2>1. /\ token' = token /\ cancelled' = cancelled /\ aborted' = aborted
        /\ pc' = pc /\ record' = record
    BY <1>1 DEF Check, GiveUp, StoreTask, handleVars, stopVars, runVars
  <2>2. Turns'
    BY <1>1, <2>1 DEF Check, GiveUp, StoreTask, Turns, Handle, TypeOK
  <2> QED BY <2>1, <2>2 DEF Lone, Dropped, Written, Accounted, Driving
<1>2. CASE Install(c)
  <2>1. /\ gen + 1 \in Run /\ gen + 1 > gen /\ token = 0
    BY <1>2 DEF Install, Turns, TypeOK, Run, Slot
  <2>2. /\ token' = gen + 1 /\ cancelled' = cancelled /\ aborted' = aborted
        /\ pc' = [pc EXCEPT ![gen + 1] = "new"] /\ record' = [record EXCEPT ![gen + 1] = "open"]
    BY <1>2 DEF Install, stopVars
  <2>3. Turns'
    BY <1>2 DEF Install, Turns, OneAtATime, TypeOK
  <2>4. Lone'
    BY <2>1, <2>2 DEF Lone, Driving, TypeOK, Run
  <2>5. gen + 1 \notin aborted
    BY <2>1 DEF Unstarted
  <2>6. Dropped'
    BY <2>2, <2>5 DEF Dropped, Driving, TypeOK
  <2>7. Written' /\ Accounted'
    BY <2>2 DEF Written, Accounted, TypeOK
  <2> QED BY <2>3, <2>4, <2>6, <2>7
<1> QED BY <1>1, <1>2 DEF Commands

\* What a stop aborts is no wanted run, or the one it cancels.
LEMMA StopKeepsSerial ==
  ASSUME SessionInv, SerialInv, Stop
  PROVE  SerialInv'
<1> USE DEF SerialInv, SessionInv
<1>1. /\ token' = 0 /\ cancelled' = cancelled \cup ({token} \ {0})
      /\ aborted' = aborted \cup ({task} \ {0}) /\ pc' = pc /\ record' = record /\ at' = at
  BY DEF Stop, commandVars, runVars
<1>2. ASSUME NEW r \in Run, Driving(r) PROVE r \in cancelled'
  BY <1>1, <1>2 DEF Lone, Run
<1>3. Turns' /\ Lone'
  BY <1>1, <1>2 DEF Turns, Lone, Driving
<1>4. aborted' \subseteq Run
  BY <1>1 DEF TypeOK, Run, Slot
<1>5. Dropped'
  BY <1>1, <1>2, <1>4 DEF Dropped, Driving
<1>6. Written' /\ Accounted'
  BY <1>1 DEF Written, Accounted
<1> QED BY <1>3, <1>5, <1>6

\* The task of a run moves on, and is aborted only when it is cancelled.
LEMMA TaskKeeps ==
  ASSUME SessionInv, SerialInv, NEW r \in Run, Ends(r) \/ Spawned(r) \/ StepsEnd(r)
  PROVE  SerialInv'
<1> USE DEF SerialInv, SessionInv
<1>1. token' = token /\ at' = at /\ cancelled' = cancelled /\ aborted' = aborted
  BY DEF Ends, Begin, Bail, Abort, Save, SendIdle, Spawned, StepsEnd,
         handleVars, commandVars, stopVars
<1>2. /\ \A s \in Run : s # r => pc'[s] = pc[s] /\ record'[s] = record[s]
      /\ pc'[r] \in {"new", "spawning", "running"} => Driving(r)
  BY DEF Ends, Begin, Bail, Abort, Save, SendIdle, Spawned, StepsEnd, Become, Driving, TypeOK
<1>3. Turns' /\ Lone' /\ Dropped'
  BY <1>1, <1>2 DEF Turns, Lone, Dropped, Driving, TypeOK
<1>4. /\ pc'[r] = "sending" => record'[r] = "final"
      /\ pc'[r] = "gone" /\ r \notin cancelled => record'[r] # "open"
  <2>1. CASE Abort(r)
    BY <2>1 DEF Abort, Become, Dropped, TypeOK
  <2>2. CASE Save(r)
    BY <2>2 DEF Save, Become, TypeOK
  <2>3. CASE SendIdle(r)
    BY <2>3 DEF SendIdle, Become, Written, TypeOK
  <2>4. CASE Begin(r) \/ Bail(r) \/ Spawned(r) \/ StepsEnd(r)
    BY <2>4 DEF Begin, Bail, Spawned, StepsEnd, Become, TypeOK
  <2> QED BY <2>1, <2>2, <2>3, <2>4 DEF Ends
<1>5. Written' /\ Accounted'
  BY <1>1, <1>2, <1>4 DEF Written, Accounted
<1> QED BY <1>3, <1>5

\* A forwarder takes the handle from its own run, which is over.
LEMMA ForwarderKeeps ==
  ASSUME SessionInv, SerialInv, NEW r \in Run, Forwards(r)
  PROVE  SerialInv'
<1> USE DEF SerialInv, SessionInv
<1>1. at' = at /\ cancelled' = cancelled /\ aborted' = aborted /\ pc' = pc /\ record' = record
  BY DEF Forwards, Forward, Drained, CleanUp, commandVars, stopVars, runVars
<1>2. token' = token \/ (token' = 0 /\ gen = r /\ fwd[r] = "closing")
  BY DEF Forwards, Forward, Drained, CleanUp, handleVars
<1>3. Turns'
  BY <1>1, <1>2 DEF Turns
<1>4. Lone'
  <2>1. CASE token' = token
    BY <1>1, <2>1 DEF Lone, Driving
  <2>2. CASE token' = 0 /\ gen = r /\ fwd[r] = "closing"
    <3>1. pc[r] = "gone" /\ token \in {0, r}
      BY <2>2 DEF Closed, Handle
    <3>2. ASSUME NEW s \in Run, Driving(s), s \notin cancelled PROVE FALSE
      BY <3>1, <3>2 DEF Lone, Driving, Run
    <3> QED BY <1>1, <3>2 DEF Lone, Driving
  <2> QED BY <1>2, <2>1, <2>2
<1>5. Dropped' /\ Written' /\ Accounted'
  BY <1>1 DEF Dropped, Written, Accounted, Driving
<1> QED BY <1>3, <1>4, <1>5

LEMMA SerialInvariant == ASSUME OneAtATime PROVE Spec => []SerialInv
<1>1. SessionInv /\ SerialInv /\ [Next]_vars => SerialInv'
  <2> SUFFICES ASSUME SessionInv, SerialInv, [Next]_vars PROVE SerialInv'
    OBVIOUS
  <2>1. CASE UNCHANGED vars
    BY <2>1 DEF SerialInv, Turns, Lone, Dropped, Written, Accounted, Driving,
                vars, handleVars, commandVars, stopVars, runVars, feedVars
  <2>2. CASE Next
    BY <2>2, OneAtATime, CommandsKeep, StopKeepsSerial, TaskKeeps, ForwarderKeeps DEF Next
  <2> QED BY <2>1, <2>2
<1> QED BY <1>1, SerialInit, SessionInvariant, PTL DEF Spec

\* Of the runs nobody stopped at most one drives the desktop.
THEOREM OneRunWantedHolds == ASSUME OneAtATime PROVE Spec => []OneRunWanted
<1>1. SerialInv => OneRunWanted
  BY DEF SerialInv, Lone, OneRunWanted
<1> QED BY <1>1, SerialInvariant, PTL

\* A run nobody stopped has its final status in its record before it is gone.
THEOREM AccountedHolds == ASSUME OneAtATime PROVE Spec => []Accounted
<1>1. SerialInv => Accounted
  BY DEF SerialInv
<1> QED BY <1>1, SerialInvariant, PTL
=============================================================================
