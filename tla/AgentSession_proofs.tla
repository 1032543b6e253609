------------------------- MODULE AgentSession_proofs -------------------------
(***************************************************************************)
(* Theorems about AgentSession for any set of runs: its types, however the *)
(* commands overlap; and, for a run_agent that no other command overtakes, *)
(* that one run drives the desktop, that stop_agent finds it, and that it  *)
(* ends with what the operator said.                                       *)
(***************************************************************************)
EXTENDS AgentSession, FiniteSetTheorems, TLAPS

-----------------------------------------------------------------------------
(* The invariant, in three parts that build on each other. *)

\* The run the handle belongs to: from its check to its cleanup.
Active(r) == Starting(r) \/ (launch[r] = "stored" /\ ~cleaned[r])

OneActive == \A r, s \in Run : Active(r) /\ Active(s) => r = s

\* A run whose task is not spawned has left no trace.
Unspawned ==
  \A r \in Run : launch[r] \in {"new", "checked", "installed"} =>
    /\ task[r] = "none" /\ fwd[r] = "off" /\ sender[r] = "none" /\ ruling[r] = "none"
    /\ ~cancelled[r] /\ ~confirmed[r] /\ fate[r] = "none"

\* The cleanup comes last.
CleanedLast ==
  \A r \in Run : cleaned[r] => launch[r] = "stored" /\ task[r] = "done" /\ fwd[r] = "done"

\* What the handle holds while a run is active, and that it is empty otherwise.
Handle ==
  /\ \A r \in token \cup taskHandle : Active(r)
  /\ \A r \in Run :
       /\ Starting(r) => taskHandle = {}
       /\ launch[r] = "stored" /\ ~cleaned[r] => taskHandle = {r}
       /\ launch[r] = "checked" => token = {}
       /\ launch[r] \in {"installed", "spawned"} => token = {r}
       /\ launch[r] = "stored" /\ ~cleaned[r] /\ ~cancelled[r] => token = {r}
       /\ Starting(r) => ~cancelled[r]

HandleInv == OneActive /\ Unspawned /\ CleanedLast /\ Handle

\* The forwarder listens until the run is stopped or over.
Forwarder ==
  \A r \in Run :
    /\ launch[r] \in {"spawned", "stored"} => fwd[r] # "off"
    /\ fwd[r] = "closing" => cancelled[r]
    /\ fwd[r] = "done" => cancelled[r] \/ task[r] \in {"resolving", "ending", "done"}

\* Who may hold a sender, and that a request is dropped after a stop only.
Requests ==
  \A r \in Run :
    /\ sender[r] = "queued" => fwd[r] \in {"listen", "closing"}
    /\ sender[r] = "forwarder" => fwd[r] = "listen"
    /\ sender[r] # "none" /\ ~cancelled[r] => task[r] = "waiting"
    /\ sender[r] = "closed" => cancelled[r]
    /\ sender[r] = "handle" => ~cleaned[r]

ApprovalInv == Forwarder /\ Requests /\ AnsweredUnlessStopped

\* A ruling is pending only while its task waits for it, and a Confirm that
\* reached the task is what the task ends with.
Rulings ==
  \A r \in Run :
    /\ fate[r] # "none" <=> task[r] \in {"ending", "done"}
    /\ ruling[r] # "none" => task[r] \in {"resolving", "ending", "done"}
    /\ ruling[r] = "handle" => task[r] = "resolving"
    /\ ruling[r] = "closed" => task[r] # "resolving"
    /\ confirmed[r] => ruling[r] = "confirm" /\ fate[r] \in {"none", "confirmed"}

RulingInv == Rulings /\ DisagreementDecided

-----------------------------------------------------------------------------
(* Types, whatever commands overlap. *)

\* A slot that holds nothing or one run.
LEMMA OneSlot ==
  ASSUME NEW r \in Run
  PROVE  /\ {} \in SUBSET Run /\ Cardinality({}) <= 1
         /\ {r} \in SUBSET Run /\ Cardinality({r}) <= 1
<1>1. Cardinality({}) = 0 BY FS_EmptySet
<1>2. Cardinality({r}) = 1 BY FS_Singleton
<1> QED BY <1>1, <1>2

\* What emptying a slot leaves.
LEMMA Vacated ==
  ASSUME NEW S, NEW slot \in [Run -> S], NEW l \in S
  PROVE  /\ Vacate(slot, l) \in [Run -> S]
         /\ \A r \in Run : Vacate(slot, l)[r] = IF slot[r] = "handle" THEN l ELSE slot[r]
BY DEF Vacate

\* The handle is the business of run_agent, stop_agent and the cleanup.
LEMMA StartTypes ==
  ASSUME TypeOK, NEW r \in Run, Starts(r)
  PROVE  TypeOK'
<1>1. CASE EnsureIdle(r) BY <1>1 DEF EnsureIdle, TypeOK, handleVars, askVars, ruleVars
<1>2. CASE Install(r) BY <1>2, OneSlot DEF Install, TypeOK, askVars, ruleVars
<1>3. CASE Spawn(r) BY <1>3 DEF Spawn, TypeOK, handleVars, ruleVars
<1>4. CASE StoreTask(r) BY <1>4, OneSlot DEF StoreTask, TypeOK, askVars, ruleVars
<1> QED BY <1>1, <1>2, <1>3, <1>4 DEF Starts

LEMMA OperatorTypes ==
  ASSUME TypeOK, Stop \/ \E r \in Run : Operator(r) \/ SendApproval(r)
  PROVE  TypeOK'
<1>1. CASE Stop
  <2>1. /\ Vacate(sender, "answered") \in [Run -> {"none", "queued", "forwarder", "handle",
                                                   "operator", "answered", "closed"}]
        /\ Vacate(ruling, "cancel") \in [Run -> {"none", "handle", "confirm", "cancel", "closed"}]
    BY Vacated DEF TypeOK
  <2> QED BY <1>1, <2>1, FS_EmptySet DEF Stop, TypeOK, startVars
<1>2. ASSUME NEW r \in Run, TakeApproval(r) \/ SendApproval(r) PROVE TypeOK'
  BY <1>2 DEF TakeApproval, SendApproval, TypeOK, handleVars, startVars, ruleVars
<1>3. ASSUME NEW r \in Run, NEW answer \in {"confirm", "cancel"}, Resolve(r, answer)
      PROVE  TypeOK'
  BY <1>3 DEF Resolve, TypeOK, handleVars, startVars, askVars
<1> QED BY <1>1, <1>2, <1>3 DEF Operator

LEMMA TaskTypes ==
  ASSUME TypeOK, NEW r \in Run, Task(r) \/ SeesCancel(r)
  PROVE  TypeOK'
<1> USE DEF EndAs, TypeOK, handleVars, startVars, askVars, ruleVars
<1>1. CASE Boot(r) \/ SeesCancel(r) BY <1>1 DEF Boot, SeesCancel, Ends
<1>2. CASE Ask(r) BY <1>2 DEF Ask
<1>3. CASE HearAnswer(r) BY <1>3 DEF HearAnswer
<1>4. CASE Finish(r) BY <1>4 DEF Finish, Ends
<1>5. CASE Disagree(r) \/ RulingCancelled(r)
  <2>1. Vacate(ruling, "closed") \in [Run -> {"none", "handle", "confirm", "cancel", "closed"}]
    BY Vacated
  <2> QED BY <1>5, <2>1 DEF Disagree, RulingCancelled
<1>6. CASE HearRuling(r) BY <1>6 DEF HearRuling
<1>7. CASE Emit(r) \/ Panic(r) BY <1>7 DEF Emit, Panic
<1> QED BY <1>1, <1>2, <1>3, <1>4, <1>5, <1>6, <1>7 DEF Task

LEMMA ForwardTypes ==
  ASSUME TypeOK, NEW r \in Run, Forwards(r) \/ Cleanup(r)
  PROVE  TypeOK'
<1>1. /\ Vacate(sender, "closed") \in [Run -> {"none", "queued", "forwarder", "handle",
                                               "operator", "answered", "closed"}]
      /\ Vacate(ruling, "closed") \in [Run -> {"none", "handle", "confirm", "cancel", "closed"}]
  BY Vacated DEF TypeOK
<1>2. CASE Cleanup(r) BY <1>1, <1>2, FS_EmptySet DEF Cleanup, Clear, TypeOK
<1> USE DEF TypeOK, handleVars, startVars, ruleVars
<1>3. CASE FwdReceive(r) \/ FwdEnd(r) BY <1>3 DEF FwdReceive, FwdEnd
<1>4. CASE FwdInstall(r) BY <1>1, <1>4 DEF FwdInstall
<1>5. CASE FwdCancelled(r) \/ FwdDrop(r) BY <1>5 DEF FwdCancelled, FwdDrop
<1> QED BY <1>2, <1>3, <1>4, <1>5 DEF Forwards

\* Every variable keeps its type; each slot of the handle has one run at most.
THEOREM SessionTyping == Spec => []TypeOK
<1>1. Init => TypeOK
  BY FS_EmptySet DEF Init, TypeOK
<1>2. TypeOK /\ [Next]_vars => TypeOK'
  <2> SUFFICES ASSUME TypeOK, [Next]_vars PROVE TypeOK' OBVIOUS
  <2>1. CASE UNCHANGED vars
    BY <2>1 DEF vars, handleVars, startVars, askVars, ruleVars, TypeOK
  <2> QED BY <2>1, StartTypes, OperatorTypes, TaskTypes, ForwardTypes DEF Next
<1> QED BY <1>1, <1>2, PTL DEF Spec

-----------------------------------------------------------------------------
(* The handle, while no command overtakes run_agent. *)

\* Whatever has left a trace has been spawned, and what is alive is active.
LEMMA AliveIsActive ==
  ASSUME TypeOK, HandleInv, NEW r \in Run
  PROVE  /\ Alive(r) => Active(r) /\ launch[r] \in {"spawned", "stored"} /\ ~cleaned[r]
         /\ task[r] # "none" \/ fwd[r] # "off" \/ sender[r] # "none" \/ ruling[r] # "none"
            => launch[r] \in {"spawned", "stored"}
BY DEF TypeOK, HandleInv, Unspawned, CleanedLast, Alive, Active, Starting

\* run_agent finds the handle free, and fills it one slot after the other.
LEMMA StartHandle ==
  ASSUME SerialStart, TypeOK, HandleInv, NEW r \in Run, Starts(r)
  PROVE  HandleInv'
<1> USE DEF TypeOK, HandleInv, OneActive, Unspawned, CleanedLast, Handle, Active, Starting,
            handleVars, askVars, ruleVars
<1>1. CASE EnsureIdle(r)
  <2>1. \A s \in Run : ~Active(s)
    BY <1>1 DEF EnsureIdle, Admitted
  <2> QED BY <1>1, <2>1 DEF EnsureIdle
<1>2. CASE Install(r) BY <1>2 DEF Install
<1>3. CASE Spawn(r) BY <1>3 DEF Spawn
<1>4. CASE StoreTask(r) BY <1>4 DEF StoreTask
<1> QED BY <1>1, <1>2, <1>3, <1>4 DEF Starts

\* A stop takes the token of the run it cancels; the cleanup of a run empties
\* the handle only of that run.
LEMMA ReleaseHandle ==
  ASSUME SerialStart, TypeOK, HandleInv, Stop \/ \E r \in Run : Cleanup(r)
  PROVE  HandleInv'
<1> USE DEF TypeOK, HandleInv, OneActive, Unspawned, CleanedLast, Handle, Active, Starting,
            Vacate
<1>1. CASE Stop
  <2>1. \A r \in Run : ~Starting(r) /\ launch'[r] = launch[r] /\ cleaned'[r] = cleaned[r]
    BY <1>1 DEF Stop, Admitted, startVars
  <2>2. OneActive' /\ CleanedLast'
    BY <1>1, <2>1 DEF Stop, startVars
  <2>3. Unspawned'
    BY <1>1, <2>1 DEF Stop, startVars
  <2>4. Handle'
    <3>1. token' = {} /\ taskHandle' = taskHandle
      BY <1>1 DEF Stop
    <3>2. \A r \in Run : cancelled[r] \/ r \in token => cancelled'[r]
      <4> HIDE DEF TypeOK, HandleInv
      <4> QED BY <1>1, Zenon DEF Stop
    <3>3. \A r \in Run : launch[r] = "stored" /\ ~cleaned[r] => cancelled'[r]
      BY <3>2
    <3> QED BY <2>1, <3>1, <3>3
  <2> QED BY <2>2, <2>3, <2>4
<1>2. ASSUME NEW r \in Run, Cleanup(r) PROVE HandleInv'
  BY <1>2 DEF Cleanup, Clear
<1> QED BY <1>1, <1>2

\* Every other step works on a spawned run and leaves the handle alone.
LEMMA ElseHandle ==
  ASSUME TypeOK, HandleInv, NEW r \in Run,
         \/ Operator(r) \/ SendApproval(r) \/ Task(r) \/ SeesCancel(r) \/ Forwards(r)
  PROVE  HandleInv'
<1>1. /\ UNCHANGED <<handleVars, startVars, cancelled>>
      /\ launch[r] \in {"spawned", "stored"}
      /\ \A s \in Run \ {r} : launch[s] \in {"new", "checked", "installed"} =>
           /\ task'[s] = task[s] /\ fwd'[s] = fwd[s] /\ fate'[s] = fate[s]
           /\ sender'[s] = sender[s] /\ ruling'[s] = ruling[s] /\ confirmed'[s] = confirmed[s]
      /\ cleaned[r] => task'[r] = "done" /\ fwd'[r] = "done"
      /\ \A s \in Run \ {r} : task'[s] = task[s] /\ fwd'[s] = fwd[s]
  <2> USE DEF TypeOK, HandleInv, Unspawned, CleanedLast, EndAs,
              handleVars, startVars, askVars, ruleVars
  <2>1. CASE Operator(r) \/ SendApproval(r)
    BY <2>1 DEF Operator, TakeApproval, Resolve, SendApproval
  <2>2. CASE Boot(r) \/ SeesCancel(r) \/ Ask(r) \/ HearAnswer(r)
    BY <2>2 DEF Boot, SeesCancel, Ask, HearAnswer
  <2>3. CASE Finish(r) \/ Emit(r) \/ Panic(r) \/ HearRuling(r)
    BY <2>3 DEF Finish, Emit, Panic, HearRuling
  <2>4. CASE Disagree(r) \/ RulingCancelled(r)
    <3>1. /\ task[r] \in {"turn", "resolving"} /\ UNCHANGED <<fwd, sender, confirmed>>
          /\ \A s \in Run \ {r} : task'[s] = task[s] /\ fate'[s] = fate[s]
          /\ \A s \in Run \ {r} : ruling'[s] = Vacate(ruling, "closed")[s]
          /\ UNCHANGED <<handleVars, startVars, cancelled>>
      <4>1. Vacate(ruling, "closed") \in [Run -> {"none", "handle", "confirm", "cancel", "closed"}]
        BY Vacated
      <4> QED BY <2>4, <4>1 DEF Disagree, RulingCancelled
    <3>2. \A s \in Run : ruling[s] = "none" => Vacate(ruling, "closed")[s] = "none"
      BY DEF Vacate
    <3> QED BY <3>1, <3>2
  <2>5. CASE FwdReceive(r) \/ FwdCancelled(r) \/ FwdDrop(r) \/ FwdEnd(r)
    BY <2>5 DEF FwdReceive, FwdCancelled, FwdDrop, FwdEnd
  <2>6. CASE FwdInstall(r)
    BY <2>6 DEF FwdInstall, Vacate
  <2> QED BY <2>1, <2>2, <2>3, <2>4, <2>5, <2>6 DEF Task, Forwards
<1> QED BY <1>1 DEF TypeOK, HandleInv, OneActive, Unspawned, CleanedLast, Handle, Active,
                    Starting, handleVars, startVars

LEMMA HandleStep ==
  ASSUME SerialStart, TypeOK, HandleInv, [Next]_vars
  PROVE  HandleInv'
<1>1. CASE UNCHANGED vars
  BY <1>1 DEF vars, handleVars, startVars, askVars, ruleVars, HandleInv, OneActive, Unspawned,
              CleanedLast, Handle, Active, Starting
<1> QED BY <1>1, StartHandle, ReleaseHandle, ElseHandle DEF Next

LEMMA HandleStart == Init => HandleInv
BY DEF Init, HandleInv, OneActive, Unspawned, CleanedLast, Handle, Active, Starting

\* The states of a session in which no command overtakes run_agent.
LEMMA HandleInvariant == ASSUME SerialStart PROVE Spec => [](TypeOK /\ HandleInv)
<1>1. TypeOK /\ HandleInv /\ [Next]_vars => HandleInv'
  BY HandleStep
<1> QED BY <1>1, HandleStart, SessionTyping, PTL DEF Spec

\* Two agent runs never drive the desktop at once (run_agent answers "Already
\* running"): while a run is alive the handle is not free, so no other passes
\* the check, and no older cleanup empties it.
THEOREM OneRunAliveHolds == ASSUME SerialStart PROVE Spec => []OneRunAlive
<1>1. TypeOK /\ HandleInv => OneRunAlive
  BY AliveIsActive DEF OneRunAlive, HandleInv, OneActive
<1> QED BY <1>1, HandleInvariant, PTL

\* stop_agent finds the token of every run that is alive and not stopped yet.
THEOREM StoppableHolds == ASSUME SerialStart PROVE Spec => []Stoppable
<1>1. TypeOK /\ HandleInv => Stoppable
  BY AliveIsActive DEF Stoppable, HandleInv, Handle
<1> QED BY <1>1, HandleInvariant, PTL

-----------------------------------------------------------------------------
(* The approval request of a run, on its way to the operator and back. *)

\* A sender in the handle is the one of the active run.
LEMMA PendingIsActive ==
  ASSUME TypeOK, HandleInv, ApprovalInv, NEW r \in Run,
         sender[r] \in {"queued", "forwarder", "handle"}
  PROVE  Active(r)
BY DEF TypeOK, HandleInv, Unspawned, CleanedLast, ApprovalInv, Requests, Active, Starting

\* A stop answers what is pending, and from then on the run is cancelled.
LEMMA StopApproval ==
  ASSUME TypeOK, HandleInv, ApprovalInv, Stop
  PROVE  ApprovalInv'
<1>1. \A r \in Run : cancelled[r] => cancelled'[r]
  BY Zenon DEF Stop
<1>2. /\ UNCHANGED <<task, fwd, fate, cleaned, launch>>
      /\ \A r \in Run : sender'[r] = IF sender[r] = "handle" THEN "answered" ELSE sender[r]
  BY DEF Stop, startVars, Vacate
<1>3. Forwarder' /\ AnsweredUnlessStopped'
  BY <1>1, <1>2 DEF ApprovalInv, Forwarder, AnsweredUnlessStopped
<1>4. Requests'
  BY <1>1, <1>2 DEF ApprovalInv, Requests
<1> QED BY <1>3, <1>4 DEF ApprovalInv

\* The cleanup drops a sender of its own run only, and that one was stopped.
LEMMA CleanupApproval ==
  ASSUME TypeOK, HandleInv, ApprovalInv, NEW r \in Run, Cleanup(r)
  PROVE  ApprovalInv'
<1>1. /\ UNCHANGED <<task, fwd, fate, cancelled, launch>> /\ cleaned' = [cleaned EXCEPT ![r] = TRUE]
      /\ sender' = Vacate(sender, "closed") /\ task[r] = "done" /\ Active(r)
  BY DEF Cleanup, Clear, Active
<1>2. \A s \in Run : sender[s] = "handle" => s = r /\ cancelled[s]
  BY <1>1, PendingIsActive DEF HandleInv, OneActive, ApprovalInv, Requests
<1> QED BY <1>1, <1>2 DEF TypeOK, ApprovalInv, Forwarder, Requests, AnsweredUnlessStopped, Vacate

\* What the run's task and the operator do with the request.
LEMMA TaskApproval ==
  ASSUME TypeOK, HandleInv, ApprovalInv, NEW r \in Run,
         Operator(r) \/ SendApproval(r) \/ Task(r) \/ SeesCancel(r)
  PROVE  ApprovalInv'
<1> USE DEF TypeOK, ApprovalInv, Forwarder, Requests, AnsweredUnlessStopped, EndAs,
            handleVars, startVars, askVars, ruleVars
<1>1. CASE Operator(r) \/ SendApproval(r)
  BY <1>1 DEF Operator, TakeApproval, Resolve, SendApproval
<1>2. CASE Boot(r) \/ SeesCancel(r) BY <1>2 DEF Boot, SeesCancel
<1>3. CASE Ask(r)
  <2>1. ~cleaned[r] BY <1>3 DEF Ask, HandleInv, CleanedLast
  <2>2. fwd[r] # "off" BY <1>3, AliveIsActive DEF Ask
  <2> QED BY <1>3, <2>1, <2>2 DEF Ask
<1>4. CASE HearAnswer(r) BY <1>4 DEF HearAnswer
<1>5. CASE Finish(r) \/ HearRuling(r) BY <1>5 DEF Finish, HearRuling, Ends
<1>6. CASE Disagree(r) \/ RulingCancelled(r) BY <1>6 DEF Disagree, RulingCancelled
<1>7. CASE Emit(r) \/ Panic(r) BY <1>7 DEF Emit, Panic
<1> QED BY <1>1, <1>2, <1>3, <1>4, <1>5, <1>6, <1>7 DEF Task

\* What the forwarder does with it.
LEMMA ForwardApproval ==
  ASSUME TypeOK, HandleInv, ApprovalInv, NEW r \in Run, Forwards(r)
  PROVE  ApprovalInv'
<1>1. CASE FwdInstall(r)
  <2>1. sender[r] = "forwarder" /\ ~cleaned[r]
    BY <1>1 DEF FwdInstall, ApprovalInv, Requests, HandleInv, CleanedLast
  <2>2. \A s \in Run : sender[s] # "handle"
    BY <2>1, PendingIsActive DEF HandleInv, OneActive
  <2>3. \A s \in Run : sender'[s] = IF s = r THEN "handle" ELSE sender[s]
    BY <1>1, <2>2 DEF FwdInstall, Vacate
  <2> QED BY <1>1, <2>1, <2>3 DEF FwdInstall, ApprovalInv, Forwarder, Requests,
                                  AnsweredUnlessStopped, handleVars, startVars
<1> USE DEF TypeOK, ApprovalInv, Forwarder, Requests, AnsweredUnlessStopped, handleVars, startVars
<1>2. CASE FwdReceive(r) BY <1>2 DEF FwdReceive
<1>3. CASE FwdCancelled(r) BY <1>3 DEF FwdCancelled
<1>4. CASE FwdDrop(r) BY <1>4 DEF FwdDrop
<1>5. CASE FwdEnd(r) BY <1>5 DEF FwdEnd
<1> QED BY <1>1, <1>2, <1>3, <1>4, <1>5 DEF Forwards

\* run_agent starts a run without a request.
LEMMA StartApproval ==
  ASSUME TypeOK, HandleInv, ApprovalInv, NEW r \in Run, Starts(r)
  PROVE  ApprovalInv'
<1> USE DEF TypeOK, ApprovalInv, Forwarder, Requests, AnsweredUnlessStopped,
            handleVars, askVars, ruleVars
<1>1. CASE Spawn(r) BY <1>1 DEF Spawn, HandleInv, Unspawned
<1> QED BY <1>1 DEF Starts, EnsureIdle, Install, StoreTask

LEMMA ApprovalStep ==
  ASSUME TypeOK, HandleInv, ApprovalInv, [Next]_vars
  PROVE  ApprovalInv'
<1>1. CASE UNCHANGED vars
  BY <1>1 DEF vars, handleVars, startVars, askVars, ruleVars, ApprovalInv, Forwarder, Requests,
              AnsweredUnlessStopped
<1> QED BY <1>1, StopApproval, CleanupApproval, TaskApproval, ForwardApproval, StartApproval DEF Next

-----------------------------------------------------------------------------
(* The ruling on a completion disagreement. *)

\* Only the run that is resolving has its sender in the handle, so emptying the
\* slot for that run, or for one that is alive, drops nobody else's.
LEMMA OneRuling ==
  ASSUME TypeOK, HandleInv, RulingInv, NEW r \in Run, Alive(r)
  PROVE  \A s \in Run : s # r => Vacate(ruling, "closed")[s] = ruling[s]
<1>1. \A s \in Run : ruling[s] = "handle" => Alive(s)
  BY DEF RulingInv, Rulings, Alive
<1> QED BY <1>1, AliveIsActive DEF HandleInv, OneActive, Vacate

\* What the operator's commands make of the ruling.
LEMMA OperatorRuling ==
  ASSUME TypeOK, RulingInv, Stop \/ \E r \in Run : Operator(r) \/ SendApproval(r)
  PROVE  RulingInv'
<1> USE DEF TypeOK, RulingInv, Rulings, DisagreementDecided, handleVars, startVars, askVars, ruleVars
<1>1. CASE Stop BY <1>1 DEF Stop, Vacate
<1>2. ASSUME NEW r \in Run, NEW answer \in {"confirm", "cancel"}, Resolve(r, answer)
      PROVE  RulingInv'
  BY <1>2 DEF Resolve
<1> QED BY <1>1, <1>2 DEF Operator, TakeApproval, SendApproval

\* What the run's task makes of it: a task that resolves ends with the ruling.
LEMMA TaskRuling ==
  ASSUME TypeOK, HandleInv, RulingInv, NEW r \in Run, Task(r) \/ SeesCancel(r)
  PROVE  RulingInv'
<1> USE DEF TypeOK, RulingInv, Rulings, DisagreementDecided, EndAs,
            handleVars, startVars, askVars, ruleVars
<1>1. CASE Boot(r) \/ SeesCancel(r) BY <1>1 DEF Boot, SeesCancel
<1>2. CASE Ask(r) \/ HearAnswer(r) BY <1>2 DEF Ask, HearAnswer
<1>3. CASE Finish(r) BY <1>3 DEF Finish, Ends
<1>4. CASE Disagree(r) \/ RulingCancelled(r)
  <2>1. Alive(r) BY <1>4 DEF Disagree, RulingCancelled, Alive
  <2>2. Vacate(ruling, "closed") \in [Run -> {"none", "handle", "confirm", "cancel", "closed"}]
    BY Vacated
  <2>3. \A s \in Run : s # r => ruling'[s] = ruling[s]
    BY <1>4, <2>1, <2>2, OneRuling DEF Disagree, RulingCancelled
  <2>4. CASE Disagree(r)
    <3>1. ruling'[r] = "handle" BY <2>2, <2>4 DEF Disagree
    <3> QED BY <2>3, <2>4, <3>1 DEF Disagree
  <2>5. CASE RulingCancelled(r)
    <3>1. ruling'[r] = "closed" BY <2>5 DEF RulingCancelled, Vacate
    <3> QED BY <2>3, <2>5, <3>1 DEF RulingCancelled
  <2> QED BY <1>4, <2>4, <2>5
<1>5. CASE HearRuling(r) BY <1>5 DEF HearRuling
<1>6. CASE Emit(r) \/ Panic(r) BY <1>6 DEF Emit, Panic
<1> QED BY <1>1, <1>2, <1>3, <1>4, <1>5, <1>6 DEF Task

\* The cleanup of a run finds no ruling pending.
LEMMA CleanupRuling ==
  ASSUME TypeOK, HandleInv, RulingInv, NEW r \in Run, Cleanup(r)
  PROVE  RulingInv'
<1>1. task[r] = "done" /\ Active(r)
  BY DEF Cleanup, Active
<1>2. \A s \in Run : ruling[s] # "handle"
  <2>1. \A s \in Run : ruling[s] = "handle" => Alive(s) /\ Active(s)
    BY AliveIsActive DEF RulingInv, Rulings, Alive
  <2> QED BY <1>1, <2>1 DEF HandleInv, OneActive, RulingInv, Rulings
<1>3. ruling' = ruling /\ UNCHANGED <<task, confirmed, fate>>
  BY <1>2 DEF Cleanup, Clear, Vacate, TypeOK
<1> QED BY <1>3 DEF RulingInv, Rulings, DisagreementDecided

LEMMA RulingStep ==
  ASSUME TypeOK, HandleInv, RulingInv, [Next]_vars
  PROVE  RulingInv'
<1>1. ASSUME NEW r \in Run, Starts(r) PROVE RulingInv'
  <2> USE DEF TypeOK, RulingInv, Rulings, DisagreementDecided, handleVars, askVars, ruleVars
  <2>1. CASE Spawn(r) BY <2>1 DEF Spawn, HandleInv, Unspawned
  <2> QED BY <1>1, <2>1 DEF Starts, EnsureIdle, Install, StoreTask
<1>2. ASSUME NEW r \in Run, Forwards(r) PROVE RulingInv'
  BY <1>2 DEF Forwards, FwdReceive, FwdInstall, FwdCancelled, FwdDrop, FwdEnd,
              RulingInv, Rulings, DisagreementDecided, ruleVars
<1>3. CASE UNCHANGED vars
  BY <1>3 DEF vars, ruleVars, RulingInv, Rulings, DisagreementDecided
<1> QED BY <1>1, <1>2, <1>3, OperatorRuling, TaskRuling, CleanupRuling DEF Next

\* What the operator said is what a run ends with: a Confirm that was accepted
\* decides the run also when a stop comes at the same moment, no approval is
\* lost unless the operator stopped the run, and every disagreement is decided.
THEOREM AnswersKeptHolds == ASSUME SerialStart PROVE Spec => []AnswersKept
<1>1. Init => ApprovalInv /\ RulingInv
  BY DEF Init, ApprovalInv, Forwarder, Requests, AnsweredUnlessStopped, RulingInv, Rulings,
         DisagreementDecided
<1>2. TypeOK /\ HandleInv /\ ApprovalInv /\ RulingInv /\ [Next]_vars => (ApprovalInv /\ RulingInv)'
  BY ApprovalStep, RulingStep
<1>3. ApprovalInv /\ RulingInv => AnswersKept
  BY DEF ApprovalInv, RulingInv, Rulings, AnswersKept, ConfirmKept
<1> QED BY <1>1, <1>2, <1>3, HandleInvariant, PTL DEF Spec
=============================================================================
