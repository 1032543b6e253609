---------------------------- MODULE SkillLibrary ----------------------------
(***************************************************************************)
(* How a run learns skills and who else writes them: the subgoal stack and *)
(* the stacks kept beside it (apply_mutations, records.rs), the extractor  *)
(* that turns the work of a completed subgoal into a draft                 *)
(* (skills/extractor.rs), the index of the run (skills/index.rs), the      *)
(* directory with one SKILL.md per id (skills/store.rs), the file watcher  *)
(* (skills/watcher.rs, watcher_consumer.rs) and the commands of the        *)
(* interface (commands/skills.rs, commands/agent_chat.rs).                 *)
(*                                                                         *)
(* One signature: all skills are of one family.  A sketch is the sequence  *)
(* of tools it was built from.  A value that may be missing is a set with  *)
(* at most one member.                                                     *)
(***************************************************************************)
EXTENDS Naturals, Sequences

CONSTANTS
  Tool,        \* tools a run may call with success
  Id,          \* skill ids
  Base,        \* the id made from the subgoal's text and signature
  MaxWork,     \* bound on the steps of a run
  MaxDepth,    \* bound on the subgoal stack
  MaxVersion,  \* bound on versions
  MaxOutside,  \* bound on changes from outside the run
  Backlog      \* EVENT_CHANNEL_BUFFER, 64 in the code

VARIABLES
  running,   \* is a run alive?
  recorded,  \* recorded_steps, by tool
  pushIdx,   \* push_idx_stack
  subgoals,  \* history: the tools recorded while each open subgoal was open
  index,     \* rows of the SkillIndex
  disk,      \* SKILL.md of every id
  writing,   \* the row maybe_extract_skill is writing, and how far it is
  events,    \* file events the watcher has not handled
  recent,    \* ids the run's store wrote within RECENT_WRITE_TOLERANCE
  reread,    \* the row the watcher has read and will write back
  outside,   \* changes made from outside so far
  alone,     \* history: nothing but the run has written since it started
  revisited  \* history: ids of which the run has written a version again

frames == <<recorded, pushIdx, subgoals>>
watch  == <<events, recent, reread>>
vars == <<running, frames, index, disk, writing, watch, outside, alone, revisited>>

State == {"Draft", "Confirmed"}
Row == [id : Id, version : Nat, state : State, sketch : Seq(Tool), edited : BOOLEAN]
Change == [id : Id, kind : {"changed", "deleted"}]
IsOption(o, S) == o \subseteq S /\ \A x, y \in o : x = y

TypeOK ==
  /\ running \in BOOLEAN /\ alone \in BOOLEAN /\ outside \in Nat
  /\ recorded \in Seq(Tool) /\ pushIdx \in Seq(0 .. Len(recorded))
  /\ subgoals \in Seq(Seq(Tool)) /\ Len(subgoals) = Len(pushIdx)
  /\ index \subseteq Row
  /\ \A r, q \in index : r.id = q.id /\ r.version = q.version => r = q
  /\ disk \in [Id -> SUBSET Row]
  /\ \A i \in Id : IsOption(disk[i], Row) /\ \A r \in disk[i] : r.id = i
  /\ IsOption(writing, [row : Row, onDisk : BOOLEAN])
  /\ events \in Seq(Change) /\ recent \subseteq Id
  /\ IsOption(reread, Row) /\ revisited \subseteq Id

Init ==
  /\ running = FALSE /\ recorded = <<>> /\ pushIdx = <<>> /\ subgoals = <<>>
  /\ index = {} /\ disk = [i \in Id |-> {}] /\ writing = {}
  /\ events = <<>> /\ recent = {} /\ reread = {}
  /\ outside = 0 /\ alone = TRUE /\ revisited = {}

-----------------------------------------------------------------------------
(* The index and the directory. *)

\* One row per (id, version).
Upsert(r) == {q \in index : <<q.id, q.version>> # <<r.id, r.version>>} \cup {r}

\* The watcher runs as long as the run; its channel drops what does not fit.
Noted(queue, i, kind) ==
  IF running /\ Len(queue) < Backlog
    THEN Append(queue, [id |-> i, kind |-> kind]) ELSE queue

\* SkillIndex::build reads every file.
Start ==
  /\ ~running /\ running' = TRUE /\ alone' = TRUE /\ revisited' = {}
  /\ index' = UNION {disk[i] : i \in Id}
  /\ UNCHANGED <<frames, disk, writing, watch, outside>>

\* The end of StateRunner::run: the scratch state is dropped, the watcher
\* aborted.  A run that panics or is aborted takes all of it along.
Finish ==
  /\ running /\ running' = FALSE /\ index' = {}
  /\ recorded' = <<>> /\ pushIdx' = <<>> /\ subgoals' = <<>>
  /\ writing' = {} /\ events' = <<>> /\ recent' = {} /\ reread' = {}
  /\ UNCHANGED <<disk, outside, alone, revisited>>

-----------------------------------------------------------------------------
(* The run: subgoals, steps, extraction. *)

Busy == writing # {}

Push ==
  /\ running /\ ~Busy /\ Len(pushIdx) < MaxDepth
  /\ pushIdx' = Append(pushIdx, Len(recorded))
  /\ subgoals' = Append(subgoals, <<>>)
  /\ UNCHANGED <<running, recorded, index, disk, writing, watch, outside, alone, revisited>>

\* A tool call that succeeds.
Work(t) ==
  /\ running /\ ~Busy /\ Len(recorded) < MaxWork
  /\ recorded' = Append(recorded, t)
  /\ subgoals' = [k \in DOMAIN subgoals |-> Append(subgoals[k], t)]
  /\ UNCHANGED <<running, pushIdx, index, disk, writing, watch, outside, alone, revisited>>

\* Deviation: the push-side index is taken from the wrong end of its stack.
Popped_Oldest(stack) == Tail(stack)
Popped(stack) == SubSeq(stack, 1, Len(stack) - 1)

Since(idx) == SubSeq(recorded, idx + 1, Len(recorded))

Pop == /\ pushIdx # <<>>
       /\ pushIdx' = Popped(pushIdx)
       /\ subgoals' = SubSeq(subgoals, 1, Len(subgoals) - 1)
       /\ UNCHANGED recorded

\* maybe_extract_skill declines: no step since the push, an unverified script,
\* skills disabled; a completion of an empty stack changes nothing at all.
CompleteOnly ==
  /\ running /\ ~Busy /\ Pop
  /\ UNCHANGED <<running, index, disk, writing, watch, outside, alone, revisited>>

Mergeable == {r \in index : r.state = "Draft" /\ ~r.edited}
Newest(rows) == {r \in rows : \A q \in rows : q.version <= r.version}

\* synthesize_unique_draft_skill_id
NewIds == IF \A r \in index : r.id # Base THEN {Base}
          ELSE {i \in Id \ {Base} : disk[i] = {} /\ \A r \in index : r.id # i}

\* build_draft_skill
Draft(i, version, sketch) ==
  [id |-> i, version |-> version, state |-> "Draft", sketch |-> sketch, edited |-> FALSE]

\* Deviation: any draft gets the new version, not the newest.
Learnt_Any(sketch) ==
  LET same == {r \in Mergeable : r.sketch = sketch} IN
  IF same # {} THEN {Draft(r.id, r.version + 1, sketch) : r \in Newest(same)}
  ELSE IF Mergeable # {} THEN {Draft(r.id, r.version + 1, sketch) : r \in Mergeable}
  ELSE {Draft(i, 1, sketch) : i \in NewIds}

\* A draft of the same sketch, else the newest draft, gets a new version; else
\* there is a new draft.
Learnt(sketch) ==
  LET same == {r \in Mergeable : r.sketch = sketch} IN
  IF same # {} THEN {Draft(r.id, r.version + 1, sketch) : r \in Newest(same)}
  ELSE IF Mergeable # {} THEN {Draft(r.id, r.version + 1, sketch) : r \in Newest(Mergeable)}
  ELSE {Draft(i, 1, sketch) : i \in NewIds}

\* The version after that of a draft which is not the newest exists already: the
\* file and the row of that version are written over.
Rewrites(r) ==
  /\ \E q \in Mergeable : q.sketch = r.sketch
  /\ \E q \in index : q.id = r.id /\ q.version >= r.version

Complete ==
  /\ running /\ ~Busy /\ Pop /\ Since(pushIdx[Len(pushIdx)]) # <<>>
  /\ \E r \in Learnt(Since(pushIdx[Len(pushIdx)])) :
       /\ r.version <= MaxVersion /\ writing' = {[row |-> r, onDisk |-> FALSE]}
       /\ revisited' = IF Rewrites(r) THEN revisited \cup {r.id} ELSE revisited
  /\ UNCHANGED <<running, index, disk, watch, outside, alone>>

\* write_skill: by rename, then the store remembers its own write.
WriteOut ==
  /\ \E w \in writing :
       /\ ~w.onDisk
       /\ disk' = [disk EXCEPT ![w.row.id] = {w.row}]
       /\ recent' = recent \cup {w.row.id}
       /\ events' = Noted(events, w.row.id, "changed")
       /\ writing' = {[w EXCEPT !.onDisk = TRUE]}
  /\ UNCHANGED <<running, frames, index, reread, outside, alone, revisited>>

Install ==
  /\ \E w \in writing : w.onDisk /\ index' = Upsert(w.row)
  /\ writing' = {}
  /\ UNCHANGED <<running, frames, disk, watch, outside, alone, revisited>>

-----------------------------------------------------------------------------
(* The watcher. *)

Expire(i) ==
  /\ i \in recent /\ recent' = recent \ {i}
  /\ UNCHANGED <<running, frames, index, disk, writing, events, reread, outside,
                 alone, revisited>>

\* A path the store wrote just now is its own; a file that is gone or does not
\* parse is left to the next event.
Ignore ==
  /\ events # <<>> /\ reread = {}
  /\ Head(events).kind = "changed"
  /\ \/ Head(events).id \in recent
     \/ disk[Head(events).id] = {}
  /\ events' = Tail(events)
  /\ UNCHANGED <<running, frames, index, disk, writing, recent, reread, outside,
                 alone, revisited>>

\* The event of a write of its own that comes late is taken for another's.
Reread ==
  /\ events # <<>> /\ reread = {}
  /\ Head(events).kind = "changed" /\ Head(events).id \notin recent
  /\ disk[Head(events).id] # {}
  /\ reread' = disk[Head(events).id] /\ events' = Tail(events)
  /\ alone' = FALSE
  /\ UNCHANGED <<running, frames, index, disk, writing, recent, outside, revisited>>

\* The flag of an outside edit is set on the file, then the row is indexed.
MarkEdited ==
  /\ \E r \in reread :
       LET marked == [r EXCEPT !.edited = TRUE] IN
       /\ index' = Upsert(marked)
       /\ IF r.edited
            THEN UNCHANGED <<disk, recent, events>>
            ELSE /\ disk' = [disk EXCEPT ![r.id] = {marked}]
                 /\ recent' = recent \cup {r.id}
                 /\ events' = Noted(events, r.id, "changed")
  /\ reread' = {}
  /\ UNCHANGED <<running, frames, writing, outside, alone, revisited>>

\* remove_by_path drops every version.
Forget ==
  /\ events # <<>> /\ reread = {} /\ Head(events).kind = "deleted"
  /\ index' = {r \in index : r.id # Head(events).id}
  /\ events' = Tail(events)
  /\ UNCHANGED <<running, frames, disk, writing, recent, reread, outside, alone, revisited>>

-----------------------------------------------------------------------------
(* Everybody else: each command makes a store of its own, so that its write  *)
(* is an outside change to the run.                                          *)

Outside(i, rows, kind) ==
  /\ outside < MaxOutside /\ outside' = outside + 1 /\ alone' = FALSE
  /\ disk' = [disk EXCEPT ![i] = rows]
  /\ events' = Noted(events, i, kind)
  /\ UNCHANGED <<running, frames, index, writing, recent, reread, revisited>>

\* confirm_skill_proposal, whatever the state and the version of the file.
Confirm(i) ==
  \E r \in disk[i] : Outside(i, {[r EXCEPT !.state = "Confirmed"]}, "changed")

\* An editor, or a patch of the interface.
Edit(i) ==
  \E r \in disk[i], s \in {<<t>> : t \in Tool} :
    r.sketch # s /\ Outside(i, {[r EXCEPT !.sketch = s]}, "changed")

\* delete_skill, a draft whose nodes are all pruned, a cleared conversation.
Remove(i) == disk[i] # {} /\ Outside(i, {}, "deleted")

\* fork_skill
Fork(i, new) ==
  /\ disk[new] = {} /\ \A r \in index : r.id # new
  /\ \E r \in disk[i] : Outside(new, {Draft(new, 1, r.sketch)}, "changed")

-----------------------------------------------------------------------------

Next ==
  \/ Start \/ Finish
  \/ Push \/ (\E t \in Tool : Work(t)) \/ CompleteOnly \/ Complete
  \/ WriteOut \/ Install
  \/ Ignore \/ Reread \/ MarkEdited \/ Forget
  \/ \E i \in Id : \/ Expire(i) \/ Confirm(i) \/ Edit(i) \/ Remove(i)
                   \/ \E new \in Id \ {Base} : Fork(i, new)

Spec == Init /\ [][Next]_vars

-----------------------------------------------------------------------------
(* Properties *)

\* The steps an extraction takes for an open subgoal are those recorded while
\* it was open, though the stack of push indices is kept beside the stack of
\* subgoals and both change within one turn.
ExtractsItsWork ==
  \A k \in DOMAIN pushIdx : Since(pushIdx[k]) = subgoals[k]

\* As long as nobody else writes, and the run's own events are recognised in
\* time, the file of an id is a row of the index, and it is the newest one
\* unless the run has gone back to an older draft and written a version again.
IndexIsDisk ==
  running /\ alone /\ writing = {} =>
    \A i \in Id : /\ disk[i] \subseteq index
                  /\ i \notin revisited => Newest({r \in index : r.id = i}) = disk[i]
=============================================================================
