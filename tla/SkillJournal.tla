---------------------------- MODULE SkillJournal ----------------------------
(***************************************************************************)
(* The write journal of one skill directory: apply_skill_patch             *)
(* (commands/skills.rs) on top of SkillStore::write_atomic_multi_file, and *)
(* SkillStore::recover_atomic_writes (skills/store.rs).                    *)
(*                                                                         *)
(* Every call into the file system is a step, the process may be killed    *)
(* between any two of them, and several commands may run at once: nothing  *)
(* in the code excludes it.  What a finished call did survives the kill.   *)
(* The mtime guard and the lint refuse a command before it touches the     *)
(* journal; a refused command is one that never began.                     *)
(***************************************************************************)
EXTENDS Naturals, FiniteSets

CONSTANTS
  Patch,     \* patches, each applied by one command
  Writer,    \* tasks that run apply_skill_patch
  boot,      \* the start of the process, which may run the recovery
  N,         \* files of one transaction, SKILL.md first
  Recovers,  \* is recover_atomic_writes run on every start?
  Faults,    \* calls that may fail: "rename", and "remove" during clean-up
  MaxCrash   \* bound on the number of kills

ASSUME JournalAssumption ==
  /\ boot \notin Writer /\ N \in Nat \ {0} /\ MaxCrash \in Nat
  /\ Recovers \in BOOLEAN /\ Faults \subseteq {"rename", "remove"}

VARIABLES
  live,      \* the patches in SKILL.md, replay.json, ...
  staged,    \* .tx/pending/<basename>.new, for the files staged
  pending,   \* does the directory .tx/pending exist?
  txdir,     \* does .tx exist?
  manifest,  \* does .tx/manifest.json exist?
  commit,    \* does the marker .tx/commit exist?
  pc,        \* where each task is
  at,        \* the file a task works on
  job,       \* the patch a writer applies
  buffer,    \* the new files it computed
  begun, acked, failed,  \* patches by the state of their command
  crashes

diskVars == <<live, staged, pending, txdir, manifest, commit>>
taskVars == <<pc, at, job, buffer>>
logVars  == <<begun, acked, failed>>
vars     == <<diskVars, taskVars, logVars, crashes>>

File    == 1 .. N
Proc    == Writer \cup {boot}
Content == SUBSET Patch
Starting == {"down", "recover"}
Applying == {"rename", "unmark"}
Cleaning == {"unlist", "unstage", "rmdir"}

TypeOK ==
  /\ live \in [File -> Content]
  /\ \E S \in SUBSET File : staged \in [S -> Content]
  /\ pending \in BOOLEAN /\ txdir \in BOOLEAN /\ manifest \in BOOLEAN /\ commit \in BOOLEAN
  /\ pc \in [Proc -> {"idle", "read", "open", "stage", "manifest", "commit"}
                     \cup Starting \cup Applying \cup Cleaning]
  /\ at \in [Proc -> File]
  /\ job \in [Writer -> Patch]
  /\ buffer \in [Writer -> [File -> Content]]
  /\ begun \subseteq Patch /\ acked \subseteq begun /\ failed \subseteq begun
  /\ crashes \in 0 .. MaxCrash

NoFile == [f \in {} |-> {}]
Drop(fs, f) == [g \in DOMAIN fs \ {f} |-> fs[g]]
Put(fs, f, c) == [g \in DOMAIN fs \cup {f} |-> IF g = f THEN c ELSE fs[g]]

Goto(t, l) == pc' = [pc EXCEPT ![t] = l]

\* Deviation: the loop leaves out the last file.
Advance_Short(t, l) ==
  IF at[t] < N - 1
  THEN at' = [at EXCEPT ![t] = @ + 1] /\ UNCHANGED pc
  ELSE at' = [at EXCEPT ![t] = 1] /\ Goto(t, l)

\* The loop over the files: the next one, or on to l.
Advance(t, l) ==
  IF at[t] < N
  THEN at' = [at EXCEPT ![t] = @ + 1] /\ UNCHANGED pc
  ELSE at' = [at EXCEPT ![t] = 1] /\ Goto(t, l)

\* The command returns Ok; the start of the process just goes on.
Return(t) ==
  /\ Goto(t, "idle")
  /\ acked' = IF t = boot THEN acked ELSE acked \cup {job[t]}

\* `?`: the command returns an error, everything stays as it is.
Fail(t) ==
  /\ Goto(t, "idle") /\ at' = [at EXCEPT ![t] = 1]
  /\ failed' = IF t = boot THEN failed ELSE failed \cup {job[t]}
  /\ UNCHANGED <<diskVars, job, buffer, begun, acked, crashes>>
-----------------------------------------------------------------------------
Init ==
  /\ live = [f \in File |-> {}] /\ staged = NoFile
  /\ pending = FALSE /\ txdir = FALSE /\ manifest = FALSE /\ commit = FALSE
  /\ pc = [t \in Proc |-> "idle"] /\ at = [t \in Proc |-> 1]
  /\ job \in [Writer -> Patch]
  /\ buffer = [t \in Writer |-> [f \in File |-> {}]]
  /\ begun = {} /\ acked = {} /\ failed = {} /\ crashes = 0

Begin(w, p) ==
  /\ pc[boot] = "idle" /\ pc[w] = "idle" /\ p \notin begun
  /\ Goto(w, "read")
  /\ job' = [job EXCEPT ![w] = p]
  /\ begun' = begun \cup {p}
  /\ UNCHANGED <<diskVars, at, buffer, acked, failed, crashes>>

\* read_to_string of SKILL.md, then of replay.json; the patch is applied in memory.
Read(w) ==
  /\ pc[w] = "read"
  /\ buffer' = [buffer EXCEPT ![w][at[w]] = live[at[w]] \cup {job[w]}]
  /\ Advance(w, "open")
  /\ UNCHANGED <<diskVars, job, logVars, crashes>>

\* Removes what a former transaction staged and makes the directory anew.
OpenPending(w) ==
  /\ pc[w] = "open" /\ Goto(w, "stage")
  /\ staged' = NoFile /\ pending' = TRUE /\ txdir' = TRUE
  /\ UNCHANGED <<live, manifest, commit, at, job, buffer, logVars, crashes>>

Stage(w) ==
  /\ pc[w] = "stage"
  /\ \/ /\ pending
        /\ staged' = Put(staged, at[w], buffer[w][at[w]])
        /\ Advance(w, "manifest")
        /\ UNCHANGED <<live, pending, txdir, manifest, commit, job, buffer, logVars, crashes>>
     \/ ~pending /\ Fail(w)

WriteManifest(w) ==
  /\ pc[w] = "manifest"
  /\ \/ /\ txdir
        /\ manifest' = TRUE /\ Goto(w, "commit")
        /\ UNCHANGED <<live, staged, pending, txdir, commit, at, job, buffer, logVars, crashes>>
     \/ ~txdir /\ Fail(w)

\* Deviation: no marker is made at all.
CreateMarker_Never(w) ==
  /\ pc[w] = "commit" /\ Goto(w, "rename")
  /\ UNCHANGED <<diskVars, at, job, buffer, logVars, crashes>>

\* OpenOptions::create_new on .tx/commit.
CreateMarker(w) ==
  /\ pc[w] = "commit"
  /\ \/ /\ txdir /\ ~commit
        /\ commit' = TRUE /\ Goto(w, "rename")
        /\ UNCHANGED <<live, staged, pending, txdir, manifest, at, job, buffer, logVars, crashes>>
     \/ (~txdir \/ commit) /\ Fail(w)

\* apply_committed_transaction, of a command and of the recovery: a file that
\* is no longer staged was moved already.
Rename(t) ==
  /\ pc[t] = "rename"
  /\ \/ /\ IF at[t] \in DOMAIN staged
           THEN /\ live' = [live EXCEPT ![at[t]] = staged[at[t]]]
                /\ staged' = Drop(staged, at[t])
           ELSE UNCHANGED <<live, staged>>
        /\ Advance(t, "unmark")
        /\ UNCHANGED <<pending, txdir, manifest, commit, job, buffer, logVars, crashes>>
     \/ "rename" \in Faults /\ at[t] \in DOMAIN staged /\ Fail(t)

\* The best-effort clean-up, in this order; a removal may fail unnoticed.
Removed(was, now) == now = FALSE \/ ("remove" \in Faults /\ now = was)

RemoveMarker(t) ==
  /\ pc[t] = "unmark" /\ Goto(t, "unlist")
  /\ Removed(commit, commit')
  /\ UNCHANGED <<live, staged, pending, txdir, manifest, at, job, buffer, logVars, crashes>>

RemoveManifest(t) ==
  /\ pc[t] = "unlist" /\ Goto(t, "unstage")
  /\ Removed(manifest, manifest')
  /\ UNCHANGED <<live, staged, pending, txdir, commit, at, job, buffer, logVars, crashes>>

RemovePending(t) ==
  /\ pc[t] = "unstage" /\ Goto(t, "rmdir")
  /\ Removed(pending, pending')
  /\ staged' = IF pending' THEN staged ELSE NoFile
  /\ UNCHANGED <<live, txdir, manifest, commit, at, job, buffer, logVars, crashes>>

\* remove_dir fails on a directory that is not empty, and the command is done.
RmDir(full) == IF full THEN txdir' = txdir ELSE Removed(txdir, txdir')

RemoveTxDir(t) ==
  /\ pc[t] = "rmdir" /\ Return(t)
  /\ RmDir(pending \/ manifest \/ commit)
  /\ UNCHANGED <<live, staged, pending, manifest, commit, at, job, buffer, begun, failed, crashes>>
-----------------------------------------------------------------------------
\* The process is killed: only the disk survives.
Crash ==
  /\ crashes < MaxCrash /\ crashes' = crashes + 1
  /\ pc' = [t \in Proc |-> IF t = boot THEN "down" ELSE "idle"]
  /\ at' = [t \in Proc |-> 1]
  /\ UNCHANGED <<diskVars, job, buffer, logVars>>

Start ==
  /\ pc[boot] = "down"
  /\ Goto(boot, IF Recovers THEN "recover" ELSE "idle")
  /\ UNCHANGED <<diskVars, at, job, buffer, logVars, crashes>>

\* Deviation: what was staged is dropped whether it was committed or not.
RecoverCommitted_Drops ==
  /\ pc[boot] = "recover" /\ commit /\ manifest
  /\ Goto(boot, "unmark")
  /\ UNCHANGED <<diskVars, at, job, buffer, logVars, crashes>>

RecoverCommitted ==
  /\ pc[boot] = "recover" /\ commit /\ manifest
  /\ Goto(boot, "rename")
  /\ UNCHANGED <<diskVars, at, job, buffer, logVars, crashes>>

\* Without a marker (or without a manifest) the staged files are dropped; a
\* marker that is there keeps .tx from being removed.
RecoverUncommitted ==
  /\ pc[boot] = "recover" /\ ~(commit /\ manifest)
  /\ Goto(boot, "idle")
  /\ Removed(pending, pending') /\ Removed(manifest, manifest')
  /\ staged' = IF pending' THEN staged ELSE NoFile
  /\ RmDir(pending' \/ manifest' \/ commit)
  /\ UNCHANGED <<live, commit, at, job, buffer, logVars, crashes>>

Command(w) == \/ \E p \in Patch : Begin(w, p)
              \/ Read(w) \/ OpenPending(w) \/ Stage(w) \/ WriteManifest(w) \/ CreateMarker(w)
Landing(t) == Rename(t) \/ RemoveMarker(t) \/ RemoveManifest(t) \/ RemovePending(t) \/ RemoveTxDir(t)
Booting == Start \/ RecoverCommitted \/ RecoverUncommitted

Next == \/ Booting \/ Crash
        \/ \E w \in Writer : Command(w)
        \/ \E t \in Proc : Landing(t)

Spec == Init /\ [][Next]_vars

\* A started command and a started process run on; nothing in them waits.
FairSpec == /\ Spec /\ WF_vars(Booting)
            /\ \A t \in Proc : WF_vars(Landing(t))
            /\ \A w \in Writer : WF_vars(Command(w))
-----------------------------------------------------------------------------
(* Properties. *)

\* What a reader finds in the files once the journal is recovered.
Recovered == [f \in File |-> IF commit /\ manifest /\ f \in DOMAIN staged
                             THEN staged[f] ELSE live[f]]

Atomic == INSTANCE AtomicSkillStore WITH content <- Recovered

\* The journal implements the atomic store: whatever the moment of a kill, a
\* recovered skill holds each patch in all of its files or in none, no patch is
\* undone, and a patch whose command returned Ok is there.
ImplementsAtomic == Atomic!Spec

Quiet == \A t \in Proc : pc[t] = "idle"

\* Between commands the files themselves agree, hold every acknowledged patch,
\* and the journal is gone (store.rs: a crash never leaves a skill half written
\* once the recovery has run).
QuietIsWhole ==
  Quiet => /\ \A f, g \in File : live[f] = live[g]
           /\ \A f \in File : acked \subseteq live[f]
           /\ ~txdir

\* No command lands files it computed from a half written skill: even when no
\* recovery ever runs, the marker left by the kill that tore the skill makes
\* every later command fail instead.
TornIsLeftAlone ==
  \A w \in Writer : pc[w] \in Applying \cup Cleaning =>
    \A f, g \in File : buffer[w][f] = buffer[w][g]

\* The marker admits one task at a time to the live files.
OneLands == \A t, u \in Proc : pc[t] \in Applying /\ pc[u] \in Applying => t = u

\* Commands that lose a race for the journal leave no marker behind, so the
\* next command is not locked out.
MarkerReleased == Quiet => ~commit

\* What is left of a transaction never makes a later command fail.
NoneFails == failed = {}
=============================================================================
