------------------------ MODULE SkillJournal_proofs ------------------------
(***************************************************************************)
(* Theorems about SkillJournal for any number of files, patches and kills: *)
(* the marker keeps tasks apart, and one writer at a time with a recovery  *)
(* on every start implements AtomicSkillStore.                             *)
(***************************************************************************)
EXTENDS SkillJournal, TLAPS

-----------------------------------------------------------------------------
(* The inductive invariant of one writer that is recovered on every start. *)

Preparing == {"open", "stage", "manifest", "commit"}

\* What an unfinished transaction may leave of its files.
Left(has, listed, marked) ==
  pending = has /\ txdir /\ manifest = listed /\ commit = marked

Empty == ~pending /\ ~txdir /\ ~manifest /\ ~commit /\ DOMAIN staged = {}

\* Where the task t is tells what is in .tx.
Journal(t) ==
  /\ pc[t] \in {"read", "open"} => Empty
  /\ pc[t] = "stage"    => Left(TRUE, FALSE, FALSE) /\ DOMAIN staged = 1 .. at[t] - 1
  /\ pc[t] = "manifest" => Left(TRUE, FALSE, FALSE) /\ DOMAIN staged = File
  /\ pc[t] = "commit"   => Left(TRUE, TRUE, FALSE)  /\ DOMAIN staged = File
  /\ pc[t] = "rename"   => Left(TRUE, TRUE, TRUE)   /\ DOMAIN staged \subseteq at[t] .. N
  /\ pc[t] = "unmark"   => Left(TRUE, TRUE, TRUE)   /\ DOMAIN staged = {}
  /\ pc[t] = "unlist"   => Left(TRUE, TRUE, FALSE)  /\ DOMAIN staged = {}
  /\ pc[t] = "unstage"  => Left(TRUE, FALSE, FALSE) /\ DOMAIN staged = {}
  /\ pc[t] = "rmdir"    => Left(FALSE, FALSE, FALSE) /\ DOMAIN staged = {}
  /\ pc[t] \notin {"read", "stage", "rename"} => at[t] = 1

USE DEF Starting

\* What is in .tx when no task is at work, and what a kill may leave there.
AtRest ==
  /\ Quiet => Empty
  /\ pc[boot] \in Starting /\ commit => Left(TRUE, TRUE, TRUE)

\* The recovery and the writers are never at work together.
Apart ==
  /\ pc[boot] \in {"idle"} \cup Starting \cup Applying \cup Cleaning
  /\ \A w \in Writer : pc[w] \notin Starting /\ (pc[w] # "idle" => pc[boot] = "idle")

\* What the writer has computed and staged.
Computed(w) ==
  /\ pc[w] # "idle" => job[w] \in begun
  /\ pc[w] \in Preparing \cup {"read"} => \A f \in File : job[w] \notin live[f]
  /\ pc[w] = "read" => \A f \in 1 .. at[w] - 1 : buffer[w][f] = live[f] \cup {job[w]}
  /\ pc[w] \in Preparing => \A f \in File : buffer[w][f] = live[f] \cup {job[w]}
  /\ pc[w] \in Preparing => \A f \in DOMAIN staged : staged[f] = live[f] \cup {job[w]}
  /\ pc[w] \in Applying \cup Cleaning => \A f \in File : job[w] \in Recovered[f]

\* What a reader finds.
Consistent ==
  /\ \A f, g \in File : Recovered[f] = Recovered[g]
  /\ \A f \in File : acked \subseteq Recovered[f] /\ live[f] \subseteq begun
  /\ \A f \in DOMAIN staged : staged[f] \subseteq begun
  /\ failed = {}

JournalInv ==
  /\ TypeOK /\ AtRest /\ Apart /\ Consistent
  /\ \A t \in Proc : Journal(t)
  /\ \A w \in Writer : Computed(w)

\* One command at a time, every start recovers, and no call fails.
Undisturbed ==
  /\ \A v, w \in Writer : v = w
  /\ Recovers /\ Faults = {}

\* At most one task is at work.
LEMMA OnlyOne ==
  ASSUME Undisturbed, JournalInv, NEW t \in Proc, pc[t] # "idle"
  PROVE  \A u \in Proc : u # t => pc[u] = "idle"
BY DEF Undisturbed, JournalInv, Apart, Proc

\* It holds before the first command.
LEMMA InitKeeps == Init => JournalInv
<1> SUFFICES ASSUME Init PROVE JournalInv
  OBVIOUS
<1> USE JournalAssumption
<1>1. DOMAIN staged = {} /\ Recovered = live
  BY DEF Init, NoFile, Recovered
<1>2. TypeOK
  <2>1. \E S \in SUBSET File : staged \in [S -> Content]
    <3>1. {} \in SUBSET File /\ staged \in [{} -> Content]
      BY DEF Init, NoFile
    <3> QED BY <3>1
  <2>2. 1 \in File
    BY DEF File
  <2>3. pc \in [Proc -> {"idle"}] /\ at \in [Proc -> File]
    BY <2>2 DEF Init
  <2>4. live \in [File -> Content] /\ buffer \in [Writer -> [File -> Content]]
    BY DEF Init, Content
  <2>5. /\ pending \in BOOLEAN /\ txdir \in BOOLEAN /\ manifest \in BOOLEAN /\ commit \in BOOLEAN
        /\ begun \subseteq Patch /\ acked \subseteq begun /\ failed \subseteq begun
    BY Zenon DEF Init
  <2>6. pc \in [Proc -> {"idle", "read", "open", "stage", "manifest", "commit"}
                       \cup Starting \cup Applying \cup Cleaning]
    BY <2>3
  <2>7. crashes \in 0 .. MaxCrash /\ job \in [Writer -> Patch]
    BY DEF Init
  <2> QED BY <2>1, <2>3, <2>4, <2>5, <2>6, <2>7 DEF TypeOK
<1>3. AtRest
  BY <1>1 DEF Init, AtRest, Empty, Proc
<1>4. Apart
  BY DEF Init, Apart, Proc
<1>5. Consistent
  BY <1>1 DEF Init, Consistent
<1>6. \A t \in Proc : Journal(t)
  BY DEF Init, Journal
<1>7. \A w \in Writer : Computed(w)
  BY DEF Init, Computed, Proc, Preparing, Applying, Cleaning
<1> QED BY <1>2, <1>3, <1>4, <1>5, <1>6, <1>7 DEF JournalInv

\* A command begins where nothing else is at work and nothing is left over.
LEMMA BeginKeeps ==
  ASSUME Undisturbed, JournalInv, NEW w \in Writer, NEW p \in Patch, Begin(w, p)
  PROVE  JournalInv' /\ Recovered' = Recovered /\ acked' = acked
<1> USE JournalAssumption
<1>1. \A u \in Proc : pc[u] = "idle" /\ at[u] = 1
  BY DEF Begin, Undisturbed, Proc, JournalInv, Journal
<1>2. Empty /\ Empty' /\ UNCHANGED Recovered
  BY <1>1 DEF Begin, JournalInv, AtRest, Quiet, Empty, diskVars, Recovered
<1>3. /\ \A u \in Proc : pc'[u] = IF u = w THEN "read" ELSE "idle"
      /\ \A u \in Proc : at'[u] = 1
      /\ job'[w] = p /\ p \in begun'
  BY <1>1 DEF Begin, Goto, JournalInv, TypeOK
<1>4. TypeOK'
  BY DEF Begin, Goto, JournalInv, TypeOK, diskVars, Proc
<1>5. AtRest'
  BY <1>2, <1>3 DEF AtRest, Empty
<1>6. Apart'
  BY <1>3 DEF Apart, Proc
<1>7. Consistent'
  BY <1>2 DEF Begin, JournalInv, Consistent, diskVars
<1>8. \A t \in Proc : Journal(t)'
  BY <1>2, <1>3 DEF Journal
<1>9. \A v \in Writer : Computed(v)'
  <2>1. \A f \in File : p \notin live'[f]
    BY DEF Begin, JournalInv, Consistent, diskVars
  <2> QED BY <1>3, <2>1 DEF Undisturbed, Computed, Preparing, Applying, Cleaning, Proc
<1> QED BY <1>2, <1>4, <1>5, <1>6, <1>7, <1>8, <1>9 DEF JournalInv, Begin

Place == {"idle", "read", "open", "stage", "manifest", "commit"}
         \cup Starting \cup Applying \cup Cleaning

\* The loop over the files stays at its place or leaves it after the last file.
LEMMA AdvanceMoves ==
  ASSUME TypeOK, NEW t \in Proc, NEW l \in Place, Advance(t, l)
  PROVE  /\ pc' \in [Proc -> Place] /\ at' \in [Proc -> File]
         /\ \A u \in Proc : u # t => pc'[u] = pc[u] /\ at'[u] = at[u]
         /\ \/ at[t] < N /\ pc'[t] = pc[t] /\ at'[t] = at[t] + 1
            \/ at[t] = N /\ pc'[t] = l /\ at'[t] = 1
<1> USE JournalAssumption
<1>1. pc \in [Proc -> Place] /\ at \in [Proc -> File] /\ at[t] \in 1 .. N
  BY DEF TypeOK, Place, File
<1>2. CASE at[t] < N
  <2>1. at[t] + 1 \in File
    BY <1>1, <1>2 DEF File
  <2> QED BY <1>1, <1>2, <2>1 DEF Advance
<1>3. CASE at[t] = N
  <2>1. 1 \in File
    BY DEF File
  <2> QED BY <1>1, <1>3, <2>1 DEF Advance, Goto
<1> QED BY <1>1, <1>2, <1>3

\* The files it reads agree and lack its patch, which it adds in memory.
LEMMA ReadKeeps ==
  ASSUME Undisturbed, JournalInv, NEW w \in Writer, Read(w)
  PROVE  JournalInv' /\ Recovered' = Recovered /\ acked' = acked
<1> USE JournalAssumption
<1>0. w \in Proc /\ pc[w] = "read" /\ TypeOK
  BY DEF Read, Proc, JournalInv
<1>1. \A u \in Proc : u # w => pc[u] = "idle" /\ at[u] = 1
  BY <1>0, OnlyOne DEF JournalInv, Journal
<1>2. /\ pc' \in [Proc -> Place] /\ at' \in [Proc -> File]
      /\ \A u \in Proc : u # w => pc'[u] = "idle" /\ at'[u] = 1
      /\ \/ at[w] < N /\ pc'[w] = "read" /\ at'[w] = at[w] + 1
         \/ at[w] = N /\ pc'[w] = "open" /\ at'[w] = 1
  BY <1>0, <1>1, AdvanceMoves DEF Read, Place
<1>3. Empty /\ Empty' /\ UNCHANGED <<diskVars, logVars, job, crashes, Recovered>>
  BY <1>0 DEF Read, JournalInv, Journal, Empty, diskVars, logVars, Recovered
<1>4. /\ buffer' = [buffer EXCEPT ![w][at[w]] = live[at[w]] \cup {job[w]}]
      /\ at[w] \in File
      /\ \A f \in 1 .. at[w] - 1 : buffer[w][f] = live[f] \cup {job[w]}
  BY <1>0 DEF Read, JournalInv, Computed, TypeOK
<1>5. live[at[w]] \cup {job[w]} \in Content /\ buffer' \in [Writer -> [File -> Content]]
  BY <1>0, <1>4 DEF TypeOK, Content
<1>6. \A f \in 1 .. at[w] : buffer'[w][f] = live[f] \cup {job[w]}
  BY <1>0, <1>4 DEF TypeOK, File
<1>7. TypeOK'
  BY <1>0, <1>2, <1>3, <1>5 DEF TypeOK, Place, diskVars, logVars
<1>8. AtRest' /\ Apart'
  BY <1>0, <1>1, <1>2, <1>3 DEF AtRest, Apart, Proc, Empty
<1>9. Consistent'
  BY <1>3 DEF JournalInv, Consistent, diskVars, logVars
<1>10. \A t \in Proc : Journal(t)'
  BY <1>2, <1>3 DEF Journal
<1>11. \A v \in Writer : Computed(v)'
  <2>1. job[w] \in begun /\ \A f \in File : job[w] \notin live[f]
    BY <1>0 DEF JournalInv, Computed
  <2>2. pc'[w] = "read" => \A f \in 1 .. at'[w] - 1 : buffer'[w][f] = live'[f] \cup {job'[w]}
    BY <1>0, <1>2, <1>3, <1>4, <1>6 DEF diskVars, File
  <2>3. pc'[w] = "open" => \A f \in File : buffer'[w][f] = live'[f] \cup {job'[w]}
    BY <1>2, <1>3, <1>6 DEF diskVars, File
  <2>4. Computed(w)'
    BY <1>2, <1>3, <2>1, <2>2, <2>3
    DEF Computed, Preparing, Applying, Cleaning, Empty, diskVars, logVars
  <2> QED BY <2>4 DEF Undisturbed
<1> QED BY <1>3, <1>7, <1>8, <1>9, <1>10, <1>11 DEF JournalInv, logVars

\* The transaction starts from an empty directory.
LEMMA OpenPendingKeeps ==
  ASSUME Undisturbed, JournalInv, NEW w \in Writer, OpenPending(w)
  PROVE  JournalInv' /\ Recovered' = Recovered /\ acked' = acked
<1> USE JournalAssumption
<1>0. w \in Proc /\ pc[w] = "open" /\ TypeOK /\ at[w] = 1
  BY DEF OpenPending, Proc, JournalInv, Journal
<1>1. \A u \in Proc : u # w => pc[u] = "idle" /\ at[u] = 1
  BY <1>0, OnlyOne DEF JournalInv, Journal
<1>2. /\ pc' \in [Proc -> Place] /\ at' = at /\ pc'[w] = "stage"
      /\ \A u \in Proc : u # w => pc'[u] = "idle" /\ at'[u] = 1
  BY <1>0, <1>1 DEF OpenPending, Goto, TypeOK, Place
<1>3. /\ Empty /\ Left(TRUE, FALSE, FALSE)' /\ staged' \in [{} -> Content] /\ DOMAIN staged' = {}
      /\ UNCHANGED <<live, job, buffer, logVars, crashes>>
  <2>1. Empty
    BY <1>0 DEF JournalInv, Journal
  <2>2. staged' \in [{} -> Content] /\ DOMAIN staged' = {}
    BY DEF OpenPending, NoFile
  <2>3. Left(TRUE, FALSE, FALSE)'
    BY <1>0, <2>1 DEF OpenPending, Left, Empty, TypeOK
  <2> QED BY <2>1, <2>2, <2>3 DEF OpenPending
<1>4. Recovered' = Recovered
  BY <1>3 DEF Recovered, Empty, Left
<1>5. TypeOK'
  <2>1. \E S \in SUBSET File : staged' \in [S -> Content]
    <3>1. {} \in SUBSET File
      OBVIOUS
    <3> QED BY <1>3, <3>1
  <2> QED BY <1>0, <1>2, <1>3, <2>1 DEF TypeOK, Place, logVars, Left
<1>6. AtRest' /\ Apart'
  BY <1>0, <1>1, <1>2 DEF AtRest, Apart, Proc, Quiet
<1>7. Consistent'
  BY <1>3, <1>4 DEF JournalInv, Consistent, logVars
<1>8. \A t \in Proc : Journal(t)'
  <2>1. 1 .. at'[w] - 1 = {}
    BY <1>0, <1>2
  <2>2. Journal(w)'
    BY <1>0, <1>2, <1>3, <2>1 DEF Journal
  <2> QED BY <2>2, <1>2 DEF Journal
<1>9. \A v \in Writer : Computed(v)'
  <2>1. Computed(w)'
    BY <1>0, <1>2, <1>3 DEF JournalInv, Computed, Preparing, Applying, Cleaning, logVars
  <2> QED BY <2>1 DEF Undisturbed
<1> QED BY <1>3, <1>4, <1>5, <1>6, <1>7, <1>8, <1>9 DEF JournalInv, logVars

\* Files are staged in their order, each with what was computed for it.
LEMMA StageKeeps ==
  ASSUME Undisturbed, JournalInv, NEW w \in Writer, Stage(w)
  PROVE  JournalInv' /\ Recovered' = Recovered /\ acked' = acked
<1> USE JournalAssumption
<1>0. w \in Proc /\ pc[w] = "stage" /\ TypeOK /\ at[w] \in 1 .. N
  BY DEF Stage, Proc, JournalInv, TypeOK, File
<1>1. \A u \in Proc : u # w => pc[u] = "idle" /\ at[u] = 1
  BY <1>0, OnlyOne DEF JournalInv, Journal
<1>2. Left(TRUE, FALSE, FALSE) /\ DOMAIN staged = 1 .. at[w] - 1
  BY <1>0 DEF JournalInv, Journal
<1>3. /\ staged' = Put(staged, at[w], buffer[w][at[w]]) /\ Advance(w, "manifest")
      /\ UNCHANGED <<live, pending, txdir, manifest, commit, job, buffer, logVars, crashes>>
  BY <1>2 DEF Stage, Left
<1>4. /\ pc' \in [Proc -> Place] /\ at' \in [Proc -> File]
      /\ \A u \in Proc : u # w => pc'[u] = "idle" /\ at'[u] = 1
      /\ \/ at[w] < N /\ pc'[w] = "stage" /\ at'[w] = at[w] + 1
         \/ at[w] = N /\ pc'[w] = "manifest" /\ at'[w] = 1
  BY <1>0, <1>1, <1>3, AdvanceMoves DEF Place
<1>5. /\ DOMAIN staged' = 1 .. at[w]
      /\ \A f \in DOMAIN staged' : staged'[f] = live[f] \cup {job[w]} /\ staged'[f] \in Content
  <2>1. DOMAIN staged' = 1 .. at[w]
    BY <1>0, <1>2, <1>3 DEF Put
  <2>2. \A f \in File : buffer[w][f] = live[f] \cup {job[w]}
    BY <1>0 DEF JournalInv, Computed, Preparing
  <2>3. \A f \in DOMAIN staged : staged[f] = live[f] \cup {job[w]}
    BY <1>0 DEF JournalInv, Computed, Preparing
  <2>4. \A f \in DOMAIN staged' : staged'[f] = live[f] \cup {job[w]}
    BY <1>0, <1>2, <1>3, <2>1, <2>2, <2>3 DEF Put, File
  <2>5. \A f \in File : live[f] \cup {job[w]} \in Content
    BY <1>0 DEF TypeOK, Content
  <2> QED BY <1>0, <2>1, <2>4, <2>5 DEF File
<1>6. Recovered' = Recovered
  BY <1>2, <1>3 DEF Recovered, Left
<1>7. TypeOK'
  <2>1. \E S \in SUBSET File : staged' \in [S -> Content]
    <3>1. 1 .. at[w] \in SUBSET File
      BY <1>0 DEF File
    <3>2. staged' \in [1 .. at[w] -> Content]
      BY <1>3, <1>5 DEF Put
    <3> QED BY <3>1, <3>2
  <2> QED BY <1>0, <1>3, <1>4, <2>1 DEF TypeOK, Place, logVars
<1>8. AtRest' /\ Apart'
  BY <1>0, <1>1, <1>4 DEF AtRest, Apart, Proc, Quiet, JournalInv
<1>9. Consistent'
  <2>1. job[w] \in begun /\ \A f \in File : live[f] \subseteq begun
    BY <1>0 DEF JournalInv, Computed, Consistent
  <2>2. DOMAIN staged' \subseteq File
    BY <1>0, <1>5 DEF File
  <2> QED BY <1>3, <1>5, <1>6, <2>1, <2>2 DEF JournalInv, Consistent, logVars
<1>10. \A t \in Proc : Journal(t)'
  <2>1. Left(TRUE, FALSE, FALSE)'
    BY <1>2, <1>3 DEF Left
  <2>2. CASE at[w] < N /\ pc'[w] = "stage" /\ at'[w] = at[w] + 1
    <3>1. 1 .. at'[w] - 1 = 1 .. at[w]
      BY <1>0, <2>2
    <3> QED BY <1>4, <1>5, <2>1, <2>2, <3>1 DEF Journal
  <2>3. CASE at[w] = N /\ pc'[w] = "manifest" /\ at'[w] = 1
    <3>1. DOMAIN staged' = File
      BY <1>5, <2>3 DEF File
    <3> QED BY <1>4, <2>1, <2>3, <3>1 DEF Journal
  <2> QED BY <2>2, <2>3, <1>4
<1>11. \A v \in Writer : Computed(v)'
  <2>1. Computed(w)'
    BY <1>0, <1>3, <1>4, <1>5 DEF JournalInv, Computed, Preparing, Applying, Cleaning, logVars
  <2> QED BY <2>1 DEF Undisturbed
<1> QED BY <1>3, <1>6, <1>7, <1>8, <1>9, <1>10, <1>11 DEF JournalInv, logVars

\* The manifest is there before the marker, so a marker always has one.
LEMMA WriteManifestKeeps ==
  ASSUME Undisturbed, JournalInv, NEW w \in Writer, WriteManifest(w)
  PROVE  JournalInv' /\ Recovered' = Recovered /\ acked' = acked
<1> USE JournalAssumption
<1>0. w \in Proc /\ pc[w] = "manifest" /\ TypeOK /\ at[w] = 1
  BY DEF WriteManifest, Proc, JournalInv, Journal
<1>1. \A u \in Proc : u # w => pc[u] = "idle" /\ at[u] = 1
  BY <1>0, OnlyOne DEF JournalInv, Journal
<1>2. Left(TRUE, FALSE, FALSE) /\ DOMAIN staged = File
  BY <1>0 DEF JournalInv, Journal
<1>3. /\ manifest' = TRUE /\ Goto(w, "commit")
      /\ UNCHANGED <<live, staged, pending, txdir, commit, at, job, buffer, logVars, crashes>>
  BY <1>2 DEF WriteManifest, Left
<1>4. /\ pc' \in [Proc -> Place] /\ pc'[w] = "commit"
      /\ \A u \in Proc : u # w => pc'[u] = "idle"
  BY <1>0, <1>1, <1>3 DEF Goto, TypeOK, Place
<1>5. Recovered' = Recovered /\ Left(TRUE, TRUE, FALSE)'
  BY <1>2, <1>3 DEF Recovered, Left
<1>6. TypeOK'
  BY <1>0, <1>3, <1>4 DEF TypeOK, Place, logVars
<1>7. AtRest' /\ Apart'
  BY <1>0, <1>1, <1>4 DEF AtRest, Apart, Proc, Quiet, JournalInv
<1>8. Consistent'
  BY <1>3, <1>5 DEF JournalInv, Consistent, logVars
<1>9. \A t \in Proc : Journal(t)'
  BY <1>0, <1>1, <1>2, <1>3, <1>4, <1>5 DEF Journal
<1>10. \A v \in Writer : Computed(v)'
  <2>1. Computed(w)'
    BY <1>0, <1>3, <1>4 DEF JournalInv, Computed, Preparing, Applying, Cleaning, logVars
  <2> QED BY <2>1 DEF Undisturbed
<1> QED BY <1>3, <1>5, <1>6, <1>7, <1>8, <1>9, <1>10 DEF JournalInv, logVars

\* The marker turns what is staged into what a reader finds.
LEMMA CreateMarkerKeeps ==
  ASSUME Undisturbed, JournalInv, NEW w \in Writer, CreateMarker(w)
  PROVE  /\ JournalInv'
         /\ \A f \in File : job[w] \notin Recovered[f]
         /\ Recovered' = [f \in File |-> Recovered[f] \cup {job[w]}]
         /\ acked' = acked
<1> USE JournalAssumption
<1>0. w \in Proc /\ pc[w] = "commit" /\ TypeOK /\ at[w] = 1
  BY DEF CreateMarker, Proc, JournalInv, Journal
<1>1. \A u \in Proc : u # w => pc[u] = "idle" /\ at[u] = 1
  BY <1>0, OnlyOne DEF JournalInv, Journal
<1>2. Left(TRUE, TRUE, FALSE) /\ DOMAIN staged = File
  BY <1>0 DEF JournalInv, Journal
<1>3. /\ commit' = TRUE /\ Goto(w, "rename")
      /\ UNCHANGED <<live, staged, pending, txdir, manifest, at, job, buffer, logVars, crashes>>
  BY <1>2 DEF CreateMarker, Left
<1>4. /\ pc' \in [Proc -> Place] /\ pc'[w] = "rename"
      /\ \A u \in Proc : u # w => pc'[u] = "idle"
  BY <1>0, <1>1, <1>3 DEF Goto, TypeOK, Place, Applying
<1>5. Left(TRUE, TRUE, TRUE)'
  BY <1>2, <1>3 DEF Left
<1>6. /\ job[w] \in begun
      /\ \A f \in File : job[w] \notin live[f] /\ staged[f] = live[f] \cup {job[w]}
  BY <1>0, <1>2 DEF JournalInv, Computed, Preparing
<1>7. \A f \in File : Recovered[f] = live[f] /\ Recovered'[f] = live[f] \cup {job[w]}
  BY <1>2, <1>3, <1>5, <1>6 DEF Recovered, Left
<1>8. TypeOK'
  BY <1>0, <1>3, <1>4 DEF TypeOK, Place, logVars
<1>9. AtRest' /\ Apart'
  BY <1>0, <1>1, <1>4 DEF AtRest, Apart, Proc, Quiet, JournalInv
<1>10. Consistent'
  <2>1. \A f, g \in File : Recovered'[f] = Recovered'[g]
    <3>1. \A f, g \in File : Recovered[f] = Recovered[g]
      BY DEF JournalInv, Consistent
    <3>2. \A f \in File : Recovered'[f] = Recovered[f] \cup {job[w]}
      BY <1>7
    <3> QED BY <3>1, <3>2
  <2>2. \A f \in File : acked' \subseteq Recovered'[f] /\ live'[f] \subseteq begun'
    BY <1>3, <1>7 DEF JournalInv, Consistent, logVars
  <2> QED BY <1>3, <2>1, <2>2 DEF JournalInv, Consistent, logVars
<1>11. \A t \in Proc : Journal(t)'
  BY <1>0, <1>1, <1>2, <1>3, <1>4, <1>5 DEF Journal, File
<1>12. \A v \in Writer : Computed(v)'
  <2>1. Computed(w)'
    BY <1>3, <1>4, <1>6, <1>7 DEF Computed, Preparing, Applying, Cleaning, logVars
  <2> QED BY <2>1 DEF Undisturbed
<1>13. Recovered' = [f \in File |-> Recovered[f] \cup {job[w]}]
  BY <1>7 DEF Recovered
<1> QED BY <1>3, <1>6, <1>7, <1>8, <1>9, <1>10, <1>11, <1>12, <1>13 DEF JournalInv, logVars

\* A file moves from where it was staged to where it is read: readers that
\* recover see no difference.
LEMMA RenameKeeps ==
  ASSUME Undisturbed, JournalInv, NEW t \in Proc, Rename(t)
  PROVE  JournalInv' /\ Recovered' = Recovered /\ acked' = acked
<1> USE JournalAssumption
<1>0. pc[t] = "rename" /\ TypeOK /\ at[t] \in 1 .. N
  BY DEF Rename, JournalInv, TypeOK, File
<1>1. \A u \in Proc : u # t => pc[u] = "idle" /\ at[u] = 1
  BY <1>0, OnlyOne DEF JournalInv, Journal
<1>2. Left(TRUE, TRUE, TRUE) /\ DOMAIN staged \subseteq at[t] .. N
  BY <1>0 DEF JournalInv, Journal
<1>3. /\ IF at[t] \in DOMAIN staged
         THEN /\ live' = [live EXCEPT ![at[t]] = staged[at[t]]]
              /\ staged' = Drop(staged, at[t])
         ELSE UNCHANGED <<live, staged>>
      /\ Advance(t, "unmark")
      /\ UNCHANGED <<pending, txdir, manifest, commit, job, buffer, logVars, crashes>>
  BY DEF Rename, Undisturbed
<1>4. /\ pc' \in [Proc -> Place] /\ at' \in [Proc -> File]
      /\ \A u \in Proc : u # t => pc'[u] = "idle" /\ at'[u] = 1
      /\ \/ at[t] < N /\ pc'[t] = "rename" /\ at'[t] = at[t] + 1
         \/ at[t] = N /\ pc'[t] = "unmark" /\ at'[t] = 1
  BY <1>0, <1>1, <1>3, AdvanceMoves DEF Place, Applying
<1>5. /\ DOMAIN staged' = DOMAIN staged \ {at[t]}
      /\ \A f \in DOMAIN staged' : staged'[f] = staged[f]
      /\ staged' = [f \in DOMAIN staged' |-> staged'[f]]
  <2>1. staged = [f \in DOMAIN staged |-> staged[f]]
    BY <1>0 DEF TypeOK
  <2>2. CASE at[t] \in DOMAIN staged
    BY <1>3, <2>1, <2>2 DEF Drop
  <2>3. CASE at[t] \notin DOMAIN staged
    BY <1>3, <2>1, <2>3
  <2> QED BY <2>2, <2>3
<1>6. /\ at[t] \in File
      /\ \A f \in File : live'[f] = IF f = at[t] /\ f \in DOMAIN staged THEN staged[f] ELSE live[f]
  BY <1>0, <1>3 DEF TypeOK, File
<1>7. Left(TRUE, TRUE, TRUE)'
  BY <1>2, <1>3 DEF Left
<1>8. Recovered' = Recovered
  BY <1>2, <1>5, <1>6, <1>7 DEF Recovered, Left
<1>9. TypeOK'
  <2>1. DOMAIN staged \in SUBSET File /\ \A f \in DOMAIN staged : staged[f] \in Content
    BY <1>0 DEF TypeOK
  <2>2. staged' \in [DOMAIN staged' -> Content] /\ DOMAIN staged' \in SUBSET File
    BY <1>5, <2>1
  <2>3. live' \in [File -> Content]
    BY <1>0, <1>3, <2>1 DEF TypeOK
  <2>4. \E S \in SUBSET File : staged' \in [S -> Content]
    BY <2>2
  <2> QED BY <1>0, <1>3, <1>4, <2>3, <2>4 DEF TypeOK, Place, logVars
<1>10. AtRest' /\ Apart'
  BY <1>0, <1>1, <1>4, <1>7 DEF AtRest, Apart, Proc, Quiet, JournalInv, Applying
<1>11. Consistent'
  <2>1. DOMAIN staged \subseteq File
    BY <1>0 DEF TypeOK
  <2> QED BY <1>3, <1>5, <1>6, <1>8, <2>1 DEF JournalInv, Consistent, logVars
<1>12. \A u \in Proc : Journal(u)'
  <2>1. CASE at[t] < N /\ pc'[t] = "rename" /\ at'[t] = at[t] + 1
    <3>1. DOMAIN staged' \subseteq at'[t] .. N
      BY <1>0, <1>2, <1>5, <2>1
    <3> QED BY <1>4, <1>7, <2>1, <3>1 DEF Journal
  <2>2. CASE at[t] = N /\ pc'[t] = "unmark" /\ at'[t] = 1
    <3>1. DOMAIN staged' = {}
      BY <1>0, <1>2, <1>5, <2>2
    <3> QED BY <1>4, <1>7, <2>2, <3>1 DEF Journal
  <2> QED BY <2>1, <2>2, <1>4
<1>13. \A v \in Writer : Computed(v)'
  <2>1. ASSUME NEW v \in Writer, v # t PROVE Computed(v)'
    BY <1>4, <2>1 DEF Computed, Preparing, Applying, Cleaning, Proc
  <2>2. ASSUME NEW v \in Writer, v = t PROVE Computed(v)'
    BY <1>0, <1>3, <1>4, <1>8, <2>2
    DEF JournalInv, Computed, Preparing, Applying, Cleaning, logVars
  <2> QED BY <2>1, <2>2
<1> QED BY <1>3, <1>8, <1>9, <1>10, <1>11, <1>12, <1>13 DEF JournalInv, logVars

\* What the steps of the clean-up have in common: the files are in place, and
\* only the journal changes.
LEMMA CleanUp ==
  ASSUME Undisturbed, JournalInv, NEW t \in Proc, NEW l \in Cleaning,
         pc[t] \in {"unmark", "unlist", "unstage"}, Goto(t, l),
         UNCHANGED <<live, txdir, at, job, buffer, logVars, crashes>>,
         pending' \in BOOLEAN, manifest' \in BOOLEAN, commit' \in BOOLEAN,
         DOMAIN staged = {}, staged' \in [{} -> Content],
         at[t] = 1 => Journal(t)'
  PROVE  JournalInv' /\ Recovered' = Recovered
<1>0. TypeOK /\ at[t] = 1
  BY DEF JournalInv, Journal
<1>1. \A u \in Proc : u # t => pc[u] = "idle" /\ at[u] = 1
  BY OnlyOne DEF JournalInv, Journal
<1>2. /\ pc' \in [Proc -> Place] /\ pc'[t] = l
      /\ \A u \in Proc : u # t => pc'[u] = "idle"
  BY <1>0, <1>1 DEF Goto, TypeOK, Place
<1>3. Recovered' = Recovered /\ Recovered = live
  BY <1>0 DEF Recovered, TypeOK
<1>4. TypeOK'
  <2>1. {} \in SUBSET File
    OBVIOUS
  <2>2. \E S \in SUBSET File : staged' \in [S -> Content]
    BY <2>1
  <2> QED BY <1>0, <1>2, <2>2 DEF TypeOK, Place, logVars
<1>5. AtRest' /\ Apart'
  BY <1>0, <1>1, <1>2 DEF AtRest, Apart, Proc, Quiet, JournalInv, Cleaning
<1>6. Consistent'
  BY <1>3 DEF JournalInv, Consistent, logVars
<1>7. \A u \in Proc : Journal(u)'
  BY <1>0, <1>1, <1>2 DEF Journal
<1>8. \A v \in Writer : Computed(v)'
  <2>1. ASSUME NEW v \in Writer, v # t PROVE Computed(v)'
    BY <1>2, <2>1 DEF Computed, Preparing, Applying, Cleaning, Proc
  <2>2. ASSUME NEW v \in Writer, v = t PROVE Computed(v)'
    BY <1>2, <1>3, <2>2
    DEF JournalInv, Computed, Preparing, Applying, Cleaning, logVars
  <2> QED BY <2>1, <2>2
<1> QED BY <1>3, <1>4, <1>5, <1>6, <1>7, <1>8 DEF JournalInv

\* The marker goes first, when there is nothing left that it commits.
LEMMA RemoveMarkerKeeps ==
  ASSUME Undisturbed, JournalInv, NEW t \in Proc, RemoveMarker(t)
  PROVE  JournalInv' /\ Recovered' = Recovered /\ acked' = acked
<1>1. pc[t] = "unmark" /\ Goto(t, "unlist") /\ TypeOK /\ pc'[t] = "unlist"
  BY DEF RemoveMarker, Goto, JournalInv, TypeOK
<1>2. Left(TRUE, TRUE, TRUE) /\ DOMAIN staged = {} /\ at[t] = 1
  BY <1>1 DEF JournalInv, Journal
<1>3. commit' = FALSE
  BY DEF RemoveMarker, Removed, Undisturbed
<1>4. UNCHANGED <<live, staged, pending, txdir, manifest, at, job, buffer, logVars, crashes>>
  BY DEF RemoveMarker
<1>5. Left(TRUE, TRUE, FALSE)' /\ DOMAIN staged' = {}
  BY <1>2, <1>3, <1>4 DEF Left
<1>6. Journal(t)'
  BY <1>1, <1>2, <1>4, <1>5 DEF Journal
<1>7. staged' \in [{} -> Content]
  BY <1>1, <1>2, <1>4 DEF TypeOK
<1>8. pending' \in BOOLEAN /\ manifest' \in BOOLEAN /\ commit' \in BOOLEAN
  BY <1>1, <1>3, <1>4 DEF TypeOK
<1> QED BY <1>1, <1>2, <1>4, <1>6, <1>7, <1>8, CleanUp DEF Cleaning, logVars

\* Then the manifest,
LEMMA RemoveManifestKeeps ==
  ASSUME Undisturbed, JournalInv, NEW t \in Proc, RemoveManifest(t)
  PROVE  JournalInv' /\ Recovered' = Recovered /\ acked' = acked
<1>1. pc[t] = "unlist" /\ Goto(t, "unstage") /\ TypeOK /\ pc'[t] = "unstage"
  BY DEF RemoveManifest, Goto, JournalInv, TypeOK
<1>2. Left(TRUE, TRUE, FALSE) /\ DOMAIN staged = {} /\ at[t] = 1
  BY <1>1 DEF JournalInv, Journal
<1>3. manifest' = FALSE
  BY DEF RemoveManifest, Removed, Undisturbed
<1>4. UNCHANGED <<live, staged, pending, txdir, commit, at, job, buffer, logVars, crashes>>
  BY DEF RemoveManifest
<1>5. Left(TRUE, FALSE, FALSE)' /\ DOMAIN staged' = {}
  BY <1>2, <1>3, <1>4 DEF Left
<1>6. Journal(t)'
  BY <1>1, <1>2, <1>4, <1>5 DEF Journal
<1>7. staged' \in [{} -> Content]
  BY <1>1, <1>2, <1>4 DEF TypeOK
<1>8. pending' \in BOOLEAN /\ manifest' \in BOOLEAN /\ commit' \in BOOLEAN
  BY <1>1, <1>3, <1>4 DEF TypeOK
<1> QED BY <1>1, <1>2, <1>4, <1>6, <1>7, <1>8, CleanUp DEF Cleaning, logVars

\* and the directory of the staged files.
LEMMA RemovePendingKeeps ==
  ASSUME Undisturbed, JournalInv, NEW t \in Proc, RemovePending(t)
  PROVE  JournalInv' /\ Recovered' = Recovered /\ acked' = acked
<1>1. pc[t] = "unstage" /\ Goto(t, "rmdir") /\ TypeOK /\ pc'[t] = "rmdir"
  BY DEF RemovePending, Goto, JournalInv, TypeOK
<1>2. Left(TRUE, FALSE, FALSE) /\ DOMAIN staged = {} /\ at[t] = 1
  BY <1>1 DEF JournalInv, Journal
<1>3. pending' = FALSE /\ staged' = NoFile
  BY DEF RemovePending, Removed, Undisturbed
<1>4. UNCHANGED <<live, txdir, manifest, commit, at, job, buffer, logVars, crashes>>
  BY DEF RemovePending
<1>5. Left(FALSE, FALSE, FALSE)'
  BY <1>2, <1>3, <1>4 DEF Left
<1>6. staged' \in [{} -> Content] /\ DOMAIN staged' = {}
  BY <1>3 DEF NoFile
<1>7. Journal(t)'
  BY <1>1, <1>2, <1>4, <1>5, <1>6 DEF Journal
<1>8. pending' \in BOOLEAN /\ manifest' \in BOOLEAN /\ commit' \in BOOLEAN
  BY <1>1, <1>3, <1>4 DEF TypeOK
<1> QED BY <1>1, <1>2, <1>4, <1>6, <1>7, <1>8, CleanUp DEF Cleaning, logVars

\* The directory is gone and the command returns Ok: its patch is in the files.
LEMMA RemoveTxDirKeeps ==
  ASSUME Undisturbed, JournalInv, NEW t \in Proc, RemoveTxDir(t)
  PROVE  /\ JournalInv' /\ Recovered' = Recovered
         /\ \/ acked' = acked
            \/ /\ t \in Writer /\ acked' = acked \cup {job[t]}
               /\ \A f \in File : job[t] \in Recovered[f]
<1>0. pc[t] = "rmdir" /\ TypeOK /\ at[t] = 1
  BY DEF RemoveTxDir, JournalInv, Journal
<1>1. \A u \in Proc : pc[u] \notin Starting /\ at[u] = 1 /\ (u # t => pc[u] = "idle")
  BY <1>0, OnlyOne DEF JournalInv, Journal
<1>2. Left(FALSE, FALSE, FALSE) /\ DOMAIN staged = {}
  BY <1>0 DEF JournalInv, Journal
<1>3. /\ Goto(t, "idle") /\ UNCHANGED <<live, staged, pending, manifest, commit, at, job, buffer,
                                        begun, failed, crashes>>
      /\ acked' = IF t = boot THEN acked ELSE acked \cup {job[t]}
  BY DEF RemoveTxDir, Return
<1>4. txdir' = FALSE
  BY <1>2 DEF RemoveTxDir, RmDir, Removed, Undisturbed, Left
<1>5. pc' \in [Proc -> Place] /\ \A u \in Proc : pc'[u] = "idle"
  BY <1>0, <1>1, <1>3 DEF Goto, TypeOK, Place
<1>6. Recovered' = Recovered
  BY <1>3 DEF Recovered
<1>7. Empty'
  BY <1>2, <1>3, <1>4 DEF Empty, Left
<1>8. t # boot => /\ t \in Writer /\ job[t] \in begun
                  /\ \A f \in File : job[t] \in Recovered[f]
  BY <1>0 DEF Proc, JournalInv, Computed, Cleaning
<1>9. TypeOK'
  <2>1. txdir' \in BOOLEAN
    BY <1>4
  <2> QED BY <1>0, <1>3, <1>5, <1>8, <2>1 DEF TypeOK, Place
<1>10. AtRest' /\ Apart'
  BY <1>5, <1>7 DEF AtRest, Apart, Proc
<1>11. Consistent'
  BY <1>3, <1>6, <1>8 DEF JournalInv, Consistent
<1>12. \A u \in Proc : Journal(u)'
  BY <1>1, <1>3, <1>5 DEF Journal
<1>13. \A v \in Writer : Computed(v)'
  BY <1>5 DEF Computed, Preparing, Applying, Cleaning, Proc
<1> QED BY <1>3, <1>6, <1>8, <1>9, <1>10, <1>11, <1>12, <1>13 DEF JournalInv

\* A kill leaves what is on the disk, and with it what a reader finds.
LEMMA CrashKeeps ==
  ASSUME Undisturbed, JournalInv, Crash
  PROVE  JournalInv' /\ Recovered' = Recovered /\ acked' = acked
<1> USE JournalAssumption
<1>0. TypeOK /\ 1 \in File
  BY DEF JournalInv, File
<1>1. /\ pc' \in [Proc -> Place] /\ at' \in [Proc -> File]
      /\ pc'[boot] = "down" /\ \A w \in Writer : pc'[w] = "idle"
      /\ \A u \in Proc : pc'[u] \in {"down", "idle"} /\ at'[u] = 1
  BY <1>0 DEF Crash, Proc, Place
<1>2. UNCHANGED <<diskVars, job, buffer, logVars>> /\ crashes' \in 0 .. MaxCrash
  BY <1>0 DEF Crash, TypeOK
<1>3. Recovered' = Recovered
  BY <1>2 DEF Recovered, diskVars
<1>4. TypeOK'
  BY <1>0, <1>1, <1>2 DEF TypeOK, Place, diskVars, logVars
<1>5. commit => Left(TRUE, TRUE, TRUE)
  <2>1. CASE Quiet
    BY <2>1 DEF JournalInv, AtRest, Empty
  <2>2. CASE pc[boot] \in Starting
    BY <2>2 DEF JournalInv, AtRest
  <2>3. CASE ~Quiet /\ pc[boot] \notin Starting
    <3>1. PICK t \in Proc : pc[t] # "idle"
      BY <2>3 DEF Quiet
    <3>2. pc[t] \in {"read", "open", "stage", "manifest", "commit", "rename", "unmark", "unlist",
                     "unstage", "rmdir"}
      BY <1>0, <2>3, <3>1 DEF TypeOK, JournalInv, Apart, Proc, Applying, Cleaning
    <3>3. Journal(t)
      BY DEF JournalInv
    <3> QED BY <3>2, <3>3 DEF Journal, Left, Empty
  <2> QED BY <2>1, <2>2, <2>3
<1>6. AtRest' /\ Apart'
  BY <1>1, <1>2, <1>5 DEF AtRest, Apart, Proc, Quiet, Left, diskVars
<1>7. Consistent'
  BY <1>2, <1>3 DEF JournalInv, Consistent, diskVars, logVars
<1>8. \A u \in Proc : Journal(u)'
  BY <1>1 DEF Journal
<1>9. \A v \in Writer : Computed(v)'
  BY <1>1 DEF Computed, Preparing, Applying, Cleaning
<1> QED BY <1>2, <1>3, <1>4, <1>6, <1>7, <1>8, <1>9 DEF JournalInv, logVars

\* A process that starts goes on to the recovery.
LEMMA StartKeeps ==
  ASSUME Undisturbed, JournalInv, Start
  PROVE  JournalInv' /\ Recovered' = Recovered /\ acked' = acked
<1> USE JournalAssumption
<1>0. boot \in Proc /\ pc[boot] = "down" /\ TypeOK /\ at[boot] = 1
  BY DEF Start, Proc, JournalInv, Journal
<1>1. \A u \in Proc : u # boot => pc[u] = "idle" /\ at[u] = 1
  BY <1>0, OnlyOne DEF JournalInv, Journal
<1>2. Goto(boot, "recover") /\ UNCHANGED <<diskVars, at, job, buffer, logVars, crashes>>
  BY DEF Start, Undisturbed
<1>3. /\ pc' \in [Proc -> Place] /\ pc'[boot] = "recover"
      /\ \A u \in Proc : u # boot => pc'[u] = "idle"
  BY <1>0, <1>1, <1>2 DEF Goto, TypeOK, Place, Starting
<1>4. Recovered' = Recovered
  BY <1>2 DEF Recovered, diskVars
<1>5. TypeOK'
  BY <1>0, <1>2, <1>3 DEF TypeOK, Place, diskVars, logVars
<1>6. AtRest' /\ Apart'
  <2>1. commit' => Left(TRUE, TRUE, TRUE)'
    BY <1>0, <1>2 DEF JournalInv, AtRest, Left, Starting, diskVars
  <2> QED BY <1>0, <1>3, <2>1 DEF AtRest, Apart, Proc, Quiet, Starting
<1>7. Consistent'
  BY <1>2, <1>4 DEF JournalInv, Consistent, diskVars, logVars
<1>8. \A u \in Proc : Journal(u)'
  BY <1>0, <1>1, <1>2, <1>3 DEF Journal
<1>9. \A v \in Writer : Computed(v)'
  BY <1>3 DEF Computed, Preparing, Applying, Cleaning, Proc
<1> QED BY <1>2, <1>4, <1>5, <1>6, <1>7, <1>8, <1>9 DEF JournalInv, logVars

\* The recovery picks up at the marker where the killed task was.
LEMMA RecoverCommittedKeeps ==
  ASSUME Undisturbed, JournalInv, RecoverCommitted
  PROVE  JournalInv' /\ Recovered' = Recovered /\ acked' = acked
<1> USE JournalAssumption
<1>0. boot \in Proc /\ pc[boot] = "recover" /\ TypeOK /\ at[boot] = 1
  BY DEF RecoverCommitted, Proc, JournalInv, Journal
<1>1. \A u \in Proc : u # boot => pc[u] = "idle" /\ at[u] = 1
  BY <1>0, OnlyOne DEF JournalInv, Journal
<1>2. Goto(boot, "rename") /\ UNCHANGED <<diskVars, at, job, buffer, logVars, crashes>>
  BY DEF RecoverCommitted
<1>3. /\ pc' \in [Proc -> Place] /\ pc'[boot] = "rename"
      /\ \A u \in Proc : u # boot => pc'[u] = "idle"
  BY <1>0, <1>1, <1>2 DEF Goto, TypeOK, Place, Applying
<1>4. Left(TRUE, TRUE, TRUE)' /\ DOMAIN staged' \subseteq 1 .. N
  <2>1. Left(TRUE, TRUE, TRUE)
    BY <1>0 DEF RecoverCommitted, JournalInv, AtRest
  <2>2. DOMAIN staged \subseteq 1 .. N
    BY <1>0 DEF TypeOK, File
  <2> QED BY <1>2, <2>1, <2>2 DEF Left, diskVars
<1>5. Recovered' = Recovered
  BY <1>2 DEF Recovered, diskVars
<1>6. TypeOK'
  BY <1>0, <1>2, <1>3 DEF TypeOK, Place, diskVars, logVars
<1>7. AtRest' /\ Apart'
  BY <1>0, <1>1, <1>3 DEF AtRest, Apart, Proc, Quiet, Applying
<1>8. Consistent'
  BY <1>2, <1>5 DEF JournalInv, Consistent, diskVars, logVars
<1>9. \A u \in Proc : Journal(u)'
  BY <1>0, <1>1, <1>2, <1>3, <1>4 DEF Journal
<1>10. \A v \in Writer : Computed(v)'
  BY <1>3 DEF Computed, Preparing, Applying, Cleaning, Proc
<1> QED BY <1>2, <1>5, <1>6, <1>7, <1>8, <1>9, <1>10 DEF JournalInv, logVars

\* Without a marker nothing of the transaction had been found by a reader.
LEMMA RecoverUncommittedKeeps ==
  ASSUME Undisturbed, JournalInv, RecoverUncommitted
  PROVE  JournalInv' /\ Recovered' = Recovered /\ acked' = acked
<1> USE JournalAssumption
<1>0. boot \in Proc /\ pc[boot] = "recover" /\ TypeOK
  BY DEF RecoverUncommitted, Proc, JournalInv
<1>1. \A u \in Proc : at[u] = 1 /\ (u # boot => pc[u] = "idle")
  BY <1>0, OnlyOne DEF JournalInv, Journal
<1>2. Goto(boot, "idle") /\ UNCHANGED <<live, commit, at, job, buffer, logVars, crashes>>
  BY DEF RecoverUncommitted
<1>3. pc' \in [Proc -> Place] /\ \A u \in Proc : pc'[u] = "idle"
  BY <1>0, <1>1, <1>2 DEF Goto, TypeOK, Place
<1>4. commit = FALSE /\ commit' = FALSE
  <2>1. commit => manifest
    BY <1>0 DEF JournalInv, AtRest, Left
  <2> QED BY <1>0, <1>2, <2>1 DEF RecoverUncommitted, TypeOK
<1>5. pending' = FALSE /\ manifest' = FALSE /\ staged' = NoFile
  BY DEF RecoverUncommitted, Removed, Undisturbed
<1>6. txdir' = FALSE
  BY <1>4, <1>5 DEF RecoverUncommitted, RmDir, Removed, Undisturbed
<1>7. Empty' /\ staged' \in [{} -> Content] /\ DOMAIN staged' = {}
  BY <1>4, <1>5, <1>6 DEF Empty, NoFile
<1>8. Recovered' = Recovered
  BY <1>2, <1>4 DEF Recovered
<1>9. TypeOK'
  <2>1. {} \in SUBSET File
    OBVIOUS
  <2>2. \E S \in SUBSET File : staged' \in [S -> Content]
    BY <1>7, <2>1
  <2>3. pending' \in BOOLEAN /\ manifest' \in BOOLEAN /\ txdir' \in BOOLEAN /\ commit' \in BOOLEAN
    BY <1>4, <1>5, <1>6
  <2> QED BY <1>0, <1>2, <1>3, <2>2, <2>3 DEF TypeOK, Place, logVars
<1>10. AtRest' /\ Apart'
  BY <1>0, <1>3, <1>7 DEF AtRest, Apart, Proc
<1>11. Consistent'
  BY <1>2, <1>7, <1>8 DEF JournalInv, Consistent, logVars
<1>12. \A u \in Proc : Journal(u)'
  BY <1>1, <1>2, <1>3 DEF Journal
<1>13. \A v \in Writer : Computed(v)'
  BY <1>3 DEF Computed, Preparing, Applying, Cleaning, Proc
<1> QED BY <1>2, <1>8, <1>9, <1>10, <1>11, <1>12, <1>13 DEF JournalInv, logVars

\* Every step keeps the invariant, and the atomic store sees a patch applied, a
\* patch acknowledged, or nothing.
LEMMA JournalStep ==
  ASSUME Undisturbed, JournalInv, [Next]_vars
  PROVE  JournalInv' /\ [Atomic!Next]_(Atomic!vars)
<1>1. CASE UNCHANGED vars
  <2>1. UNCHANGED <<live, staged, pending, txdir, manifest, commit, pc, at, job, buffer, begun,
                    acked, failed, crashes, Recovered>>
    BY <1>1 DEF vars, diskVars, taskVars, logVars, Recovered
  <2>2. TypeOK' /\ AtRest' /\ Apart'
    BY <2>1 DEF JournalInv, TypeOK, AtRest, Apart, Quiet, Empty, Left
  <2>3. Consistent' /\ (\A t \in Proc : Journal(t)') /\ (\A w \in Writer : Computed(w)')
    BY <2>1 DEF JournalInv, Consistent, Journal, Computed, Empty, Left
  <2> QED BY <2>1, <2>2, <2>3 DEF JournalInv, Atomic!vars
<1>2. ASSUME JournalInv', Recovered' = Recovered, acked' = acked
      PROVE  JournalInv' /\ [Atomic!Next]_(Atomic!vars)
  BY <1>2 DEF Atomic!vars
<1>3. CASE Booting
  BY <1>2, <1>3, StartKeeps, RecoverCommittedKeeps, RecoverUncommittedKeeps DEF Booting
<1>4. CASE Crash
  BY <1>2, <1>4, CrashKeeps
<1>5. ASSUME NEW w \in Writer, Command(w) PROVE JournalInv' /\ [Atomic!Next]_(Atomic!vars)
  <2>1. CASE CreateMarker(w)
    <3>1. job[w] \in Patch
      BY DEF JournalInv, TypeOK
    <3>2. Atomic!Apply(job[w])
      BY <2>1, CreateMarkerKeeps DEF Atomic!Apply, Atomic!File, File
    <3> QED BY <2>1, <3>1, <3>2, CreateMarkerKeeps DEF Atomic!Next
  <2>2. CASE \E p \in Patch : Begin(w, p)
    BY <2>2, <1>2, BeginKeeps
  <2>3. CASE Read(w)
    BY <2>3, <1>2, ReadKeeps
  <2>4. CASE OpenPending(w)
    BY <2>4, <1>2, OpenPendingKeeps
  <2>5. CASE Stage(w)
    BY <2>5, <1>2, StageKeeps
  <2>6. CASE WriteManifest(w)
    BY <2>6, <1>2, WriteManifestKeeps
  <2> QED BY <1>5, <2>1, <2>2, <2>3, <2>4, <2>5, <2>6 DEF Command
<1>6. ASSUME NEW t \in Proc, Landing(t) PROVE JournalInv' /\ [Atomic!Next]_(Atomic!vars)
  <2>1. CASE RemoveTxDir(t)
    <3>1. JournalInv' /\ Recovered' = Recovered
      BY <2>1, RemoveTxDirKeeps
    <3>2. CASE acked' = acked
      BY <1>2, <3>1, <3>2
    <3>3. CASE t \in Writer /\ acked' = acked \cup {job[t]} /\ \A f \in File : job[t] \in Recovered[f]
      <4>1. job[t] \in Patch
        BY <3>3 DEF JournalInv, TypeOK
      <4>2. Atomic!Ack(job[t])
        BY <3>1, <3>3 DEF Atomic!Ack, Atomic!File, File
      <4> QED BY <3>1, <4>1, <4>2 DEF Atomic!Next
    <3> QED BY <2>1, <3>2, <3>3, RemoveTxDirKeeps
  <2> QED BY <1>2, <1>6, <2>1, RenameKeeps, RemoveMarkerKeeps, RemoveManifestKeeps,
             RemovePendingKeeps DEF Landing
<1> QED BY <1>1, <1>3, <1>4, <1>5, <1>6 DEF Next

\* The states of one writer that is recovered on every start, of kill after kill.
LEMMA JournalInvariant == ASSUME Undisturbed PROVE Spec => []JournalInv
<1>1. Init => JournalInv
  BY InitKeeps
<1>2. JournalInv /\ [Next]_vars => JournalInv'
  BY JournalStep
<1> QED BY <1>1, <1>2, PTL DEF Spec

\* One writer at a time, recovered on every start, implements the atomic store:
\* wherever a kill strikes, a patch is in all files a recovered reader finds or
\* in none, is never undone, and an acknowledged patch is there.
THEOREM JournalImplementsAtomic == ASSUME Undisturbed PROVE Spec => ImplementsAtomic
<1>1. Init => Atomic!Init
  BY DEF Init, NoFile, Recovered, Atomic!Init, Atomic!File, File
<1>2. JournalInv /\ [Next]_vars => [Atomic!Next]_(Atomic!vars)
  BY JournalStep
<1> QED BY <1>1, <1>2, JournalInvariant, PTL DEF Spec, ImplementsAtomic, Atomic!Spec

\* Between commands the files themselves agree, hold every acknowledged patch,
\* and nothing of the journal is left (what recover_atomic_writes is for).
THEOREM QuietIsWholeHolds == ASSUME Undisturbed PROVE Spec => []QuietIsWhole
<1>1. JournalInv => QuietIsWhole
  <2> SUFFICES ASSUME JournalInv, Quiet PROVE QuietIsWhole
    BY DEF QuietIsWhole
  <2>1. Empty /\ Recovered = live
    BY DEF JournalInv, AtRest, Empty, Recovered, TypeOK
  <2> QED BY <2>1 DEF JournalInv, Consistent, QuietIsWhole, Empty
<1> QED BY <1>1, JournalInvariant, PTL

\* What a kill left of a transaction never makes a later command fail.
THEOREM NoneFailsHolds == ASSUME Undisturbed PROVE Spec => []NoneFails
<1>1. JournalInv => NoneFails
  BY DEF JournalInv, Consistent, NoneFails
<1> QED BY <1>1, JournalInvariant, PTL
-----------------------------------------------------------------------------
(* Any number of writers, recovered or not, with any calls failing. *)

\* A command at work is one that began.
Began == \A w \in Writer : pc[w] # "idle" => job[w] \in begun

\* The marker is there while a task is at the live files, and it is the only one.
Guarded ==
  /\ OneLands
  /\ \A t \in Proc : pc[t] \in Applying => commit
  /\ \A w \in Writer : pc[w] \notin Starting /\ (pc[w] # "idle" => pc[boot] = "idle")

\* No step of a task moves another one, and only those that make or remove the
\* marker, or a kill, take it to or from the live files.
LEMMA StepsGuard ==
  ASSUME TypeOK, Guarded, [Next]_vars
  PROVE  Guarded'
<1>0. pc \in [Proc -> Place] /\ boot \in Proc /\ boot \notin Writer
  BY JournalAssumption DEF TypeOK, Place, Proc
<1>1. CASE pc' = pc /\ commit' = commit
  BY <1>1 DEF Guarded, OneLands
<1>2. ASSUME NEW t \in Proc, NEW l \in Place \ Starting, Goto(t, l), commit' = commit,
             l \in Applying => pc[t] \in Applying,
             l # "idle" /\ t \in Writer => pc[boot] = "idle",
             t = boot => l = "idle" \/ pc[boot] # "idle"
      PROVE  Guarded'
  <2>1. \A u \in Proc : pc'[u] = IF u = t THEN l ELSE pc[u]
    BY <1>0, <1>2 DEF Goto
  <2> QED BY <1>0, <1>2, <2>1 DEF Guarded, OneLands, Proc, Applying
<1>3. CASE Crash
  BY <1>0, <1>3 DEF Crash, Guarded, OneLands, Applying, Proc
<1>4. CASE Booting
  <2>1. CASE RecoverCommitted
    <3>1. \A u \in Proc : pc'[u] = IF u = boot THEN "rename" ELSE pc[u]
      BY <1>0, <2>1 DEF RecoverCommitted, Goto
    <3>2. commit' = commit /\ commit
      BY <2>1 DEF RecoverCommitted, diskVars
    <3>3. \A w \in Writer : pc[w] = "idle"
      BY <2>1 DEF RecoverCommitted, Guarded
    <3> QED BY <1>0, <3>1, <3>2, <3>3 DEF Guarded, OneLands, Proc, Applying
  <2>2. CASE Start
    <3>1. /\ \A w \in Writer : pc'[w] = pc[w] /\ pc[w] = "idle"
          /\ pc[boot] \notin Applying /\ pc'[boot] \notin Applying /\ commit' = commit
      BY <1>0, <2>2 DEF Start, Goto, Guarded, Applying, diskVars
    <3> QED BY <1>0, <3>1 DEF Guarded, OneLands, Proc
  <2> QED BY <1>0, <1>2, <1>4, <2>1, <2>2
          DEF Booting, RecoverUncommitted, diskVars, Place, Applying
<1>5. ASSUME NEW w \in Writer, Command(w) PROVE Guarded'
  <2>0. w \in Proc
    BY DEF Proc
  <2>1. CASE CreateMarker(w)
    <3>1. CASE Fail(w)
      BY <1>0, <1>2, <2>0, <3>1 DEF Fail, diskVars, Place, Applying
    <3>2. CASE ~commit /\ commit' = TRUE /\ Goto(w, "rename")
      <4>1. \A u \in Proc : pc'[u] = IF u = w THEN "rename" ELSE pc[u]
        BY <1>0, <3>2 DEF Goto
      <4>2. \A u \in Proc : pc[u] \notin Applying
        BY <3>2 DEF Guarded
      <4>3. pc[w] = "commit" /\ pc[boot] = "idle"
        BY <2>1 DEF CreateMarker, Guarded
      <4>4. OneLands' /\ \A t \in Proc : pc'[t] \in Applying => commit'
        BY <3>2, <4>1, <4>2 DEF OneLands
      <4>5. \A v \in Writer : pc'[v] \notin Starting /\ (pc'[v] # "idle" => pc'[boot] = "idle")
        BY <1>0, <4>1, <4>3 DEF Guarded, Proc
      <4> QED BY <4>4, <4>5 DEF Guarded
    <3> QED BY <2>1, <3>1, <3>2 DEF CreateMarker
  <2>2. CASE \E p \in Patch : Begin(w, p)
    BY <1>0, <1>2, <2>0, <2>2 DEF Begin, diskVars, Place, Applying
  <2>3. CASE Read(w)
    BY <1>0, <1>1, <1>2, <2>0, <2>3 DEF Read, Advance, diskVars, Place, Applying, Guarded
  <2>4. CASE OpenPending(w)
    BY <1>0, <1>2, <2>0, <2>4 DEF OpenPending, Place, Applying, Guarded
  <2>5. CASE Stage(w)
    BY <1>0, <1>1, <1>2, <2>0, <2>5 DEF Stage, Advance, Fail, diskVars, Place, Applying, Guarded
  <2>6. CASE WriteManifest(w)
    BY <1>0, <1>2, <2>0, <2>6 DEF WriteManifest, Fail, diskVars, Place, Applying, Guarded
  <2> QED BY <1>5, <2>1, <2>2, <2>3, <2>4, <2>5, <2>6 DEF Command
<1>6. ASSUME NEW t \in Proc, Landing(t) PROVE Guarded'
  <2>1. CASE RemoveMarker(t)
    <3>1. \A u \in Proc : pc'[u] = IF u = t THEN "unlist" ELSE pc[u]
      BY <1>0, <2>1 DEF RemoveMarker, Goto
    <3>2. pc[t] = "unmark" /\ \A u \in Proc : u # t => pc[u] \notin Applying
      BY <2>1 DEF RemoveMarker, Guarded, OneLands, Applying
    <3> QED BY <1>0, <3>1, <3>2 DEF Guarded, OneLands, Proc, Applying
  <2>2. CASE Rename(t)
    BY <1>0, <1>1, <1>2, <2>2 DEF Rename, Advance, Fail, diskVars, Place, Applying, Guarded
  <2>3. CASE RemoveManifest(t)
    BY <1>0, <1>2, <2>3 DEF RemoveManifest, Place, Applying, Cleaning, Guarded
  <2>4. CASE RemovePending(t)
    BY <1>0, <1>2, <2>4 DEF RemovePending, Place, Applying, Cleaning, Guarded
  <2>5. CASE RemoveTxDir(t)
    BY <1>0, <1>2, <2>5 DEF RemoveTxDir, Return, Place, Applying, Guarded
  <2> QED BY <1>6, <2>1, <2>2, <2>3, <2>4, <2>5 DEF Landing
<1>7. CASE UNCHANGED vars
  BY <1>1, <1>7 DEF vars, diskVars, taskVars
<1> QED BY <1>3, <1>4, <1>5, <1>6, <1>7 DEF Next

\* The empty staging directory is of the type of one.
LEMMA NoFileTyped == \E S \in SUBSET File : NoFile \in [S -> Content]
<1>1. {} \in SUBSET File /\ NoFile \in [{} -> Content]
  BY DEF NoFile
<1> QED BY <1>1

\* The types of the variables a loop step, a jump and an early return change.
LEMMA MovesType ==
  ASSUME TypeOK, Began, NEW t \in Proc, NEW l \in Place
  PROVE  /\ Advance(t, l) =>
              /\ pc' \in [Proc -> Place] /\ at' \in [Proc -> File]
              /\ \A w \in Writer : pc'[w] = pc[w] \/ (w = t /\ pc'[w] = l)
         /\ Goto(t, l) =>
              /\ pc' \in [Proc -> Place]
              /\ \A w \in Writer : pc'[w] = pc[w] \/ (w = t /\ pc'[w] = l)
         /\ Fail(t) /\ pc[t] # "idle" => TypeOK' /\ Began'
<1> USE JournalAssumption
<1>0. /\ pc \in [Proc -> Place] /\ Writer \subseteq Proc /\ 1 \in File /\ "idle" \in Place
  BY DEF TypeOK, Place, Proc, File
<1>1. ASSUME Goto(t, l)
      PROVE  pc' \in [Proc -> Place] /\ \A w \in Writer : pc'[w] = pc[w] \/ (w = t /\ pc'[w] = l)
  BY <1>0, <1>1 DEF Goto
<1>2. ASSUME Fail(t), pc[t] # "idle" PROVE TypeOK' /\ Began'
  <2>1. pc' \in [Proc -> Place] /\ \A w \in Writer : pc'[w] = pc[w] \/ pc'[w] = "idle"
    BY <1>0, <1>2 DEF Fail, Goto
  <2>2. at' \in [Proc -> File]
    BY <1>0, <1>2 DEF Fail, TypeOK
  <2>3. failed' \subseteq begun
    BY <1>2 DEF Fail, TypeOK, Began, Proc
  <2>4. UNCHANGED <<live, staged, pending, txdir, manifest, commit, job, buffer, begun, acked, crashes>>
    BY <1>2 DEF Fail, diskVars
  <2> QED BY <2>1, <2>2, <2>3, <2>4 DEF TypeOK, Began, Place
<1> QED BY <1>0, <1>1, <1>2, AdvanceMoves

\* The types hold whatever fails: a call that fails leaves everything as it was.
LEMMA StepsType ==
  ASSUME TypeOK, Began, Guarded, [Next]_vars
  PROVE  TypeOK' /\ Began'
<1> USE JournalAssumption
<1>0. /\ pc \in [Proc -> Place] /\ boot \in Proc /\ boot \notin Writer /\ Writer \subseteq Proc
      /\ 1 \in File
  BY DEF TypeOK, Place, Proc, File
<1>1. CASE Crash
  <2>1. pc' \in [Proc -> Place] /\ at' \in [Proc -> File] /\ \A w \in Writer : pc'[w] = "idle"
    BY <1>0, <1>1 DEF Crash, Place
  <2>2. crashes' \in 0 .. MaxCrash /\ UNCHANGED <<diskVars, job, buffer, logVars>>
    BY <1>1 DEF Crash, TypeOK
  <2> QED BY <2>1, <2>2 DEF TypeOK, Began, Place, diskVars, logVars
<1>2. CASE Booting
  <2>1. CASE RecoverUncommitted
    <3>1. Goto(boot, "idle") /\ UNCHANGED <<live, commit, at, job, buffer, logVars, crashes>>
      BY <2>1 DEF RecoverUncommitted
    <3>2. pending' \in BOOLEAN /\ manifest' \in BOOLEAN
      BY <2>1 DEF RecoverUncommitted, Removed, TypeOK
    <3>3. txdir' \in BOOLEAN
      BY <2>1 DEF RecoverUncommitted, RmDir, Removed, TypeOK
    <3>4. \E S \in SUBSET File : staged' \in [S -> Content]
      BY <2>1, NoFileTyped DEF RecoverUncommitted, TypeOK
    <3> QED BY <1>0, <3>1, <3>2, <3>3, <3>4, MovesType DEF TypeOK, Began, Place, logVars
  <2> QED BY <1>0, <1>2, <2>1, MovesType
          DEF Booting, Start, RecoverCommitted, TypeOK, Began, Place, Applying, diskVars, logVars
<1>3. ASSUME NEW w \in Writer, Command(w) PROVE TypeOK' /\ Began'
  <2>1. ASSUME NEW p \in Patch, Begin(w, p) PROVE TypeOK' /\ Began'
    BY <1>0, <2>1 DEF Begin, Goto, TypeOK, Began, diskVars
  <2>2. CASE Read(w)
    <3>1. live[at[w]] \cup {job[w]} \in Content
      BY <1>0 DEF TypeOK, Content
    <3>2. buffer' \in [Writer -> [File -> Content]]
      BY <1>0, <2>2, <3>1 DEF Read, TypeOK
    <3>3. UNCHANGED <<diskVars, job, logVars, crashes>> /\ Advance(w, "open") /\ pc[w] = "read"
      BY <2>2 DEF Read
    <3> QED BY <1>0, <3>2, <3>3, MovesType DEF TypeOK, Began, Place, diskVars, logVars
  <2>3. CASE OpenPending(w)
    <3>1. \E S \in SUBSET File : staged' \in [S -> Content]
      BY <2>3, NoFileTyped DEF OpenPending
    <3>2. /\ pending' = TRUE /\ txdir' = TRUE /\ Goto(w, "stage") /\ pc[w] = "open"
          /\ UNCHANGED <<live, manifest, commit, at, job, buffer, logVars, crashes>>
      BY <2>3 DEF OpenPending
    <3> QED BY <1>0, <3>1, <3>2, MovesType DEF TypeOK, Began, Place, logVars
  <2>4. CASE Stage(w)
    <3>1. CASE Fail(w)
      BY <1>0, <2>4, <3>1, MovesType DEF Stage, Place
    <3>2. CASE /\ staged' = Put(staged, at[w], buffer[w][at[w]]) /\ Advance(w, "manifest")
               /\ UNCHANGED <<live, pending, txdir, manifest, commit, job, buffer, logVars, crashes>>
      <4>1. \E S \in SUBSET File : staged' \in [S -> Content]
        <5>1. PICK S \in SUBSET File : staged \in [S -> Content]
          BY DEF TypeOK
        <5>2. at[w] \in File /\ buffer[w][at[w]] \in Content
          BY <1>0 DEF TypeOK
        <5>3. S \cup {at[w]} \in SUBSET File /\ staged' \in [S \cup {at[w]} -> Content]
          BY <3>2, <5>1, <5>2 DEF Put
        <5> QED BY <5>3
      <4> QED BY <1>0, <2>4, <3>2, <4>1, MovesType DEF Stage, TypeOK, Began, Place, logVars
    <3> QED BY <2>4, <3>1, <3>2 DEF Stage
  <2>5. CASE WriteManifest(w)
    <3>1. CASE Fail(w)
      BY <1>0, <2>5, <3>1, MovesType DEF WriteManifest, Place
    <3>2. CASE /\ manifest' = TRUE /\ Goto(w, "commit")
               /\ UNCHANGED <<live, staged, pending, txdir, commit, at, job, buffer, logVars, crashes>>
      <4>1. pc' \in [Proc -> Place] /\ Began'
        BY <1>0, <2>5, <3>2, MovesType DEF WriteManifest, Began, Place, logVars
      <4>2. TypeOK'
        BY <3>2, <4>1 DEF TypeOK, Place, logVars
      <4> QED BY <4>1, <4>2
    <3> QED BY <2>5, <3>1, <3>2 DEF WriteManifest
  <2>6. CASE CreateMarker(w)
    <3>1. CASE Fail(w)
      BY <1>0, <2>6, <3>1, MovesType DEF CreateMarker, Place
    <3>2. CASE /\ commit' = TRUE /\ Goto(w, "rename")
               /\ UNCHANGED <<live, staged, pending, txdir, manifest, at, job, buffer, logVars, crashes>>
      <4>1. pc' \in [Proc -> Place] /\ Began'
        BY <1>0, <2>6, <3>2, MovesType DEF CreateMarker, Began, Place, Applying, logVars
      <4>2. TypeOK'
        BY <3>2, <4>1 DEF TypeOK, Place, logVars
      <4> QED BY <4>1, <4>2
    <3> QED BY <2>6, <3>1, <3>2 DEF CreateMarker
  <2> QED BY <1>3, <2>1, <2>2, <2>3, <2>4, <2>5, <2>6 DEF Command
<1>4. ASSUME NEW t \in Proc, Landing(t) PROVE TypeOK' /\ Began'
  <2>1. CASE Rename(t)
    <3>1. CASE Fail(t)
      BY <1>0, <2>1, <3>1, MovesType DEF Rename, Place
    <3>2. CASE /\ IF at[t] \in DOMAIN staged
                  THEN /\ live' = [live EXCEPT ![at[t]] = staged[at[t]]]
                       /\ staged' = Drop(staged, at[t])
                  ELSE UNCHANGED <<live, staged>>
               /\ Advance(t, "unmark")
               /\ UNCHANGED <<pending, txdir, manifest, commit, job, buffer, logVars, crashes>>
      <4>1. PICK S \in SUBSET File : staged \in [S -> Content]
        BY DEF TypeOK
      <4>2. live' \in [File -> Content]
        BY <3>2, <4>1 DEF TypeOK
      <4>3. \E R \in SUBSET File : staged' \in [R -> Content]
        <5>1. CASE at[t] \in DOMAIN staged
          <6>1. S \ {at[t]} \in SUBSET File /\ staged' \in [S \ {at[t]} -> Content]
            BY <3>2, <4>1, <5>1 DEF Drop
          <6> QED BY <6>1
        <5> QED BY <3>2, <4>1, <5>1
      <4> QED BY <1>0, <2>1, <3>2, <4>2, <4>3, MovesType
              DEF Rename, TypeOK, Began, Place, Applying, logVars
    <3> QED BY <2>1, <3>1, <3>2 DEF Rename
  <2>2. CASE RemoveMarker(t)
    <3>1. commit' \in BOOLEAN
      BY <2>2 DEF RemoveMarker, Removed, TypeOK
    <3> QED BY <1>0, <2>2, <3>1, MovesType DEF RemoveMarker, TypeOK, Began, Place, Cleaning, logVars
  <2>3. CASE RemoveManifest(t)
    <3>1. manifest' \in BOOLEAN
      BY <2>3 DEF RemoveManifest, Removed, TypeOK
    <3> QED BY <1>0, <2>3, <3>1, MovesType DEF RemoveManifest, TypeOK, Began, Place, Cleaning, logVars
  <2>4. CASE RemovePending(t)
    <3>1. pending' \in BOOLEAN
      BY <2>4 DEF RemovePending, Removed, TypeOK
    <3>2. \E S \in SUBSET File : staged' \in [S -> Content]
      BY <2>4, NoFileTyped DEF RemovePending, TypeOK
    <3> QED BY <1>0, <2>4, <3>1, <3>2, MovesType DEF RemovePending, TypeOK, Began, Place, Cleaning, logVars
  <2>5. CASE RemoveTxDir(t)
    <3>1. txdir' \in BOOLEAN
      BY <2>5 DEF RemoveTxDir, RmDir, Removed, TypeOK
    <3>2. acked' \subseteq begun
      BY <2>5 DEF RemoveTxDir, Return, TypeOK, Began, Proc
    <3>3. /\ Goto(t, "idle")
          /\ UNCHANGED <<live, staged, pending, manifest, commit, at, job, buffer, begun, failed, crashes>>
      BY <2>5 DEF RemoveTxDir, Return
    <3> QED BY <1>0, <3>1, <3>2, <3>3, MovesType DEF TypeOK, Began, Place
  <2> QED BY <1>4, <2>1, <2>2, <2>3, <2>4, <2>5 DEF Landing
<1>5. CASE UNCHANGED vars
  BY <1>5 DEF vars, diskVars, taskVars, logVars, TypeOK, Began
<1> QED BY <1>1, <1>2, <1>3, <1>4, <1>5 DEF Next

\* What holds of the journal for any writers, faults and kills.
LEMMA AlwaysGuarded == Spec => [](TypeOK /\ Began /\ Guarded)
<1>1. Init => TypeOK /\ Began /\ Guarded
  <2> SUFFICES ASSUME Init PROVE TypeOK /\ Began /\ Guarded
    OBVIOUS
  <2>1. TypeOK
    BY InitKeeps DEF JournalInv
  <2>2. Began /\ Guarded
    BY DEF Init, Began, Guarded, OneLands, Applying, Proc
  <2> QED BY <2>1, <2>2
<1>2. TypeOK /\ Began /\ Guarded /\ [Next]_vars => (TypeOK /\ Began /\ Guarded)'
  BY StepsType, StepsGuard
<1> QED BY <1>1, <1>2, PTL DEF Spec

\* The marker admits one task at a time to the live files, however many
\* commands run at once, wherever they are killed and whatever fails.
THEOREM OneLandsHolds == Spec => []OneLands
BY AlwaysGuarded, PTL DEF Guarded

\* Type correctness, under the same conditions.
THEOREM JournalTyping == Spec => []TypeOK
BY AlwaysGuarded, PTL
-----------------------------------------------------------------------------
(* Any number of writers in a process that is never killed. *)

Unharmed == MaxCrash = 0 /\ Faults = {}

\* The marker belongs to a task that will remove it.
Held == (commit => \E t \in Proc : pc[t] \in Applying) /\ pc[boot] \notin Starting /\ crashes = 0

\* Only the step that removes the marker takes that task from the live files.
LEMMA HeldSteps ==
  ASSUME Unharmed, TypeOK, Guarded, Held, [Next]_vars
  PROVE  Held'
<1>0. pc \in [Proc -> Place] /\ boot \in Proc /\ Writer \subseteq Proc
  BY DEF TypeOK, Place, Proc
<1>1. ASSUME NEW t \in Proc, NEW l \in Place \ Starting, Goto(t, l) \/ pc' = pc,
             commit' = commit, crashes' = crashes, pc[t] \in Applying => pc' = pc \/ l \in Applying
      PROVE  Held'
  <2>1. \A u \in Proc : pc'[u] = pc[u] \/ (u = t /\ pc'[u] = l)
    BY <1>0, <1>1 DEF Goto
  <2>2. pc'[boot] \notin Starting /\ crashes' = 0
    BY <1>0, <1>1, <2>1 DEF Held
  <2>3. ASSUME commit' PROVE \E u \in Proc : pc'[u] \in Applying
    <3>1. PICK u \in Proc : pc[u] \in Applying
      BY <1>1, <2>3 DEF Held
    <3>2. pc'[u] \in Applying
      BY <1>0, <1>1, <2>1, <3>1
    <3> QED BY <3>2
  <2> QED BY <2>2, <2>3 DEF Held
<1>2. ~Crash /\ ~Booting
  BY JournalAssumption DEF Unharmed, Held, Crash, Booting, Start, RecoverCommitted, RecoverUncommitted
<1>3. ASSUME NEW w \in Writer, Command(w) PROVE Held'
  <2>1. CASE CreateMarker(w) /\ commit' = TRUE /\ Goto(w, "rename")
    <3>1. /\ \A u \in Proc : pc'[u] = IF u = w THEN "rename" ELSE pc[u]
          /\ crashes' = crashes /\ w \in Proc
      BY <1>0, <2>1 DEF CreateMarker, Goto, Fail
    <3>2. pc'[w] \in Applying /\ pc'[boot] \notin Starting
      BY <1>0, <3>1 DEF Applying, Held
    <3> QED BY <3>1, <3>2 DEF Held
  <2>2. CASE CreateMarker(w) /\ Fail(w)
    BY <1>0, <1>1, <2>2 DEF CreateMarker, Fail, diskVars, Place, Applying
  <2>3. CASE \E p \in Patch : Begin(w, p)
    BY <1>0, <1>1, <2>3 DEF Begin, diskVars, Place, Applying
  <2>4. CASE Read(w)
    BY <1>0, <1>1, <2>4 DEF Read, Advance, diskVars, Place, Applying
  <2>5. CASE OpenPending(w)
    BY <1>0, <1>1, <2>5 DEF OpenPending, Place, Applying
  <2>6. CASE Stage(w)
    BY <1>0, <1>1, <2>6 DEF Stage, Advance, Fail, diskVars, Place, Applying
  <2>7. CASE WriteManifest(w)
    BY <1>0, <1>1, <2>7 DEF WriteManifest, Fail, diskVars, Place, Applying
  <2> QED BY <1>3, <2>1, <2>2, <2>3, <2>4, <2>5, <2>6, <2>7 DEF Command, CreateMarker
<1>4. ASSUME NEW t \in Proc, Landing(t) PROVE Held'
  <2>1. CASE RemoveMarker(t)
    <3>1. commit' = FALSE /\ crashes' = crashes /\ Goto(t, "unlist")
      BY <2>1 DEF RemoveMarker, Removed, Unharmed
    <3> QED BY <1>0, <3>1 DEF Held, Goto
  <2>2. CASE Rename(t)
    BY <1>0, <1>1, <2>2 DEF Rename, Advance, Unharmed, Place, Applying
  <2>3. CASE RemoveManifest(t)
    BY <1>0, <1>1, <2>3 DEF RemoveManifest, Place, Applying, Cleaning
  <2>4. CASE RemovePending(t)
    BY <1>0, <1>1, <2>4 DEF RemovePending, Place, Applying, Cleaning
  <2>5. CASE RemoveTxDir(t)
    BY <1>0, <1>1, <2>5 DEF RemoveTxDir, Return, Place, Applying
  <2> QED BY <1>4, <2>1, <2>2, <2>3, <2>4, <2>5 DEF Landing
<1>5. CASE UNCHANGED vars
  BY <1>5 DEF vars, diskVars, taskVars, Held
<1> QED BY <1>2, <1>3, <1>4, <1>5 DEF Next

\* Commands that lose a race for the journal, whichever way, lock nobody out:
\* when all have returned, no marker is left.
THEOREM MarkerReleasedHolds == ASSUME Unharmed PROVE Spec => []MarkerReleased
<1>1. Init => Held
  BY DEF Init, Held, Proc
<1>2. TypeOK /\ Guarded /\ Held /\ [Next]_vars => Held'
  BY HeldSteps
<1>3. Held => MarkerReleased
  BY DEF Held, MarkerReleased, Quiet, Applying
<1> QED BY <1>1, <1>2, <1>3, AlwaysGuarded, PTL DEF Spec
-----------------------------------------------------------------------------
(* One writer that is killed anywhere and never recovered, with any calls failing. *)

Unrecovered == ~Recovers /\ \A v, w \in Writer : v = w

\* Files that differ are guarded by the marker of the command that was landing them.
Marked == commit \/ \A f, g \in File : live[f] = live[g]

Alike(w) == \A f, g \in File : buffer[w][f] = buffer[w][g]

\* How far the command of w has come with the files it read and the files it wrote.
Progress(w) ==
  /\ pc[w] \notin {"read", "stage", "rename"} => at[w] = 1
  /\ pc[w] = "read" => \A f \in 1 .. at[w] - 1 : buffer[w][f] = live[f] \cup {job[w]}
  /\ pc[w] \in Preparing => \A f \in File : buffer[w][f] = live[f] \cup {job[w]}
  /\ pc[w] = "stage" => DOMAIN staged = 1 .. at[w] - 1
  /\ pc[w] \in {"manifest", "commit"} => DOMAIN staged = File
  /\ pc[w] = "rename" => /\ commit /\ DOMAIN staged = at[w] .. N
                         /\ \A f \in 1 .. at[w] - 1 : live[f] = buffer[w][f]
  /\ pc[w] \in {"stage", "manifest", "commit", "rename"} =>
       \A f \in DOMAIN staged : staged[f] = buffer[w][f]
  /\ pc[w] = "unmark" => \A f \in File : live[f] = buffer[w][f]
  /\ pc[w] \in Applying \cup Cleaning => Alike(w)

TornInv == pc[boot] \in {"idle", "down"} /\ Marked /\ \A w \in Writer : Progress(w)

LEMMA TornInit == Init => TornInv
<1> SUFFICES ASSUME Init PROVE TornInv
  OBVIOUS
<1>1. \A t \in Proc : pc[t] = "idle" /\ at[t] = 1
  BY DEF Init
<1>2. Marked
  BY DEF Init, Marked
<1> QED BY <1>1, <1>2 DEF TornInv, Progress, Preparing, Applying, Cleaning, Proc

\* The steps of the command: up to the marker the files are what it read, and from
\* there on they become what it staged.
LEMMA TornCommand ==
  ASSUME Unrecovered, TypeOK, TornInv, NEW w \in Writer, Command(w)
  PROVE  Marked' /\ Progress(w)' /\ pc'[boot] = pc[boot]
<1> USE JournalAssumption
<1>0. /\ pc \in [Proc -> Place] /\ at \in [Proc -> File] /\ w \in Proc /\ w # boot
      /\ buffer \in [Writer -> [File -> Content]] /\ at[w] \in 1 .. N /\ boot \in Proc
      /\ job \in [Writer -> Patch] /\ Progress(w) /\ Marked
  BY DEF TypeOK, Place, Proc, File, TornInv
<1>1. CASE \E p \in Patch : Begin(w, p)
  <2>1. pc'[w] = "read" /\ at'[w] = 1 /\ pc'[boot] = pc[boot] /\ UNCHANGED <<live, commit>>
    BY <1>0, <1>1 DEF Begin, Goto, Progress, diskVars
  <2>2. Progress(w)'
    BY <2>1 DEF Progress, Preparing, Applying, Cleaning
  <2> QED BY <1>0, <2>1, <2>2 DEF Marked
<1>2. CASE Read(w)
  <2>1. /\ pc[w] = "read" /\ UNCHANGED <<live, commit, staged, job>> /\ pc'[boot] = pc[boot]
        /\ \/ at[w] < N /\ pc'[w] = "read" /\ at'[w] = at[w] + 1
           \/ at[w] = N /\ pc'[w] = "open" /\ at'[w] = 1
    BY <1>0, <1>2, AdvanceMoves DEF Read, diskVars, Place
  <2>2. /\ buffer'[w][at[w]] = live[at[w]] \cup {job[w]}
        /\ \A f \in File : f # at[w] => buffer'[w][f] = buffer[w][f]
    BY <1>0, <1>2 DEF Read, File
  <2>3. \A f \in 1 .. at[w] - 1 : f \in File /\ f # at[w] /\ buffer[w][f] = live[f] \cup {job[w]}
    BY <1>0, <2>1 DEF Progress, File
  <2>4. \A f \in 1 .. at[w] : buffer'[w][f] = live[f] \cup {job[w]}
    <3> TAKE f \in 1 .. at[w]
    <3>1. f = at[w] \/ f \in 1 .. at[w] - 1
      BY <1>0
    <3> QED BY <2>2, <2>3, <3>1
  <2>5. Progress(w)'
    <3>1. CASE pc'[w] = "read" /\ at'[w] = at[w] + 1
      <4>1. \A f \in 1 .. at'[w] - 1 : f \in 1 .. at[w]
        BY <1>0, <3>1
      <4> QED BY <2>1, <2>4, <3>1, <4>1 DEF Progress, Preparing, Applying, Cleaning
    <3>2. CASE at[w] = N /\ pc'[w] = "open" /\ at'[w] = 1
      BY <2>1, <2>4, <3>2 DEF Progress, Preparing, Applying, Cleaning, File
    <3> QED BY <2>1, <3>1, <3>2
  <2> QED BY <1>0, <2>1, <2>5 DEF Marked
<1>3. CASE OpenPending(w)
  <2>1. /\ pc[w] = "open" /\ pc'[w] = "stage" /\ DOMAIN staged' = {} /\ pc'[boot] = pc[boot]
        /\ UNCHANGED <<live, commit, at, job, buffer>> /\ at[w] = 1
    BY <1>0, <1>3 DEF OpenPending, Goto, NoFile, Progress
  <2>2. Progress(w)'
    BY <1>0, <2>1 DEF Progress, Preparing, Applying, Cleaning
  <2> QED BY <1>0, <2>1, <2>2 DEF Marked
<1>4. CASE Fail(w)
  <2>1. /\ pc'[w] = "idle" /\ at'[w] = 1 /\ pc'[boot] = pc[boot]
        /\ UNCHANGED <<live, commit>>
    BY <1>0, <1>4 DEF Fail, Goto, diskVars
  <2> QED BY <1>0, <2>1 DEF Progress, Marked, Preparing, Applying, Cleaning
<1>5. CASE Stage(w) /\ ~Fail(w)
  <2>1. /\ pc[w] = "stage" /\ UNCHANGED <<live, commit, job, buffer>> /\ pc'[boot] = pc[boot]
        /\ staged' = Put(staged, at[w], buffer[w][at[w]])
        /\ \/ at[w] < N /\ pc'[w] = "stage" /\ at'[w] = at[w] + 1
           \/ at[w] = N /\ pc'[w] = "manifest" /\ at'[w] = 1
    BY <1>0, <1>5, AdvanceMoves DEF Stage, Place
  <2>2. /\ DOMAIN staged = 1 .. at[w] - 1
        /\ \A f \in DOMAIN staged : staged[f] = buffer[w][f]
    BY <1>0, <2>1 DEF Progress
  <2>3. /\ DOMAIN staged' = 1 .. at[w] /\ \A f \in DOMAIN staged' : staged'[f] = buffer[w][f]
    <3>1. DOMAIN staged' = (1 .. at[w] - 1) \cup {at[w]}
      BY <2>1, <2>2 DEF Put
    <3>2. (1 .. at[w] - 1) \cup {at[w]} = 1 .. at[w]
      <4>1. at[w] \in Nat \ {0}
        BY <1>0
      <4>2. \A n \in Nat \ {0} : (1 .. n - 1) \cup {n} = 1 .. n
        OBVIOUS
      <4> QED BY <4>1, <4>2
    <3>3. \A f \in DOMAIN staged' : staged'[f] = IF f = at[w] THEN buffer[w][at[w]] ELSE staged[f]
      BY <2>1, <3>1 DEF Put
    <3> QED BY <2>2, <3>1, <3>2, <3>3
  <2>4. \A f \in File : buffer[w][f] = live[f] \cup {job[w]}
    BY <1>0, <2>1 DEF Progress, Preparing
  <2>5. Progress(w)'
    <3>1. CASE at[w] < N /\ pc'[w] = "stage" /\ at'[w] = at[w] + 1
      <4>1. at'[w] - 1 = at[w]
        BY <1>0, <3>1
      <4> QED BY <2>1, <2>3, <2>4, <3>1, <4>1 DEF Progress, Preparing, Applying, Cleaning
    <3>2. CASE at[w] = N /\ pc'[w] = "manifest" /\ at'[w] = 1
      BY <2>1, <2>3, <2>4, <3>2 DEF Progress, Preparing, Applying, Cleaning, File
    <3> QED BY <2>1, <3>1, <3>2
  <2> QED BY <1>0, <2>1, <2>5 DEF Marked
<1>6. CASE WriteManifest(w) /\ ~Fail(w)
  <2>1. /\ pc[w] = "manifest" /\ pc'[w] = "commit" /\ pc'[boot] = pc[boot]
        /\ UNCHANGED <<live, staged, commit, at, job, buffer>>
    BY <1>0, <1>6 DEF WriteManifest, Goto
  <2>2. Progress(w)'
    BY <1>0, <2>1 DEF Progress, Preparing, Applying, Cleaning
  <2> QED BY <1>0, <2>1, <2>2 DEF Marked
<1>7. CASE CreateMarker(w) /\ ~Fail(w)
  <2>1. /\ pc[w] = "commit" /\ pc'[w] = "rename" /\ pc'[boot] = pc[boot] /\ ~commit /\ commit'
        /\ UNCHANGED <<live, staged, at, job, buffer>> /\ at[w] = 1
    BY <1>0, <1>7 DEF CreateMarker, Goto, Progress
  <2>2. Alike(w)
    <3>1. \A f, g \in File : live[f] = live[g]
      BY <1>0, <2>1 DEF Marked
    <3>2. \A f \in File : buffer[w][f] = live[f] \cup {job[w]}
      BY <1>0, <2>1 DEF Progress, Preparing
    <3> QED BY <3>1, <3>2 DEF Alike
  <2>3. DOMAIN staged = 1 .. N /\ \A f \in DOMAIN staged : staged[f] = buffer[w][f]
    BY <1>0, <2>1 DEF Progress, File
  <2>4. Progress(w)'
    BY <2>1, <2>2, <2>3 DEF Progress, Alike, Preparing, Applying, Cleaning
  <2> QED BY <2>1, <2>4 DEF Marked
<1> QED BY <1>1, <1>2, <1>3, <1>4, <1>5, <1>6, <1>7 DEF Command, Stage, WriteManifest, CreateMarker

LEMMA TornLanding ==
  ASSUME Unrecovered, TypeOK, TornInv, NEW w \in Writer, Landing(w)
  PROVE  Marked' /\ Progress(w)' /\ pc'[boot] = pc[boot]
<1> USE JournalAssumption
<1>0. /\ pc \in [Proc -> Place] /\ at \in [Proc -> File] /\ w \in Proc /\ w # boot
      /\ buffer \in [Writer -> [File -> Content]] /\ at[w] \in 1 .. N /\ boot \in Proc
      /\ live \in [File -> Content] /\ Progress(w) /\ Marked
  BY DEF TypeOK, Place, Proc, File, TornInv
<1>1. CASE Fail(w)
  <2>1. /\ pc'[w] = "idle" /\ at'[w] = 1 /\ pc'[boot] = pc[boot]
        /\ UNCHANGED <<live, commit>>
    BY <1>0, <1>1 DEF Fail, Goto, diskVars
  <2> QED BY <1>0, <2>1 DEF Progress, Marked, Preparing, Applying, Cleaning
<1>2. CASE Rename(w) /\ ~Fail(w)
  <2>1. /\ pc[w] = "rename" /\ UNCHANGED <<commit, job, buffer>> /\ pc'[boot] = pc[boot]
        /\ \/ at[w] < N /\ pc'[w] = "rename" /\ at'[w] = at[w] + 1
           \/ at[w] = N /\ pc'[w] = "unmark" /\ at'[w] = 1
    BY <1>0, <1>2, AdvanceMoves DEF Rename, Place, Applying
  <2>2. /\ commit /\ DOMAIN staged = at[w] .. N /\ Alike(w)
        /\ \A f \in 1 .. at[w] - 1 : live[f] = buffer[w][f]
        /\ \A f \in DOMAIN staged : staged[f] = buffer[w][f]
    BY <1>0, <2>1 DEF Progress, Applying
  <2>3. at[w] \in DOMAIN staged
    BY <1>0, <2>2
  <2>4. /\ live' = [live EXCEPT ![at[w]] = staged[at[w]]] /\ staged' = Drop(staged, at[w])
    BY <1>2, <2>3 DEF Rename
  <2>5. /\ DOMAIN staged' = at[w] + 1 .. N
        /\ \A f \in DOMAIN staged' : staged'[f] = buffer[w][f]
    <3>1. DOMAIN staged' = (at[w] .. N) \ {at[w]}
      BY <2>2, <2>4 DEF Drop
    <3>2. (at[w] .. N) \ {at[w]} = at[w] + 1 .. N
      BY <1>0
    <3>3. \A f \in DOMAIN staged' : staged'[f] = staged[f] /\ f \in DOMAIN staged
      BY <2>2, <2>4, <3>1 DEF Drop
    <3> QED BY <2>2, <3>1, <3>2, <3>3
  <2>6. \A f \in 1 .. at[w] : live'[f] = buffer[w][f]
    <3> TAKE f \in 1 .. at[w]
    <3>1. f \in File /\ (f = at[w] \/ f \in 1 .. at[w] - 1)
      BY <1>0 DEF File
    <3> QED BY <1>0, <2>2, <2>3, <2>4, <3>1
  <2>7. Progress(w)'
    <3>1. CASE at[w] < N /\ pc'[w] = "rename" /\ at'[w] = at[w] + 1
      <4>1. at'[w] - 1 = at[w]
        BY <1>0, <3>1
      <4> QED BY <2>1, <2>2, <2>5, <2>6, <3>1, <4>1
              DEF Progress, Alike, Preparing, Applying, Cleaning
    <3>2. CASE at[w] = N /\ pc'[w] = "unmark" /\ at'[w] = 1
      BY <2>1, <2>2, <2>6, <3>2 DEF Progress, Alike, Preparing, Applying, Cleaning, File
    <3> QED BY <2>1, <3>1, <3>2
  <2> QED BY <2>1, <2>2, <2>7 DEF Marked
<1>3. CASE RemoveMarker(w)
  <2>1. /\ pc[w] = "unmark" /\ pc'[w] = "unlist" /\ pc'[boot] = pc[boot]
        /\ UNCHANGED <<live, at, buffer>>
    BY <1>0, <1>3 DEF RemoveMarker, Goto
  <2>2. Alike(w) /\ at[w] = 1 /\ \A f \in File : live[f] = buffer[w][f]
    BY <1>0, <2>1 DEF Progress, Applying
  <2>3. Marked'
    BY <2>1, <2>2 DEF Marked, Alike
  <2> QED BY <2>1, <2>2, <2>3 DEF Progress, Alike, Preparing, Applying, Cleaning
<1>4. CASE RemoveManifest(w) \/ RemovePending(w)
  <2>1. /\ pc[w] \in Cleaning /\ pc'[w] \in Cleaning /\ pc'[boot] = pc[boot]
        /\ UNCHANGED <<live, commit, at, buffer>>
    BY <1>0, <1>4 DEF RemoveManifest, RemovePending, Goto, Cleaning
  <2>2. Alike(w) /\ at[w] = 1
    BY <1>0, <2>1 DEF Progress, Cleaning
  <2> QED BY <1>0, <2>1, <2>2 DEF Marked, Progress, Alike, Preparing, Applying, Cleaning
<1>5. CASE RemoveTxDir(w)
  <2>1. /\ pc[w] = "rmdir" /\ pc'[w] = "idle" /\ pc'[boot] = pc[boot]
        /\ UNCHANGED <<live, commit, at>>
    BY <1>0, <1>5 DEF RemoveTxDir, Return, Goto
  <2> QED BY <1>0, <2>1 DEF Marked, Progress, Preparing, Applying, Cleaning
<1> QED BY <1>1, <1>2, <1>3, <1>4, <1>5 DEF Landing

LEMMA TornStep ==
  ASSUME Unrecovered, TypeOK, TornInv, [Next]_vars
  PROVE  TornInv'
<1>0. /\ pc \in [Proc -> Place] /\ boot \in Proc /\ Writer \subseteq Proc /\ boot \notin Writer
      /\ pc[boot] \in {"idle", "down"}
  BY JournalAssumption DEF TypeOK, Place, Proc, TornInv
<1>1. ASSUME NEW w \in Writer, Command(w) \/ Landing(w)  PROVE TornInv'
  <2>1. Marked' /\ Progress(w)' /\ pc'[boot] = pc[boot]
    BY <1>1, TornCommand, TornLanding
  <2> QED BY <1>0, <2>1 DEF TornInv, Unrecovered
<1>2. ~Landing(boot) /\ ~RecoverCommitted /\ ~RecoverUncommitted
  BY <1>0 DEF Landing, Rename, RemoveMarker, RemoveManifest, RemovePending, RemoveTxDir,
              RecoverCommitted, RecoverUncommitted
<1>3. CASE Crash
  <2>1. /\ pc'[boot] = "down" /\ \A w \in Writer : pc'[w] = "idle" /\ at'[w] = 1
        /\ UNCHANGED <<live, commit>>
    BY <1>0, <1>3 DEF Crash, diskVars
  <2> QED BY <2>1 DEF TornInv, Marked, Progress, Preparing, Applying, Cleaning
<1>4. CASE Start
  <2>1. /\ pc'[boot] = "idle" /\ \A w \in Writer : pc'[w] = pc[w]
        /\ UNCHANGED <<live, commit, staged, at, job, buffer>>
    BY <1>0, <1>4 DEF Start, Goto, diskVars, Unrecovered
  <2> QED BY <2>1 DEF TornInv, Marked, Progress, Alike
<1>5. CASE UNCHANGED vars
  BY <1>5 DEF vars, diskVars, taskVars, TornInv, Marked, Progress, Alike
<1> QED BY <1>1, <1>2, <1>3, <1>4, <1>5 DEF Next, Booting, Proc

\* Without any recovery, and whatever calls fail, no command lands files it computed
\* from a half written skill: the marker the kill left makes it fail instead
\* (apply_patch_to_skill and apply_committed_transaction in store.rs).
THEOREM TornIsLeftAloneHolds == ASSUME Unrecovered PROVE Spec => []TornIsLeftAlone
<1>1. Init => TornInv
  BY TornInit
<1>2. TypeOK /\ TornInv /\ [Next]_vars => TornInv'
  BY TornStep
<1>3. TornInv => TornIsLeftAlone
  BY DEF TornInv, TornIsLeftAlone, Progress, Alike
<1> QED BY <1>1, <1>2, <1>3, AlwaysGuarded, PTL DEF Spec
=============================================================================
