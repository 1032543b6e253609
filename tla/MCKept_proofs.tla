--------------------------- MODULE MCKept_proofs ---------------------------
(***************************************************************************)
(* Theorems about the parts of MCKept, for every instance of each.  Of     *)
(* EpisodicMemory: its types, that a flush which was answered has left     *)
(* nothing in the writer, and that what a run promotes it has met itself,  *)
(* and met twice.  Of SkillLibrary: that an extraction takes the steps of  *)
(* its own subgoal, and that the index of a run and the files stay in step *)
(* while nobody else writes.  Of RunFiles: that a sweep takes what is old  *)
(* and nothing else, and that a clear is not undone.  Of RunTrace: that    *)
(* what the interface shows of a run is what the file tells of it.  And    *)
(* that what is proved of a part holds of the behaviours of MCKept.        *)
(***************************************************************************)
EXTENDS MCKept, SequenceTheorems, FiniteSetTheorems, WellFoundedInduction, TLAPS

-----------------------------------------------------------------------------
(* The recoveries: the invariant. *)

\* Nothing more is handed to the writer of the run.
Closed(r) == r \in Started /\ (r = Current => phase \in {"flushing", "over"})

\* Nothing is done for a run that has not started.
Awake ==
  /\ phase # "over" => Current > 0
  /\ \A r \in Runs : ~Idle(r) => r \in Started

\* A flush is the last request of its run, and answered when all is done.
LastWord(r) ==
  /\ \A i \in DOMAIN queue[r] : queue[r][i].kind = "flush" => i = Len(queue[r]) /\ Closed(r)
  /\ work[r].req.kind = "flush" => queue[r] = <<>> /\ Closed(r)
  /\ r \in acked => Idle(r) /\ Closed(r)

\* A writer at work is the last run's, or it was at work at every start since.
Behind(r) ==
  ~Idle(r) => r \in Started /\ (r # Current => r..Current \subseteq mixed)

\* Whose row it is: a run of the project stored it in the second of the row, and a
\* later run of the project began after that second, found the row there when it
\* began in it, or began while a writer was behind.
Foreign(p, k, t, r) ==
  project[r] = p => t < began[r] \/ <<r, k>> \in again \/ r \in mixed
Met(p, k, t) ==
  \E q \in Started : /\ project[q] = p /\ stored[q][k] >= 1
                     /\ \A r \in Started : q < r => Foreign(p, k, t, r)

Traced(p) ==
  \A k \in DOMAIN rows[p] :
    /\ rows[p][k].seen <= now
    /\ Met(p, k, rows[p][k].seen)
    /\ rows[p][k].count >= 2 => MetTwice(p, k)

\* What a writer has listed is its own or was seen in the second its run began in, and
\* the counts are the project's.
Listed(r) ==
  \A c \in work[r].todo :
    /\ r \in Started
    /\ r \in mixed \/ <<r, c[1]>> \in again \/ stored[r][c[1]] > 0
    /\ c[2] >= 2 => MetTwice(project[r], c[1])

QueuesInv == \A r \in Runs : LastWord(r) /\ Behind(r)
RowsInv == /\ \A r \in Runs : Listed(r)
           /\ \A p \in Projects : Traced(p)
           /\ PromotionEarned /\ PromotesItsOwn
MemoryInv == TypeOK /\ Awake /\ QueuesInv /\ RowsInv

-----------------------------------------------------------------------------
(* The recoveries: the runs, the requests and the tables. *)

LEMMA RunFacts ==
  ASSUME TypeOK
  PROVE  /\ Current \in 0..MaxRuns /\ Started = 1..Current /\ Started \subseteq Runs
         /\ \A r \in Started : project[r] \in Projects
         /\ Projects \subseteq Stores /\ Global \in Stores /\ Global \notin Projects
<1>1. Current \in 0..MaxRuns /\ Started = 1..Current
  BY RunsAssumption DEF TypeOK, Current, Started
<1> QED BY <1>1, RunsAssumption, GlobalAssumption DEF TypeOK, Runs, Stores, Global, Current, Started

LEMMA RequestFacts ==
  /\ \A q \in Requests : /\ q.kind \in {"derive", "promote", "flush"}
                         /\ q.kind = "derive" => q.key \in Keys
                         /\ q.kind = "promote" => q.clean \in BOOLEAN
  /\ \A k \in Keys : [kind |-> "derive", key |-> k] \in Requests
  /\ \A b \in BOOLEAN : [kind |-> "promote", clean |-> b] \in Requests
  /\ [kind |-> "flush"] \in Requests
  /\ NoRequest.kind = "none" /\ Promoting.kind = "promoting"
BY DEF Requests, NoRequest, Promoting

\* What is pruned is gone, the other rows are what they were.
LEMMA Pruned ==
  ASSUME NEW t, IsTable(t), NEW u \in Prunings(t)
  PROVE  /\ IsTable(u) /\ DOMAIN u \subseteq DOMAIN t
         /\ \A l \in DOMAIN u : u[l] = t[l]
<1>1. u = t \/ \E gone : u = Restrict(t, DOMAIN t \ gone)
  BY DEF Prunings
<1>2. CASE u = t
  BY <1>2
<1>3. ASSUME NEW gone, u = Restrict(t, DOMAIN t \ gone)
      PROVE  /\ IsTable(u) /\ DOMAIN u \subseteq DOMAIN t
             /\ \A l \in DOMAIN u : u[l] = t[l]
  BY <1>3 DEF Restrict, IsTable
<1> QED BY <1>1, <1>2, <1>3

LEMMA Insertion ==
  ASSUME TypeOK, NEW t, IsTable(t), NEW k \in Keys, NEW born \in Seconds,
         NEW u \in Inserted(t, k, born)
  PROVE  /\ IsTable(u)
         /\ \A l \in DOMAIN u :
              IF l # k THEN l \in DOMAIN t /\ u[l] = t[l]
              ELSE /\ u[l].seen = now
                   /\ u[l].count = IF k \in DOMAIN t THEN t[k].count + 1 ELSE 1
<1>1. CASE k \in DOMAIN t
  <2>1. u = [t EXCEPT ![k] = Again(t[k])]
    BY <1>1 DEF Inserted
  <2>2. t[k] \in Row
    BY <1>1 DEF IsTable
  <2>3. /\ Again(t[k]) \in Row
        /\ Again(t[k]).seen = now /\ Again(t[k]).count = t[k].count + 1
    BY <2>2 DEF Again, Row, TypeOK
  <2> QED BY <1>1, <2>1, <2>3 DEF IsTable
<1>2. CASE k \notin DOMAIN t
  <2> DEFINE v == [l \in DOMAIN t \cup {k} |-> IF l = k THEN Once(born) ELSE t[l]]
  <2>1. u \in Prunings(v)
    BY <1>2 DEF Inserted
  <2>2. Once(born) \in Row /\ Once(born).seen = now /\ Once(born).count = 1
    BY ClockAssumption DEF Once, Row, Seconds, TypeOK
  <2>3. IsTable(v)
    BY <2>2 DEF IsTable
  <2>4. /\ IsTable(u) /\ DOMAIN u \subseteq DOMAIN v
        /\ \A l \in DOMAIN u : u[l] = v[l]
    BY <2>1, <2>3, Pruned
  <2> QED BY <1>2, <2>2, <2>4
<1> QED BY <1>1, <1>2

\* A retrieval only marks rows.
LEMMA Retrieval ==
  ASSUME TypeOK, NEW t, IsTable(t), NEW sig
  PROVE  /\ IsTable(Retrieved(t, sig)) /\ DOMAIN Retrieved(t, sig) = DOMAIN t
         /\ \A l \in DOMAIN t : /\ Retrieved(t, sig)[l].count = t[l].count
                                /\ Retrieved(t, sig)[l].seen = t[l].seen
<1>1. \A l \in DOMAIN t : LET m == [t[l] EXCEPT !.retrieved = now]
                          IN  m \in Row /\ m.count = t[l].count /\ m.seen = t[l].seen
  <2> TAKE l \in DOMAIN t
  <2>1. t[l] \in Row
    BY DEF IsTable
  <2>2. now \in 0..MaxSeconds
    BY ClockAssumption DEF TypeOK, Seconds
  <2> QED BY <2>1, <2>2 DEF Row
<1>2. \A l \in DOMAIN t :
        Retrieved(t, sig)[l] = IF l \in Hits(t, sig) THEN [t[l] EXCEPT !.retrieved = now]
                               ELSE t[l]
  BY DEF Retrieved
<1>3. DOMAIN Retrieved(t, sig) = DOMAIN t
  BY DEF Retrieved
<1>4. \A l \in DOMAIN t : Retrieved(t, sig)[l] \in Row
  BY <1>1, <1>2 DEF IsTable
<1>5. Retrieved(t, sig) \in [DOMAIN t -> Row]
  BY <1>4 DEF Retrieved
<1> QED BY <1>1, <1>2, <1>3, <1>5 DEF IsTable

LEMMA Queued ==
  ASSUME NEW q \in Seq(Requests), NEW x \in Requests
  PROVE  /\ Append(q, x) \in Seq(Requests) /\ Append(q, x) # <<>>
         /\ Len(Append(q, x)) = Len(q) + 1 /\ DOMAIN Append(q, x) = 1..Len(q) + 1
         /\ \A i \in 1..Len(q) : Append(q, x)[i] = q[i]
         /\ Append(q, x)[Len(q) + 1] = x
BY AppendProperties

LEMMA Taken ==
  ASSUME NEW q \in Seq(Requests), q # <<>>
  PROVE  /\ Head(q) \in Requests /\ Head(q) = q[1] /\ 1 \in DOMAIN q
         /\ Tail(q) \in Seq(Requests) /\ Len(Tail(q)) = Len(q) - 1
         /\ DOMAIN Tail(q) = 1..Len(q) - 1 /\ DOMAIN q = 1..Len(q)
         /\ \A i \in DOMAIN Tail(q) : Tail(q)[i] = q[i + 1]
<1>1. Len(q) \in Nat \ {0} /\ DOMAIN q = 1..Len(q)
  BY EmptySeq
<1>2. Head(q) = q[1] /\ q[1] \in Requests
  BY <1>1
<1> QED BY <1>1, <1>2, HeadTailProperties

-----------------------------------------------------------------------------
(* The recoveries: the types. *)

Works == [req: Requests \cup {NoRequest, Promoting}, todo: SUBSET (Keys \X Nat \X Seconds)]

\* What a run does to the types: it starts, learns, retrieves and ends.
LEMMA RunTypes ==
  ASSUME TypeOK, Awake,
         \/ \E p \in Projects : StartRun(p)
         \/ \E s \in Signatures : Retrieve(s)
         \/ \E k \in Keys : Recover(k)
         \/ \E clean \in BOOLEAN : EndRun(clean)
         \/ Stop \/ SendFlush \/ FlushReturns \/ FlushTimesOut \/ Tick
  PROVE  TypeOK' /\ Awake'
<1>0. /\ Current \in 0..MaxRuns /\ Started = 1..Current /\ Started \subseteq Runs
      /\ phase # "over" => Current \in Runs /\ Current \in Started
      /\ queue \in [Runs -> Seq(Requests)]
  BY RunFacts DEF Awake, Runs, TypeOK
<1>1. ASSUME NEW p \in Projects, StartRun(p)  PROVE TypeOK' /\ Awake'
  <2>1. project' \in Seq(Projects) /\ Current' = Current + 1 /\ Current' <= MaxRuns
        /\ Started' = 1..Current + 1
    <3>1. project \in Seq(Projects) /\ project' = Append(project, p) /\ Current < MaxRuns
      BY <1>1 DEF StartRun, TypeOK
    <3>2. /\ project' \in Seq(Projects) /\ Len(project') = Len(project) + 1
          /\ DOMAIN project' = 1..Len(project')
      BY <3>1, AppendProperties
    <3> QED BY <1>0, <3>1, <3>2, RunsAssumption DEF Current, Started
  <2>2. now' \in Seconds /\ aged' \in 0..now' /\ phase' = "running" /\ stopped' = FALSE
    BY <1>1, ClockAssumption DEF StartRun, TypeOK, Seconds
  <2>6. began' \in Seq(Seconds) /\ Len(began') = Current'
    <3>1. began \in Seq(Seconds) /\ began' = Append(began, now') /\ Len(began) = Current
      BY <1>1 DEF StartRun, TypeOK
    <3> QED BY <2>1, <2>2, <3>1, AppendProperties
  <2>7. again' \subseteq Runs \X Keys
    <3>1. Current + 1 \in Runs /\ again \subseteq Runs \X Keys /\ DOMAIN rows[p] \subseteq Keys
      BY <1>0, <2>1, RunFacts DEF Runs, TypeOK, IsTable
    <3> QED BY <1>1, <3>1 DEF StartRun
  <2>3. mixed' \subseteq Runs
    <3>1. Current + 1 \in Runs
      BY <1>0, <2>1 DEF Runs
    <3> QED BY <1>0, <1>1, <3>1 DEF StartRun, TypeOK
  <2>4. UNCHANGED <<queue, work, acked, flushed, recoveries, rows, stored, promoted>>
    BY <1>1 DEF StartRun, files
  <2>5. Awake'
    BY <1>0, <2>1, <2>4 DEF Awake, Idle
  <2> QED BY <2>1, <2>2, <2>3, <2>4, <2>5, <2>6, <2>7 DEF TypeOK
<1>2. ASSUME NEW s \in Signatures, Retrieve(s)  PROVE TypeOK' /\ Awake'
  <2>1. Current' = Current /\ Started' = Started /\ UNCHANGED clock
    BY <1>2 DEF Retrieve, Current, Started, clock
  <2>2. DOMAIN rows' = Stores /\ \A t \in Stores : IsTable(rows'[t])
    BY <1>0, <1>2, Retrieval DEF Retrieve, TypeOK
  <2> QED BY <1>2, <2>1, <2>2 DEF Retrieve, TypeOK, Awake, Idle, clock
<1>3. ASSUME NEW k \in Keys, Recover(k)  PROVE TypeOK' /\ Awake'
  <2>1. queue' \in [Runs -> Seq(Requests)]
    BY <1>3, RequestFacts, Queued, RunFacts DEF Recover, TypeOK
  <2>2. Current' = Current /\ Started' = Started /\ recoveries' \in Nat
    BY <1>3 DEF Recover, Current, Started, TypeOK, clock
  <2>3. Awake'
    BY <1>0, <1>3, <2>2 DEF Recover, Awake, Idle
  <2> QED BY <1>3, <2>1, <2>2, <2>3 DEF Recover, TypeOK, files, clock
<1>4. ASSUME NEW clean \in BOOLEAN, EndRun(clean)  PROVE TypeOK' /\ Awake'
  <2>1. Append(queue[Current], [kind |-> "promote", clean |-> clean]) \in Seq(Requests)
        /\ queue[Current] \in Seq(Requests)
    BY <1>0, <1>4, RequestFacts, Queued DEF EndRun
  <2>2. queue' \in [Runs -> Seq(Requests)]
    BY <1>0, <1>4, <2>1 DEF EndRun
  <2>3. Current' = Current /\ Started' = Started /\ phase' \in {"ending", "over"}
    BY <1>4 DEF EndRun, Current, Started, clock
  <2>4. Awake'
    BY <1>0, <1>4, <2>3 DEF EndRun, Awake, Idle
  <2> QED BY <1>4, <2>2, <2>3, <2>4 DEF EndRun, TypeOK, files, clock
<1>5. ASSUME Stop  PROVE TypeOK' /\ Awake'
  <2>1. /\ Current' = Current /\ Started' = Started /\ phase' \in {phase, "over"}
        /\ UNCHANGED <<clock, queue, work, acked, flushed, mixed, recoveries, files>>
    BY <1>5 DEF Stop, Current, Started, clock
  <2> QED BY <1>5, <2>1 DEF Stop, TypeOK, Awake, Idle, files, clock
<1>6. ASSUME SendFlush  PROVE TypeOK' /\ Awake'
  <2>1. queue' \in [Runs -> Seq(Requests)]
    BY <1>0, <1>6, RequestFacts, Queued DEF SendFlush
  <2>2. Current' = Current /\ Started' = Started /\ phase' = "flushing"
    BY <1>6 DEF SendFlush, Current, Started, clock
  <2>3. Awake'
    BY <1>0, <1>6, <2>2 DEF SendFlush, Awake, Idle
  <2> QED BY <1>6, <2>1, <2>2, <2>3 DEF SendFlush, TypeOK, files, clock
<1>7. ASSUME FlushReturns  PROVE TypeOK' /\ Awake'
  BY <1>7 DEF FlushReturns, Answered, TypeOK, Current, files, Awake, Idle, Started, clock
<1>8. ASSUME FlushTimesOut  PROVE TypeOK' /\ Awake'
  BY <1>8 DEF FlushTimesOut, TypeOK, Current, files, Awake, Idle, Started, clock
<1>9. ASSUME Tick  PROVE TypeOK' /\ Awake'
  <2>1. now' \in Seconds /\ aged' \in 0..now'
    BY <1>9, ClockAssumption DEF Tick, TypeOK, Seconds
  <2> QED BY <1>9, <2>1 DEF Tick, TypeOK, Current, files, Awake, Idle, Started
<1> QED BY <1>1, <1>2, <1>3, <1>4, <1>5, <1>6, <1>7, <1>8, <1>9

\* What a writer does to the types.
LEMMA WriterTypes ==
  ASSUME TypeOK, Awake, NEW r \in Runs, Writer(r)
  PROVE  TypeOK' /\ Awake'
<1>0. /\ work \in [Runs -> Works] /\ AtRest \in Works /\ queue \in [Runs -> Seq(Requests)]
      /\ DOMAIN rows = Stores /\ \A s \in Stores : IsTable(rows[s])
  BY DEF TypeOK, AtRest, Works
<1>1. /\ r \in Started /\ Started \subseteq Runs /\ Current \in Runs /\ project[r] \in Projects
      /\ Projects \subseteq Stores /\ Global \in Stores
  <2>1. r \in Started
    BY RequestFacts DEF Writer, Take, Derive, Fails, ListTouched, PromoteOne, Promoted,
                        Acknowledge, Awake, Idle
  <2> QED BY <2>1, RunFacts DEF Runs
<1>2. UNCHANGED <<project, began, now, aged, again, phase, flushed, stopped, mixed, recoveries>>
  BY DEF Writer, Take, Derive, Fails, ListTouched, PromoteOne, Promoted, Acknowledge, clock
<1>3. Current' = Current /\ Started' = Started
  BY <1>2 DEF Current, Started
<1>4. work' \in [Runs -> Works] /\ \A q \in Runs \ {r} : work'[q] = work[q]
  <2>1. CASE Take(r)
    <3>1. Head(queue[r]) \in Requests
      BY <1>0, <2>1, Taken DEF Take
    <3> QED BY <1>0, <2>1, <3>1 DEF Take, Works
  <2>2. CASE ListTouched(r)
    <3>1. \A k \in DOMAIN rows[project[r]] : Candidate(project[r], k) \in Keys \X Nat \X Seconds
      BY <1>0, <1>1 DEF IsTable, Row, Candidate
    <3>2. {Candidate(project[r], k) : k \in Touched(r)} \in SUBSET (Keys \X Nat \X Seconds)
      BY <3>1 DEF Touched
    <3> QED BY <1>0, <2>2, <3>2 DEF ListTouched, Works
  <2>3. CASE \E c \in work[r].todo : PromoteOne(r, c)
    <3>1. PICK c \in work[r].todo : work' = [work EXCEPT ![r].todo = @ \ {c}]
      BY <2>3 DEF PromoteOne
    <3> QED BY <1>0, <3>1 DEF Works
  <2>4. CASE Derive(r) \/ Fails(r) \/ Promoted(r) \/ Acknowledge(r)
    BY <1>0, <2>4 DEF Derive, Fails, Promoted, Acknowledge
  <2> QED BY <2>1, <2>2, <2>3, <2>4 DEF Writer
<1>5. queue' \in [Runs -> Seq(Requests)] /\ \A q \in Runs \ {r} : queue'[q] = queue[q]
  <2>1. CASE Take(r)
    <3>1. Tail(queue[r]) \in Seq(Requests)
      BY <1>0, <2>1, Taken DEF Take
    <3> QED BY <1>0, <2>1, <3>1 DEF Take
  <2>2. CASE ~Take(r)
    <3>1. queue' = queue
      BY <2>2 DEF Writer, Derive, Fails, ListTouched, PromoteOne, Promoted, Acknowledge
    <3> QED BY <1>0, <3>1
  <2> QED BY <2>1, <2>2
<1>6. acked' \subseteq Runs /\ flushed' \subseteq acked'
  BY <1>2 DEF Writer, Take, Derive, Fails, ListTouched, PromoteOne, Promoted, Acknowledge, TypeOK
<1>7. /\ DOMAIN rows' = Stores /\ \A s \in Stores : IsTable(rows'[s])
      /\ stored' \in [Runs -> [Keys -> Nat]] /\ promoted' \subseteq Runs \X Keys
  <2>1. CASE Derive(r)
    <3>. DEFINE k == work[r].req.key
    <3>1. k \in Keys
      BY <1>0, <2>1, RequestFacts DEF Derive, Works
    <3>2. PICK t \in Inserted(rows[project[r]], k, now) : rows' = [rows EXCEPT ![project[r]] = t]
      BY <2>1 DEF Derive
    <3>3. IsTable(t)
      <4>1. now \in Seconds
        BY DEF TypeOK
      <4> QED BY <1>0, <1>1, <3>1, <3>2, <4>1, Insertion
    <3>4. stored' = [stored EXCEPT ![r][k] = @ + 1] /\ promoted' = promoted
      BY <2>1 DEF Derive
    <3> HIDE DEF k
    <3>5. stored' \in [Runs -> [Keys -> Nat]]
      BY <3>1, <3>4 DEF TypeOK
    <3> QED BY <1>0, <3>2, <3>3, <3>4, <3>5 DEF TypeOK
  <2>2. ASSUME NEW c \in work[r].todo, PromoteOne(r, c)
        PROVE  /\ DOMAIN rows' = Stores /\ \A s \in Stores : IsTable(rows'[s])
               /\ stored' \in [Runs -> [Keys -> Nat]] /\ promoted' \subseteq Runs \X Keys
    <3>1. stored' = stored
      BY <2>2 DEF PromoteOne
    <3>2. CASE UNCHANGED <<rows, promoted>>
      BY <1>0, <3>1, <3>2 DEF TypeOK
    <3>0. c[1] \in Keys /\ c[3] \in Seconds
      BY <1>0 DEF Works
    <3>3. CASE /\ \E t \in Inserted(rows[Global], c[1], c[3]) : rows' = [rows EXCEPT ![Global] = t]
               /\ promoted' = promoted \cup {<<r, c[1]>>}
      <4>1. PICK t \in Inserted(rows[Global], c[1], c[3]) : rows' = [rows EXCEPT ![Global] = t]
        BY <3>3
      <4>2. IsTable(t)
        BY <1>0, <1>1, <3>0, Insertion
      <4> QED BY <1>0, <3>0, <3>1, <3>3, <4>1, <4>2 DEF TypeOK
    <3> QED BY <2>2, <3>2, <3>3 DEF PromoteOne
  <2>3. CASE Take(r) \/ Fails(r) \/ ListTouched(r) \/ Promoted(r) \/ Acknowledge(r)
    <3>1. UNCHANGED <<rows, stored, promoted>>
      BY <2>3 DEF Take, Fails, ListTouched, Promoted, Acknowledge, files
    <3> QED BY <1>0, <3>1 DEF TypeOK
  <2> QED BY <2>1, <2>2, <2>3 DEF Writer
<1>8. Awake'
  BY <1>1, <1>2, <1>3, <1>4, <1>5 DEF Awake, Idle
<1>9. TypeOK'
  BY <1>2, <1>3, <1>4, <1>5, <1>6, <1>7 DEF TypeOK, Works
<1> QED BY <1>8, <1>9

LEMMA TypesInStep ==
  ASSUME TypeOK, Awake, [Next]_vars
  PROVE  TypeOK' /\ Awake'
<1>1. CASE UNCHANGED vars
  BY <1>1 DEF vars, TypeOK, Awake, Current, Started, Idle
<1> QED BY <1>1, RunTypes, WriterTypes DEF Next

-----------------------------------------------------------------------------
(* The recoveries: the queues: a flush is the last word. *)

LEMMA RunQueues ==
  ASSUME TypeOK, Awake, \A r \in Runs : LastWord(r) /\ Behind(r),
         \/ \E p \in Projects : StartRun(p)
         \/ \E k \in Keys : Recover(k)
         \/ \E clean \in BOOLEAN : EndRun(clean)
         \/ SendFlush
  PROVE  \A r \in Runs : LastWord(r)' /\ Behind(r)'
<1>0. /\ Current \in 0..MaxRuns /\ Started = 1..Current /\ Started \subseteq Runs
      /\ phase # "over" => Current \in Runs /\ Current \in Started
      /\ queue \in [Runs -> Seq(Requests)]
  BY RunFacts DEF Awake, Runs, TypeOK
<1>1. ASSUME NEW p \in Projects, StartRun(p), NEW r \in Runs
      PROVE  LastWord(r)' /\ Behind(r)'
  <2>1. /\ Current' = Current + 1 /\ Started' = 1..Current + 1
        /\ UNCHANGED <<queue, work, acked>>
    <3>1. project \in Seq(Projects) /\ project' = Append(project, p)
      BY <1>1 DEF StartRun, TypeOK
    <3>2. project' \in Seq(Projects) /\ Len(project') = Len(project) + 1
          /\ DOMAIN project' = 1..Len(project')
      BY <3>1, AppendProperties
    <3> QED BY <1>0, <1>1, <3>2 DEF StartRun, Current, Started
  <2>2. Closed(r) => Closed(r)'
    BY <1>0, <2>1 DEF Closed
  <2>3. Idle(r)' <=> Idle(r)
    BY <2>1 DEF Idle
  <2>4. LastWord(r)'
    BY <2>1, <2>2, <2>3 DEF LastWord
  <2>5. ASSUME ~Idle(r)  PROVE r \in Started /\ r..Current + 1 \subseteq mixed'
    <3>1. r \in Started /\ (r # Current => r..Current \subseteq mixed)
      BY <2>5 DEF Behind
    <3>2. mixed' = mixed \cup {q \in Started : ~Idle(q)} \cup {Current + 1}
      BY <1>1, <2>5, <3>1 DEF StartRun
    <3>3. r \in 1..Current
      BY <1>0, <3>1
    <3>4. \A n \in r..Current + 1 : n = Current + 1 \/ n \in r..Current
      BY <1>0, <3>3
    <3>5. r = Current => \A n \in r..Current : n = r
      BY <1>0
    <3> QED BY <2>5, <3>1, <3>2, <3>4, <3>5
  <2>6. Behind(r)'
    BY <1>0, <2>1, <2>3, <2>5 DEF Behind
  <2> QED BY <2>4, <2>6
<1>2. ASSUME \/ \E k \in Keys : Recover(k)
             \/ \E clean \in BOOLEAN : EndRun(clean)
             \/ SendFlush,
             NEW r \in Runs
      PROVE  LastWord(r)' /\ Behind(r)'
  <2>1. /\ UNCHANGED <<project, work, acked, mixed>> /\ phase \in {"running", "ending"}
        /\ Current' = Current /\ Started' = Started
        /\ ~Closed(Current) /\ Current \in Started
    BY <1>0, <1>2 DEF Recover, EndRun, SendFlush, Current, Started, Closed, clock
  <2>2. CASE r # Current
    <3>1. queue'[r] = queue[r]
      BY <1>0, <1>2, <2>1, <2>2 DEF Recover, EndRun, SendFlush
    <3> QED BY <2>1, <2>2, <3>1 DEF LastWord, Behind, Closed, Idle
  <2>3. CASE r = Current
    <3>1. r \notin acked /\ work[r].req.kind # "flush"
          /\ \A i \in DOMAIN queue[r] : queue[r][i].kind # "flush"
      BY <2>1, <2>3 DEF LastWord
    <3>2. Behind(r)'
      BY <2>1, <2>3 DEF Behind
    <3>3. \/ queue'[r] = queue[r]
          \/ \E x \in Requests : /\ queue'[r] = Append(queue[r], x)
                                 /\ x.kind = "flush" => SendFlush
      BY <1>0, <1>2, <2>3, RequestFacts DEF Recover, EndRun, SendFlush
    <3>4. CASE queue'[r] = queue[r]
      BY <2>1, <3>1, <3>2, <3>4 DEF LastWord
    <3>5. ASSUME NEW x \in Requests, queue'[r] = Append(queue[r], x),
                 x.kind = "flush" => SendFlush
          PROVE  LastWord(r)'
      <4>1. SendFlush => Closed(r)'
        BY <2>1, <2>3 DEF SendFlush, Closed
      <4>2. /\ DOMAIN queue'[r] = 1..Len(queue[r]) + 1 /\ Len(queue'[r]) = Len(queue[r]) + 1
            /\ \A i \in 1..Len(queue[r]) : queue'[r][i] = queue[r][i]
            /\ queue'[r][Len(queue[r]) + 1] = x
            /\ DOMAIN queue[r] = 1..Len(queue[r]) /\ Len(queue[r]) \in Nat
        BY <1>0, <3>5, Queued
      <4>3. ASSUME NEW i \in DOMAIN queue'[r], queue'[r][i].kind = "flush"
            PROVE  i = Len(queue'[r]) /\ SendFlush
        BY <3>1, <3>5, <4>2, <4>3
      <4> QED BY <2>1, <3>1, <4>1, <4>3 DEF LastWord
    <3> QED BY <3>2, <3>3, <3>4, <3>5
  <2> QED BY <2>2, <2>3
<1> QED BY <1>1, <1>2

LEMMA WriterQueues ==
  ASSUME TypeOK, Awake, \A r \in Runs : LastWord(r) /\ Behind(r),
         NEW w \in Runs, Writer(w)
  PROVE  \A r \in Runs : LastWord(r)' /\ Behind(r)'
<1>0. /\ work \in [Runs -> Works] /\ AtRest \in Works /\ queue \in [Runs -> Seq(Requests)]
      /\ AtRest.req = NoRequest
  BY DEF TypeOK, AtRest, Works
<1>1. UNCHANGED <<project, phase, mixed>> /\ Current' = Current /\ Started' = Started
  BY DEF Writer, Take, Derive, Fails, ListTouched, PromoteOne, Promoted, Acknowledge,
         Current, Started, clock
<1>2. \A r \in Runs : Closed(r)' = Closed(r)
  BY <1>1 DEF Closed
<1>3. ASSUME NEW r \in Runs, r # w  PROVE LastWord(r)' /\ Behind(r)'
  <2>1. queue'[r] = queue[r] /\ work'[r] = work[r]
    BY <1>0, <1>3 DEF Writer, Take, Derive, Fails, ListTouched, PromoteOne, Promoted, Acknowledge
  <2>2. r \in acked' <=> r \in acked
    BY <1>3 DEF Writer, Take, Derive, Fails, ListTouched, PromoteOne, Promoted, Acknowledge
  <2> QED BY <1>1, <1>2, <2>1, <2>2 DEF LastWord, Behind, Idle
<1>4. ~Idle(w)
  BY RequestFacts DEF Writer, Take, Derive, Fails, ListTouched, PromoteOne, Promoted,
                      Acknowledge, Idle
<1>5. Behind(w)'
  BY <1>1, <1>4 DEF Behind
<1>6. w \notin acked
  BY <1>4 DEF LastWord
<1>7. LastWord(w)'
  <2>1. CASE Take(w)
    <3>1. /\ queue[w] # <<>> /\ queue'[w] = Tail(queue[w]) /\ acked' = acked
          /\ work'[w].req = Head(queue[w])
      BY <1>0, <2>1 DEF Take, Works
    <3>2. /\ Head(queue[w]) = queue[w][1] /\ 1 \in DOMAIN queue[w]
          /\ DOMAIN queue[w] = 1..Len(queue[w]) /\ Len(Tail(queue[w])) = Len(queue[w]) - 1
          /\ Tail(queue[w]) \in Seq(Requests) /\ DOMAIN Tail(queue[w]) = 1..Len(queue[w]) - 1
          /\ \A i \in DOMAIN Tail(queue[w]) : Tail(queue[w])[i] = queue[w][i + 1]
      BY <1>0, <3>1, Taken
    <3>3. \A i \in DOMAIN queue'[w] :
            queue'[w][i].kind = "flush" => i = Len(queue'[w]) /\ Closed(w)'
      <4> TAKE i \in DOMAIN queue'[w]
      <4>1. i \in 1..Len(queue[w]) - 1 /\ queue'[w][i] = queue[w][i + 1]
        BY <3>1, <3>2
      <4>2. Len(queue[w]) \in Nat /\ i + 1 \in DOMAIN queue[w]
        BY <1>0, <3>2, <4>1
      <4> QED BY <1>2, <3>1, <3>2, <4>1, <4>2 DEF LastWord
    <3>4. work'[w].req.kind = "flush" => Len(Tail(queue[w])) = 0 /\ Closed(w)'
      <4>1. queue[w][1].kind = "flush" => 1 = Len(queue[w]) /\ Closed(w)
        BY <3>2 DEF LastWord
      <4> QED BY <1>2, <3>1, <3>2, <4>1
    <3>5. Len(Tail(queue[w])) = 0 => queue'[w] = <<>>
      BY <3>1, <3>2, EmptySeq
    <3> QED BY <1>6, <3>1, <3>3, <3>4, <3>5 DEF LastWord
  <2>2. CASE Acknowledge(w)
    <3>1. work[w].req.kind = "flush" /\ work'[w] = AtRest /\ queue' = queue
      BY <1>0, <2>2 DEF Acknowledge
    <3>2. queue[w] = <<>> /\ Closed(w)
      BY <3>1 DEF LastWord
    <3>3. Idle(w)'
      BY <1>0, <3>1, <3>2 DEF Idle
    <3> QED BY <1>0, <1>2, <3>1, <3>2, <3>3, RequestFacts DEF LastWord
  <2>3. CASE Derive(w) \/ Fails(w) \/ ListTouched(w) \/ Promoted(w)
             \/ \E c \in work[w].todo : PromoteOne(w, c)
    <3>1. queue' = queue /\ acked' = acked
      BY <2>3 DEF Derive, Fails, ListTouched, PromoteOne, Promoted
    <3>2. work'[w].req \in {NoRequest, Promoting}
      <4>1. ASSUME NEW c \in work[w].todo, PromoteOne(w, c)
            PROVE  work'[w].req = Promoting
        <5>1. work[w].req.kind = "promoting" /\ work'[w].req = work[w].req
          BY <1>0, <4>1 DEF PromoteOne, Works
        <5> QED BY <1>0, <5>1, RequestFacts DEF Works
      <4>2. ASSUME ListTouched(w)  PROVE work'[w].req \in {NoRequest, Promoting}
        <5>1. \/ work' = [work EXCEPT ![w] = AtRest]
              \/ \E S : work' = [work EXCEPT ![w] = [req |-> Promoting, todo |-> S]]
          BY <4>2 DEF ListTouched
        <5> QED BY <1>0, <5>1
      <4>3. CASE Derive(w) \/ Fails(w) \/ Promoted(w)
        BY <1>0, <4>3 DEF Derive, Fails, Promoted
      <4> QED BY <2>3, <4>1, <4>2, <4>3
    <3> QED BY <1>2, <1>6, <3>1, <3>2, RequestFacts DEF LastWord
  <2> QED BY <2>1, <2>2, <2>3 DEF Writer
<1> QED BY <1>3, <1>5, <1>7

LEMMA QueuesInStep ==
  ASSUME TypeOK, Awake, \A r \in Runs : LastWord(r) /\ Behind(r), [Next]_vars
  PROVE  \A r \in Runs : LastWord(r)' /\ Behind(r)'
<1>1. CASE \/ \E s \in Signatures : Retrieve(s)
           \/ Stop \/ FlushReturns \/ FlushTimesOut \/ Tick \/ UNCHANGED vars
  <2>1. /\ UNCHANGED <<project, queue, work, acked, mixed>>
        /\ phase' = phase \/ phase' = "over"
    BY <1>1 DEF Retrieve, Stop, FlushReturns, FlushTimesOut, Tick, vars, clock
  <2>2. Current' = Current /\ Started' = Started
    BY <2>1 DEF Current, Started
  <2>3. \A r \in Runs : Closed(r) => Closed(r)'
    BY <2>1, <2>2 DEF Closed
  <2> QED BY <2>1, <2>2, <2>3 DEF LastWord, Behind, Idle
<1> QED BY <1>1, RunQueues, WriterQueues DEF Next

-----------------------------------------------------------------------------
(* The recoveries: the rows: what has been met stays met. *)

Grows ==
  /\ Started \subseteq Started' /\ mixed \subseteq mixed' /\ again \subseteq again'
  /\ \A r \in Started : project'[r] = project[r] /\ began'[r] = began[r]
  /\ now \in Nat /\ now' \in Nat /\ now <= now'
  /\ \A r \in Runs, k \in Keys :
       stored[r][k] \in Nat /\ stored'[r][k] \in Nat /\ stored[r][k] <= stored'[r][k]

\* A run that starts finds no row of its project that was seen in its second and of
\* which this is not noted.
Noted ==
  \A p \in Projects : \A k \in DOMAIN rows[p] : \A r \in Started' \ Started :
    project'[r] = p => rows[p][k].seen < began'[r] \/ <<r, k>> \in again'

LEMMA GrowsInStep ==
  ASSUME TypeOK, Awake, \A p \in Projects : \A k \in DOMAIN rows[p] : rows[p][k].seen <= now,
         [Next]_vars
  PROVE  Grows /\ Noted
<1>1. TypeOK'
  BY TypesInStep
<1>2. /\ \A r \in Runs, k \in Keys : stored[r][k] \in Nat /\ stored'[r][k] \in Nat
      /\ now \in Nat /\ now' \in Nat
  BY <1>1, ClockAssumption DEF TypeOK, Seconds
<1>3. CASE \E p \in Projects : StartRun(p)
  <2>1. PICK p \in Projects : StartRun(p)
    BY <1>3
  <2>2. /\ project \in Seq(Projects) /\ project' = Append(project, p)
        /\ began \in Seq(Seconds) /\ began' = Append(began, now') /\ Len(began) = Current
        /\ stored' = stored /\ mixed \subseteq mixed' /\ now <= now' /\ now' \in Seconds
        /\ again' = again \cup
             {<<Current + 1, k>> : k \in {l \in DOMAIN rows[p] : rows[p][l].seen = now'}}
    BY <1>1, <1>2, <2>1 DEF StartRun, TypeOK, files
  <2>3. /\ Len(project') = Len(project) + 1 /\ Len(project) \in Nat
        /\ DOMAIN project = 1..Len(project) /\ DOMAIN project' = 1..Len(project) + 1
        /\ \A i \in 1..Len(project) : project'[i] = project[i] /\ began'[i] = began[i]
        /\ project'[Len(project) + 1] = p /\ began'[Len(project) + 1] = now'
    BY <2>2, AppendProperties DEF Current
  <2>4. Started' \ Started = {Current + 1} /\ Started = 1..Current /\ Started \subseteq Started'
    BY <2>3 DEF Started, Current
  <2>5. Noted
    <3> SUFFICES ASSUME NEW k \in DOMAIN rows[p]
                 PROVE  rows[p][k].seen < now' \/ <<Current + 1, k>> \in again'
      BY <2>3, <2>4 DEF Noted, Current
    <3>1. rows[p][k].seen <= now /\ rows[p][k].seen \in Nat
      BY <1>2, RunFacts, ClockAssumption DEF TypeOK, IsTable, Row, Seconds
    <3>2. rows[p][k].seen < now' \/ rows[p][k].seen = now'
      BY <1>2, <2>2, <3>1
    <3> QED BY <2>2, <3>2
  <2> QED BY <1>2, <2>2, <2>3, <2>4, <2>5 DEF Grows, Current
<1>4. CASE ~\E p \in Projects : StartRun(p)
  <2>1. UNCHANGED <<project, mixed, began, again>> /\ now <= now'
    <3>1. CASE Tick
      BY <1>2, <3>1 DEF Tick
    <3>2. CASE ~Tick
      <4>1. UNCHANGED <<project, mixed, began, again, now>>
        BY <1>4, <3>2 DEF Next, Retrieve, Recover, EndRun, Stop, SendFlush, FlushReturns,
             FlushTimesOut, Writer, Take, Derive, Fails, ListTouched, PromoteOne, Promoted,
             Acknowledge, vars, clock
      <4> QED BY <1>2, <4>1
    <3> QED BY <3>1, <3>2
  <2>2. \A r \in Runs, k \in Keys : stored[r][k] <= stored'[r][k]
    <3>1. ASSUME NEW w \in Runs, Derive(w)
          PROVE  \A r \in Runs, k \in Keys : stored[r][k] <= stored'[r][k]
      <4>1. stored' = [stored EXCEPT ![w][work[w].req.key] = @ + 1]
        BY <3>1 DEF Derive
      <4>2. stored \in [Runs -> [Keys -> Nat]]
        BY DEF TypeOK
      <4> QED BY <4>1, <4>2
    <3>2. CASE ~\E w \in Runs : Derive(w)
      <4>1. stored' = stored
        BY <1>4, <3>2 DEF Next, Tick, Retrieve, Recover, EndRun, Stop, SendFlush, FlushReturns,
             FlushTimesOut, Writer, Take, Fails, ListTouched, PromoteOne, Promoted, Acknowledge,
             vars, files
      <4> QED BY <1>2, <4>1
    <3> QED BY <3>1, <3>2
  <2>3. Started' = Started
    BY <2>1 DEF Started
  <2> QED BY <1>2, <2>1, <2>2, <2>3 DEF Grows, Noted
<1> QED BY <1>3, <1>4

LEMMA StillMet ==
  ASSUME TypeOK, Grows, NEW p, NEW k \in Keys
  PROVE  /\ \A t : (/\ Met(p, k, t)
                   /\ \A r \in Started' \ Started :
                        project'[r] = p => t < began'[r] \/ <<r, k>> \in again')
                    => (\E q \in Started' : /\ project'[q] = p /\ stored'[q][k] >= 1
                                           /\ \A r \in Started' : q < r => Foreign(p, k, t, r)')
         /\ MetTwice(p, k) => MetTwice(p, k)'
<1>1. Started \subseteq Runs
  BY RunFacts
<1>2. ASSUME NEW t, Met(p, k, t),
             \A r \in Started' \ Started :
               project'[r] = p => t < began'[r] \/ <<r, k>> \in again'
      PROVE  \E q \in Started' : /\ project'[q] = p /\ stored'[q][k] >= 1
                                 /\ \A r \in Started' : q < r => Foreign(p, k, t, r)'
  <2>1. PICK q \in Started : /\ project[q] = p /\ stored[q][k] >= 1
                             /\ \A r \in Started : q < r => Foreign(p, k, t, r)
    BY <1>2 DEF Met
  <2>2. q \in Started' /\ project'[q] = p /\ stored'[q][k] >= 1
    BY <1>1, <2>1 DEF Grows
  <2>3. \A r \in Started' : q < r => Foreign(p, k, t, r)'
    BY <1>2, <2>1 DEF Grows, Foreign
  <2> QED BY <2>2, <2>3
<1>3. ASSUME MetTwice(p, k)  PROVE MetTwice(p, k)'
  <2>1. PICK q \in Started, r \in Started :
          /\ project[q] = p /\ project[r] = p /\ stored[q][k] >= 1 /\ stored[r][k] >= 1
          /\ q = r => stored[q][k] >= 2
    BY <1>3 DEF MetTwice
  <2>2. /\ q \in Started' /\ r \in Started' /\ project'[q] = p /\ project'[r] = p
        /\ stored'[q][k] >= 1 /\ stored'[r][k] >= 1 /\ (q = r => stored'[q][k] >= 2)
    BY <1>1, <2>1 DEF Grows
  <2> QED BY <2>2 DEF MetTwice
<1> QED BY <1>2, <1>3

\* A store that is left alone, or whose rows are only marked, tells nothing new.
LEMMA StillTraced ==
  ASSUME TypeOK, Grows, Noted, NEW p \in Projects, Traced(p),
         \A k \in DOMAIN rows'[p] : /\ k \in DOMAIN rows[p]
                                    /\ rows'[p][k].seen = rows[p][k].seen
                                    /\ rows'[p][k].count = rows[p][k].count
  PROVE  Traced(p)'
<1> SUFFICES ASSUME NEW k \in DOMAIN rows'[p]
             PROVE  /\ rows'[p][k].seen <= now'
                    /\ Met(p, k, rows[p][k].seen)'
                    /\ rows'[p][k].count >= 2 => MetTwice(p, k)'
  BY DEF Traced
<1>1. k \in DOMAIN rows[p] /\ k \in Keys /\ rows[p][k] \in Row
  BY RunFacts DEF TypeOK, IsTable
<1>2. /\ rows[p][k].seen <= now /\ Met(p, k, rows[p][k].seen)
      /\ rows[p][k].count >= 2 => MetTwice(p, k)
  BY <1>1 DEF Traced
<1>3. rows'[p][k].seen <= now'
  BY <1>1, <1>2 DEF Grows, Row, Seconds
<1>4. PICK t : t = rows[p][k].seen
  OBVIOUS
<1>5. rows'[p][k].seen = t /\ rows'[p][k].count = rows[p][k].count
  BY <1>4
<1>6. Met(p, k, t)' /\ (rows'[p][k].count >= 2 => MetTwice(p, k)')
  <2>1. \A r \in Started' \ Started :
          project'[r] = p => t < began'[r] \/ <<r, k>> \in again'
    BY <1>1, <1>4 DEF Noted
  <2>2. Met(p, k, t)
    BY <1>2, <1>4
  <2>3. Met(p, k, t)'
    BY <1>1, <2>1, <2>2, StillMet DEF Met
  <2> QED BY <1>1, <1>2, <1>5, <2>3, StillMet
<1>7. Met(p, k, rows[p][k].seen)'
  BY <1>5, <1>6 DEF Met, Foreign
<1> QED BY <1>3, <1>6, <1>7

LEMMA StillListed ==
  ASSUME TypeOK, Grows, NEW r \in Runs, Listed(r), work'[r].todo \subseteq work[r].todo
  PROVE  Listed(r)'
<1> SUFFICES ASSUME NEW c \in work'[r].todo
             PROVE  /\ r \in Started'
                    /\ r \in mixed' \/ <<r, c[1]>> \in again' \/ stored'[r][c[1]] > 0
                    /\ c[2] >= 2 => MetTwice(project[r], c[1])'
  BY DEF Listed
<1>1. c \in work[r].todo /\ c[1] \in Keys /\ c[2] \in Nat
  BY DEF TypeOK
<1>2. /\ r \in Started /\ (r \in mixed \/ <<r, c[1]>> \in again \/ stored[r][c[1]] > 0)
      /\ c[2] >= 2 => MetTwice(project[r], c[1])
  BY <1>1 DEF Listed
<1>3. PICK p : p = project[r]
  OBVIOUS
<1>4. project'[r] = p /\ r \in Started'
  BY <1>2, <1>3 DEF Grows
<1>5. c[2] >= 2 => MetTwice(p, c[1])'
  BY <1>1, <1>2, <1>3, StillMet
<1>6. c[2] >= 2 => MetTwice(project[r], c[1])'
  BY <1>4, <1>5 DEF MetTwice
<1> QED BY <1>1, <1>2, <1>4, <1>6 DEF Grows

LEMMA StillEarned ==
  ASSUME TypeOK, Grows, PromotionEarned, DOMAIN rows'[Global] \subseteq DOMAIN rows[Global]
  PROVE  PromotionEarned'
<1> SUFFICES ASSUME NEW k \in DOMAIN rows'[Global]
             PROVE  \E p \in Projects, a \in Actions : MetTwice(p, <<k[1], a>>)'
  BY DEF PromotionEarned
<1>1. k \in DOMAIN rows[Global] /\ k \in Keys
  BY RunFacts DEF TypeOK, IsTable
<1>2. PICK p \in Projects, a \in Actions : MetTwice(p, <<k[1], a>>)
  BY <1>1 DEF PromotionEarned
<1>3. <<k[1], a>> \in Keys
  BY <1>1 DEF Keys
<1>4. MetTwice(p, <<k[1], a>>)'
  BY <1>2, <1>3, StillMet
<1> QED BY <1>4

LEMMA StillItsOwn ==
  ASSUME TypeOK, Grows, PromotesItsOwn,
         \A rk \in promoted' :
           rk \in promoted \/ rk[1] \in mixed' \/ rk \in again' \/ stored'[rk[1]][rk[2]] > 0
  PROVE  PromotesItsOwn'
<1> SUFFICES ASSUME NEW rk \in promoted,
                    rk[1] \in mixed \/ rk \in again \/ stored[rk[1]][rk[2]] > 0
             PROVE  rk[1] \in mixed' \/ rk \in again' \/ stored'[rk[1]][rk[2]] > 0
  BY DEF PromotesItsOwn
<1>1. rk[1] \in Runs /\ rk[2] \in Keys
  BY DEF TypeOK
<1> QED BY <1>1 DEF Grows

\* Whatever neither stores nor lists nor promotes.
LEMMA RowsLeftAlone ==
  ASSUME TypeOK, Grows, Noted, RowsInv,
         \A r \in Runs : work'[r].todo \subseteq work[r].todo,
         \A p \in Stores : /\ DOMAIN rows'[p] = DOMAIN rows[p]
                           /\ \A k \in DOMAIN rows[p] : /\ rows'[p][k].seen = rows[p][k].seen
                                                        /\ rows'[p][k].count = rows[p][k].count,
         promoted' = promoted
  PROVE  RowsInv'
<1>1. \A r \in Runs : Listed(r)'
  BY StillListed DEF RowsInv
<1>2. \A p \in Projects : Traced(p)'
  BY StillTraced, RunFacts DEF RowsInv
<1>3. PromotionEarned'
  BY StillEarned, RunFacts DEF RowsInv
<1>4. PromotesItsOwn'
  BY StillItsOwn DEF RowsInv
<1> QED BY <1>1, <1>2, <1>3, <1>4 DEF RowsInv

\* A recovery that is stored is met, in this run.
LEMMA DeriveTraces ==
  ASSUME TypeOK, Grows, Noted, RowsInv, NEW r \in Started, Behind(r), Derive(r)
  PROVE  RowsInv'
<1>0. /\ r \in Runs /\ project[r] \in Projects /\ work \in [Runs -> Works]
      /\ Current \in Runs /\ r \in 1..Current /\ Started = 1..Current
      /\ DOMAIN rows = Stores /\ Projects \subseteq Stores /\ Global \notin Projects
  BY RunFacts DEF TypeOK, Runs, Works
<1>p. PICK p \in Projects : p = project[r]
  BY <1>0
<1>k. PICK k \in Keys : k = work[r].req.key
  BY <1>0, RequestFacts DEF Derive, Works
<1>1. /\ r \in Runs /\ p \in Projects /\ Global # p /\ Projects \subseteq Stores
      /\ Current \in Runs /\ r \in 1..Current /\ Started = 1..Current
      /\ DOMAIN rows = Stores /\ work \in [Runs -> Works]
  BY <1>0
<1>2. k \in Keys /\ ~Idle(r)
  BY <1>0, RequestFacts DEF Derive, Works, Idle
<1>3. PICK t \in Inserted(rows[p], k, now) : rows' = [rows EXCEPT ![p] = t]
  BY <1>p, <1>k DEF Derive
<1>4. /\ stored' = [stored EXCEPT ![r][k] = @ + 1]
      /\ work' = [work EXCEPT ![r] = AtRest]
      /\ UNCHANGED <<project, began, now, again, promoted, mixed>> /\ Started' = Started
  BY <1>k DEF Derive, Started, clock
<1>5. IsTable(rows[p])
  BY <1>1 DEF TypeOK
<1>6. \A l \in DOMAIN t :
        IF l # k THEN l \in DOMAIN rows[p] /\ t[l] = rows[p][l]
        ELSE /\ t[l].seen = now
             /\ t[l].count = IF k \in DOMAIN rows[p] THEN rows[p][k].count + 1 ELSE 1
  <2>1. now \in Seconds
    BY DEF TypeOK
  <2> QED BY <1>2, <1>3, <1>5, <2>1, Insertion
<1>7. stored'[r][k] = stored[r][k] + 1 /\ stored[r][k] \in Nat
  BY <1>1, <1>2, <1>4 DEF TypeOK
<1>8. project'[r] = p /\ rows'[p] = t /\ \A q \in Stores \ {p} : rows'[q] = rows[q]
  BY <1>p, <1>1, <1>3, <1>4
<1>9. Met(p, k, now)'
  <2>1. r # Current => r..Current \subseteq mixed
    BY <1>2 DEF Behind
  <2>2. r \in Started' /\ project'[r] = p /\ stored'[r][k] >= 1
    BY <1>1, <1>4, <1>7, <1>8
  <2>3. \A q \in Started' : r < q => q \in mixed'
    <3>1. SUFFICES ASSUME NEW q \in 1..Current, r < q PROVE q \in mixed
      BY <1>1, <1>4
    <3>2. r # Current /\ q \in r..Current
      BY <1>1, <3>1 DEF Runs
    <3> QED BY <2>1, <3>2
  <2> QED BY <2>2, <2>3 DEF Met, Foreign
<1>10. k \in DOMAIN rows[p] => MetTwice(p, k)'
  <2>1. SUFFICES ASSUME k \in DOMAIN rows[p]  PROVE MetTwice(p, k)'
    OBVIOUS
  <2>2. PICK q \in Started : project[q] = p /\ stored[q][k] >= 1
    BY <1>1, <2>1 DEF RowsInv, Traced, Met
  <2>3. q \in Started' /\ project'[q] = p /\ stored'[q][k] >= 1 /\ (q = r => stored'[q][k] >= 2)
    BY <1>1, <1>2, <1>4, <1>7, <2>2 DEF Grows
  <2>4. r \in Started' /\ project'[r] = p /\ stored'[r][k] >= 1
    BY <1>4, <1>7, <1>8
  <2> QED BY <2>3, <2>4 DEF MetTwice
<1>11. Traced(p)'
  <2> SUFFICES ASSUME NEW l \in DOMAIN rows'[p]
               PROVE  /\ rows'[p][l].seen <= now'
                      /\ Met(p, l, rows[p][l].seen)'
                      /\ rows'[p][l].count >= 2 => MetTwice(p, l)'
    BY DEF Traced
  <2>1. CASE l = k
    <3>1. rows'[p][l].count >= 2 => k \in DOMAIN rows[p]
      BY <1>6, <1>8, <2>1
    <3>2. rows'[p][l].seen = now /\ now \in Nat
      BY <1>6, <1>8, <2>1 DEF Grows
    <3>3. Met(p, l, rows[p][l].seen)'
      <4>1. PICK s : s = now
        OBVIOUS
      <4>2. Met(p, k, s)' /\ rows'[p][l].seen = s
        BY <1>4, <1>9, <3>2, <4>1 DEF Met, Foreign
      <4> QED BY <2>1, <4>2 DEF Met, Foreign
    <3>4. rows'[p][l].seen <= now'
      BY <1>4, <3>2
    <3>5. rows'[p][l].count >= 2 => MetTwice(p, l)'
      BY <1>10, <2>1, <3>1
    <3> QED BY <3>3, <3>4, <3>5
  <2>2. CASE l # k
    <3>1. l \in DOMAIN rows[p] /\ rows'[p][l] = rows[p][l] /\ l \in Keys
      BY <1>5, <1>6, <1>8, <2>2 DEF IsTable
    <3>2. /\ rows[p][l].seen <= now /\ Met(p, l, rows[p][l].seen)
          /\ rows[p][l].count >= 2 => MetTwice(p, l)
      BY <1>1, <3>1 DEF RowsInv, Traced
    <3>3. PICK s : s = rows[p][l].seen
      OBVIOUS
    <3>4. Met(p, l, s)' /\ rows'[p][l].seen = s /\ (rows[p][l].count >= 2 => MetTwice(p, l)')
      <4>1. Met(p, l, s) /\ Started' \ Started = {}
        BY <1>4, <3>2, <3>3
      <4>2. Met(p, l, s)'
        BY <3>1, <4>1, StillMet DEF Met
      <4> QED BY <3>1, <3>2, <3>3, <4>2, StillMet
    <3>5. Met(p, l, rows[p][l].seen)'
      BY <3>4 DEF Met, Foreign
    <3> QED BY <1>4, <3>1, <3>2, <3>4, <3>5
  <2> QED BY <2>1, <2>2
<1>12. \A q \in Projects : Traced(q)'
  BY <1>1, <1>8, <1>11, StillTraced DEF RowsInv
<1>13. \A q \in Runs : Listed(q)'
  <2>1. \A q \in Runs : work'[q].todo \subseteq work[q].todo
    BY <1>1, <1>4 DEF AtRest
  <2> QED BY <2>1, StillListed DEF RowsInv
<1>14. PromotionEarned' /\ PromotesItsOwn'
  <2>1. rows'[Global] = rows[Global] /\ promoted' = promoted
    BY <1>1, <1>4, <1>8, RunFacts
  <2> QED BY <2>1, StillEarned, StillItsOwn DEF RowsInv
<1> QED BY <1>12, <1>13, <1>14 DEF RowsInv

\* What is listed was seen since the second the run started in: only its own writer was
\* at work, or the row was there and is noted.
LEMMA ListIsItsOwn ==
  ASSUME TypeOK, Grows, Noted, RowsInv, NEW r \in Started, Behind(r), ListTouched(r)
  PROVE  RowsInv'
<1>1. /\ r \in Runs /\ project[r] \in Projects /\ Projects \subseteq Stores
      /\ Current \in Nat /\ r \in 1..Current /\ Started = 1..Current
      /\ work \in [Runs -> Works]
  BY RunFacts DEF TypeOK, Runs, Works
<1>2. ~Idle(r)
  BY <1>1, RequestFacts DEF ListTouched, Works, Idle
<1>3. /\ UNCHANGED <<rows, promoted, stored, project, began, again, mixed>> /\ Started' = Started
      /\ \/ work' = [work EXCEPT ![r] = AtRest]
         \/ work' = [work EXCEPT ![r] =
              [req |-> Promoting,
               todo |-> {Candidate(project[r], k) : k \in Touched(r)}]]
  BY DEF ListTouched, files, Started, clock
<1>4. ASSUME NEW k \in Touched(r)
      PROVE  /\ r \in mixed \/ <<r, k>> \in again \/ stored[r][k] > 0
             /\ rows[project[r]][k].count >= 2 => MetTwice(project[r], k)
  <2>. DEFINE s == rows[project[r]][k].seen
  <2>0. IsTable(rows[project[r]]) /\ began[r] \in Seconds
    BY <1>1 DEF TypeOK
  <2>1. k \in DOMAIN rows[project[r]] /\ s >= began[r] /\ k \in Keys /\ s \in Nat
        /\ began[r] \in Nat
    BY <2>0, ClockAssumption DEF Touched, IsTable, Row, Seconds
  <2>2. /\ Met(project[r], k, s)
        /\ rows[project[r]][k].count >= 2 => MetTwice(project[r], k)
    BY <1>1, <2>1 DEF RowsInv, Traced
  <2> HIDE DEF s
  <2>3. PICK q \in Started : /\ stored[q][k] >= 1
                             /\ q < r => s < began[r] \/ <<r, k>> \in again \/ r \in mixed
    BY <2>2 DEF Met, Foreign
  <2>4. CASE r # Current
    <3>1. r \in r..Current /\ r..Current \subseteq mixed
      BY <1>1, <1>2, <2>4 DEF Behind
    <3> QED BY <2>2, <3>1 DEF s
  <2>5. CASE r = Current /\ q = r
    <3>1. stored[q][k] \in Nat
      BY <1>1, <2>1, RunFacts DEF TypeOK
    <3> QED BY <2>2, <2>3, <2>5, <3>1
  <2>6. CASE r = Current /\ q # r
    <3>1. q < r
      BY <1>1, <2>6
    <3> QED BY <2>1, <2>2, <2>3, <3>1
  <2> QED BY <2>4, <2>5, <2>6
<1>5. Listed(r)'
  <2> SUFFICES ASSUME NEW c \in work'[r].todo
               PROVE  /\ r \in Started'
                      /\ r \in mixed' \/ <<r, c[1]>> \in again' \/ stored'[r][c[1]] > 0
                      /\ c[2] >= 2 => MetTwice(project[r], c[1])'
    BY DEF Listed
  <2>1. \/ work'[r].todo = {}
        \/ work'[r].todo = {Candidate(project[r], k) : k \in Touched(r)}
    BY <1>1, <1>3 DEF AtRest
  <2>2. PICK k \in Touched(r) : c = <<k, rows[project[r]][k].count, rows[project[r]][k].created>>
    BY <2>1 DEF Candidate
  <2>3. c[2] >= 2 => MetTwice(project[r], c[1])
    BY <1>4, <2>2
  <2>4. c[2] >= 2 => MetTwice(project[r], c[1])'
    BY <1>3, <2>3 DEF MetTwice
  <2> QED BY <1>3, <1>4, <2>2, <2>4
<1>6. \A q \in Runs : Listed(q)'
  <2>1. \A q \in Runs \ {r} : work'[q].todo \subseteq work[q].todo
    BY <1>1, <1>3
  <2> QED BY <1>5, <2>1, StillListed DEF RowsInv
<1>7. \A q \in Projects : Traced(q)'
  BY <1>1, <1>3, StillTraced DEF RowsInv
<1>8. PromotionEarned' /\ PromotesItsOwn'
  BY <1>3, StillEarned, StillItsOwn DEF RowsInv
<1> QED BY <1>6, <1>7, <1>8 DEF RowsInv

\* What is promoted was listed, and had been met twice or is confirmed.
LEMMA PromotionIsEarned ==
  ASSUME TypeOK, Grows, Noted, RowsInv, NEW r \in Runs, NEW c \in work[r].todo, PromoteOne(r, c)
  PROVE  RowsInv'
<1>0. work \in [Runs -> Works]
  BY DEF TypeOK, Works
<1>1. /\ Global \in Stores /\ Global \notin Projects /\ Projects \subseteq Stores
      /\ Started \subseteq Runs /\ DOMAIN rows = Stores
  BY RunFacts DEF TypeOK
<1>c. PICK k \in Keys, n \in Nat, born \in Seconds : c = <<k, n, born>>
  BY <1>0 DEF Works
<1>2. /\ <<k, n, born>> \in work[r].todo /\ work' = [work EXCEPT ![r].todo = @ \ {<<k, n, born>>}]
      /\ UNCHANGED <<stored, project, again, mixed>> /\ Started' = Started
  BY <1>c DEF PromoteOne, Started, clock
<1>3. \A q \in Runs : work'[q].todo \subseteq work[q].todo
  BY <1>0, <1>2 DEF Works
<1>4. CASE UNCHANGED <<rows, promoted>>
  BY <1>3, <1>4, RowsLeftAlone
<1>5. CASE /\ ShouldPromote(n, \E l \in DOMAIN rows[Global] : l[1] = k[1])
           /\ \E t \in Inserted(rows[Global], k, born) : rows' = [rows EXCEPT ![Global] = t]
           /\ promoted' = promoted \cup {<<r, k>>}
  <2>1. PICK t \in Inserted(rows[Global], k, born) : rows' = [rows EXCEPT ![Global] = t]
    BY <1>5
  <2>2. /\ r \in Started /\ (r \in mixed \/ <<r, k>> \in again \/ stored[r][k] > 0)
        /\ n >= 2 => MetTwice(project[r], k)
    <3>1. \A d \in work[r].todo :
            /\ r \in Started /\ (r \in mixed \/ <<r, d[1]>> \in again \/ stored[r][d[1]] > 0)
            /\ d[2] >= 2 => MetTwice(project[r], d[1])
      BY DEF RowsInv, Listed
    <3> QED BY <1>2, <3>1
  <2>3. project[r] \in Projects /\ Current \in Runs
    BY <2>2, RunFacts DEF Runs
  <2>4. k = <<k[1], k[2]>> /\ k[1] \in Signatures /\ k[2] \in Actions
    BY DEF Keys
  <2>5. \E p \in Projects, a \in Actions : MetTwice(p, <<k[1], a>>)
    <3>1. CASE n >= 2
      BY <2>2, <2>3, <2>4, <3>1
    <3>2. CASE \E l \in DOMAIN rows[Global] : l[1] = k[1]
      BY <3>2 DEF RowsInv, PromotionEarned
    <3> QED BY <1>5, <3>1, <3>2 DEF ShouldPromote
  <2>6. PromotionEarned'
    <3> SUFFICES ASSUME NEW l \in DOMAIN rows'[Global]
                 PROVE  \E p \in Projects, a \in Actions : MetTwice(p, <<l[1], a>>)'
      BY DEF PromotionEarned
    <3>1. rows'[Global] = t
      BY <1>1, <2>1
    <3>2. l = k \/ l \in DOMAIN rows[Global]
      <4>1. IsTable(rows[Global])
        BY <1>1, RunFacts DEF TypeOK
      <4> QED BY <1>1, <2>1, <3>1, <4>1, Insertion
    <3>3. PICK p \in Projects, a \in Actions : MetTwice(p, <<l[1], a>>)
      BY <2>5, <3>2 DEF RowsInv, PromotionEarned
    <3>4. MetTwice(p, <<l[1], a>>)'
      BY <1>2, <3>3 DEF MetTwice
    <3> QED BY <3>4
  <2>7. \A p \in Projects : Traced(p)'
    <3>1. \A p \in Projects : rows'[p] = rows[p]
      BY <1>1, <2>1
    <3> QED BY <3>1, StillTraced DEF RowsInv
  <2>8. PromotesItsOwn'
    <3>1. \A rk \in promoted' :
            rk \in promoted \/ rk[1] \in mixed' \/ rk \in again' \/ stored'[rk[1]][rk[2]] > 0
      BY <1>2, <1>5, <2>2
    <3> QED BY <3>1, StillItsOwn DEF RowsInv
  <2> QED BY <1>3, <2>6, <2>7, <2>8, StillListed DEF RowsInv
<1> QED BY <1>c, <1>4, <1>5 DEF PromoteOne

LEMMA RowsInStep ==
  ASSUME TypeOK, Awake, QueuesInv, RowsInv, [Next]_vars
  PROVE  RowsInv'
<1>. /\ DOMAIN rows = Stores /\ work \in [Runs -> Works]
     /\ \A s \in Stores : IsTable(rows[s])
  BY DEF TypeOK, Works
<1>1. Grows /\ Noted
  BY GrowsInStep DEF RowsInv, Traced
<1>2. \A r \in Runs : ~Idle(r) => r \in Started /\ Behind(r)
  BY DEF Awake, QueuesInv
<1>3. ASSUME NEW r \in Runs, Derive(r) \/ ListTouched(r)  PROVE RowsInv'
  <2>1. ~Idle(r)
    BY <1>3, RequestFacts DEF Derive, ListTouched, Idle
  <2> QED BY <1>1, <1>2, <1>3, <2>1, DeriveTraces, ListIsItsOwn
<1>4. ASSUME NEW r \in Runs, NEW c \in work[r].todo, PromoteOne(r, c)
      PROVE  RowsInv'
  BY <1>1, <1>4, PromotionIsEarned
<1>5. ASSUME NEW r \in Runs, Take(r) \/ Fails(r) \/ Promoted(r) \/ Acknowledge(r)
      PROVE  RowsInv'
  <2>1. UNCHANGED <<rows, promoted>>
    BY <1>5 DEF Take, Fails, Promoted, Acknowledge, files
  <2>2. \A q \in Runs : work'[q].todo \subseteq work[q].todo
    <3>1. CASE Take(r)
      BY <3>1 DEF Take, Works
    <3>2. CASE Fails(r) \/ Promoted(r) \/ Acknowledge(r)
      BY <3>2 DEF Fails, Promoted, Acknowledge, AtRest
    <3> QED BY <1>5, <3>1, <3>2
  <2> QED BY <1>1, <2>1, <2>2, RowsLeftAlone
<1>6. ASSUME NEW s \in Signatures, Retrieve(s)  PROVE RowsInv'
  <2>2. /\ rows' = [t \in Stores |-> IF t \in {project[Current], Global}
                                     THEN Retrieved(rows[t], s) ELSE rows[t]]
        /\ work' = work /\ promoted' = promoted
    BY <1>6 DEF Retrieve
  <2>3. \A t \in Stores :
          /\ DOMAIN rows'[t] = DOMAIN rows[t]
          /\ \A k \in DOMAIN rows[t] : /\ rows'[t][k].seen = rows[t][k].seen
                                       /\ rows'[t][k].count = rows[t][k].count
    BY <2>2, Retrieval
  <2> QED BY <1>1, <2>2, <2>3, RowsLeftAlone
<1>7. CASE \/ \E p \in Projects : StartRun(p)
           \/ \E k \in Keys : Recover(k)
           \/ \E clean \in BOOLEAN : EndRun(clean)
           \/ Stop \/ SendFlush \/ FlushReturns \/ FlushTimesOut \/ Tick \/ UNCHANGED vars
  <2>1. UNCHANGED <<work, rows, promoted>>
    BY <1>7 DEF StartRun, Recover, EndRun, Stop, SendFlush, FlushReturns, FlushTimesOut, Tick, vars,
            files
  <2> QED BY <1>1, <2>1, RowsLeftAlone
<1> QED BY <1>3, <1>4, <1>5, <1>6, <1>7 DEF Next, Writer

-----------------------------------------------------------------------------
(* The recoveries: the theorems. *)

LEMMA MemoryInit ==
  ASSUME Init
  PROVE  MemoryInv
<1>1. Current = 0 /\ Started = {} /\ \A r \in Runs : Idle(r)
  <2>1. <<>> \in Seq(Projects) /\ Len(<<>>) = 0 /\ DOMAIN <<>> = {}
    OBVIOUS
  <2> QED BY <2>1 DEF Init, Current, Started, Idle, AtRest
<1>2. TypeOK
  <2>1. DOMAIN rows = Stores /\ \A s \in Stores : IsTable(rows[s])
    BY DEF Init, IsTable
  <2>2. work \in [Runs -> Works]
    BY DEF Init, AtRest, Works
  <2>3. /\ queue \in [Runs -> Seq(Requests)] /\ project \in Seq(Projects)
        /\ began \in Seq(Seconds) /\ Len(began) = Current /\ again \subseteq Runs \X Keys
    BY <1>1 DEF Init
  <2>4. stored \in [Runs -> [Keys -> Nat]] /\ recoveries \in Nat
    BY DEF Init
  <2>5. /\ Current <= MaxRuns /\ now \in Seconds /\ aged \in 0..now
        /\ phase \in {"running", "ending", "flushing", "over"} /\ stopped \in BOOLEAN
    <3>1. Current = 0 /\ now = 1 /\ aged = 0 /\ phase = "over" /\ stopped = FALSE
      BY <1>1 DEF Init
    <3>2. Current <= MaxRuns /\ now \in Seconds /\ aged \in 0..now
      BY <3>1, RunsAssumption, ClockAssumption DEF Seconds
    <3>3. phase \in {"running", "ending", "flushing", "over"} /\ stopped \in BOOLEAN
      BY <3>1, Zenon
    <3> QED BY <3>2, <3>3
  <2>6. /\ acked \subseteq Runs /\ flushed \subseteq acked /\ mixed \subseteq Runs
        /\ promoted \subseteq Runs \X Keys
    BY DEF Init
  <2> QED BY <2>1, <2>2, <2>3, <2>4, <2>5, <2>6 DEF TypeOK, Works
<1>3. QueuesInv
  <2>1. \A r \in Runs : /\ DOMAIN queue[r] = {} /\ work[r].req.kind # "flush" /\ r \notin acked
    BY RequestFacts DEF Init, AtRest
  <2> QED BY <1>1, <2>1 DEF QueuesInv, LastWord, Behind
<1>4. RowsInv
  <2>1. /\ \A r \in Runs : work[r].todo = {}
        /\ \A s \in Stores : DOMAIN rows[s] = {}
        /\ promoted = {}
    BY DEF Init, AtRest
  <2> QED BY <2>1, <1>2, RunFacts DEF RowsInv, Listed, Traced, PromotionEarned, PromotesItsOwn
<1> QED BY <1>1, <1>2, <1>3, <1>4 DEF MemoryInv, Awake, Init

LEMMA MemoryInvariant == Spec => []MemoryInv
<1>1. Init => MemoryInv
  BY MemoryInit
<1>2. MemoryInv /\ [Next]_vars => MemoryInv'
  <2> SUFFICES ASSUME MemoryInv, [Next]_vars PROVE MemoryInv'
    OBVIOUS
  <2>1. TypeOK' /\ Awake'
    BY TypesInStep DEF MemoryInv
  <2>2. QueuesInv'
    BY QueuesInStep DEF MemoryInv, QueuesInv
  <2>3. RowsInv'
    BY RowsInStep DEF MemoryInv
  <2> QED BY <2>1, <2>2, <2>3 DEF MemoryInv, TypeOK
<1> QED BY <1>1, <1>2, PTL DEF Spec

\* The queues hold requests, the stores hold rows of episodes, stamped with seconds
\* that have come, and a flush that ended a run was answered.
THEOREM MemoryTyping == Spec => []TypeOK
<1>1. MemoryInv => TypeOK
  BY DEF MemoryInv
<1> QED BY <1>1, MemoryInvariant, PTL

\* A run that has ended with its flush answered has left nothing behind in its
\* writer (queue_terminal_promotion and the barrier in episodic/write.rs).
THEOREM FlushedIsStoredHolds == Spec => []FlushedIsStored
<1>1. MemoryInv => FlushedIsStored
  BY DEF MemoryInv, QueuesInv, LastWord, FlushedIsStored, TypeOK
<1> QED BY <1>1, MemoryInvariant, PTL

\* The global store only tells of signatures that one project has met twice, and
\* got out of by the same actions both times (promote_matching_episodes).
THEOREM PromotionEarnedHolds == Spec => []PromotionEarned
<1>1. MemoryInv => PromotionEarned
  BY DEF MemoryInv, RowsInv
<1> QED BY <1>1, MemoryInvariant, PTL

\* A run promotes only what it has met itself or what was seen in the second it started
\* in, unless a writer was behind when it or the next run started (list_run_touched).
THEOREM PromotesItsOwnHolds == Spec => []PromotesItsOwn
<1>1. MemoryInv => PromotesItsOwn
  BY DEF MemoryInv, RowsInv
<1> QED BY <1>1, MemoryInvariant, PTL

\* What a run promotes was earned: the two together.
THEOREM PromotedIsEarnedHolds == Spec => []PromotedIsEarned
BY PromotionEarnedHolds, PromotesItsOwnHolds, PTL DEF PromotedIsEarned

-----------------------------------------------------------------------------
(* The skills a run learns: the invariant.                                 *)

\* Whoever is not running has nothing in memory.
Asleep == ~running => index = {} /\ writing = {} /\ events = <<>> /\ reread = {}

IsDraft(r) == r.state = "Draft" /\ ~r.edited
Rows(i) == {r \in index : r.id = i}
Unwritten(i) == \A w \in writing : w.onDisk => w.row.id # i

\* Nothing has come from outside, and none of the run's own events came late.
OwnEvents == reread = {} /\ \A n \in DOMAIN events : events[n].kind = "changed"

\* A skill of the index has a file; one that is not a draft of runs has one row.
OneFamily ==
  /\ \A r \in index : disk[r.id] # {}
  /\ \A r, q \in index : r.id = q.id /\ ~IsDraft(r) => q = r

\* What is being written is a draft on top of drafts, newer than all of them
\* unless it writes a version again.
NewDraft ==
  \A w \in writing :
    /\ IsDraft(w.row) /\ \A q \in Rows(w.row.id) : IsDraft(q)
    /\ w.onDisk => disk[w.row.id] = {w.row}
    /\ w.row.id \notin revisited => \A q \in Rows(w.row.id) : q.version < w.row.version

\* The file of an id is a row, the newest one unless a version was written again.
FileIsRow ==
  \A i \in Id : Unwritten(i) =>
    /\ disk[i] \subseteq index
    /\ i \notin revisited => L!Newest(Rows(i)) = disk[i]

LibraryInv ==
  Asleep /\ (running /\ alone => OwnEvents /\ OneFamily /\ NewDraft /\ FileIsRow)

-----------------------------------------------------------------------------
(* The skills a run learns: the stack of push indices, and the open work.  *)

FramesTyped ==
  /\ recorded \in Seq(Tool) /\ pushIdx \in Seq(0 .. Len(recorded))
  /\ subgoals \in Seq(Seq(Tool)) /\ Len(subgoals) = Len(pushIdx)

\* What was recorded since an index grows with what is recorded.
LEMMA SinceGrows ==
  ASSUME NEW seq \in Seq(Tool), NEW t \in Tool, NEW idx \in 0 .. Len(seq)
  PROVE  SubSeq(Append(seq, t), idx + 1, Len(seq) + 1)
           = Append(SubSeq(seq, idx + 1, Len(seq)), t)
<1> DEFINE longer == Append(seq, t)
           before == SubSeq(seq, idx + 1, Len(seq))
           after  == SubSeq(longer, idx + 1, Len(seq) + 1)
<1>1. /\ Len(seq) \in Nat /\ \A i \in 1 .. Len(seq) : seq[i] \in Tool
      /\ idx \in Nat /\ idx <= Len(seq)
  BY ElementOfSeq, LenProperties
<1>2. /\ longer \in Seq(Tool) /\ Len(longer) = Len(seq) + 1
      /\ \A i \in 1 .. Len(seq) : longer[i] = seq[i]
      /\ longer[Len(seq) + 1] = t
  BY AppendProperties
<1> HIDE DEF longer
<1>3. \A i \in idx + 1 .. Len(seq) : seq[i] \in Tool
  BY <1>1
<1>4. /\ before \in Seq(Tool) /\ Len(before) = Len(seq) - idx
      /\ \A i \in 1 .. Len(seq) - idx : before[i] = seq[idx + i]
  <2>1. /\ before \in Seq(Tool)
        /\ Len(before) = IF idx + 1 <= Len(seq) THEN Len(seq) - (idx + 1) + 1 ELSE 0
        /\ \A i \in 1 .. Len(seq) - (idx + 1) + 1 : before[i] = seq[idx + 1 + i - 1]
    BY <1>1, <1>3, SubSeqProperties
  <2> HIDE DEF before
  <2> QED BY <1>1, <2>1
<1>5. \A i \in idx + 1 .. Len(seq) + 1 : longer[i] \in Tool
  BY <1>1, <1>2
<1>6. /\ after \in Seq(Tool) /\ Len(after) = Len(seq) + 1 - idx
      /\ \A i \in 1 .. Len(seq) + 1 - idx : after[i] = longer[idx + i]
  <2>1. /\ after \in Seq(Tool)
        /\ Len(after) = IF idx + 1 <= Len(seq) + 1 THEN Len(seq) + 1 - (idx + 1) + 1 ELSE 0
        /\ \A i \in 1 .. Len(seq) + 1 - (idx + 1) + 1 : after[i] = longer[idx + 1 + i - 1]
    BY <1>1, <1>5, SubSeqProperties
  <2> HIDE DEF after
  <2> QED BY <1>1, <2>1
<1> HIDE DEF before, after
<1>7. /\ Append(before, t) \in Seq(Tool) /\ Len(Append(before, t)) = Len(before) + 1
      /\ \A i \in 1 .. Len(before) : Append(before, t)[i] = before[i]
      /\ Append(before, t)[Len(before) + 1] = t
  BY <1>4, AppendProperties
<1> DEFINE appended == Append(before, t)
<1> HIDE DEF appended
<1>8. ASSUME NEW i \in 1 .. Len(after) PROVE after[i] = appended[i]
  <2>1. CASE i <= Len(seq) - idx
    BY <1>1, <1>2, <1>4, <1>6, <1>7, <2>1 DEF appended
  <2>2. CASE i = Len(seq) + 1 - idx
    <3>1. idx + i = Len(seq) + 1 /\ i = Len(before) + 1 /\ i \in 1 .. Len(seq) + 1 - idx
      BY <1>1, <1>4, <2>2
    <3>2. after[i] = longer[idx + i]
      BY <1>6, <3>1
    <3> QED BY <1>2, <1>7, <3>1, <3>2 DEF appended
  <2>3. i \in 1 .. Len(seq) + 1 - idx
    BY <1>6, <1>8
  <2> QED BY <1>1, <2>1, <2>2, <2>3
<1>9. after = appended
  BY <1>1, <1>4, <1>6, <1>7, <1>8, SeqEqual DEF appended
<1> QED BY <1>9 DEF after, appended, before, longer

\* The last frame goes, the others stay.
LEMMA Shortened ==
  ASSUME NEW S, NEW stack \in Seq(S), stack # <<>>
  PROVE  /\ SubSeq(stack, 1, Len(stack) - 1) \in Seq(S)
         /\ Len(SubSeq(stack, 1, Len(stack) - 1)) = Len(stack) - 1
         /\ \A k \in 1 .. Len(stack) - 1 : SubSeq(stack, 1, Len(stack) - 1)[k] = stack[k]
<1>1. Len(stack) \in Nat \ {0} /\ \A k \in 1 .. Len(stack) - 1 : stack[k] \in S
  BY ElementOfSeq, EmptySeq, LenProperties
<1> DEFINE n == Len(stack) - 1
<1>2. n \in Nat /\ \A k \in 1 .. n : stack[k] \in S
  BY <1>1
<1> HIDE DEF n
<1>3. /\ SubSeq(stack, 1, n) \in Seq(S)
      /\ Len(SubSeq(stack, 1, n)) = IF 1 <= n THEN n - 1 + 1 ELSE 0
      /\ \A k \in 1 .. n - 1 + 1 : SubSeq(stack, 1, n)[k] = stack[1 + k - 1]
  BY <1>2, SubSeqProperties
<1>4. \A k \in 1 .. n : SubSeq(stack, 1, n)[k] = stack[k]
  BY <1>2, <1>3
<1>5. Len(SubSeq(stack, 1, n)) = n
  BY <1>2, <1>3
<1> QED BY <1>3, <1>4, <1>5 DEF n

LEMMA PushKeepsFrames ==
  ASSUME FramesTyped, L!ExtractsItsWork, L!Push
  PROVE  FramesTyped' /\ L!ExtractsItsWork'
<1>1. /\ pushIdx' = Append(pushIdx, Len(recorded)) /\ subgoals' = Append(subgoals, <<>>)
      /\ recorded' = recorded
  BY DEF L!Push
<1>2. /\ Len(recorded) \in 0 .. Len(recorded) /\ <<>> \in Seq(Tool) /\ Len(recorded) \in Nat
  BY EmptySeq, LenProperties DEF FramesTyped
<1> DEFINE IdxSet == 0 .. Len(recorded)
           Work0 == Seq(Tool)
<1>3. Len(recorded) \in IdxSet /\ pushIdx \in Seq(IdxSet) /\ <<>> \in Work0 /\
        subgoals \in Seq(Work0)
  BY <1>2 DEF FramesTyped
<1> HIDE DEF IdxSet, Work0
<1>4. /\ pushIdx' \in Seq(IdxSet) /\ Len(pushIdx') = Len(pushIdx) + 1
      /\ \A k \in 1 .. Len(pushIdx) : pushIdx'[k] = pushIdx[k]
      /\ pushIdx'[Len(pushIdx) + 1] = Len(recorded)
      /\ Len(pushIdx) \in Nat /\ DOMAIN pushIdx = 1 .. Len(pushIdx)
      /\ DOMAIN pushIdx' = 1 .. Len(pushIdx')
  BY <1>1, <1>3, AppendProperties, LenProperties
<1>5. /\ subgoals' \in Seq(Work0) /\ Len(subgoals') = Len(subgoals) + 1
      /\ \A k \in 1 .. Len(subgoals) : subgoals'[k] = subgoals[k]
      /\ subgoals'[Len(subgoals) + 1] = <<>>
  BY <1>1, <1>3, AppendProperties
<1>6. FramesTyped'
  BY <1>1, <1>4, <1>5 DEF FramesTyped, IdxSet, Work0
<1>7. SubSeq(recorded, Len(recorded) + 1, Len(recorded)) = <<>>
  BY <1>2, SubSeqEmpty
<1>8. ASSUME NEW k \in DOMAIN pushIdx' PROVE L!Since(pushIdx[k])' = subgoals[k]'
  <2>1. CASE k \in DOMAIN pushIdx
    <3>1. L!Since(pushIdx[k]) = subgoals[k]
      BY <2>1 DEF L!ExtractsItsWork
    <3>2. pushIdx'[k] = pushIdx[k] /\ subgoals'[k] = subgoals[k]
      BY <1>4, <1>5, <2>1 DEF FramesTyped
    <3> QED BY <1>1, <3>1, <3>2 DEF L!Since
  <2>2. CASE k = Len(pushIdx) + 1
    <3>1. pushIdx'[k] = Len(recorded) /\ subgoals'[k] = <<>>
      BY <1>4, <1>5, <2>2 DEF FramesTyped
    <3> QED BY <1>1, <1>7, <3>1 DEF L!Since
  <2>3. k \in 1 .. Len(pushIdx) + 1
    BY <1>4, <1>8
  <2> QED BY <1>4, <2>1, <2>2, <2>3
<1> QED BY <1>6, <1>8 DEF L!ExtractsItsWork

LEMMA WorkKeepsFrames ==
  ASSUME FramesTyped, L!ExtractsItsWork, NEW t \in Tool, L!Work(t)
  PROVE  FramesTyped' /\ L!ExtractsItsWork'
<1>1. /\ recorded' = Append(recorded, t) /\ pushIdx' = pushIdx
      /\ subgoals' = [k \in DOMAIN subgoals |-> Append(subgoals[k], t)]
  BY DEF L!Work
<1>2. /\ recorded' \in Seq(Tool) /\ Len(recorded') = Len(recorded) + 1 /\ Len(recorded) \in Nat
  BY <1>1, AppendProperties, LenProperties DEF FramesTyped
<1>3. pushIdx \in Seq(0 .. Len(recorded'))
  <2>1. 0 .. Len(recorded) \subseteq 0 .. Len(recorded')
    BY <1>2
  <2> QED BY <2>1, SeqMonotonic DEF FramesTyped
<1>4. /\ Len(subgoals) \in Nat /\ DOMAIN subgoals = 1 .. Len(subgoals)
      /\ \A k \in 1 .. Len(subgoals) : subgoals[k] \in Seq(Tool)
      /\ DOMAIN pushIdx = 1 .. Len(pushIdx) /\ Len(pushIdx) = Len(subgoals)
      /\ \A k \in 1 .. Len(pushIdx) : pushIdx[k] \in 0 .. Len(recorded)
  <2> DEFINE Work0 == Seq(Tool)
  <2>1. subgoals \in Seq(Work0)
    BY DEF FramesTyped
  <2> HIDE DEF Work0
  <2>2. /\ Len(subgoals) \in Nat /\ DOMAIN subgoals = 1 .. Len(subgoals)
        /\ \A k \in 1 .. Len(subgoals) : subgoals[k] \in Work0
    BY <2>1, ElementOfSeq, LenProperties
  <2> DEFINE IdxSet == 0 .. Len(recorded)
  <2>3. pushIdx \in Seq(IdxSet)
    BY DEF FramesTyped
  <2> HIDE DEF IdxSet
  <2>4. DOMAIN pushIdx = 1 .. Len(pushIdx) /\ \A k \in 1 .. Len(pushIdx) : pushIdx[k] \in IdxSet
    BY <2>3, ElementOfSeq, LenProperties
  <2> QED BY <2>2, <2>4 DEF Work0, IdxSet, FramesTyped
<1>5. \A k \in 1 .. Len(subgoals) : Append(subgoals[k], t) \in Seq(Tool)
  BY <1>4, AppendProperties
<1>6. subgoals' \in Seq(Seq(Tool)) /\ Len(subgoals') = Len(subgoals)
  <2> DEFINE Work0 == Seq(Tool)
             grown(k) == Append(subgoals[k], t)
             m == Len(subgoals)
  <2>1. m \in Nat /\ (\A k \in 1 .. m : grown(k) \in Work0) /\
          subgoals' = [k \in 1 .. m |-> grown(k)]
    BY <1>1, <1>4, <1>5
  <2> HIDE DEF Work0, grown, m
  <2>2. subgoals' \in [1 .. m -> Work0]
    BY <2>1
  <2>3. subgoals' \in Seq(Work0) /\ Len(subgoals') = m
    BY <2>1, <2>2
  <2> QED BY <2>3 DEF Work0, m
<1>7. FramesTyped'
  BY <1>1, <1>2, <1>3, <1>6 DEF FramesTyped
<1>8. ASSUME NEW k \in DOMAIN pushIdx PROVE L!Since(pushIdx[k])' = subgoals[k]'
  <2>1. SubSeq(Append(recorded, t), pushIdx[k] + 1, Len(recorded) + 1)
          = Append(SubSeq(recorded, pushIdx[k] + 1, Len(recorded)), t)
    BY <1>4, <1>8, SinceGrows DEF FramesTyped
  <2>2. L!Since(pushIdx[k]) = subgoals[k]
    BY <1>8 DEF L!ExtractsItsWork
  <2>3. subgoals'[k] = Append(subgoals[k], t)
    BY <1>1, <1>4, <1>8
  <2>4. L!Since(pushIdx[k])' = SubSeq(Append(recorded, t), pushIdx[k] + 1, Len(recorded) + 1)
    BY <1>1, <1>2 DEF L!Since
  <2> QED BY <2>1, <2>2, <2>3, <2>4 DEF L!Since
<1> QED BY <1>1, <1>7, <1>8 DEF L!ExtractsItsWork

LEMMA PopKeepsFrames ==
  ASSUME FramesTyped, L!ExtractsItsWork, L!Pop
  PROVE  FramesTyped' /\ L!ExtractsItsWork'
<1> DEFINE IdxSet == 0 .. Len(recorded)
           Work0 == Seq(Tool)
<1>1. /\ pushIdx' = SubSeq(pushIdx, 1, Len(pushIdx) - 1) /\ pushIdx # <<>>
      /\ subgoals' = SubSeq(subgoals, 1, Len(subgoals) - 1) /\ recorded' = recorded
  BY DEF L!Pop, L!Popped
<1>2. pushIdx \in Seq(IdxSet) /\ subgoals \in Seq(Work0) /\ Len(subgoals) = Len(pushIdx)
  BY DEF FramesTyped
<1> HIDE DEF IdxSet, Work0
<1>3. /\ pushIdx' \in Seq(IdxSet) /\ Len(pushIdx') = Len(pushIdx) - 1
      /\ \A k \in 1 .. Len(pushIdx) - 1 : pushIdx'[k] = pushIdx[k]
  BY <1>1, <1>2, Shortened
<1>4. Len(pushIdx) \in Nat \ {0} /\ DOMAIN pushIdx' = 1 .. Len(pushIdx') /\
        DOMAIN pushIdx = 1 .. Len(pushIdx)
  BY <1>1, <1>2, <1>3, EmptySeq, LenProperties
<1>5. subgoals # <<>>
  BY <1>2, <1>4, EmptySeq
<1>6. /\ subgoals' \in Seq(Work0) /\ Len(subgoals') = Len(subgoals) - 1
      /\ \A k \in 1 .. Len(subgoals) - 1 : subgoals'[k] = subgoals[k]
  BY <1>1, <1>2, <1>5, Shortened
<1>7. FramesTyped'
  BY <1>1, <1>2, <1>3, <1>6 DEF FramesTyped, IdxSet, Work0
<1>8. ASSUME NEW k \in DOMAIN pushIdx' PROVE L!Since(pushIdx[k])' = subgoals[k]'
  <2>1. k \in DOMAIN pushIdx /\ pushIdx'[k] = pushIdx[k] /\ subgoals'[k] = subgoals[k]
    BY <1>2, <1>3, <1>4, <1>6, <1>8
  <2>2. L!Since(pushIdx[k]) = subgoals[k]
    BY <2>1 DEF L!ExtractsItsWork
  <2> QED BY <1>1, <2>1, <2>2 DEF L!Since
<1> QED BY <1>7, <1>8 DEF L!ExtractsItsWork

LEMMA NoFrames ==
  ASSUME recorded = <<>>, pushIdx = <<>>, subgoals = <<>>
  PROVE  FramesTyped /\ L!ExtractsItsWork
<1> DEFINE Work0 == Seq(Tool)
<1>1. <<>> \in Seq(Tool) /\ <<>> \in Seq(0 .. Len(recorded)) /\ <<>> \in Seq(Work0)
  BY EmptySeq
<1>2. DOMAIN pushIdx = {}
  OBVIOUS
<1> QED BY <1>1, <1>2 DEF FramesTyped, L!ExtractsItsWork

LEMMA NextKeepsFrames ==
  ASSUME FramesTyped, L!ExtractsItsWork, [L!Next]_(L!vars)
  PROVE  FramesTyped' /\ L!ExtractsItsWork'
<1>1. CASE UNCHANGED L!frames
  BY <1>1 DEF L!frames, FramesTyped, L!ExtractsItsWork, L!Since
<1>2. CASE L!Finish
  <2>1. recorded' = <<>> /\ pushIdx' = <<>> /\ subgoals' = <<>>
    BY <1>2 DEF L!Finish
  <2> DEFINE Work0 == Seq(Tool)
  <2>2. <<>> \in Seq(Tool) /\ <<>> \in Seq(0 .. Len(recorded')) /\ <<>> \in Seq(Work0)
    BY EmptySeq
  <2>3. FramesTyped'
    BY <2>1, <2>2 DEF FramesTyped
  <2>4. DOMAIN pushIdx' = {}
    BY <2>1
  <2>5. L!ExtractsItsWork'
    BY <2>4 DEF L!ExtractsItsWork
  <2> QED BY <2>3, <2>5
<1>3. CASE L!Push
  BY <1>3, PushKeepsFrames
<1>4. CASE \E t \in Tool : L!Work(t)
  BY <1>4, WorkKeepsFrames
<1>5. CASE L!CompleteOnly \/ L!Complete
  BY <1>5, PopKeepsFrames DEF L!CompleteOnly, L!Complete
<1>6. CASE \/ L!Start \/ L!WriteOut \/ L!Install \/ L!Ignore \/ L!Reread \/ L!MarkEdited \/ L!Forget
           \/ \E i \in Id : L!Expire(i)
  BY <1>1, <1>6 DEF L!Start, L!WriteOut, L!Install, L!Ignore, L!Reread, L!MarkEdited,
         L!Forget, L!Expire
<1>7. CASE \E i \in Id : \/ L!Confirm(i) \/ L!Edit(i) \/ L!Remove(i)
                         \/ \E new \in Id \ {Base} : L!Fork(i, new)
  BY <1>1, <1>7 DEF L!Confirm, L!Edit, L!Remove, L!Fork, L!Outside
<1>8. CASE UNCHANGED L!vars
  BY <1>1, <1>8 DEF L!vars
<1> QED BY <1>2, <1>3, <1>4, <1>5, <1>6, <1>7, <1>8 DEF L!Next

\* The steps an extraction takes for an open subgoal are those recorded while it was
\* open (apply_mutations in records.rs), for any depth of the stack and any number
\* of steps.
THEOREM LibraryExtracts == L!Spec => []L!ExtractsItsWork
<1>1. L!Init => FramesTyped /\ L!ExtractsItsWork
  BY NoFrames DEF L!Init
<1>2. FramesTyped /\ L!ExtractsItsWork /\
        [L!Next]_(L!vars) => (FramesTyped /\ L!ExtractsItsWork)'
  BY NextKeepsFrames
<1> QED BY <1>1, <1>2, PTL DEF L!Spec

-----------------------------------------------------------------------------
(* The skills a run learns: the types.                                     *)

\* What an extraction may write: the next version of a draft of the same sketch, of
\* the newest draft, or a new draft.
NextOf(r, q, sketch) ==
  /\ r \in L!Row /\ IsDraft(r) /\ r.sketch = sketch
  /\ q \in L!Mergeable /\ r.id = q.id /\ r.version = q.version + 1
FirstOf(r, sketch) ==
  r \in L!Row /\ IsDraft(r) /\ r.sketch = sketch /\ r.id \in L!NewIds

LEMMA LearntRows ==
  ASSUME index \subseteq L!Row, Base \in Id, NEW sketch \in Seq(Tool), NEW r \in L!Learnt(sketch)
  PROVE  \/ \E q \in L!Mergeable : NextOf(r, q, sketch) /\ q.sketch = sketch
         \/ /\ \A q \in L!Mergeable : q.sketch # sketch
            /\ \E q \in L!Newest(L!Mergeable) : NextOf(r, q, sketch)
         \/ FirstOf(r, sketch)
<1> DEFINE same == {q \in L!Mergeable : q.sketch = sketch}
<1>1. ASSUME NEW q \in L!Mergeable, r = L!Draft(q.id, q.version + 1, sketch)
      PROVE  NextOf(r, q, sketch)
  <2>1. q \in [id : Id, version : Nat, state : L!State, sketch : Seq(Tool), edited : BOOLEAN]
    BY <1>1 DEF L!Mergeable, L!Row
  <2>2. q.id \in Id /\ q.version + 1 \in Nat
    BY <2>1
  <2> QED BY <1>1, <2>2 DEF NextOf, IsDraft, L!Draft, L!Row, L!State
<1>2. ASSUME NEW i \in L!NewIds, r = L!Draft(i, 1, sketch) PROVE FirstOf(r, sketch)
  <2>1. i \in Id
    BY DEF L!NewIds
  <2> QED BY <1>2, <2>1 DEF FirstOf, L!Row, IsDraft, L!State, L!Draft
<1>3. \/ \E q \in L!Newest(same) : r = L!Draft(q.id, q.version + 1, sketch)
      \/ same = {} /\ \E q \in L!Newest(L!Mergeable) : r = L!Draft(q.id, q.version + 1, sketch)
      \/ \E i \in L!NewIds : r = L!Draft(i, 1, sketch)
  BY DEF L!Learnt
<1>4. CASE \E q \in L!Newest(same) : r = L!Draft(q.id, q.version + 1, sketch)
  <2>1. PICK q \in L!Newest(same) : r = L!Draft(q.id, q.version + 1, sketch)
    BY <1>4
  <2>2. q \in L!Mergeable /\ q.sketch = sketch
    BY <2>1 DEF L!Newest
  <2> QED BY <1>1, <2>1, <2>2
<1>5. CASE same = {} /\ \E q \in L!Newest(L!Mergeable) : r = L!Draft(q.id, q.version + 1, sketch)
  <2>1. PICK q \in L!Newest(L!Mergeable) : r = L!Draft(q.id, q.version + 1, sketch)
    BY <1>5
  <2>2. q \in L!Mergeable /\ \A k \in L!Mergeable : k.sketch # sketch
    BY <1>5, <2>1 DEF L!Newest
  <2> QED BY <1>1, <2>1, <2>2
<1> QED BY <1>2, <1>3, <1>4, <1>5

\* TypeOK without the stacks.
StoreTyped ==
  /\ running \in BOOLEAN /\ alone \in BOOLEAN /\ outside \in Nat
  /\ index \subseteq L!Row
  /\ \A r, q \in index : r.id = q.id /\ r.version = q.version => r = q
  /\ disk \in [Id -> SUBSET L!Row]
  /\ \A i \in Id : L!IsOption(disk[i], L!Row) /\ \A r \in disk[i] : r.id = i
  /\ L!IsOption(writing, [row : L!Row, onDisk : BOOLEAN])
  /\ events \in Seq(L!Change) /\ recent \subseteq Id
  /\ L!IsOption(reread, L!Row) /\ revisited \subseteq Id

LEMMA UpsertTyped ==
  ASSUME StoreTyped, NEW r \in L!Row, index' = L!Upsert(r)
  PROVE  /\ index' \subseteq L!Row /\ r \in index'
         /\ \A p, q \in index' : p.id = q.id /\ p.version = q.version => p = q
         /\ \A q \in index : q \in index' \/ (q.id = r.id /\ q.version = r.version)
         /\ \A q \in index' : q \in index \/ q = r
<1>1. \A q : q \in index' <=> q = r \/ (q \in index /\ ~(q.id = r.id /\ q.version = r.version))
  BY DEF L!Upsert
<1> QED BY <1>1 DEF StoreTyped

LEMMA NotedTyped ==
  ASSUME StoreTyped, NEW i \in Id, NEW kind
    \in {"changed", "deleted"}, events' = L!Noted(events, i, kind)
  PROVE  /\ events' \in Seq(L!Change)
         /\ \A n \in DOMAIN events' :
              (n \in DOMAIN events /\ events'[n] = events[n]) \/ events'[n].kind = kind
<1> DEFINE note == [id |-> i, kind |-> kind]
<1>1. note \in L!Change /\ note.kind = kind
  BY DEF L!Change
<1>2. events \in Seq(L!Change)
  BY DEF StoreTyped
<1>3. CASE events' = events
  BY <1>2, <1>3
<1>4. CASE events' = Append(events, note)
  <2> HIDE DEF note, L!Change
  <2>1. /\ events' \in Seq(L!Change) /\ Len(events') = Len(events) + 1
        /\ \A n \in 1 .. Len(events) : events'[n] = events[n]
        /\ events'[Len(events) + 1] = note
    BY <1>1, <1>2, <1>4, AppendProperties
  <2>2. DOMAIN events' = 1 .. Len(events') /\ DOMAIN events = 1 .. Len(events) /\
          Len(events) \in Nat
    BY <1>2, <2>1, LenProperties
  <2>3. \A n \in 1 .. Len(events) + 1 : n \in 1 .. Len(events) \/ n = Len(events) + 1
    BY <2>2
  <2> QED BY <1>1, <2>1, <2>2, <2>3
<1> QED BY <1>3, <1>4 DEF L!Noted

LEMMA TailTyped ==
  ASSUME StoreTyped, events # <<>>
  PROVE  /\ Tail(events) \in Seq(L!Change) /\ Head(events) \in L!Change
         /\ Head(events) = events[1] /\ 1 \in DOMAIN events
         /\ \A n \in DOMAIN Tail(events) : n + 1 \in DOMAIN events /\
              Tail(events)[n] = events[n + 1]
<1>1. events \in Seq(L!Change)
  BY DEF StoreTyped
<1> HIDE DEF L!Change
<1>2. /\ Tail(events) \in Seq(L!Change) /\ Head(events) \in L!Change /\
           Len(Tail(events)) = Len(events) - 1
      /\ \A n \in 1 .. Len(Tail(events)) : Tail(events)[n] = events[n + 1]
  BY <1>1, HeadTailProperties
<1>3. Len(events) \in Nat \ {0} /\ DOMAIN events = 1 .. Len(events)
  BY <1>1, EmptySeq, LenProperties
<1>4. DOMAIN Tail(events) = 1 .. Len(Tail(events))
  BY <1>2, LenProperties
<1> DEFINE rest == Tail(events)
<1> HIDE DEF rest
<1>5. \A n \in DOMAIN rest : n + 1 \in DOMAIN events /\ rest[n] = events[n + 1]
  BY <1>2, <1>3, <1>4 DEF rest
<1>6. Head(events) = events[1]
  BY <1>1
<1> QED BY <1>2, <1>3, <1>5, <1>6 DEF rest

LEMMA ExtractTypes ==
  ASSUME StoreTyped, FramesTyped, L!ExtractsItsWork, Base \in Id, L!Complete
  PROVE  \E sketch \in Seq(Tool) : \E r \in L!Learnt(sketch) :
           /\ r \in L!Row /\ writing' = {[row |-> r, onDisk |-> FALSE]}
           /\ revisited' = (IF L!Rewrites(r) THEN revisited \cup {r.id} ELSE revisited)
           /\ r.sketch = sketch
<1> DEFINE sketch == L!Since(pushIdx[Len(pushIdx)])
<1>1. sketch \in Seq(Tool)
  <2> DEFINE Work0 == Seq(Tool)
             IdxSet == 0 .. Len(recorded)
  <2>1. pushIdx \in Seq(IdxSet) /\ subgoals \in Seq(Work0) /\ Len(subgoals) = Len(pushIdx) /\
          pushIdx # <<>>
    BY DEF FramesTyped, L!Complete, L!Pop
  <2> HIDE DEF IdxSet, Work0
  <2>2. Len(pushIdx) \in 1 .. Len(pushIdx) /\ DOMAIN pushIdx = 1 .. Len(pushIdx)
    BY <2>1, EmptySeq, LenProperties
  <2>3. sketch = subgoals[Len(pushIdx)]
    BY <2>2 DEF L!ExtractsItsWork
  <2> QED BY <2>1, <2>2, <2>3, ElementOfSeq DEF Work0
<1>2. PICK r \in L!Learnt(sketch) :
        /\ writing' = {[row |-> r, onDisk |-> FALSE]}
        /\ revisited' = (IF L!Rewrites(r) THEN revisited \cup {r.id} ELSE revisited)
  BY DEF L!Complete
<1> HIDE DEF sketch
<1>3. r \in L!Row /\ r.sketch = sketch
  <2>1. index \subseteq L!Row
    BY DEF StoreTyped
  <2> QED BY <1>1, <2>1, LearntRows DEF NextOf, FirstOf
<1> QED BY <1>1, <1>2, <1>3

LEMMA LearnTypes ==
  ASSUME StoreTyped, FramesTyped, L!ExtractsItsWork, Base \in Id,
         L!Start \/ L!Finish \/ L!Push \/ (\E t \in Tool : L!Work(t)) \/ L!CompleteOnly \/ L!Complete
  PROVE  StoreTyped'
<1>1. CASE L!Start
  <2>1. index' = UNION {disk[i] : i \in Id} /\ running' = TRUE /\ alone' = TRUE /\
          revisited' = {}
        /\ UNCHANGED <<disk, writing, events, recent, reread, outside>>
    BY <1>1 DEF L!Start, L!watch
  <2>2. /\ index' \subseteq L!Row
        /\ \A r, q \in index' : r.id = q.id /\ r.version = q.version => r = q
    BY <2>1 DEF StoreTyped, L!IsOption
  <2> QED BY <2>1, <2>2 DEF StoreTyped, L!IsOption
<1>2. CASE L!Finish
  <2>1. /\ running' = FALSE /\ index' = {} /\ writing' = {} /\ events' = <<>> /\ recent' = {}
        /\ reread' = {} /\ UNCHANGED <<disk, outside, alone, revisited>>
    BY <1>2 DEF L!Finish
  <2> QED BY <2>1, EmptySeq DEF StoreTyped, L!IsOption
<1>3. CASE L!Push \/ (\E t \in Tool : L!Work(t)) \/ L!CompleteOnly
  BY <1>3 DEF L!Push, L!Work, L!CompleteOnly, L!watch, StoreTyped, L!IsOption
<1>4. CASE L!Complete
  <2>1. PICK r \in L!Row : /\ writing' = {[row |-> r, onDisk |-> FALSE]}
                         /\ revisited' \in {revisited, revisited \cup {r.id}}
    BY <1>4, ExtractTypes
  <2>2. L!IsOption(writing, [row : L!Row, onDisk : BOOLEAN])'
    BY <2>1 DEF L!IsOption
  <2>3. r.id \in Id
    BY DEF L!Row
  <2>4. UNCHANGED <<running, index, disk, events, recent, reread, outside, alone>>
    BY <1>4 DEF L!Complete, L!watch
  <2> HIDE DEF L!Row
  <2> QED BY <2>1, <2>2, <2>3, <2>4 DEF StoreTyped, L!IsOption
<1> QED BY <1>1, <1>2, <1>3, <1>4

LEMMA WriteTypes ==
  ASSUME StoreTyped, L!WriteOut \/ L!Install
  PROVE  StoreTyped'
<1>1. \A w \in writing : w \in [row : L!Row, onDisk : BOOLEAN] /\ w.row \in L!Row /\
        w.row.id \in Id
  BY DEF StoreTyped, L!IsOption, L!Row
<1>2. CASE L!WriteOut
  <2>1. PICK w \in writing :
          /\ disk' = [disk EXCEPT ![w.row.id] = {w.row}]
          /\ recent' = recent \cup {w.row.id}
          /\ events' = L!Noted(events, w.row.id, "changed")
          /\ writing' = {[w EXCEPT !.onDisk = TRUE]}
    BY <1>2 DEF L!WriteOut
  <2>2. UNCHANGED <<running, index, reread, outside, alone, revisited>>
    BY <1>2 DEF L!WriteOut
  <2>3. /\ disk' \in [Id -> SUBSET L!Row]
        /\ \A i \in Id : L!IsOption(disk[i], L!Row)' /\ \A r \in disk'[i] : r.id = i
    BY <1>1, <2>1 DEF StoreTyped, L!IsOption
  <2>4. L!IsOption(writing, [row : L!Row, onDisk : BOOLEAN])'
    <3>1. [w EXCEPT !.onDisk = TRUE] \in [row : L!Row, onDisk : BOOLEAN]
      BY <1>1
    <3> QED BY <2>1, <3>1 DEF L!IsOption
  <2>5. events' \in Seq(L!Change)
    BY <1>1, <2>1, NotedTyped
  <2>6. recent' \subseteq Id
    BY <1>1, <2>1 DEF StoreTyped
  <2> QED BY <2>2, <2>3, <2>4, <2>5, <2>6 DEF StoreTyped, L!IsOption
<1>3. CASE L!Install
  <2>1. PICK w \in writing : index' = L!Upsert(w.row)
    BY <1>3 DEF L!Install
  <2>2. /\ index' \subseteq L!Row
        /\ \A p, q \in index' : p.id = q.id /\ p.version = q.version => p = q
    BY <1>1, <2>1, UpsertTyped
  <2>3. writing' = {} /\
          UNCHANGED <<running, disk, events, recent, reread, outside, alone, revisited>>
    BY <1>3 DEF L!Install, L!watch
  <2> QED BY <2>2, <2>3 DEF StoreTyped, L!IsOption
<1> QED BY <1>2, <1>3

LEMMA WatchTypes ==
  ASSUME StoreTyped, L!Ignore \/ L!Reread \/ L!MarkEdited \/ L!Forget \/ \E i
    \in Id : L!Expire(i)
  PROVE  StoreTyped'
<1>1. CASE \E i \in Id : L!Expire(i)
  BY <1>1 DEF L!Expire, StoreTyped, L!IsOption
<1>2. CASE L!Ignore
  BY <1>2, TailTyped DEF L!Ignore, StoreTyped, L!IsOption
<1>3. CASE L!Reread
  <2>1. events # <<>> /\ reread' = disk[Head(events).id] /\ events' = Tail(events) /\
          alone' = FALSE
        /\ UNCHANGED <<running, index, disk, writing, recent, outside, revisited>>
    BY <1>3 DEF L!Reread
  <2>2. Head(events).id \in Id /\ events' \in Seq(L!Change)
    BY <2>1, TailTyped DEF L!Change
  <2>3. L!IsOption(reread, L!Row)'
    BY <2>1, <2>2 DEF StoreTyped, L!IsOption
  <2> QED BY <2>1, <2>2, <2>3 DEF StoreTyped, L!IsOption
<1>4. CASE L!MarkEdited
  <2> DEFINE marked(r) == [r EXCEPT !.edited = TRUE]
  <2>1. PICK r \in reread :
          /\ index' = L!Upsert(marked(r))
          /\ \/ UNCHANGED <<disk, recent, events>>
             \/ /\ disk' = [disk EXCEPT ![r.id] = {marked(r)}]
                /\ recent' = recent \cup {r.id} /\ events' = L!Noted(events, r.id, "changed")
    BY <1>4 DEF L!MarkEdited
  <2>2. r \in L!Row
    BY <2>1 DEF StoreTyped, L!IsOption
  <2>3. r.id \in Id /\ marked(r) \in L!Row /\ marked(r).id = r.id
    BY <2>2 DEF L!Row
  <2> HIDE DEF marked
  <2>4. /\ index' \subseteq L!Row
        /\ \A p, q \in index' : p.id = q.id /\ p.version = q.version => p = q
    BY <2>1, <2>3, UpsertTyped
  <2>5. /\ disk' \in [Id -> SUBSET L!Row]
        /\ \A i \in Id : L!IsOption(disk[i], L!Row)' /\ \A q \in disk'[i] : q.id = i
    BY <2>1, <2>3 DEF StoreTyped, L!IsOption
  <2>6. events' \in Seq(L!Change) /\ recent' \subseteq Id
    <3>1. CASE UNCHANGED <<recent, events>>
      BY <3>1 DEF StoreTyped
    <3>2. CASE recent' = recent \cup {r.id} /\ events' = L!Noted(events, r.id, "changed")
      BY <2>3, <3>2, NotedTyped DEF StoreTyped
    <3> QED BY <2>1, <3>1, <3>2
  <2>7. reread' = {} /\ UNCHANGED <<running, writing, outside, alone, revisited>>
    BY <1>4 DEF L!MarkEdited
  <2> QED BY <2>4, <2>5, <2>6, <2>7 DEF StoreTyped, L!IsOption
<1>5. CASE L!Forget
  <2>1. events' \in Seq(L!Change)
    BY <1>5, TailTyped DEF L!Forget
  <2>2. /\ index' \subseteq index
        /\ UNCHANGED <<running, disk, writing, recent, reread, outside, alone, revisited>>
    BY <1>5 DEF L!Forget
  <2> QED BY <2>1, <2>2 DEF StoreTyped, L!IsOption
<1> QED BY <1>1, <1>2, <1>3, <1>4, <1>5

\* A change from outside leaves at most one skill in the file of an id.
LEMMA OutsideOutcome ==
  ASSUME StoreTyped, NEW i \in Id,
         L!Confirm(i) \/ L!Edit(i) \/ L!Remove(i) \/ \E new \in Id \ {Base} : L!Fork(i, new)
  PROVE  \E j \in Id, kind \in {"changed", "deleted"}, family \in SUBSET L!Row :
           /\ L!Outside(j, family, kind) /\ L!IsOption(family, L!Row) /\
                \A r \in family : r.id = j
<1>1. \A r \in disk[i] : /\ r \in [id : Id, version : Nat, state : L!State, sketch : Seq(Tool),
                                   edited : BOOLEAN]
                         /\ r.id = i
  BY DEF StoreTyped, L!Row
<1>2. CASE L!Confirm(i)
  <2> DEFINE confirmed(r) == [r EXCEPT !.state = "Confirmed"]
  <2>1. PICK r \in disk[i] : L!Outside(i, {confirmed(r)}, "changed")
    BY <1>2 DEF L!Confirm
  <2>2. confirmed(r) \in L!Row /\ confirmed(r).id = i
    BY <1>1 DEF L!Row, L!State
  <2> HIDE DEF confirmed
  <2> QED BY <2>1, <2>2 DEF L!IsOption
<1>3. CASE L!Edit(i)
  <2> DEFINE edited(r, t) == [r EXCEPT !.sketch = <<t>>]
  <2>1. PICK r \in disk[i], t \in Tool : L!Outside(i, {edited(r, t)}, "changed")
    BY <1>3 DEF L!Edit
  <2>2. edited(r, t) \in L!Row /\ edited(r, t).id = i
    <3>1. <<t>> \in Seq(Tool)
      OBVIOUS
    <3> QED BY <1>1, <3>1 DEF L!Row
  <2> HIDE DEF edited
  <2> QED BY <2>1, <2>2 DEF L!IsOption
<1>4. CASE L!Remove(i)
  BY <1>4 DEF L!Remove, L!IsOption
<1>5. CASE \E new \in Id \ {Base} : L!Fork(i, new)
  <2>1. PICK new \in Id, r \in disk[i] : L!Outside(new, {L!Draft(new, 1, r.sketch)}, "changed")
    BY <1>5 DEF L!Fork
  <2>2. L!Draft(new, 1, r.sketch) \in L!Row /\ L!Draft(new, 1, r.sketch).id = new
    BY <1>1 DEF L!Row, L!State, L!Draft
  <2> QED BY <2>1, <2>2 DEF L!IsOption
<1> QED BY <1>2, <1>3, <1>4, <1>5

LEMMA OutsideTypes ==
  ASSUME StoreTyped, NEW i \in Id,
         L!Confirm(i) \/ L!Edit(i) \/ L!Remove(i) \/ \E new \in Id \ {Base} : L!Fork(i, new)
  PROVE  StoreTyped'
<1>1. PICK j \in Id, kind \in {"changed", "deleted"}, family \in SUBSET L!Row :
        L!Outside(j, family, kind) /\ L!IsOption(family, L!Row) /\ \A r \in family : r.id = j
  BY OutsideOutcome
<1>2. /\ outside' = outside + 1 /\ alone' = FALSE /\ disk' = [disk EXCEPT ![j] = family]
      /\ events' = L!Noted(events, j, kind)
      /\ UNCHANGED <<running, index, writing, recent, reread, revisited>>
  BY <1>1 DEF L!Outside
<1>3. events' \in Seq(L!Change)
  BY <1>2, NotedTyped
<1>4. /\ disk' \in [Id -> SUBSET L!Row]
      /\ \A k \in Id : L!IsOption(disk[k], L!Row)' /\ \A r \in disk'[k] : r.id = k
  BY <1>1, <1>2 DEF StoreTyped, L!IsOption
<1>5. /\ outside' \in Nat /\ alone' \in BOOLEAN
      /\ L!IsOption(writing, [row : L!Row, onDisk : BOOLEAN])' /\ L!IsOption(reread, L!Row)'
  <2>1. outside' \in Nat
    BY <1>2 DEF StoreTyped
  <2>2. writing' = writing /\ reread' = reread
    BY <1>2
  <2>3. alone' \in BOOLEAN
    BY <1>2
  <2> QED BY <2>1, <2>2, <2>3, Zenon DEF StoreTyped, L!IsOption
<1> QED BY <1>2, <1>3, <1>4, <1>5 DEF StoreTyped

-----------------------------------------------------------------------------
(* The skills a run learns: the index and the files.                       *)

\* Of one row at most, that row is the newest.
LEMMA NewestOfOne ==
  ASSUME NEW S, L!IsOption(S, L!Row)
  PROVE  L!Newest(S) = S
<1>1. \A r \in S : r.version \in Nat
  BY DEF L!IsOption, L!Row
<1>2. \A r, q \in S : q.version <= r.version
  BY <1>1 DEF L!IsOption
<1> QED BY <1>2 DEF L!Newest

\* A run begins in step: its index is read from the files.
LEMMA StartInStep ==
  ASSUME StoreTyped, LibraryInv, L!Start
  PROVE  LibraryInv'
<1>1. /\ running' = TRUE /\ index' = UNION {disk[i] : i \in Id} /\ revisited' = {}
      /\ UNCHANGED <<disk, writing, events, reread>>
      /\ writing = {} /\ events = <<>> /\ reread = {}
  BY DEF L!Start, L!watch, LibraryInv, Asleep
<1>2. \A i \in Id : /\ Rows(i)' = disk[i] /\ disk[i] \subseteq index'
                    /\ L!Newest(disk[i]) = disk[i]
  <2>1. \A i \in Id : L!Newest(disk[i]) = disk[i]
    BY NewestOfOne DEF StoreTyped
  <2>2. \A i \in Id : Rows(i)' = disk[i] /\ disk[i] \subseteq index'
    BY <1>1 DEF Rows, StoreTyped
  <2> QED BY <2>1, <2>2
<1>3. OneFamily'
  BY <1>1 DEF OneFamily, StoreTyped, L!IsOption
<1>4. OwnEvents' /\ NewDraft' /\ Asleep'
  BY <1>1 DEF OwnEvents, NewDraft, Asleep
<1>5. FileIsRow'
  <2>1. \A i \in Id : L!Newest(Rows(i))' = disk[i]
    <3>1. \A i \in Id : L!Newest(Rows(i))' = L!Newest(Rows(i)')
      BY DEF L!Newest
    <3> QED BY <1>2, <3>1
  <2> QED BY <1>1, <1>2, <2>1 DEF FileIsRow
<1> QED BY <1>3, <1>4, <1>5 DEF LibraryInv

\* The steps that leave index, files and the row in writing alone, and those after
\* which the run is not alone any more or not at all.
LEMMA Untouched ==
  ASSUME LibraryInv, UNCHANGED <<running, alone, index, disk, writing, revisited>>,
         UNCHANGED <<events, reread>>
  PROVE  LibraryInv'
BY DEF LibraryInv, Asleep, OwnEvents, OneFamily, NewDraft, FileIsRow, Rows, Unwritten,
       L!Newest

LEMMA NotAlone ==
  ASSUME StoreTyped, LibraryInv, L!Reread \/ L!Finish \/ L!MarkEdited \/ L!Forget
         \/ \E i \in Id : L!Confirm(i) \/ L!Edit(i) \/ L!Remove(i) \/ \E new
              \in Id \ {Base} : L!Fork(i, new)
  PROVE  LibraryInv'
<1>1. CASE L!Reread
  <2>1. events # <<>> /\ alone' = FALSE /\ running' = running
    BY <1>1 DEF L!Reread
  <2> QED BY <2>1 DEF LibraryInv, Asleep
<1>2. CASE L!Finish
  BY <1>2 DEF L!Finish, LibraryInv, Asleep
<1>3. CASE L!MarkEdited
  <2>1. reread # {} /\ UNCHANGED <<running, alone>>
    BY <1>3 DEF L!MarkEdited
  <2> QED BY <2>1 DEF LibraryInv, Asleep, OwnEvents
<1>4. CASE L!Forget
  <2>1. events # <<>> /\ Head(events).kind = "deleted" /\ UNCHANGED <<running, alone>>
    BY <1>4 DEF L!Forget
  <2>2. Head(events) = events[1] /\ 1 \in DOMAIN events
    BY <2>1, TailTyped
  <2> QED BY <2>1, <2>2 DEF LibraryInv, Asleep, OwnEvents
<1>5. ASSUME NEW i \in Id,
             L!Confirm(i) \/ L!Edit(i) \/ L!Remove(i) \/ \E new \in Id \ {Base} : L!Fork(i, new)
      PROVE  LibraryInv'
  <2>1. PICK j \in Id, kind \in {"changed", "deleted"}, family \in SUBSET L!Row : L!Outside(j, family, kind)
    BY <1>5, OutsideOutcome
  <2>2. /\ alone' = FALSE /\ UNCHANGED <<running, index, writing, reread>>
        /\ ~running => events' = events
    BY <2>1 DEF L!Outside, L!Noted
  <2> QED BY <2>2 DEF LibraryInv, Asleep
<1> QED BY <1>1, <1>2, <1>3, <1>4, <1>5

\* An extraction adds a draft on top of its family.
LEMMA CompleteInStep ==
  ASSUME StoreTyped, FramesTyped, L!ExtractsItsWork, Base \in Id, LibraryInv, L!Complete
  PROVE  LibraryInv'
<1>1. /\ running /\ writing = {}
      /\ UNCHANGED <<running, index, disk, events, recent, reread, outside, alone>>
  BY DEF L!Complete, L!Busy, L!watch
<1>2. PICK sketch \in Seq(Tool) : \E r \in L!Learnt(sketch) :
        /\ r \in L!Row /\ writing' = {[row |-> r, onDisk |-> FALSE]}
        /\ revisited' = (IF L!Rewrites(r) THEN revisited \cup {r.id} ELSE revisited)
        /\ r.sketch = sketch
  BY ExtractTypes
<1>3. PICK r \in L!Learnt(sketch) :
        /\ r \in L!Row /\ writing' = {[row |-> r, onDisk |-> FALSE]}
        /\ revisited' = (IF L!Rewrites(r) THEN revisited \cup {r.id} ELSE revisited)
        /\ r.sketch = sketch
  BY <1>2
<1>4. SUFFICES ASSUME alone, OwnEvents, OneFamily, NewDraft, FileIsRow
               PROVE  OwnEvents' /\ OneFamily' /\ NewDraft' /\ FileIsRow'
  BY <1>1 DEF LibraryInv, Asleep
<1>5. OwnEvents' /\ OneFamily'
  BY <1>1, <1>4 DEF OwnEvents, OneFamily
<1>6. FileIsRow'
  <2>1. \A i \in Id : Unwritten(i) /\ L!Newest(Rows(i))' = L!Newest(Rows(i))
    BY <1>1 DEF Unwritten, L!Newest, Rows
  <2> QED BY <1>1, <1>3, <1>4, <2>1 DEF FileIsRow
<1>7. IsDraft(r) /\ (\A q \in Rows(r.id) : IsDraft(q))
      /\ (~L!Rewrites(r) => \A q \in Rows(r.id) : q.version < r.version)
  <2>0. index \subseteq L!Row /\ \A q \in index : q.version \in Nat
    BY DEF StoreTyped, L!Row
  <2>1. ASSUME NEW q \in L!Mergeable, r.id = q.id PROVE \A k \in Rows(r.id) : k \in L!Mergeable
    BY <1>4, <2>1 DEF OneFamily, Rows, L!Mergeable, IsDraft
  <2>2. r.version \in Nat
    BY <1>3 DEF L!Row
  <2>3. CASE \E q \in L!Mergeable : NextOf(r, q, sketch) /\ q.sketch = sketch
    <3>1. PICK q \in L!Mergeable : NextOf(r, q, sketch) /\ q.sketch = sketch
      BY <2>3
    <3>2. IsDraft(r) /\ \A k \in Rows(r.id) : k \in L!Mergeable
      BY <2>1, <3>1 DEF NextOf
    <3>3. ~L!Rewrites(r) => \A k \in index : k.id = r.id => ~(k.version >= r.version)
      BY <1>3, <3>1 DEF L!Rewrites
    <3> QED BY <2>0, <2>2, <3>2, <3>3 DEF Rows, L!Mergeable, IsDraft
  <2>4. CASE \E q \in L!Newest(L!Mergeable) : NextOf(r, q, sketch)
    <3>1. PICK q \in L!Newest(L!Mergeable) : NextOf(r, q, sketch)
      BY <2>4
    <3>2. q \in L!Mergeable /\ (\A k \in L!Mergeable : k.version <= q.version) /\
            r.version = q.version + 1
      BY <3>1 DEF L!Newest, NextOf
    <3>3. IsDraft(r) /\ \A k \in Rows(r.id) : k \in L!Mergeable
      BY <2>1, <3>1, <3>2 DEF NextOf
    <3>4. \A k \in L!Mergeable : k.version \in Nat
      BY <2>0 DEF L!Mergeable
    <3> QED BY <3>2, <3>3, <3>4 DEF L!Mergeable, IsDraft
  <2>5. CASE FirstOf(r, sketch)
    <3>1. \A k \in index : k.id # r.id
      BY <2>5 DEF FirstOf, L!NewIds
    <3> QED BY <2>5, <3>1 DEF FirstOf, Rows
  <2> QED BY <2>0, <2>3, <2>4, <2>5, LearntRows
<1>8. NewDraft'
  <2> DEFINE new == [row |-> r, onDisk |-> FALSE]
  <2>1. writing' = {new} /\ new.row = r /\ ~new.onDisk
    BY <1>3
  <2> HIDE DEF new
  <2>2. Rows(r.id)' = Rows(r.id)
    BY <1>1 DEF Rows
  <2>3. r.id \notin revisited' => ~L!Rewrites(r)
    BY <1>3
  <2> QED BY <1>7, <2>1, <2>2, <2>3 DEF NewDraft
<1> QED BY <1>5, <1>6, <1>8

\* The row that is written and then indexed.
LEMMA WriteInStep ==
  ASSUME StoreTyped, LibraryInv, L!WriteOut
  PROVE  LibraryInv'
<1>1. \A w \in writing : w \in [row : L!Row, onDisk : BOOLEAN] /\ w.row.id \in Id
  BY DEF StoreTyped, L!IsOption, L!Row
<1>2. PICK w \in writing :
        /\ ~w.onDisk /\ disk' = [disk EXCEPT ![w.row.id] = {w.row}]
        /\ events' = L!Noted(events, w.row.id, "changed")
        /\ writing' = {[w EXCEPT !.onDisk = TRUE]}
  BY DEF L!WriteOut
<1> DEFINE out == [w EXCEPT !.onDisk = TRUE]
<1>3. writing' = {out} /\ out.row = w.row /\ out.onDisk
  BY <1>1, <1>2
<1> HIDE DEF out
<1>4. UNCHANGED <<running, index, reread, outside, alone, revisited>> /\ running
  BY <1>2 DEF L!WriteOut, LibraryInv, Asleep
<1>5. SUFFICES ASSUME alone, OwnEvents, OneFamily, NewDraft, FileIsRow
               PROVE  OwnEvents' /\ OneFamily' /\ NewDraft' /\ FileIsRow'
  BY <1>4 DEF LibraryInv, Asleep
<1>6. OwnEvents'
  BY <1>1, <1>2, <1>4, <1>5, NotedTyped DEF OwnEvents
<1>7. /\ disk'[w.row.id] = {w.row} /\ \A i \in Id : i # w.row.id => disk'[i] = disk[i]
      /\ \A r \in index : r.id \in Id
  BY <1>1, <1>2 DEF StoreTyped, L!Row
<1>8. OneFamily'
  BY <1>4, <1>5, <1>7 DEF OneFamily
<1>9. NewDraft'
  BY <1>3, <1>4, <1>5, <1>7 DEF NewDraft, Rows
<1>10. FileIsRow'
  <2>1. \A i \in Id : Unwritten(i)' => i # w.row.id
    BY <1>3 DEF Unwritten
  <2>2. \A i \in Id : Unwritten(i)
    BY <1>2 DEF Unwritten, StoreTyped, L!IsOption
  <2>3. \A i \in Id : L!Newest(Rows(i))' = L!Newest(Rows(i))
    BY <1>4 DEF L!Newest, Rows
  <2> QED BY <1>4, <1>5, <1>7, <2>1, <2>2, <2>3 DEF FileIsRow
<1> QED BY <1>6, <1>8, <1>9, <1>10

LEMMA InstallInStep ==
  ASSUME StoreTyped, LibraryInv, L!Install
  PROVE  LibraryInv'
<1>1. PICK w \in writing : w.onDisk /\ index' = L!Upsert(w.row)
  BY DEF L!Install
<1>2. /\ writing' = {} /\
           UNCHANGED <<running, disk, events, recent, reread, outside, alone, revisited>>
      /\ running
  BY <1>1 DEF L!Install, L!watch, LibraryInv, Asleep
<1>3. w.row \in L!Row /\ w.row.id \in Id /\ w.row.version \in Nat /\ \A v \in writing : v = w
  BY <1>1 DEF StoreTyped, L!IsOption, L!Row
<1>4. SUFFICES ASSUME alone, OwnEvents, OneFamily, NewDraft, FileIsRow
               PROVE  OwnEvents' /\ OneFamily' /\ NewDraft' /\ FileIsRow'
  BY <1>2 DEF LibraryInv, Asleep
<1>5. /\ w.row \in index' /\ \A q \in index' : q \in index \/ q = w.row
      /\ \A q \in index : q \in index' \/ (q.id = w.row.id /\ q.version = w.row.version)
  BY <1>1, <1>3, UpsertTyped
<1>6. OwnEvents' /\ NewDraft'
  BY <1>2, <1>4 DEF OwnEvents, NewDraft
<1>7. disk[w.row.id] = {w.row} /\ IsDraft(w.row) /\ \A q \in Rows(w.row.id) : IsDraft(q)
  BY <1>1, <1>4 DEF NewDraft
<1>8. OneFamily'
  BY <1>2, <1>4, <1>5, <1>7 DEF OneFamily, Rows
<1>9. ASSUME NEW i \in Id
      PROVE  /\ disk[i] \subseteq index'
             /\ i \notin revisited => L!Newest(Rows(i))' = disk[i]
  <2>1. CASE i = w.row.id
    <3>1. disk[i] \subseteq index'
      BY <1>5, <1>7, <2>1
    <3>2. ASSUME i \notin revisited PROVE L!Newest(Rows(i)') = {w.row}
      <4>1. \A q \in Rows(i) : q.version < w.row.version /\ q.version \in Nat
        BY <1>1, <1>4, <2>1, <3>2 DEF NewDraft, Rows, StoreTyped, L!Row
      <4>2. w.row \in Rows(i)' /\ \A q \in Rows(i)' : q \in Rows(i) \/ q = w.row
        BY <1>5, <2>1 DEF Rows
      <4>3. \A q \in Rows(i)' : q.version <= w.row.version /\
              (q # w.row => q.version < w.row.version)
        BY <1>3, <4>1, <4>2
      <4>4. \A q \in Rows(i)' : q.version \in Nat
        BY <1>3, <4>1, <4>2
      <4> QED BY <1>3, <4>2, <4>3, <4>4 DEF L!Newest
    <3>3. L!Newest(Rows(i))' = L!Newest(Rows(i)')
      BY DEF L!Newest
    <3> QED BY <1>7, <2>1, <3>1, <3>2, <3>3
  <2>2. CASE i # w.row.id
    <3>1. Unwritten(i)
      BY <1>3, <2>2 DEF Unwritten
    <3>2. Rows(i)' = Rows(i)
      BY <1>5, <2>2 DEF Rows
    <3>3. \A r \in disk[i] : r.id = i
      BY DEF StoreTyped
    <3>4. disk[i] \subseteq index /\ (i \notin revisited => L!Newest(Rows(i)) = disk[i])
      BY <1>4, <3>1 DEF FileIsRow
    <3>5. disk[i] \subseteq index'
      BY <1>5, <2>2, <3>3, <3>4
    <3>6. L!Newest(Rows(i))' = L!Newest(Rows(i))
      BY <3>2 DEF L!Newest
    <3> QED BY <3>4, <3>5, <3>6
  <2> QED BY <2>1, <2>2
<1>10. FileIsRow'
  BY <1>2, <1>9 DEF FileIsRow
<1> QED BY <1>6, <1>8, <1>10

LEMMA NextInStep ==
  ASSUME StoreTyped, FramesTyped, L!ExtractsItsWork, Base \in Id, LibraryInv, [L!Next]_(L!vars)
  PROVE  StoreTyped' /\ LibraryInv'
<1>1. CASE L!Start \/ L!Finish \/ L!Push \/ (\E t \in Tool : L!Work(t)) \/ L!CompleteOnly \/ L!Complete
  <2>1. StoreTyped'
    BY <1>1, LearnTypes
  <2>2. CASE L!Push \/ (\E t \in Tool : L!Work(t)) \/ L!CompleteOnly
    <3>1. UNCHANGED <<running, alone, index, disk, writing, revisited>>
      BY <2>2 DEF L!Push, L!Work, L!CompleteOnly
    <3>2. UNCHANGED <<events, reread>>
      BY <2>2 DEF L!Push, L!Work, L!CompleteOnly, L!watch
    <3> QED BY <2>1, <3>1, <3>2, Untouched
  <2> QED BY <1>1, <2>1, <2>2, StartInStep, NotAlone, CompleteInStep
<1>2. CASE L!WriteOut \/ L!Install
  BY <1>2, WriteTypes, WriteInStep, InstallInStep
<1>3. CASE L!Ignore \/ L!Reread \/ L!MarkEdited \/ L!Forget \/ \E i \in Id : L!Expire(i)
  <2>1. StoreTyped'
    BY <1>3, WatchTypes
  <2>2. CASE \E i \in Id : L!Expire(i)
    <3>1. UNCHANGED <<running, alone, index, disk, writing, revisited>>
      BY <2>2 DEF L!Expire
    <3>2. UNCHANGED <<events, reread>>
      BY <2>2 DEF L!Expire
    <3> QED BY <2>1, <3>1, <3>2, Untouched
  <2>3. CASE L!Ignore
    <3>1. /\ events # <<>> /\ events' = Tail(events)
          /\ UNCHANGED <<running, alone, index, disk, writing, revisited, reread>>
      BY <2>3 DEF L!Ignore
    <3>2. OwnEvents => OwnEvents'
      BY <3>1, TailTyped DEF OwnEvents
    <3>3. running
      BY <3>1 DEF LibraryInv, Asleep
    <3>4. OneFamily /\ NewDraft /\ FileIsRow => OneFamily' /\ NewDraft' /\ FileIsRow'
      BY <3>1 DEF OneFamily, NewDraft, FileIsRow, Rows, Unwritten, L!Newest
    <3>5. running' = running /\ alone' = alone
      BY <3>1
    <3>6. Asleep'
      BY <3>3, <3>5 DEF Asleep
    <3>7. alone => OwnEvents /\ OneFamily /\ NewDraft /\ FileIsRow
      BY <3>3 DEF LibraryInv
    <3>8. alone' => OwnEvents' /\ OneFamily' /\ NewDraft' /\ FileIsRow'
      BY <3>2, <3>4, <3>5, <3>7
    <3> QED BY <2>1, <3>6, <3>8 DEF LibraryInv
  <2> QED BY <1>3, <2>1, <2>2, <2>3, NotAlone
<1>4. ASSUME NEW i \in Id,
             L!Confirm(i) \/ L!Edit(i) \/ L!Remove(i) \/ \E new \in Id \ {Base} : L!Fork(i, new)
      PROVE  StoreTyped' /\ LibraryInv'
  BY <1>4, OutsideTypes, NotAlone
<1>5. CASE UNCHANGED L!vars
  <2>1. StoreTyped'
    BY <1>5 DEF L!vars, L!watch, StoreTyped, L!IsOption
  <2> QED BY <1>5, <2>1, Untouched DEF L!vars, L!watch
<1> QED BY <1>1, <1>2, <1>3, <1>4, <1>5 DEF L!Next

-----------------------------------------------------------------------------
(* The skills a run learns: what holds of every behaviour.                 *)

LibraryHolds ==
  StoreTyped /\ FramesTyped /\ L!ExtractsItsWork /\ LibraryInv

LEMMA LibraryInvariant ==
  ASSUME Base \in Id
  PROVE  L!Spec => []LibraryHolds
<1>1. L!Init => LibraryHolds
  <2> SUFFICES ASSUME L!Init PROVE LibraryHolds
    OBVIOUS
  <2>1. StoreTyped
    BY EmptySeq DEF L!Init, StoreTyped, L!IsOption
  <2>2. FramesTyped /\ L!ExtractsItsWork
    BY NoFrames DEF L!Init
  <2>3. LibraryInv
    BY DEF L!Init, LibraryInv, Asleep
  <2> QED BY <2>1, <2>2, <2>3 DEF LibraryHolds
<1>2. LibraryHolds /\ [L!Next]_(L!vars) => LibraryHolds'
  BY NextKeepsFrames, NextInStep DEF LibraryHolds
<1> QED BY <1>1, <1>2, PTL DEF L!Spec

\* The stacks, the index, the files and the events of the watcher keep their types;
\* a version of a skill has one row.
THEOREM LibraryTyping ==
  ASSUME Base \in Id
  PROVE  L!Spec => []L!TypeOK
<1>1. LibraryHolds => L!TypeOK
  BY DEF LibraryHolds, StoreTyped, FramesTyped, L!TypeOK
<1> QED BY <1>1, LibraryInvariant, PTL

\* While nobody but the run writes skills (and none of its own events comes after
\* RECENT_WRITE_TOLERANCE), the file of an id is a row of the index, and the newest
\* one unless maybe_extract_skill has written a version again.
THEOREM LibraryIndexed ==
  ASSUME Base \in Id
  PROVE  L!Spec => []L!IndexIsDisk
<1>1. LibraryHolds => L!IndexIsDisk
  BY DEF LibraryHolds, LibraryInv, FileIsRow, Unwritten, Rows, L!IndexIsDisk
<1> QED BY <1>1, LibraryInvariant, PTL

-----------------------------------------------------------------------------
(* The files of the runs: the invariant.                                   *)

SweepPcs == {"idle", "dirs", "index", "age", "select", "refs", "done"}
FileRows == [created : Nat, refs : SUBSET Nat]

\* The types: an index, a directory and a day belong to a run that has started.
FileTypes ==
    /\ setting \in Nat /\ today \in Nat /\ up \in BOOLEAN
    /\ last \in Nat /\ run \in 0..last /\ day \in [F!Runs -> Nat] /\ last <= MaxRuns
    /\ dirs \in SUBSET (1..last) /\ index \in SUBSET (1..last) /\ listed \in SUBSET (1..last)
    /\ entries \in [Episodes -> SUBSET FileRows]
    /\ conversation \in Nat /\ cleared \in Nat /\ cleared <= conversation
    /\ chat \in SUBSET Nat /\ saves \in SUBSET Nat /\ wiped \in SUBSET (1..last)
    /\ sweep \in [pc : SweepPcs, removed : SUBSET (1..last), read : SUBSET (1..last),
                  refs : SUBSET (Episodes \X SUBSET Nat)]

\* The sweep is between its first directory and its last row.
Sweeping == sweep.pc \notin {"idle", "done"}

\* A sweep runs in the program, and only if the setting asks for one; the run that is
\* under way has its directory and no line yet, and the sweep ends on the day it began.
SweepHere ==
    /\ sweep.pc # "idle" => up /\ setting # 0
    /\ sweep.pc = "idle" => sweep.removed = {}
    /\ run # F!None => up /\ run \in dirs /\ run \notin index \cup wiped
    /\ run # F!None /\ Sweeping => day[run] = today
    /\ run # F!None /\ sweep.pc = "index" => run \notin sweep.read

\* What the sweep has removed was old.
RemovedAreOld == \A r \in sweep.removed : r \notin dirs /\ ~F!Fresh(day[r])

\* What is fresh is there, with its line unless a sweep has overwritten it.
FreshAreThere ==
    \A r \in 1..last :
        F!Fresh(day[r]) => r \in dirs /\ (r \in listed => r \in index \/ <<r, "lost">> \in raced)

\* A line has its directory, or the sweep that removed it will drop the line, or it was
\* killed before it could.
LinesHaveDirs ==
    /\ \A r \in index : r \in dirs \/ r \in sweep.removed \cup torn
    /\ sweep.pc = "index" => \A r \in sweep.read : r \in dirs \/ r \in sweep.removed \cup torn
    /\ sweep.pc \in {"age", "select", "refs", "done"} => index \cap sweep.removed = {}

\* What the sweep has behind it: the directories, the lines, the aged rows.
SweptSoFar ==
    /\ sweep.pc \in {"index", "age", "select", "refs", "done"} =>
          \A r \in dirs : F!Fresh(day[r]) \/ r \in stuck
    /\ sweep.pc \in {"age", "select", "refs", "done"} =>
          \A r \in index : F!Fresh(day[r]) \/ r \in stuck \cup torn
    /\ sweep.pc \in {"select", "refs", "done"} =>
          \A e \in Episodes : \A w \in entries[e] : F!Fresh(w.created)

\* An episode has one row, and a row that the sweep has looked at refers to a directory.
\* References are only added to a row, so what was selected is a part of what is there.
RowsShow ==
    /\ \A e \in Episodes : \A v, w \in entries[e] : v = w
    /\ sweep.pc = "refs" =>
          /\ \A x, y \in sweep.refs : x[1] = y[1] => x = y
          /\ \A x \in sweep.refs : entries[x[1]] # {} /\ \A w \in entries[x[1]] : x[2] \subseteq w.refs
          /\ \A e \in Episodes : \A w \in entries[e] :
                w.refs \cap dirs # {} \/ \E x \in sweep.refs : x[1] = e
    /\ sweep.pc = "done" => \A e \in Episodes : \A w \in entries[e] : w.refs \cap dirs # {}

\* Every save is of the conversation of its time, and what was cleared is older.
ChatLasts ==
    /\ \A c \in saves : c >= conversation \/ c \in late
    /\ \A c \in chat : c >= cleared \/ c \in late
    /\ \A r \in wiped \cap index : <<r, "back">> \in raced

FilesInv ==
    FileTypes /\ SweepHere /\ RemovedAreOld /\ FreshAreThere /\ LinesHaveDirs /\ SweptSoFar
    /\ RowsShow /\ ChatLasts

-----------------------------------------------------------------------------
(* The files of the runs: each action keeps it.                            *)

\* A number the cast has room for is cast to itself.
LEMMA CastIsSame ==
  ASSUME NEW K \in Nat, NEW m \in Nat, m < K
  PROVE  m % K = m
BY Z3

\* Every run has a day.
LEMMA DaysTyped ==
  ASSUME FileTypes
  PROVE  \A r \in 1..last : r \in F!Runs /\ day[r] \in Nat
BY RunsAssumption DEF FileTypes, F!Runs

\* The days a sweep spares are those of the setting, capped.
LEMMA WindowIsSetting ==
  ASSUME setting \in Nat, today \in Nat
  PROVE  /\ F!Window \in Nat
         /\ setting # 0 => \A d \in Nat : F!Expired(d) <=> ~F!Fresh(d)
         /\ F!Fresh(today)
<1> DEFINE m == IF setting < MaxRetention THEN setting ELSE MaxRetention
<1>1. m \in Nat /\ m < 2 ^ Width /\ m < 2 ^ (Width - 1) /\ 2 ^ Width \in Nat /\ 2 ^ (Width - 1) \in Nat
  BY FilesAssumption
<1>2. m % (2 ^ Width) = m
  BY <1>1, CastIsSame
<1>3. F!Window = m
  BY <1>1, <1>2 DEF F!Window, F!Signed
<1> QED BY <1>1, <1>3, FilesAssumption DEF F!Expired, F!Fresh

\* The types.
LEMMA FileTypesStay ==
  ASSUME FileTypes, SweepHere, [F!Next]_(F!vars)
  PROVE  FileTypes'
<1> USE FilesAssumption, RunsAssumption DEF F!program, F!runVars, F!chatVars, F!sweepVars,
       FileTypes, F!Runs, SweepPcs, FileRows, F!AtRest, F!None, SweepHere, F!Kept,
       F!ChatLeft
<1>1. ASSUME F!NextDay PROVE FileTypes'
  BY <1>1 DEF F!NextDay
<1>2. ASSUME F!Start PROVE FileTypes'
  BY <1>2 DEF F!Start
<1>3. ASSUME F!Kill PROVE FileTypes'
  <2>1. sweep' \in [pc : SweepPcs, removed : SUBSET (1..last'), read : SUBSET (1..last'),
                         refs : SUBSET (Episodes \X SUBSET Nat)]
    BY <1>3 DEF F!Kill
  <2>2. run' \in 0..last
    BY <1>3 DEF F!Kill
  <2>4. saves' = {} /\ up' = FALSE
    BY <1>3 DEF F!Kill
  <2>3. UNCHANGED <<setting, today, last, day, listed, dirs, index, entries, chat, conversation, wiped, cleared>>
    BY <1>3 DEF F!Kill
  <2> QED BY <2>1, <2>2, <2>3, <2>4
<1>4. ASSUME NEW r \in F!Runs, F!SweepDir(r) PROVE FileTypes'
  <2>1. CASE dirs' = dirs \ {r} /\ sweep' = [sweep EXCEPT !.removed = @ \cup {r}]
    <3>1. sweep' \in [pc : SweepPcs, removed : SUBSET (1..last'), read : SUBSET (1..last'),
                         refs : SUBSET (Episodes \X SUBSET Nat)]
      BY <1>4, <2>1 DEF F!SweepDir
    <3> QED BY <1>4, <2>1, <3>1 DEF F!SweepDir
  <2>2. CASE UNCHANGED <<dirs, sweep>>
    BY <1>4, <2>2 DEF F!SweepDir
  <2> QED BY <1>4, <2>1, <2>2 DEF F!SweepDir
<1>5. ASSUME F!SweepReadIndex PROVE FileTypes'
  BY <1>5 DEF F!SweepReadIndex
<1>6. ASSUME F!SweepWriteIndex PROVE FileTypes'
  BY <1>6 DEF F!SweepWriteIndex
<1>7. ASSUME F!SweepAge PROVE FileTypes'
  BY <1>7 DEF F!SweepAge
<1>8. ASSUME F!SweepSelect PROVE FileTypes'
  <2>1. \A e \in Episodes : \A w \in entries[e] : w.refs \in SUBSET Nat
    OBVIOUS
  <2>2. UNION {{<<e, w.refs>> : w \in entries[e]} : e \in Episodes}
          \in SUBSET (Episodes \X SUBSET Nat)
    BY <2>1
  <2> HIDE DEF FileRows
  <2>3. sweep' \in [pc : SweepPcs, removed : SUBSET (1..last'), read : SUBSET (1..last'),
                         refs : SUBSET (Episodes \X SUBSET Nat)]
    BY <1>8, <2>2 DEF F!SweepSelect
  <2> QED BY <1>8, <2>3 DEF F!SweepSelect
<1>9. ASSUME F!SweepDone PROVE FileTypes'
  BY <1>9 DEF F!SweepDone
<1>10. ASSUME NEW e \in Episodes, NEW refs \in SUBSET F!Runs, F!SweepRow(e, refs)
       PROVE  FileTypes'
  BY <1>10 DEF F!SweepRow
<1>11. ASSUME F!StartRun PROVE FileTypes'
  <2>1. last' = last + 1 /\ last' \in 1..MaxRuns /\ run' = last'
    BY <1>11 DEF F!StartRun
  <2>2. 1..last \subseteq 1..last'
    BY <2>1
  <2>3. day' \in [F!Runs -> Nat] /\ dirs' \in SUBSET (1..last')
    BY <1>11, <2>1, <2>2 DEF F!StartRun
  <2>4. /\ index \in SUBSET (1..last') /\ listed \in SUBSET (1..last')
        /\ wiped \in SUBSET (1..last')
        /\ sweep \in [pc : SweepPcs, removed : SUBSET (1..last'), read : SUBSET (1..last'),
                      refs : SUBSET (Episodes \X SUBSET Nat)]
    BY <2>2
  <2>5. UNCHANGED <<setting, today, up, index, listed, entries, conversation, cleared,
                    chat, saves, wiped, sweep>>
    BY <1>11 DEF F!StartRun
  <2>6. run' \in 0..last' /\ last' \in Nat /\ last' <= MaxRuns
    BY <2>1
  <2> HIDE FilesAssumption, RunsAssumption DEF F!Runs, SweepPcs, FileRows, SweepHere
  <2> QED BY <2>3, <2>4, <2>5, <2>6
<1>12. ASSUME NEW e \in Episodes, F!Remember(e) PROVE FileTypes'
  <2>1. run \in Nat
    OBVIOUS
  <2>2. entries[e] \in SUBSET FileRows
    OBVIOUS
  <2>3. \A w \in entries[e] : [w EXCEPT !.refs = @ \cup {run}] \in FileRows
    BY <2>1, <2>2
  <2>4. [created |-> today, refs |-> {run}] \in FileRows
    BY <2>1
  <2>5. entries' \in [Episodes -> SUBSET FileRows]
    <3> HIDE DEF FileRows
    <3> QED BY <1>12, <2>3, <2>4 DEF F!Remember
  <2> QED BY <1>12, <2>5 DEF F!Remember
<1>13. ASSUME NEW b \in BOOLEAN, F!EndRun(b) PROVE FileTypes'
  <2>1. run \in 1..last
    BY <1>13 DEF F!EndRun
  <2>2. index' \in SUBSET (1..last) /\ listed' \in SUBSET (1..last)
    BY <1>13, <2>1 DEF F!EndRun
  <2> QED BY <1>13, <2>2 DEF F!EndRun
<1>14. ASSUME F!Say PROVE FileTypes'
  BY <1>14 DEF F!Say
<1>15. ASSUME NEW c \in saves, F!Save(c) PROVE FileTypes'
  BY <1>15 DEF F!Save
<1>16. ASSUME F!Clear PROVE FileTypes'
  <2>1. conversation' = conversation + 1
    BY <1>16 DEF F!Clear
  <2>2. UNCHANGED <<setting, today, up, last, run, day, dirs, index, listed, entries, cleared,
                    chat, saves, wiped, sweep>>
    BY <1>16 DEF F!Clear
  <2> QED BY <2>1, <2>2
<1>17. ASSUME F!ClearIndex PROVE FileTypes'
  BY <1>17 DEF F!ClearIndex
<1>18. ASSUME F!ClearChat PROVE FileTypes'
  <2>1. chat' = {} /\ cleared' = conversation
    BY <1>18 DEF F!ClearChat
  <2>2. UNCHANGED <<setting, today, up, last, run, day, dirs, index, listed, entries,
                    conversation, saves, wiped, sweep>>
    BY <1>18 DEF F!ClearChat
  <2> QED BY <2>1, <2>2
<1>19. ASSUME F!ClearFails PROVE FileTypes'
  BY <1>19 DEF F!ClearFails
<1>20. ASSUME UNCHANGED F!vars PROVE FileTypes'
  BY <1>20 DEF F!vars
<1> HIDE FilesAssumption, RunsAssumption DEF F!program, F!runVars, F!chatVars, F!sweepVars,
       FileTypes, F!Runs, SweepPcs, FileRows, F!AtRest, F!None, SweepHere, F!Kept,
       F!ChatLeft
<1> QED BY <1>1, <1>2, <1>3, <1>4, <1>5, <1>6, <1>7, <1>8, <1>9, <1>10, <1>11, <1>12, <1>13,
       <1>14, <1>15, <1>16, <1>17, <1>18, <1>19, <1>20 DEF F!Next

\* A sweep stays in the program and on its day.
LEMMA SweepStaysHere ==
  ASSUME FileTypes, SweepHere, FileTypes', [F!Next]_(F!vars)
  PROVE  SweepHere'
<1> USE FilesAssumption, RunsAssumption DEF F!program, F!runVars, F!chatVars, F!sweepVars,
       SweepHere, FileTypes, Sweeping, F!Runs, F!AtRest, F!None, F!Kept
<1>1. ASSUME F!NextDay PROVE SweepHere'
  BY <1>1 DEF F!NextDay
<1>2. ASSUME F!Start PROVE SweepHere'
  BY <1>2 DEF F!Start
<1>3. ASSUME F!Kill PROVE SweepHere'
  BY <1>3 DEF F!Kill
<1>4. ASSUME NEW r \in F!Runs, F!SweepDir(r) PROVE SweepHere'
  <2>1. r \in dirs /\ F!Expired(day[r]) /\ sweep.pc = "dirs"
    BY <1>4 DEF F!SweepDir
  <2>2. run # F!None => run # r
   BY <2>1, WindowIsSetting DEF F!Fresh
  <2>3. sweep'.pc = sweep.pc
    BY <1>4 DEF F!SweepDir
  <2>4. run # F!None => run \in dirs'
    BY <1>4, <2>2 DEF F!SweepDir
  <2> QED BY <1>4, <2>1, <2>3, <2>4 DEF F!SweepDir
<1>5. ASSUME F!SweepReadIndex PROVE SweepHere'
  BY <1>5 DEF F!SweepReadIndex
<1>6. ASSUME F!SweepWriteIndex PROVE SweepHere'
  BY <1>6 DEF F!SweepWriteIndex
<1>7. ASSUME F!SweepAge PROVE SweepHere'
  BY <1>7 DEF F!SweepAge
<1>8. ASSUME F!SweepSelect PROVE SweepHere'
  BY <1>8 DEF F!SweepSelect
<1>9. ASSUME F!SweepDone PROVE SweepHere'
  BY <1>9 DEF F!SweepDone
<1>10. ASSUME NEW e \in Episodes, NEW refs \in SUBSET F!Runs, F!SweepRow(e, refs)
       PROVE  SweepHere'
  BY <1>10 DEF F!SweepRow
<1>11. ASSUME F!StartRun PROVE SweepHere'
  BY <1>11 DEF F!StartRun
<1>12. ASSUME NEW e \in Episodes, F!Remember(e) PROVE SweepHere'
  BY <1>12 DEF F!Remember
<1>13. ASSUME NEW b \in BOOLEAN, F!EndRun(b) PROVE SweepHere'
  BY <1>13 DEF F!EndRun
<1>14. ASSUME F!Say PROVE SweepHere'
  BY <1>14 DEF F!Say
<1>15. ASSUME NEW c \in saves, F!Save(c) PROVE SweepHere'
  BY <1>15 DEF F!Save
<1>16. ASSUME F!Clear PROVE SweepHere'
  BY <1>16 DEF F!Clear
<1>17. ASSUME F!ClearIndex PROVE SweepHere'
  BY <1>17 DEF F!ClearIndex
<1>18. ASSUME F!ClearChat PROVE SweepHere'
  BY <1>18 DEF F!ClearChat
<1>19. ASSUME F!ClearFails PROVE SweepHere'
  BY <1>19 DEF F!ClearFails
<1>20. ASSUME UNCHANGED F!vars PROVE SweepHere'
  BY <1>20 DEF F!vars
<1> HIDE FilesAssumption, RunsAssumption DEF F!program, F!runVars, F!chatVars, F!sweepVars,
       SweepHere, FileTypes, Sweeping, F!Runs, F!AtRest, F!None, F!Kept
<1> QED BY <1>1, <1>2, <1>3, <1>4, <1>5, <1>6, <1>7, <1>8, <1>9, <1>10, <1>11, <1>12, <1>13,
       <1>14, <1>15, <1>16, <1>17, <1>18, <1>19, <1>20 DEF F!Next

\* What was removed does not get younger, and no run gets its directory back.
LEMMA RemovedStayOld ==
  ASSUME FileTypes, SweepHere, FileTypes', RemovedAreOld, [F!Next]_(F!vars)
  PROVE  RemovedAreOld'
<1> USE FilesAssumption, RunsAssumption DEF F!program, F!runVars, F!chatVars, F!sweepVars,
       SweepHere, FileTypes, F!Runs, F!AtRest, F!None, F!Kept, RemovedAreOld, F!Fresh
<1>1. ASSUME F!NextDay PROVE RemovedAreOld'
  BY <1>1, WindowIsSetting DEF F!NextDay
<1>2. ASSUME F!Start PROVE RemovedAreOld'
  BY <1>2, WindowIsSetting DEF F!Start
<1>3. ASSUME F!Kill PROVE RemovedAreOld'
  BY <1>3, WindowIsSetting DEF F!Kill
<1>4. ASSUME NEW r \in F!Runs, F!SweepDir(r) PROVE RemovedAreOld'
  <2>1. r \in dirs /\ setting # 0 /\ F!Expired(day[r])
    BY <1>4 DEF F!SweepDir
  <2>2. ~F!Fresh(day[r])
    BY <2>1, DaysTyped, WindowIsSetting
  <2>3. \A q \in sweep'.removed : q \notin dirs' /\ (q \in sweep.removed \/ q = r)
    BY <1>4 DEF F!SweepDir
  <2>4. UNCHANGED <<day, setting, today>>
    BY <1>4 DEF F!SweepDir
  <2> QED BY <2>2, <2>3, <2>4
<1>5. ASSUME F!SweepReadIndex PROVE RemovedAreOld'
  BY <1>5, WindowIsSetting DEF F!SweepReadIndex
<1>6. ASSUME F!SweepWriteIndex PROVE RemovedAreOld'
  BY <1>6, WindowIsSetting DEF F!SweepWriteIndex
<1>7. ASSUME F!SweepAge PROVE RemovedAreOld'
  BY <1>7, WindowIsSetting DEF F!SweepAge
<1>8. ASSUME F!SweepSelect PROVE RemovedAreOld'
  BY <1>8, WindowIsSetting DEF F!SweepSelect
<1>9. ASSUME F!SweepDone PROVE RemovedAreOld'
  BY <1>9, WindowIsSetting DEF F!SweepDone
<1>10. ASSUME NEW e \in Episodes, NEW refs \in SUBSET F!Runs, F!SweepRow(e, refs)
       PROVE  RemovedAreOld'
  BY <1>10, WindowIsSetting DEF F!SweepRow
<1>11. ASSUME F!StartRun PROVE RemovedAreOld'
  <2>1. \A r \in sweep.removed : r \in 1..last /\ day'[r] = day[r]
    BY <1>11 DEF F!StartRun
  <2>2. \A r \in sweep.removed : r \notin dirs'
    BY <1>11 DEF F!StartRun
  <2>3. UNCHANGED <<sweep, setting, today>>
    BY <1>11 DEF F!StartRun
  <2> QED BY <2>1, <2>2, <2>3
<1>12. ASSUME NEW e \in Episodes, F!Remember(e) PROVE RemovedAreOld'
  BY <1>12, WindowIsSetting DEF F!Remember
<1>13. ASSUME NEW b \in BOOLEAN, F!EndRun(b) PROVE RemovedAreOld'
  BY <1>13, WindowIsSetting DEF F!EndRun
<1>14. ASSUME F!Say PROVE RemovedAreOld'
  BY <1>14, WindowIsSetting DEF F!Say
<1>15. ASSUME NEW c \in saves, F!Save(c) PROVE RemovedAreOld'
  BY <1>15, WindowIsSetting DEF F!Save
<1>16. ASSUME F!Clear PROVE RemovedAreOld'
  BY <1>16, WindowIsSetting DEF F!Clear
<1>17. ASSUME F!ClearIndex PROVE RemovedAreOld'
  BY <1>17, WindowIsSetting DEF F!ClearIndex
<1>18. ASSUME F!ClearChat PROVE RemovedAreOld'
  BY <1>18, WindowIsSetting DEF F!ClearChat
<1>19. ASSUME F!ClearFails PROVE RemovedAreOld'
  BY <1>19, WindowIsSetting DEF F!ClearFails
<1>20. ASSUME UNCHANGED F!vars PROVE RemovedAreOld'
  BY <1>20, WindowIsSetting DEF F!vars
<1> HIDE FilesAssumption, RunsAssumption DEF F!program, F!runVars, F!chatVars, F!sweepVars,
       SweepHere, FileTypes, F!Runs, F!AtRest, F!None, F!Kept, RemovedAreOld, F!Fresh
<1> QED BY <1>1, <1>2, <1>3, <1>4, <1>5, <1>6, <1>7, <1>8, <1>9, <1>10, <1>11, <1>12, <1>13,
       <1>14, <1>15, <1>16, <1>17, <1>18, <1>19, <1>20 DEF F!Next

\* The sweep spares what is fresh.
LEMMA FreshStayThere ==
  ASSUME FileTypes, SweepHere, FileTypes', RemovedAreOld, FreshAreThere, [F!Next]_(F!vars)
  PROVE  FreshAreThere'
<1> USE FilesAssumption, RunsAssumption DEF F!program, F!runVars, F!chatVars, F!sweepVars,
       SweepHere, FileTypes, F!Runs, F!AtRest, F!None, F!Kept, RemovedAreOld, FreshAreThere,
       F!Fresh
<1>1. ASSUME F!NextDay PROVE FreshAreThere'
  <2>1. \A d \in Nat : F!Fresh(d)' => F!Fresh(d)
    BY <1>1 DEF F!NextDay
  <2>2. \A r \in 1..last : day[r] \in Nat
    BY DaysTyped
  <2>3. UNCHANGED <<last, day, dirs, index, listed, raced>>
    BY <1>1 DEF F!NextDay
  <2> QED BY <2>1, <2>2, <2>3
<1>2. ASSUME F!Start PROVE FreshAreThere'
  BY <1>2, WindowIsSetting DEF F!Start
<1>3. ASSUME F!Kill PROVE FreshAreThere'
  BY <1>3, WindowIsSetting DEF F!Kill
<1>4. ASSUME NEW r \in F!Runs, F!SweepDir(r) PROVE FreshAreThere'
  BY <1>4, WindowIsSetting DEF F!SweepDir
<1>5. ASSUME F!SweepReadIndex PROVE FreshAreThere'
  BY <1>5, WindowIsSetting DEF F!SweepReadIndex
<1>6. ASSUME F!SweepWriteIndex PROVE FreshAreThere'
  BY <1>6, WindowIsSetting DEF F!SweepWriteIndex
<1>7. ASSUME F!SweepAge PROVE FreshAreThere'
  BY <1>7, WindowIsSetting DEF F!SweepAge
<1>8. ASSUME F!SweepSelect PROVE FreshAreThere'
  BY <1>8, WindowIsSetting DEF F!SweepSelect
<1>9. ASSUME F!SweepDone PROVE FreshAreThere'
  BY <1>9, WindowIsSetting DEF F!SweepDone
<1>10. ASSUME NEW e \in Episodes, NEW refs \in SUBSET F!Runs, F!SweepRow(e, refs)
       PROVE  FreshAreThere'
  BY <1>10, WindowIsSetting DEF F!SweepRow
<1>11. ASSUME F!StartRun PROVE FreshAreThere'
  <2>1. \A r \in 1..last : day'[r] = day[r]
    BY <1>11 DEF F!StartRun
  <2>2. last' = last + 1 /\ last' \in dirs' /\ last' \notin listed
    BY <1>11 DEF F!StartRun
  <2>3. \A r \in 1..last' : r \in 1..last \/ r = last'
    BY <2>2
  <2> QED BY <1>11, <2>1, <2>2, <2>3 DEF F!StartRun
<1>12. ASSUME NEW e \in Episodes, F!Remember(e) PROVE FreshAreThere'
  BY <1>12, WindowIsSetting DEF F!Remember
<1>13. ASSUME NEW b \in BOOLEAN, F!EndRun(b) PROVE FreshAreThere'
  BY <1>13, WindowIsSetting DEF F!EndRun
<1>14. ASSUME F!Say PROVE FreshAreThere'
  BY <1>14, WindowIsSetting DEF F!Say
<1>15. ASSUME NEW c \in saves, F!Save(c) PROVE FreshAreThere'
  BY <1>15, WindowIsSetting DEF F!Save
<1>16. ASSUME F!Clear PROVE FreshAreThere'
  BY <1>16, WindowIsSetting DEF F!Clear
<1>17. ASSUME F!ClearIndex PROVE FreshAreThere'
  BY <1>17, WindowIsSetting DEF F!ClearIndex
<1>18. ASSUME F!ClearChat PROVE FreshAreThere'
  BY <1>18, WindowIsSetting DEF F!ClearChat
<1>19. ASSUME F!ClearFails PROVE FreshAreThere'
  BY <1>19, WindowIsSetting DEF F!ClearFails
<1>20. ASSUME UNCHANGED F!vars PROVE FreshAreThere'
  BY <1>20, WindowIsSetting DEF F!vars
<1> HIDE FilesAssumption, RunsAssumption DEF F!program, F!runVars, F!chatVars, F!sweepVars,
       SweepHere, FileTypes, F!Runs, F!AtRest, F!None, F!Kept, RemovedAreOld, FreshAreThere,
       F!Fresh
<1> QED BY <1>1, <1>2, <1>3, <1>4, <1>5, <1>6, <1>7, <1>8, <1>9, <1>10, <1>11, <1>12, <1>13,
       <1>14, <1>15, <1>16, <1>17, <1>18, <1>19, <1>20 DEF F!Next

\* Directories and lines go together, or the sweep knows of it.
LEMMA LinesKeepDirs ==
  ASSUME FileTypes, SweepHere, FileTypes', LinesHaveDirs, RemovedAreOld, [F!Next]_(F!vars)
  PROVE  LinesHaveDirs'
<1> USE FilesAssumption, RunsAssumption DEF F!program, F!runVars, F!chatVars, F!sweepVars,
       SweepHere, FileTypes, F!Runs, F!AtRest, F!None, F!Kept, LinesHaveDirs, RemovedAreOld
<1>1. ASSUME F!NextDay PROVE LinesHaveDirs'
  BY <1>1 DEF F!NextDay
<1>2. ASSUME F!Start PROVE LinesHaveDirs'
  BY <1>2 DEF F!Start
<1>3. ASSUME F!Kill PROVE LinesHaveDirs'
  BY <1>3 DEF F!Kill
<1>4. ASSUME NEW r \in F!Runs, F!SweepDir(r) PROVE LinesHaveDirs'
  <2>1. CASE dirs' = dirs \ {r} /\ sweep' = [sweep EXCEPT !.removed = @ \cup {r}]
    BY <1>4, <2>1 DEF F!SweepDir
  <2>2. CASE UNCHANGED <<dirs, sweep>>
    BY <1>4, <2>2 DEF F!SweepDir
  <2> QED BY <1>4, <2>1, <2>2 DEF F!SweepDir
<1>5. ASSUME F!SweepReadIndex PROVE LinesHaveDirs'
  BY <1>5 DEF F!SweepReadIndex
<1>6. ASSUME F!SweepWriteIndex PROVE LinesHaveDirs'
  BY <1>6 DEF F!SweepWriteIndex
<1>7. ASSUME F!SweepAge PROVE LinesHaveDirs'
  BY <1>7 DEF F!SweepAge
<1>8. ASSUME F!SweepSelect PROVE LinesHaveDirs'
  BY <1>8 DEF F!SweepSelect
<1>9. ASSUME F!SweepDone PROVE LinesHaveDirs'
  BY <1>9 DEF F!SweepDone
<1>10. ASSUME NEW e \in Episodes, NEW refs \in SUBSET F!Runs, F!SweepRow(e, refs)
       PROVE  LinesHaveDirs'
  BY <1>10 DEF F!SweepRow
<1>11. ASSUME F!StartRun PROVE LinesHaveDirs'
  BY <1>11 DEF F!StartRun
<1>12. ASSUME NEW e \in Episodes, F!Remember(e) PROVE LinesHaveDirs'
  BY <1>12 DEF F!Remember
<1>13. ASSUME NEW b \in BOOLEAN, F!EndRun(b) PROVE LinesHaveDirs'
  BY <1>13 DEF F!EndRun
<1>14. ASSUME F!Say PROVE LinesHaveDirs'
  BY <1>14 DEF F!Say
<1>15. ASSUME NEW c \in saves, F!Save(c) PROVE LinesHaveDirs'
  BY <1>15 DEF F!Save
<1>16. ASSUME F!Clear PROVE LinesHaveDirs'
  BY <1>16 DEF F!Clear
<1>17. ASSUME F!ClearIndex PROVE LinesHaveDirs'
  BY <1>17 DEF F!ClearIndex
<1>18. ASSUME F!ClearChat PROVE LinesHaveDirs'
  BY <1>18 DEF F!ClearChat
<1>19. ASSUME F!ClearFails PROVE LinesHaveDirs'
  BY <1>19 DEF F!ClearFails
<1>20. ASSUME UNCHANGED F!vars PROVE LinesHaveDirs'
  BY <1>20 DEF F!vars
<1> HIDE FilesAssumption, RunsAssumption DEF F!program, F!runVars, F!chatVars, F!sweepVars,
       SweepHere, FileTypes, F!Runs, F!AtRest, F!None, F!Kept, LinesHaveDirs, RemovedAreOld
<1> QED BY <1>1, <1>2, <1>3, <1>4, <1>5, <1>6, <1>7, <1>8, <1>9, <1>10, <1>11, <1>12, <1>13,
       <1>14, <1>15, <1>16, <1>17, <1>18, <1>19, <1>20 DEF F!Next

\* A merge keeps a row and its day, and adds a reference.
LEMMA MergeKeepsRow ==
  ASSUME FileTypes, NEW e \in Episodes, F!Remember(e), entries[e] # {}
  PROVE  entries'[e] = {[w EXCEPT !.refs = @ \cup {run}] : w \in entries[e]}
BY DEF F!Remember, FileTypes

\* What the sweep has behind it stays so: what is added is of its day.
LEMMA SweptStaysSo ==
  ASSUME FileTypes, SweepHere, FileTypes', LinesHaveDirs, RemovedAreOld, SweptSoFar, [F!Next]_(F!vars)
  PROVE  SweptSoFar'
<1> USE FilesAssumption, RunsAssumption DEF F!program, F!runVars, F!chatVars, F!sweepVars,
       SweepHere, FileTypes, F!Runs, F!AtRest, F!None, F!Kept, LinesHaveDirs, RemovedAreOld,
       SweptSoFar, F!Fresh, Sweeping
<1>1. ASSUME F!NextDay PROVE SweptSoFar'
  BY <1>1, WindowIsSetting DEF F!NextDay
<1>2. ASSUME F!Start PROVE SweptSoFar'
  BY <1>2, WindowIsSetting DEF F!Start
<1>3. ASSUME F!Kill PROVE SweptSoFar'
  BY <1>3, WindowIsSetting DEF F!Kill
<1>4. ASSUME NEW r \in F!Runs, F!SweepDir(r) PROVE SweptSoFar'
  BY <1>4, WindowIsSetting DEF F!SweepDir
<1>5. ASSUME F!SweepReadIndex PROVE SweptSoFar'
  <2>1. \A q \in dirs : F!Fresh(day[q]) \/ q \in stuck
    <3>1. setting # 0 /\ \A q \in dirs \ stuck : ~F!Expired(day[q])
      BY <1>5 DEF F!SweepReadIndex
    <3>2. \A q \in dirs : day[q] \in Nat
      BY DaysTyped
    <3>3. \A d \in Nat : F!Expired(d) <=> ~F!Fresh(d)
      BY <3>1, WindowIsSetting
    <3> HIDE DEF F!Fresh
    <3> QED BY <3>1, <3>2, <3>3
  <2>2. sweep'.pc \in {"index", "age"} /\ UNCHANGED <<dirs, stuck, day, index, torn, setting, today>>
    BY <1>5 DEF F!SweepReadIndex
  <2>3. sweep'.pc = "age" => index \cap sweep.removed = {}
    BY <1>5 DEF F!SweepReadIndex
  <2> QED BY <2>1, <2>2, <2>3
<1>6. ASSUME F!SweepWriteIndex PROVE SweptSoFar'
  BY <1>6, WindowIsSetting DEF F!SweepWriteIndex
<1>7. ASSUME F!SweepAge PROVE SweptSoFar'
  <2>1. \A e \in Episodes : entries'[e] = {w \in entries[e] : ~F!Expired(w.created)}
    BY <1>7 DEF F!SweepAge
  <2>2. \A e \in Episodes : \A w \in entries[e] : w.created \in Nat
    BY DEF FileRows
  <2>3. \A e \in Episodes : \A w \in entries'[e] : F!Fresh(w.created)
    BY <1>7, <2>1, <2>2, WindowIsSetting DEF F!SweepAge
  <2> QED BY <1>7, <2>3 DEF F!SweepAge
<1>8. ASSUME F!SweepSelect PROVE SweptSoFar'
  BY <1>8, WindowIsSetting DEF F!SweepSelect
<1>9. ASSUME F!SweepDone PROVE SweptSoFar'
  BY <1>9, WindowIsSetting DEF F!SweepDone
<1>10. ASSUME NEW e \in Episodes, NEW refs \in SUBSET F!Runs, F!SweepRow(e, refs)
       PROVE  SweptSoFar'
  <2>1. \A f \in Episodes : entries'[f] \subseteq entries[f]
    BY <1>10 DEF F!SweepRow
  <2>2. sweep'.pc = sweep.pc
    BY <1>10 DEF F!SweepRow
  <2>3. UNCHANGED <<setting, today, day, dirs, index, stuck, torn>>
    BY <1>10 DEF F!SweepRow
  <2> QED BY <2>1, <2>2, <2>3
<1>11. ASSUME F!StartRun PROVE SweptSoFar'
  <2>1. \A q \in dirs' : (q \in dirs /\ day'[q] = day[q]) \/ day'[q] = today
    BY <1>11 DEF F!StartRun
  <2>2. \A q \in index : day'[q] = day[q]
    BY <1>11 DEF F!StartRun
  <2>3. F!Fresh(today)
    BY WindowIsSetting
  <2>4. UNCHANGED <<setting, today, entries, index, sweep, stuck, torn>>
    BY <1>11 DEF F!StartRun
  <2> HIDE FilesAssumption, RunsAssumption DEF FileTypes, SweepHere, F!Runs
  <2> QED BY <2>1, <2>2, <2>3, <2>4
<1>12. ASSUME NEW e \in Episodes, F!Remember(e) PROVE SweptSoFar'
  <2>1. \A w \in entries'[e] : F!Fresh(w.created)' \/ \E v \in entries[e] : w.created = v.created
    <3>1. CASE entries[e] = {}
      BY <1>12, <3>1, WindowIsSetting DEF F!Remember
    <3>2. CASE entries[e] # {}
      <4>1. entries'[e] = {[w EXCEPT !.refs = @ \cup {run}] : w \in entries[e]}
        BY <1>12, <3>2, MergeKeepsRow
      <4>2. \A w \in entries[e] : [w EXCEPT !.refs = @ \cup {run}].created = w.created
        BY DEF FileRows
      <4> HIDE FilesAssumption, RunsAssumption DEF FileTypes, SweepHere, SweptSoFar
      <4> QED BY <4>1, <4>2
    <3> QED BY <3>1, <3>2
  <2>2. \A f \in Episodes : f # e => entries'[f] = entries[f]
    BY <1>12 DEF F!Remember
  <2>3. UNCHANGED <<sweep, dirs, day, index, stuck, torn, setting, today>>
    BY <1>12 DEF F!Remember
  <2> QED BY <2>1, <2>2, <2>3
<1>13. ASSUME NEW b \in BOOLEAN, F!EndRun(b) PROVE SweptSoFar'
  BY <1>13, WindowIsSetting DEF F!EndRun
<1>14. ASSUME F!Say PROVE SweptSoFar'
  BY <1>14, WindowIsSetting DEF F!Say
<1>15. ASSUME NEW c \in saves, F!Save(c) PROVE SweptSoFar'
  BY <1>15, WindowIsSetting DEF F!Save
<1>16. ASSUME F!Clear PROVE SweptSoFar'
  BY <1>16, WindowIsSetting DEF F!Clear
<1>17. ASSUME F!ClearIndex PROVE SweptSoFar'
  BY <1>17, WindowIsSetting DEF F!ClearIndex
<1>18. ASSUME F!ClearChat PROVE SweptSoFar'
  BY <1>18, WindowIsSetting DEF F!ClearChat
<1>19. ASSUME F!ClearFails PROVE SweptSoFar'
  BY <1>19, WindowIsSetting DEF F!ClearFails
<1>20. ASSUME UNCHANGED F!vars PROVE SweptSoFar'
  BY <1>20, WindowIsSetting DEF F!vars
<1> HIDE FilesAssumption, RunsAssumption DEF F!program, F!runVars, F!chatVars, F!sweepVars,
       SweepHere, FileTypes, F!Runs, F!AtRest, F!None, F!Kept, LinesHaveDirs, RemovedAreOld,
       SweptSoFar, F!Fresh, Sweeping
<1> QED BY <1>1, <1>2, <1>3, <1>4, <1>5, <1>6, <1>7, <1>8, <1>9, <1>10, <1>11, <1>12, <1>13,
       <1>14, <1>15, <1>16, <1>17, <1>18, <1>19, <1>20 DEF F!Next

\* A row that is merged while the sweep holds the selection keeps what was selected.
LEMMA RowsStillShow ==
  ASSUME FileTypes, SweepHere, FileTypes', RowsShow, [F!Next]_(F!vars)
  PROVE  RowsShow'
<1> USE FilesAssumption, RunsAssumption DEF F!program, F!runVars, F!chatVars, F!sweepVars,
       SweepHere, FileTypes, F!Runs, F!AtRest, F!None, RowsShow, FileRows
<1>1. ASSUME F!NextDay PROVE RowsShow'
  BY <1>1 DEF F!NextDay
<1>2. ASSUME F!Start PROVE RowsShow'
  BY <1>2 DEF F!Start
<1>3. ASSUME F!Kill PROVE RowsShow'
  BY <1>3 DEF F!Kill
<1>4. ASSUME NEW r \in F!Runs, F!SweepDir(r) PROVE RowsShow'
  <2>1. sweep'.pc = sweep.pc
    BY <1>4 DEF F!SweepDir
  <2>2. sweep.pc = "dirs" /\ entries' = entries
    BY <1>4 DEF F!SweepDir
  <2> QED BY <2>1, <2>2
<1>5. ASSUME F!SweepReadIndex PROVE RowsShow'
  BY <1>5 DEF F!SweepReadIndex
<1>6. ASSUME F!SweepWriteIndex PROVE RowsShow'
  BY <1>6 DEF F!SweepWriteIndex
<1>7. ASSUME F!SweepAge PROVE RowsShow'
  BY <1>7 DEF F!SweepAge
<1>8. ASSUME F!SweepSelect PROVE RowsShow'
  <2> DEFINE read == UNION {{<<e, w.refs>> : w \in entries[e]} : e \in Episodes}
  <2>1. sweep'.refs = read /\ sweep'.pc = "refs" /\ UNCHANGED <<entries, dirs>>
    BY <1>8 DEF F!SweepSelect
  <2>2. \A x \in read : \E e \in Episodes : \E w \in entries[e] : x = <<e, w.refs>>
    OBVIOUS
  <2>3. \A e \in Episodes : \A w \in entries[e] : <<e, w.refs>> \in read
    OBVIOUS
  <2> HIDE DEF read
  <2>4. \A x, y \in read : x[1] = y[1] => x = y
    <3> SUFFICES ASSUME NEW x \in read, NEW y \in read, x[1] = y[1] PROVE x = y
      OBVIOUS
    <3>1. PICK e \in Episodes : \E w \in entries[e] : x = <<e, w.refs>>
      BY <2>2
    <3>2. PICK w \in entries[e] : x = <<e, w.refs>>
      BY <3>1
    <3>3. PICK f \in Episodes : \E v \in entries[f] : y = <<f, v.refs>>
      BY <2>2
    <3>4. PICK v \in entries[f] : y = <<f, v.refs>>
      BY <3>3
    <3>5. e = f
      BY <3>2, <3>4
    <3>6. v = w
      BY <3>5
    <3> QED BY <3>2, <3>4, <3>5, <3>6
  <2>5. \A x \in read : entries[x[1]] # {} /\ \A w \in entries[x[1]] : x[2] \subseteq w.refs
    <3> SUFFICES ASSUME NEW x \in read
                 PROVE  entries[x[1]] # {} /\ \A w \in entries[x[1]] : x[2] \subseteq w.refs
      OBVIOUS
    <3>1. PICK e \in Episodes : \E w \in entries[e] : x = <<e, w.refs>>
      BY <2>2
    <3>2. PICK w \in entries[e] : x = <<e, w.refs>>
      BY <3>1
    <3>3. \A v \in entries[e] : v = w
      OBVIOUS
    <3> QED BY <3>2, <3>3
  <2>6. \A e \in Episodes : \A w \in entries[e] : \E x \in read : x[1] = e
    <3> SUFFICES ASSUME NEW e \in Episodes, NEW w \in entries[e] PROVE \E x \in read : x[1] = e
      OBVIOUS
    <3>1. <<e, w.refs>>[1] = e
      OBVIOUS
    <3> QED BY <2>3, <3>1
  <2>7. \A e \in Episodes : \A v, w \in entries[e] : v = w
    OBVIOUS
  <2> HIDE FilesAssumption DEF FileTypes, SweepHere, FileRows, F!AtRest, F!Runs, F!None
  <2> QED BY <2>1, <2>4, <2>5, <2>6, <2>7
<1>9. ASSUME F!SweepDone PROVE RowsShow'
  BY <1>9 DEF F!SweepDone
<1>10. ASSUME NEW e \in Episodes, NEW refs \in SUBSET F!Runs, F!SweepRow(e, refs)
       PROVE  RowsShow'
  <2>1. sweep.pc = "refs" /\ sweep'.pc = "refs" /\ sweep'.refs = sweep.refs \ {<<e, refs>>} /\ dirs' = dirs
    BY <1>10 DEF F!SweepRow
  <2>2. <<e, refs>> \in sweep.refs
    BY <1>10 DEF F!SweepRow
  <2>3. \A f \in Episodes : entries'[f] \subseteq entries[f] /\ (f # e => entries'[f] = entries[f])
    BY <1>10 DEF F!SweepRow
  <2>4. \A w \in entries'[e] : w.refs \cap dirs # {}
    <3>1. CASE refs \cap dirs = {}
      BY <1>10, <3>1 DEF F!SweepRow
    <3>2. CASE refs \cap dirs # {}
      <4>1. \A w \in entries[e] : refs \subseteq w.refs
        <5> HIDE FilesAssumption, RunsAssumption DEF FileTypes, SweepHere
        <5>1. <<e, refs>>[1] = e /\ <<e, refs>>[2] = refs
          OBVIOUS
        <5> QED BY <2>1, <2>2, <5>1
      <4> QED BY <1>10, <3>2, <4>1 DEF F!SweepRow
    <3> QED BY <3>1, <3>2
  <2>5. \A f \in Episodes : \A w \in entries'[f] :
          w.refs \cap dirs # {} \/ \E x \in sweep'.refs : x[1] = f
    <3> SUFFICES ASSUME NEW f \in Episodes, f # e, NEW w \in entries'[f], w.refs \cap dirs = {}
               PROVE \E x \in sweep'.refs : x[1] = f
      BY <2>4
    <3>1. PICK x \in sweep.refs : x[1] = f
      BY <2>1, <2>3
    <3>2. x # <<e, refs>>
      BY <3>1
    <3> QED BY <2>1, <3>1, <3>2
  <2>6. \A x \in sweep'.refs : x \in sweep.refs /\ x[1] \in Episodes
    BY <2>1
  <2>7. \A f \in Episodes : \A v, w \in entries'[f] : v = w
    BY <2>3
  <2>8. \A x \in sweep'.refs : entries'[x[1]] # {} /\ \A w \in entries'[x[1]] : x[2] \subseteq w.refs
    BY <2>1, <2>2, <2>3, <2>6
  <2>9. \A x, y \in sweep'.refs : x[1] = y[1] => x = y
    BY <2>1, <2>6
  <2> QED BY <2>1, <2>5, <2>7, <2>8, <2>9
<1>11. ASSUME F!StartRun PROVE RowsShow'
  <2>1. dirs \subseteq dirs' /\ UNCHANGED <<entries, sweep>>
    BY <1>11 DEF F!StartRun
  <2> HIDE FilesAssumption, RunsAssumption DEF FileTypes, SweepHere
  <2> QED BY <2>1
<1>12. ASSUME NEW e \in Episodes, F!Remember(e) PROVE RowsShow'
  <2>1. UNCHANGED <<sweep, dirs>> /\ run \in dirs
    BY <1>12 DEF F!Remember
  <2>2. \A f \in Episodes : f # e => entries'[f] = entries[f]
    BY <1>12 DEF F!Remember
  <2>3. CASE entries[e] = {}
    <3>1. entries'[e] = {[created |-> today, refs |-> {run}]}
      BY <1>12, <2>3 DEF F!Remember
    <3>2. \A w \in entries'[e] : w.refs \cap dirs # {}
      BY <2>1, <3>1
    <3>3. sweep.pc = "refs" => \A x \in sweep.refs : x[1] # e
      BY <2>3
    <3>4. \A v, w \in entries'[e] : v = w
      BY <3>1
    <3>5. \A x \in sweep.refs : x[1] \in Episodes
      OBVIOUS
    <3> HIDE FilesAssumption DEF FileTypes, SweepHere, FileRows, F!AtRest, F!Runs, F!None
    <3> QED BY <2>1, <2>2, <3>2, <3>3, <3>4, <3>5
  <2>4. CASE entries[e] # {}
    <3>1. PICK v \in entries[e] : entries[e] = {v}
      <4>1. PICK v \in entries[e] : TRUE
        BY <2>4
      <4>2. \A w \in entries[e] : w = v
        OBVIOUS
      <4> HIDE DEF FileTypes, RowsShow
      <4>3. entries[e] = {v}
        BY <4>1, <4>2
      <4> QED BY <4>1, <4>3
    <3>2. entries'[e] = {[v EXCEPT !.refs = @ \cup {run}]}
      <4>1. entries'[e] = {[w EXCEPT !.refs = @ \cup {run}] : w \in entries[e]}
        BY <1>12, <2>4, MergeKeepsRow
      <4> QED BY <3>1, <4>1
    <3>3. [v EXCEPT !.refs = @ \cup {run}].refs = v.refs \cup {run}
      BY DEF FileRows
    <3> DEFINE n == [v EXCEPT !.refs = @ \cup {run}]
    <3> HIDE DEF n
    <3>4. entries'[e] = {n} /\ n.refs = v.refs \cup {run}
      BY <3>2, <3>3 DEF n
    <3>5. n.refs \cap dirs # {}
      BY <2>1, <3>4
    <3>6. sweep.pc = "refs" => \A x \in sweep.refs : x[1] = e => x[2] \subseteq n.refs
      BY <3>1, <3>4
    <3>7. \A x \in sweep.refs : x[1] \in Episodes
      OBVIOUS
    <3>8. \A u, w \in entries'[e] : u = w
      BY <3>4
    <3> HIDE FilesAssumption DEF FileTypes, SweepHere, FileRows, F!AtRest, F!Runs, F!None
    <3> QED BY <2>1, <2>2, <3>4, <3>5, <3>6, <3>7, <3>8
  <2> QED BY <2>3, <2>4
<1>13. ASSUME NEW b \in BOOLEAN, F!EndRun(b) PROVE RowsShow'
  BY <1>13 DEF F!EndRun
<1>14. ASSUME F!Say PROVE RowsShow'
  BY <1>14 DEF F!Say
<1>15. ASSUME NEW c \in saves, F!Save(c) PROVE RowsShow'
  BY <1>15 DEF F!Save
<1>16. ASSUME F!Clear PROVE RowsShow'
  BY <1>16 DEF F!Clear
<1>17. ASSUME F!ClearIndex PROVE RowsShow'
  BY <1>17 DEF F!ClearIndex
<1>18. ASSUME F!ClearChat PROVE RowsShow'
  BY <1>18 DEF F!ClearChat
<1>19. ASSUME F!ClearFails PROVE RowsShow'
  BY <1>19 DEF F!ClearFails
<1>20. ASSUME UNCHANGED F!vars PROVE RowsShow'
  BY <1>20 DEF F!vars
<1> HIDE FilesAssumption, RunsAssumption DEF F!program, F!runVars, F!chatVars, F!sweepVars,
       SweepHere, FileTypes, F!Runs, F!AtRest, F!None, RowsShow, FileRows
<1> QED BY <1>1, <1>2, <1>3, <1>4, <1>5, <1>6, <1>7, <1>8, <1>9, <1>10, <1>11, <1>12, <1>13,
       <1>14, <1>15, <1>16, <1>17, <1>18, <1>19, <1>20 DEF F!Next

\* A save that was on its way is known to be late when the clear begins.
LEMMA ChatStillLasts ==
  ASSUME FileTypes, SweepHere, FileTypes', ChatLasts, [F!Next]_(F!vars)
  PROVE  ChatLasts'
<1> USE FilesAssumption, RunsAssumption DEF F!program, F!runVars, F!chatVars, F!sweepVars,
       SweepHere, FileTypes, F!Runs, F!AtRest, F!None, F!Kept, F!ChatLeft, ChatLasts
<1>1. ASSUME F!NextDay PROVE ChatLasts'
  BY <1>1 DEF F!NextDay
<1>2. ASSUME F!Start PROVE ChatLasts'
  BY <1>2 DEF F!Start
<1>3. ASSUME F!Kill PROVE ChatLasts'
  BY <1>3 DEF F!Kill
<1>4. ASSUME NEW r \in F!Runs, F!SweepDir(r) PROVE ChatLasts'
  BY <1>4 DEF F!SweepDir
<1>5. ASSUME F!SweepReadIndex PROVE ChatLasts'
  BY <1>5 DEF F!SweepReadIndex
<1>6. ASSUME F!SweepWriteIndex PROVE ChatLasts'
  BY <1>6 DEF F!SweepWriteIndex
<1>7. ASSUME F!SweepAge PROVE ChatLasts'
  BY <1>7 DEF F!SweepAge
<1>8. ASSUME F!SweepSelect PROVE ChatLasts'
  BY <1>8 DEF F!SweepSelect
<1>9. ASSUME F!SweepDone PROVE ChatLasts'
  BY <1>9 DEF F!SweepDone
<1>10. ASSUME NEW e \in Episodes, NEW refs \in SUBSET F!Runs, F!SweepRow(e, refs)
       PROVE  ChatLasts'
  BY <1>10 DEF F!SweepRow
<1>11. ASSUME F!StartRun PROVE ChatLasts'
  BY <1>11 DEF F!StartRun
<1>12. ASSUME NEW e \in Episodes, F!Remember(e) PROVE ChatLasts'
  BY <1>12 DEF F!Remember
<1>13. ASSUME NEW b \in BOOLEAN, F!EndRun(b) PROVE ChatLasts'
  BY <1>13 DEF F!EndRun
<1>14. ASSUME F!Say PROVE ChatLasts'
  BY <1>14 DEF F!Say
<1>15. ASSUME NEW c \in saves, F!Save(c) PROVE ChatLasts'
  BY <1>15 DEF F!Save
<1>16. ASSUME F!Clear PROVE ChatLasts'
  BY <1>16 DEF F!Clear
<1>17. ASSUME F!ClearIndex PROVE ChatLasts'
  BY <1>17 DEF F!ClearIndex
<1>18. ASSUME F!ClearChat PROVE ChatLasts'
  BY <1>18 DEF F!ClearChat
<1>19. ASSUME F!ClearFails PROVE ChatLasts'
  BY <1>19 DEF F!ClearFails
<1>20. ASSUME UNCHANGED F!vars PROVE ChatLasts'
  BY <1>20 DEF F!vars
<1> HIDE FilesAssumption, RunsAssumption DEF F!program, F!runVars, F!chatVars, F!sweepVars,
       SweepHere, FileTypes, F!Runs, F!AtRest, F!None, F!Kept, F!ChatLeft, ChatLasts
<1> QED BY <1>1, <1>2, <1>3, <1>4, <1>5, <1>6, <1>7, <1>8, <1>9, <1>10, <1>11, <1>12, <1>13,
       <1>14, <1>15, <1>16, <1>17, <1>18, <1>19, <1>20 DEF F!Next

\* Nothing is there before the program has been started.
LEMMA NoFiles == F!Init => FilesInv
<1> SUFFICES ASSUME F!Init PROVE FilesInv
  OBVIOUS
<1>1. FileTypes
  <2>1. entries \in [Episodes -> SUBSET FileRows]
    BY DEF F!Init
  <2>2. sweep \in [pc : SweepPcs, removed : SUBSET (1..0), read : SUBSET (1..0),
                   refs : SUBSET (Episodes \X SUBSET Nat)]
    BY DEF F!Init, F!AtRest, SweepPcs
  <2>3. /\ last = 0 /\ run = 0 /\ dirs = {} /\ index = {} /\ listed = {} /\ wiped = {}
        /\ chat = {} /\ saves = {} /\ conversation = 0 /\ cleared = 0 /\ today = 0
        /\ up = FALSE
    BY DEF F!Init, F!None
  <2>4. setting \in Nat /\ day \in [F!Runs -> Nat] /\ 0 <= MaxRuns
    BY FilesAssumption, RunsAssumption DEF F!Init
  <2>5. /\ last \in Nat /\ run \in 0..last /\ last <= MaxRuns /\ today \in Nat
    BY <2>3, <2>4
  <2>6. /\ {dirs, index, listed, wiped} \subseteq SUBSET (1..last)
        /\ {chat, saves} \subseteq SUBSET Nat
    BY <2>3
  <2>7. conversation \in Nat /\ cleared \in Nat /\ cleared <= conversation
    BY <2>3
  <2>8. sweep \in [pc : SweepPcs, removed : SUBSET (1..last), read : SUBSET (1..last),
                   refs : SUBSET (Episodes \X SUBSET Nat)]
    BY <2>2, <2>3
  <2>9. up \in BOOLEAN
    BY <2>3, Zenon
  <2> QED BY <2>1, <2>4, <2>5, <2>6, <2>7, <2>8, <2>9 DEF FileTypes
<1>2. SweepHere /\ RemovedAreOld /\ LinesHaveDirs /\ SweptSoFar
  BY DEF F!Init, F!AtRest, F!None, SweepHere, Sweeping, RemovedAreOld, LinesHaveDirs, SweptSoFar
<1>3. FreshAreThere
  BY DEF F!Init, F!None, FreshAreThere
<1>4. RowsShow /\ ChatLasts
  BY DEF F!Init, F!AtRest, RowsShow, ChatLasts
<1> QED BY <1>1, <1>2, <1>3, <1>4 DEF FilesInv

\* The invariant is inductive.
LEMMA FilesInStep == FilesInv /\ [F!Next]_(F!vars) => FilesInv'
<1> SUFFICES ASSUME FilesInv, [F!Next]_(F!vars) PROVE FilesInv'
  OBVIOUS
<1> USE DEF FilesInv
<1>1. FileTypes'
  BY FileTypesStay
<1> QED
  BY <1>1, SweepStaysHere, RemovedStayOld, FreshStayThere, LinesKeepDirs, SweptStaysSo,
     RowsStillShow, ChatStillLasts

\* A sweep takes what is older than the setting says and nothing else, wherever it
\* is cut short and whatever else appends to the files; a clear of the conversation
\* is not undone: for any setting, any number of runs, days, starts and clears.
THEOREM FilesKept == F!Spec => [](F!FreshKept /\ F!SweptIsGone /\ F!ClearStays)
<1>1. FilesInv => F!FreshKept /\ F!SweptIsGone /\ F!ClearStays
  BY DEF FilesInv, FreshAreThere, SweptSoFar, RowsShow, ChatLasts, F!FreshKept,
         F!SweptIsGone, F!ClearStays
<1> QED BY <1>1, NoFiles, FilesInStep, PTL DEF F!Spec
-----------------------------------------------------------------------------
(* The trace of a run: induction on the numbers.                           *)

\* A set of numbers that has 0 and with each number the next is all of them.
LEMMA NatSet ==
  ASSUME NEW K \in SUBSET Nat, 0 \in K, \A n \in K : n + 1 \in K
  PROVE  K = Nat
<1> DEFINE R == OpToRel(<, Nat)
           U == Nat \ K
<1>1. SUFFICES ASSUME U # {} PROVE FALSE OBVIOUS
<1>2. IsWellFoundedOn(R, Nat) BY NatLessThanWellFounded
<1> HIDE DEF R, U
<1>3. U \subseteq Nat BY DEF U
<1>4. PICK x \in U : \A y \in U : ~(<<y, x>> \in R)
  BY <1>1, <1>2, <1>3, WFMin
<1>5. x # 0 /\ x \in Nat /\ x - 1 \in Nat /\ x - 1 \notin U
  <2>1. x # 0 /\ x \in Nat BY <1>4 DEF U
  <2>2. x - 1 \in Nat /\ <<x - 1, x>> \in R BY <2>1 DEF R, OpToRel
  <2> QED BY <2>1, <2>2, <1>4
<1>6. x - 1 \in K BY <1>5 DEF U
<1>7. x \in K BY <1>6, <1>5
<1> QED BY <1>7, <1>4 DEF U

\* For each number a step, and a function that takes them one after the other.
Steps(A) == [Nat -> [A -> A]]
Unfolds(A, base, next) ==
  \E f \in [Nat -> A] : f[0] = base /\ \A n \in Nat : f[n + 1] = next[n][f[n]]

\* There is a function of the numbers for every first value and every step.
LEMMA NatRecursion ==
  ASSUME NEW A, NEW base \in A, NEW next \in Steps(A)
  PROVE  Unfolds(A, base, next)
<1> USE DEF Steps, Unfolds
<1> DEFINE Good(n, g) == /\ g \in [0 .. n -> A] /\ g[0] = base
                         /\ \A i \in 0 .. n - 1 : g[i + 1] = next[i][g[i]]
           K == {n \in Nat : \E g : Good(n, g)}
<1>0. \A k \in Nat, a \in A : next[k][a] \in A
  OBVIOUS
<1>1. ASSUME NEW n \in Nat, NEW g, Good(n, g) PROVE \E h : Good(n + 1, h)
  <2> DEFINE h == [i \in 0 .. n + 1 |-> IF i = n + 1 THEN next[n][g[n]] ELSE g[i]]
  <2>1. g \in [0 .. n -> A] /\ g[0] = base /\ \A i \in 0 .. n - 1 : g[i + 1] = next[i][g[i]]
    BY <1>1
  <2> HIDE DEF Good, K
  <2>2. g[n] \in A
    BY <2>1
  <2>3. h \in [0 .. n + 1 -> A]
    BY <1>0, <2>1, <2>2
  <2>4. h[0] = base
    BY <2>1
  <2>5. ASSUME NEW i \in 0 .. n PROVE h[i + 1] = next[i][h[i]]
    <3>1. CASE i = n
      BY <3>1
    <3>2. CASE i # n
      <4>1. i \in 0 .. n - 1 /\ i + 1 \in 0 .. n
        BY <3>2
      <4> QED BY <2>1, <4>1
    <3> QED BY <3>1, <3>2
  <2>6. (n + 1) - 1 = n
    OBVIOUS
  <2> HIDE DEF h
  <2>7. Good(n + 1, h)
    BY <2>3, <2>4, <2>5, <2>6 DEF Good
  <2> QED BY <2>7
<1>2. Good(0, [i \in 0 .. 0 |-> base])
  OBVIOUS
<1>3. \A n \in Nat : \E g : Good(n, g)
  <2> HIDE DEF Good
  <2>1. 0 \in K /\ K \subseteq Nat /\ \A n \in K : n + 1 \in K
    BY <1>1, <1>2
  <2> HIDE DEF K
  <2>2. K = Nat
    BY <2>1, NatSet
  <2> QED BY <2>2 DEF K
<1>4. ASSUME NEW n \in Nat, NEW m \in Nat, NEW g, NEW h, Good(n, g), Good(m, h), n <= m
      PROVE  g[n] = h[n]
  <2> DEFINE S == {i \in Nat : i <= n => g[i] = h[i]}
  <2>1. /\ g[0] = base /\ \A i \in 0 .. n - 1 : g[i + 1] = next[i][g[i]]
        /\ h[0] = base /\ \A i \in 0 .. m - 1 : h[i + 1] = next[i][h[i]]
    BY <1>4
  <2> HIDE DEF Good, K
  <2>2. 0 \in S
    BY <2>1
  <2>3. ASSUME NEW i \in Nat, i <= n => g[i] = h[i], i + 1 <= n PROVE g[i + 1] = h[i + 1]
    <3>1. i \in 0 .. n - 1 /\ i \in 0 .. m - 1 /\ i <= n
      BY <1>4, <2>3
    <3> QED BY <2>1, <2>3, <3>1
  <2>4. S \subseteq Nat /\ \A i \in S : i + 1 \in S
    BY <2>3
  <2> HIDE DEF S
  <2>5. S = Nat
    BY <2>2, <2>4, NatSet
  <2> QED BY <2>5 DEF S
<1> DEFINE G(n) == CHOOSE g : Good(n, g)
           f == [n \in Nat |-> G(n)[n]]
<1>5. \A n \in Nat : Good(n, G(n))
  <2> HIDE DEF Good
  <2> QED BY <1>3
<1>6. \A n \in Nat : G(n) \in [0 .. n -> A] /\ G(n)[0] = base
  BY <1>5
<1>7. \A n \in Nat : G(n + 1)[n + 1] = next[n][G(n + 1)[n]]
  <2> SUFFICES ASSUME NEW n \in Nat PROVE G(n + 1)[n + 1] = next[n][G(n + 1)[n]]
    OBVIOUS
  <2>1. n + 1 \in Nat /\ n \in 0 .. (n + 1) - 1
    OBVIOUS
  <2>2. Good(n + 1, G(n + 1))
    <3> HIDE DEF Good, G
    <3> QED BY <1>5, <2>1
  <2>3. \A i \in 0 .. (n + 1) - 1 : G(n + 1)[i + 1] = next[i][G(n + 1)[i]]
    BY <2>2
  <2> HIDE DEF G, Good
  <2> QED BY <2>1, <2>3
<1>8. \A n \in Nat : G(n)[n] = G(n + 1)[n]
  <2> HIDE DEF G, Good
  <2>1. \A n \in Nat : n + 1 \in Nat /\ n <= n + 1
    OBVIOUS
  <2> QED BY <1>4, <1>5, <2>1
<1> HIDE DEF G, Good, K
<1>9. f \in [Nat -> A]
  BY <1>6
<1>10. f[0] = base
  BY <1>6
<1>11. \A n \in Nat : f[n + 1] = next[n][f[n]]
  BY <1>7, <1>8
<1> HIDE DEF f
<1> QED BY <1>9, <1>10, <1>11

\* Of a set of the first n numbers there is a largest, and Max is one of them.
LEMMA LargestExists ==
  ASSUME NEW n \in Nat, NEW s \in SUBSET (1 .. n), s # {}
  PROVE  T!Max(s) \in s /\ \A x \in s : x <= T!Max(s)
<1> DEFINE K == {k \in Nat : \A r \in SUBSET (1 .. k) :
                    r # {} => \E m \in r : \A x \in r : m >= x}
<1>1. K = Nat
  <2>1. 0 \in K
    <3>1. \A r \in SUBSET (1 .. 0) : r = {}
      OBVIOUS
    <3> QED BY <3>1
  <2>2. ASSUME NEW k \in K PROVE k + 1 \in K
    <3>1. k \in Nat
      OBVIOUS
    <3>2. ASSUME NEW r \in SUBSET (1 .. k + 1), r # {} PROVE \E m \in r : \A x \in r : m >= x
      <4>1. CASE k + 1 \in r
        BY <3>1, <4>1
      <4>2. CASE k + 1 \notin r
        <5>1. r \in SUBSET (1 .. k)
          BY <3>1, <4>2
        <5> QED BY <3>2, <5>1
      <4> QED BY <4>1, <4>2
    <3> QED BY <3>1, <3>2
  <2> HIDE DEF K
  <2> QED BY <2>1, <2>2, NatSet, K \subseteq Nat DEF K
<1>2. \E m \in s : \A x \in s : m >= x
  BY <1>1
<1> HIDE DEF K
<1> QED BY <1>2 DEF T!Max

\* A set of numbers taken from its largest down, as a fold over a sequence takes it.
SetUnfolds(n, A, base, st) ==
  \E g \in [SUBSET (1 .. n) -> A] : \A s \in SUBSET (1 .. n) :
    g[s] = IF s = {} THEN base ELSE st[T!Max(s)][g[s \ {T!Max(s)}]]

\* There is a function that takes the sets of the first n numbers so.
LEMMA SetRecursion ==
  ASSUME NEW n \in Nat, NEW A, NEW base \in A, NEW st \in [1 .. n -> [A -> A]]
  PROVE  SetUnfolds(n, A, base, st)
<1> DEFINE S == SUBSET (1 .. n)
           G == [S -> A]
           next == [k \in Nat |-> [g \in G |->
                      [s \in S |-> IF s = {} THEN base ELSE st[T!Max(s)][g[s \ {T!Max(s)}]]]]]
<1>1. ASSUME NEW s \in S, s # {}
      PROVE  T!Max(s) \in 1 .. n /\ T!Max(s) \in s /\ s \ {T!Max(s)} \in S
             /\ \A x \in s : x <= T!Max(s)
  BY <1>1, LargestExists
<1>2. ASSUME NEW k \in Nat, NEW g \in G
      PROVE  /\ next[k][g] \in G
             /\ \A s \in S : next[k][g][s] = IF s = {} THEN base
                  ELSE st[T!Max(s)][g[s \ {T!Max(s)}]]
  <2>1. next[k][g] = [s \in S |-> IF s = {} THEN base ELSE st[T!Max(s)][g[s \ {T!Max(s)}]]]
    OBVIOUS
  <2>2. \A s \in S : (IF s = {} THEN base ELSE st[T!Max(s)][g[s \ {T!Max(s)}]]) \in A
    BY <1>1
  <2> HIDE DEF next, S
  <2> QED BY <2>1, <2>2
<1>3. next \in [Nat -> [G -> G]]
  <2>1. \A k \in Nat, g \in G : next[k][g] \in G
    BY <1>2
  <2>2. next = [k \in Nat |-> [g \in G |-> next[k][g]]]
    OBVIOUS
  <2> HIDE DEF next, G, S
  <2> QED BY <2>1, <2>2
<1>4. [s \in S |-> base] \in G
  OBVIOUS
<1> HIDE DEF next
<1>5. PICK f \in [Nat -> G] : f[0] = [s \in S |-> base] /\
                                \A k \in Nat : f[k + 1] = next[k][f[k]]
  <2> DEFINE first == [s \in S |-> base]
  <2> HIDE DEF G, first
  <2>1. first \in G
    BY <1>4 DEF first
  <2>2. \E f \in [Nat -> G] : f[0] = first /\ \A k \in Nat : f[k + 1] = next[k][f[k]]
    <3>1. next \in Steps(G)
      BY <1>3 DEF Steps
    <3>2. Unfolds(G, first, next)
      BY <2>1, <3>1, NatRecursion
    <3> QED BY <3>2 DEF Unfolds
  <2> QED BY <2>2 DEF first
<1>6. ASSUME NEW k \in Nat, NEW s \in S
      PROVE  f[k + 1][s] = IF s = {} THEN base ELSE st[T!Max(s)][f[k][s \ {T!Max(s)}]]
  <2>1. f[k] \in G /\ f[k + 1] = next[k][f[k]]
    BY <1>5
  <2>2. next[k][f[k]][s] = IF s = {} THEN base ELSE st[T!Max(s)][f[k][s \ {T!Max(s)}]]
    <3> HIDE DEF G, S
    <3> QED BY <1>2, <2>1
  <2> HIDE DEF G, S
  <2> QED BY <2>1, <2>2
<1> DEFINE K == {k \in Nat : \A s \in S : s \subseteq 1 .. k => f[k][s] = f[k + 1][s]}
<1>7. K = Nat
  <2>1. 0 \in K
    <3>1. f[0][{}] = base /\ f[1][{}] = base
      <4>1. {} \in S /\ 0 \in Nat /\ 0 + 1 = 1
        OBVIOUS
      <4>2. f[0 + 1][{}] = base
        <5> HIDE DEF S, G
        <5> QED BY <1>6, <4>1
      <4> QED BY <1>5, <4>1, <4>2
    <3>2. \A s \in S : s \subseteq 1 .. 0 => s = {}
      OBVIOUS
    <3>3. 0 \in Nat /\ 0 + 1 = 1
      OBVIOUS
    <3> HIDE DEF S, G
    <3> QED BY <3>1, <3>2, <3>3
  <2>2. ASSUME NEW k \in K PROVE k + 1 \in K
    <3>1. k \in Nat /\ k + 1 \in Nat
      OBVIOUS
    <3>2. ASSUME NEW s \in S, s \subseteq 1 .. k + 1 PROVE f[k + 1][s] = f[(k + 1) + 1][s]
      <4>1. CASE s = {}
        BY <1>6, <3>1, <4>1
      <4>2. CASE s # {}
        <5>1. s \ {T!Max(s)} \in S /\ s \ {T!Max(s)} \subseteq 1 .. k
          <6>1. T!Max(s) \in s /\ s \ {T!Max(s)} \in S /\ \A x \in s : x <= T!Max(s)
            BY <1>1, <4>2
          <6>2. ASSUME NEW x \in s, x # T!Max(s) PROVE x \in 1 .. k
            <7>1. x \in 1 .. k + 1 /\ T!Max(s) \in 1 .. k + 1 /\ x <= T!Max(s)
              BY <3>2, <6>1
            <7> HIDE DEF S, G, K
            <7> QED BY <3>1, <6>2, <7>1
          <6> QED BY <6>1, <6>2
        <5>2. f[k][s \ {T!Max(s)}] = f[k + 1][s \ {T!Max(s)}]
          BY <5>1
        <5>3. /\ f[k + 1][s] = st[T!Max(s)][f[k][s \ {T!Max(s)}]]
              /\ f[(k + 1) + 1][s] = st[T!Max(s)][f[k + 1][s \ {T!Max(s)}]]
          <6> HIDE DEF S, G, K
          <6> QED BY <1>6, <3>1, <4>2
        <5> QED BY <5>2, <5>3
      <4> QED BY <4>1, <4>2
    <3> QED BY <3>1, <3>2
  <2> HIDE DEF K
  <2> QED BY <2>1, <2>2, NatSet, K \subseteq Nat DEF K
<1>8. ASSUME NEW s \in S
      PROVE  f[n][s] = IF s = {} THEN base ELSE st[T!Max(s)][f[n][s \ {T!Max(s)}]]
  <2>1. f[n][s] = f[n + 1][s]
    BY <1>7
  <2> QED BY <1>6, <2>1
<1>9. f[n] \in G
  BY <1>5
<1> QED BY <1>8, <1>9 DEF SetUnfolds

-----------------------------------------------------------------------------
(* The trace of a run: the file, read line by line.                        *)

\* The lines of events.jsonl, and what is read of them (TraceBuilder).
Lines == [type: {"step"}, index: Nat, failed: BOOLEAN] \cup [type: {"state"}, phase: Phases]
    \cup [type: {"world"}]
    \cup [type: {"boundary"}, kind: {"subgoal_completed", "recovery_succeeded", "terminal"},
          index: Nat]
    \cup [type: {"goal_complete"}] \cup [type: {"cap_hit"}]
           \cup [type: {"completion_disagreement"}]
    \cup [type: {"resolved"}, action: {"confirm", "cancel"}]

StepRows == [index: Nat, phase: Phases \cup {FirstPhase}, failed: BOOLEAN]
Deltas == {T!NextStep([steps |-> q]) : q \in Seq(StepRows)}
Traces ==
    [phase: Phases \cup {FirstPhase}, steps: Seq(StepRows), deltas: Seq(Deltas),
     milestones: Seq({"subgoal_completed", "recovery_succeeded"} \X Nat),
     terminal: {"none", "complete", "stopped", "disagreement_cancelled"}, sure: BOOLEAN]

\* An empty file is read as a trace.
LEMMA UnreadTyped == T!Unread \in Traces
BY DEF T!Unread, Traces

\* Reading one more line of a trace gives a trace.
LEMMA HandleTyped ==
  ASSUME NEW t \in Traces, NEW e \in Lines
  PROVE  T!Handle(t, e) \in Traces
<1>1. T!NextStep(t) \in Deltas
  <2>1. T!NextStep(t) = T!NextStep([steps |-> t.steps])
    BY DEF T!NextStep
  <2> QED BY <2>1 DEF Deltas, Traces
<1> DEFINE row == [index |-> e.index, phase |-> t.phase, failed |-> e.failed]
<1>2. e.type = "step" => row \in StepRows
  BY DEF Lines, StepRows, Traces
<1>3. e.type = "boundary" /\ e.kind # "terminal" =>
        <<e.kind, e.index>> \in {"subgoal_completed", "recovery_succeeded"} \X Nat
  BY DEF Lines
<1> HIDE DEF row
<1>4. CASE e.type = "step"
  <2>1. T!Handle(t, e) = [t EXCEPT !.steps = Append(@, row)]
    BY <1>4 DEF T!Handle, row
  <2>2. Append(t.steps, row) \in Seq(StepRows)
    BY <1>2, <1>4 DEF Traces
  <2> QED BY <2>1, <2>2 DEF Traces
<1>5. CASE e.type = "state"
  BY <1>5 DEF T!Handle, Traces, Lines
<1>6. CASE e.type = "world"
  <2>1. T!Handle(t, e) = [t EXCEPT !.deltas = Append(@, T!NextStep(t))]
    BY <1>6 DEF T!Handle
  <2>2. Append(t.deltas, T!NextStep(t)) \in Seq(Deltas)
    BY <1>1 DEF Traces
  <2> QED BY <2>1, <2>2 DEF Traces
<1>7. CASE e.type = "boundary"
  <2>1. CASE e.kind = "terminal"
    BY <1>7, <2>1 DEF T!Handle, Traces, T!SetTerminal
  <2>2. CASE e.kind # "terminal"
    <3>1. T!Handle(t, e) = [t EXCEPT !.milestones = Append(@, <<e.kind, e.index>>)]
      BY <1>7, <2>2 DEF T!Handle
    <3>2. Append(t.milestones, <<e.kind, e.index>>)
             \in Seq({"subgoal_completed", "recovery_succeeded"} \X Nat)
      BY <1>7, <1>3, <2>2 DEF Traces
    <3> QED BY <3>1, <3>2 DEF Traces
  <2> QED BY <2>1, <2>2
<1>8. CASE e.type \in {"goal_complete", "cap_hit", "resolved", "completion_disagreement"}
  BY <1>8 DEF T!Handle, Traces, T!SetTerminal
<1> QED BY <1>4, <1>5, <1>6, <1>7, <1>8 DEF Lines

\* What has been read after each line of the file.
Reads(lines, h) ==
  /\ h[0] = T!Unread /\ h[Len(lines)] = T!Read(lines)
  /\ \A i \in 1 .. Len(lines) : h[i] = T!Handle(h[i - 1], lines[i])

\* The numbers up to i, and those before it.
LEMMA UpTo ==
  ASSUME NEW n \in Nat, NEW i \in 1 .. n
  PROVE  /\ 1 .. i \in SUBSET (1 .. n) /\ 1 .. i # {} /\ i \in 1 .. i
         /\ i \in 0 .. n /\ i - 1 \in 0 .. n
         /\ (1 .. i) \ {i} = 1 .. (i - 1)
<1>1. i \in 1 .. i
  OBVIOUS
<1>2. \A j \in 1 .. i : j \in 1 .. n
  OBVIOUS
<1>3. \A j \in 1 .. i : j # i => j \in 1 .. i - 1
  OBVIOUS
<1>4. \A j \in 1 .. i - 1 : j # i /\ j \in 1 .. i
  OBVIOUS
<1>5. i \in 0 .. n /\ i - 1 \in 0 .. n
  OBVIOUS
<1> QED BY <1>1, <1>2, <1>3, <1>4, <1>5

\* The fold over the file is taken line by line, the first line first: Read is a
\* choice of a fold over a set of indices, and its value is that of the recursion.
LEMMA ReadInSteps ==
  ASSUME NEW lines \in Seq(Lines)
  PROVE  \E h : Reads(lines, h)
<1> DEFINE n == Len(lines)
           st == [i \in 1 .. n |-> [t \in Traces |-> T!Handle(t, lines[i])]]
<1>1. n \in Nat /\ DOMAIN lines = 1 .. n /\ \A i \in 1 .. n : lines[i] \in Lines
  OBVIOUS
<1>2. st \in [1 .. n -> [Traces -> Traces]]
  BY <1>1, HandleTyped
<1> HIDE DEF n
<1>3. PICK g \in [SUBSET (1 .. n) -> Traces] : \A s \in SUBSET (1 .. n) :
           g[s] = IF s = {} THEN T!Unread ELSE st[T!Max(s)][g[s \ {T!Max(s)}]]
  <2> HIDE DEF st
  <2>1. SetUnfolds(n, Traces, T!Unread, st)
    BY <1>1, <1>2, SetRecursion, UnreadTyped
  <2> QED BY <2>1 DEF SetUnfolds
<1>4. \A s \in SUBSET (1 .. n) : s # {} => T!Max(s) \in s /\ s \ {T!Max(s)} \in SUBSET (1 .. n)
  BY <1>1, LargestExists
<1>5. g = [s \in SUBSET (1 .. n) |->
             IF s = {} THEN T!Unread ELSE T!Handle(g[s \ {T!Max(s)}], lines[T!Max(s)])]
  <2>1. \A s \in SUBSET (1 .. n) :
            g[s] = IF s = {} THEN T!Unread ELSE T!Handle(g[s \ {T!Max(s)}], lines[T!Max(s)])
    BY <1>3, <1>4
  <2> QED BY <2>1, <1>3
<1> DEFINE iter == CHOOSE it : it = [s \in SUBSET (1 .. n) |->
             IF s = {} THEN T!Unread ELSE T!Handle(it[s \ {T!Max(s)}], lines[T!Max(s)])]
<1>6. iter = [s \in SUBSET (1 .. n) |->
             IF s = {} THEN T!Unread ELSE T!Handle(iter[s \ {T!Max(s)}], lines[T!Max(s)])]
  BY <1>5
<1>7. T!Read(lines) = iter[1 .. n]
  BY <1>1 DEF T!Read, T!FoldLeft, T!MapThenFoldSet
<1> HIDE DEF iter
<1>8. \A i \in 1 .. n : T!Max(1 .. i) = i
  <2> TAKE i \in 1 .. n
  <2>1. 1 .. i \in SUBSET (1 .. n) /\ 1 .. i # {} /\ i \in 1 .. i
    BY <1>1, UpTo
  <2>2. T!Max(1 .. i) \in 1 .. i /\ i <= T!Max(1 .. i)
    BY <1>1, <2>1, LargestExists
  <2> QED BY <1>1, <2>2
<1> DEFINE h == [i \in 0 .. n |-> iter[1 .. i]]
<1>9. h[0] = T!Unread
  <2>1. 1 .. 0 = {} /\ {} \in SUBSET (1 .. n) /\ 0 \in 0 .. n
    BY <1>1
  <2> QED BY <2>1, <1>6
<1>10. h[n] = T!Read(lines)
  BY <1>1, <1>7
<1>11. ASSUME NEW i \in 1 .. n PROVE h[i] = T!Handle(h[i - 1], lines[i])
  <2>1. /\ 1 .. i \in SUBSET (1 .. n) /\ 1 .. i # {} /\ i \in 0 .. n /\ i - 1 \in 0 .. n
        /\ (1 .. i) \ {i} = 1 .. (i - 1)
    BY <1>1, UpTo
  <2>2. iter[1 .. i] = T!Handle(iter[(1 .. i) \ {T!Max(1 .. i)}], lines[T!Max(1 .. i)])
    BY <1>6, <2>1
  <2> QED BY <1>8, <2>1, <2>2
<1> HIDE DEF h
<1> QED BY <1>9, <1>10, <1>11 DEF Reads, n

\* So that one more line is one more Handle.
LEMMA ReadGrows ==
  ASSUME NEW lines \in Seq(Lines)
  PROVE  /\ T!Read(<<>>) = T!Unread
         /\ T!Read(lines) \in Traces
         /\ \A e \in Lines : T!Read(Append(lines, e)) = T!Handle(T!Read(lines), e)
<1>1. T!Read(<<>>) = T!Unread
  <2>1. <<>> \in Seq(Lines) /\ Len(<<>>) = 0
    OBVIOUS
  <2>2. \E h : Reads(<<>>, h)
    BY <2>1, ReadInSteps
  <2> QED BY <2>1, <2>2 DEF Reads
<1>2. T!Read(lines) \in Traces
  <2>1. PICK h : Reads(lines, h)
    BY ReadInSteps
  <2> DEFINE n == Len(lines)
             K == {i \in Nat : i <= n => h[i] \in Traces}
  <2>2. n \in Nat /\ \A i \in 1 .. n : lines[i] \in Lines
    OBVIOUS
  <2>3. 0 \in K
    BY <2>1, UnreadTyped DEF Reads
  <2>4. ASSUME NEW i \in K PROVE i + 1 \in K
    <3>1. SUFFICES ASSUME i + 1 <= n PROVE h[i + 1] \in Traces
      OBVIOUS
    <3>2. h[i + 1] = T!Handle(h[i], lines[i + 1]) /\ lines[i + 1] \in Lines
      <4>1. i + 1 \in 1 .. n /\ (i + 1) - 1 = i
        BY <2>2, <3>1
      <4> QED BY <2>1, <2>2, <4>1 DEF Reads
    <3> QED BY <2>2, <3>1, <3>2, HandleTyped
  <2>5. K = Nat
    <3> HIDE DEF K
    <3> QED BY <2>3, <2>4, NatSet, K \subseteq Nat DEF K
  <2> QED BY <2>1, <2>2, <2>5 DEF Reads
<1>3. ASSUME NEW e \in Lines PROVE T!Read(Append(lines, e)) = T!Handle(T!Read(lines), e)
  <2> DEFINE n == Len(lines)
             more == Append(lines, e)
  <2>1. /\ more \in Seq(Lines) /\ Len(more) = n + 1 /\ n \in Nat /\ more[n + 1] = e
        /\ \A i \in 1 .. n : more[i] = lines[i]
    OBVIOUS
  <2>2. PICK h : Reads(lines, h)
    BY ReadInSteps
  <2> HIDE DEF more, n
  <2>3. PICK g : Reads(more, g)
    BY <2>1, ReadInSteps
  <2> DEFINE K == {i \in Nat : i <= n => g[i] = h[i]}
  <2>4. 0 \in K
    BY <2>2, <2>3 DEF Reads
  <2>5. ASSUME NEW i \in K PROVE i + 1 \in K
    <3>1. SUFFICES ASSUME i + 1 <= n PROVE g[i + 1] = h[i + 1]
      OBVIOUS
    <3>2. i + 1 \in 1 .. n /\ i + 1 \in 1 .. n + 1 /\ (i + 1) - 1 = i
      BY <2>1, <3>1
    <3>3. h[i + 1] = T!Handle(h[i], lines[i + 1])
      BY <2>2, <3>2 DEF Reads, n
    <3>4. g[i + 1] = T!Handle(g[i], more[i + 1])
      BY <2>1, <2>3, <3>2 DEF Reads
    <3>5. g[i] = h[i]
      BY <2>1, <3>1
    <3> QED BY <2>1, <3>2, <3>3, <3>4, <3>5
  <2>6. K = Nat
    <3> HIDE DEF K
    <3> QED BY <2>4, <2>5, NatSet, K \subseteq Nat DEF K
  <2>7. g[n] = h[n]
    BY <2>1, <2>6
  <2>8. h[n] = T!Read(lines)
    BY <2>2 DEF Reads, n
  <2>9. g[n + 1] = T!Handle(g[n], more[n + 1]) /\ g[n + 1] = T!Read(more)
    <3>1. n + 1 \in 1 .. n + 1 /\ (n + 1) - 1 = n
      BY <2>1
    <3> QED BY <2>1, <2>3, <3>1 DEF Reads
  <2> QED BY <2>1, <2>7, <2>8, <2>9 DEF more
<1> QED BY <1>1, <1>2, <1>3

\* A trace that was read or shown, in its three lists; and one that goes on from it.
Fields(t) ==
  /\ t.steps \in Seq(StepRows) /\ t.deltas \in Seq(Deltas)
  /\ t.milestones \in Seq({"subgoal_completed", "recovery_succeeded"} \X Nat)

Follows(t, u) ==
  T!IsPrefix(t.steps, u.steps) /\ T!IsPrefix(t.deltas, u.deltas) /\
    T!IsPrefix(t.milestones, u.milestones)

\* A prefix, element by element.
LEMMA PrefixIs ==
  ASSUME NEW S, NEW a \in Seq(S), NEW b \in Seq(S)
  PROVE  T!IsPrefix(a, b) <=> Len(a) <= Len(b) /\ \A i \in 1 .. Len(a) : a[i] = b[i]
<1>1. SubSeq(a, 1, Len(a)) = a
  BY SubSeqFull
<1>2. Len(a) \in Nat /\ Len(b) \in Nat /\ (\A i \in 1 .. Len(b) : b[i] \in S)
  OBVIOUS
<1> DEFINE c == SubSeq(b, 1, Len(a))
<1>3. ASSUME Len(a) <= Len(b)
      PROVE  c \in Seq(S) /\ Len(c) = Len(a) /\ \A i \in 1 .. Len(a) : c[i] = b[i]
  <2>1. \A i \in 1 .. Len(a) : b[i] \in S
    BY <1>2, <1>3
  <2>2. /\ c \in Seq(S)
        /\ Len(c) = IF 1 <= Len(a) THEN Len(a) - 1 + 1 ELSE 0
        /\ \A i \in 1 .. Len(a) - 1 + 1 : c[i] = b[1 + i - 1]
    <3>1. 1 \in Int /\ Len(a) \in Int
      BY <1>2
    <3> QED BY <2>1, <3>1, SubSeqProperties
  <2> HIDE DEF c
  <2> QED BY <1>2, <2>2
<1> HIDE DEF c
<1>4. Len(a) <= Len(b) => (a = c <=> \A i \in 1 .. Len(a) : a[i] = b[i])
  BY <1>2, <1>3, SeqEqual
<1> QED BY <1>1, <1>4 DEF T!IsPrefix, c

\* A sequence is a prefix of itself,
LEMMA PrefixItself ==
  ASSUME NEW S, NEW s \in Seq(S)
  PROVE  T!IsPrefix(s, s)
BY PrefixIs

\* of itself with one more element,
LEMMA PrefixAppend ==
  ASSUME NEW S, NEW s \in Seq(S), NEW x \in S
  PROVE  T!IsPrefix(s, Append(s, x))
<1>1. Append(s, x) \in Seq(S) /\ Len(Append(s, x)) = Len(s) + 1 /\ Len(s) \in Nat
      /\ \A i \in 1 .. Len(s) : Append(s, x)[i] = s[i]
  OBVIOUS
<1> DEFINE r == Append(s, x)
<1>2. T!IsPrefix(s, r) <=> Len(s) <= Len(r) /\ \A i \in 1 .. Len(s) : s[i] = r[i]
  <2>1. r \in Seq(S)
    BY <1>1
  <2> HIDE DEF r
  <2> QED BY <2>1, PrefixIs
<1> QED BY <1>1, <1>2

\* and of what a longer prefix is one of.
LEMMA PrefixOfPrefix ==
  ASSUME NEW S, NEW s \in Seq(S), NEW r \in Seq(S), NEW q \in Seq(S),
         T!IsPrefix(s, r), T!IsPrefix(r, q)
  PROVE  T!IsPrefix(s, q)
<1>1. Len(s) \in Nat /\ Len(r) \in Nat /\ Len(q) \in Nat
  OBVIOUS
<1>2. /\ Len(s) <= Len(r) /\ \A i \in 1 .. Len(s) : s[i] = r[i]
      /\ Len(r) <= Len(q) /\ \A i \in 1 .. Len(r) : r[i] = q[i]
  BY PrefixIs
<1>3. Len(s) <= Len(q) /\ \A i \in 1 .. Len(s) : s[i] = q[i]
  BY <1>1, <1>2
<1> QED BY <1>3, PrefixIs

\* The same of traces.
LEMMA FollowsItself ==
  ASSUME NEW t, Fields(t)
  PROVE  Follows(t, t)
BY PrefixItself DEF Fields, Follows

\* The same of traces.
LEMMA FollowsOn ==
  ASSUME NEW t, Fields(t), NEW u, Fields(u), NEW w, Fields(w), Follows(t, u), Follows(u, w)
  PROVE  Follows(t, w)
BY PrefixOfPrefix DEF Fields, Follows

\* Later lines add to what is read, and take no word of an end back.
Later(t, u) == Follows(t, u) /\ (t.sure => u.sure /\ u.terminal = t.terminal)

\* A trace has the three lists.
LEMMA TraceFields ==
  ASSUME NEW t \in Traces
  PROVE  Fields(t)
BY DEF Traces, Fields

\* No line takes back what the lines before it said (SetTerminal lets the hard word win).
LEMMA HandleAdds ==
  ASSUME NEW t \in Traces, NEW e \in Lines
  PROVE  Later(t, T!Handle(t, e))
<1>0. Fields(t) /\ Fields(T!Handle(t, e)) /\ T!Handle(t, e) \in Traces
  BY HandleTyped, TraceFields
<1> DEFINE row == [index |-> e.index, phase |-> t.phase, failed |-> e.failed]
<1>1. CASE e.type = "step"
  <2>1. T!Handle(t, e) = [t EXCEPT !.steps = Append(@, row)]
    BY <1>1 DEF T!Handle
  <2>2. row \in StepRows
    BY <1>1 DEF Lines, StepRows, Traces
  <2> HIDE DEF row
  <2>3. T!IsPrefix(t.steps, Append(t.steps, row)) /\ T!IsPrefix(t.deltas, t.deltas)
        /\ T!IsPrefix(t.milestones, t.milestones)
    BY <1>0, <2>2, PrefixItself, PrefixAppend DEF Fields
  <2> QED BY <2>1, <2>3 DEF Later, Follows, Traces
<1>2. CASE e.type = "world"
  <2>1. T!Handle(t, e) = [t EXCEPT !.deltas = Append(@, T!NextStep(t))]
    BY <1>2 DEF T!Handle
  <2>2. T!NextStep(t) \in Deltas
    <3>1. T!NextStep(t) = T!NextStep([steps |-> t.steps])
      BY DEF T!NextStep
    <3> QED BY <3>1 DEF Deltas, Traces
  <2>3. T!IsPrefix(t.deltas, Append(t.deltas, T!NextStep(t))) /\ T!IsPrefix(t.steps, t.steps)
        /\ T!IsPrefix(t.milestones, t.milestones)
    BY <1>0, <2>2, PrefixItself, PrefixAppend DEF Fields
  <2> QED BY <2>1, <2>3 DEF Later, Follows, Traces
<1>3. CASE e.type = "boundary" /\ e.kind # "terminal"
  <2>1. T!Handle(t, e) = [t EXCEPT !.milestones = Append(@, <<e.kind, e.index>>)]
    BY <1>3 DEF T!Handle
  <2>2. <<e.kind, e.index>> \in {"subgoal_completed", "recovery_succeeded"} \X Nat
    BY <1>3 DEF Lines
  <2>3. T!IsPrefix(t.milestones, Append(t.milestones, <<e.kind, e.index>>))
        /\ T!IsPrefix(t.steps, t.steps) /\ T!IsPrefix(t.deltas, t.deltas)
    BY <1>0, <2>2, PrefixItself, PrefixAppend DEF Fields
  <2> QED BY <2>1, <2>3 DEF Later, Follows, Traces
<1>4. CASE ~(e.type \in {"step", "world"} \/ (e.type = "boundary" /\ e.kind # "terminal"))
  <2>1. /\ T!Handle(t, e).steps = t.steps /\ T!Handle(t, e).deltas = t.deltas
        /\ T!Handle(t, e).milestones = t.milestones
        /\ t.sure => T!Handle(t, e).sure /\ T!Handle(t, e).terminal = t.terminal
    BY <1>4 DEF T!Handle, T!SetTerminal, Traces, Lines
  <2> QED BY <1>0, <2>1, FollowsItself DEF Later, Follows
<1> QED BY <1>1, <1>2, <1>3, <1>4

\* A line that settles how the run ended.
Hard(e) == e.type \in {"goal_complete", "cap_hit", "resolved"}

\* What a line does to the word of the end, as long as it is not settled.
LEMMA HandleEnds ==
  ASSUME NEW t \in Traces, NEW e \in Lines
  PROVE  /\ ~t.sure /\ ~Hard(e) => ~T!Handle(t, e).sure
         /\ ~t.sure /\ ~Hard(e) /\ t.terminal = "stopped" => T!Handle(t, e).terminal = "stopped"
         /\ ~t.sure /\ e.type = "boundary" /\ e.kind = "terminal" =>
                T!Handle(t, e).terminal = "stopped"
         /\ ~t.sure /\ e.type = "goal_complete" =>
                T!Handle(t, e).sure /\ T!Handle(t, e).terminal = "complete"
         /\ ~t.sure /\ e.type = "cap_hit" =>
                T!Handle(t, e).sure /\ T!Handle(t, e).terminal = "stopped"
         /\ ~t.sure /\ e.type = "resolved" =>
                /\ T!Handle(t, e).sure
                /\ T!Handle(t, e).terminal =
                      IF e.action = "cancel" THEN "disagreement_cancelled" ELSE "complete"
         /\ Hard(e) => T!Parts(T!Handle(t, e)) = T!Parts(t)
<1>1. CASE e.type = "step"
  BY <1>1 DEF T!Handle, T!SetTerminal, Traces, Lines, Hard, T!Parts
<1>2. CASE e.type = "world"
  BY <1>2 DEF T!Handle, T!SetTerminal, Traces, Lines, Hard, T!Parts
<1>3. CASE e.type = "state"
  BY <1>3 DEF T!Handle, T!SetTerminal, Traces, Lines, Hard, T!Parts
<1>4. CASE e.type = "boundary"
  BY <1>4 DEF T!Handle, T!SetTerminal, Traces, Lines, Hard, T!Parts
<1>5. CASE e.type \in {"goal_complete", "cap_hit", "completion_disagreement"}
  BY <1>5 DEF T!Handle, T!SetTerminal, Traces, Lines, Hard, T!Parts
<1>6. CASE e.type = "resolved"
  BY <1>6 DEF T!Handle, T!SetTerminal, Traces, Lines, Hard, T!Parts
<1> QED BY <1>1, <1>2, <1>3, <1>4, <1>5, <1>6 DEF Lines

\* Later is transitive.
LEMMA LaterOn ==
  ASSUME NEW t \in Traces, NEW u \in Traces, NEW w \in Traces, Later(t, u), Later(u, w)
  PROVE  Later(t, w)
BY FollowsOn, TraceFields DEF Later

-----------------------------------------------------------------------------
(* The trace of a run: the file, written by the drain.                     *)

\* What the file holds after each message of the channel the forwarder drains.
Drains(lines, c, h) ==
  /\ h[0] = lines /\ h[Len(c)] = T!FoldLeft(T!Written, lines, c)
  /\ \A i \in 1 .. Len(c) : h[i] = T!Written(h[i - 1], c[i])

\* A message is written as lines.
LEMMA WrittenTyped ==
  ASSUME NEW d \in Seq(Lines), NEW e \in Lines \cup {T!Barrier}
  PROVE  T!Written(d, e) \in Seq(Lines)
BY DEF T!Written, T!Persisted

\* The drain writes the channel one message after the other.
LEMMA DrainInSteps ==
  ASSUME NEW lines \in Seq(Lines), NEW c \in Seq(Lines \cup {T!Barrier})
  PROVE  \E h : Drains(lines, c, h)
<1> DEFINE n == Len(c)
           st == [i \in 1 .. n |-> [d \in Seq(Lines) |-> T!Written(d, c[i])]]
<1>1. n \in Nat /\ DOMAIN c = 1 .. n /\ \A i \in 1 .. n : c[i] \in Lines \cup {T!Barrier}
  OBVIOUS
<1>2. st \in [1 .. n -> [Seq(Lines) -> Seq(Lines)]]
  <2> HIDE DEF n
  <2> QED BY <1>1, WrittenTyped
<1> HIDE DEF n
<1>3. PICK g \in [SUBSET (1 .. n) -> Seq(Lines)] : \A s \in SUBSET (1 .. n) :
           g[s] = IF s = {} THEN lines ELSE st[T!Max(s)][g[s \ {T!Max(s)}]]
  <2> HIDE DEF st
  <2>1. SetUnfolds(n, Seq(Lines), lines, st)
    BY <1>1, <1>2, SetRecursion
  <2> QED BY <2>1 DEF SetUnfolds
<1>4. \A s \in SUBSET (1 .. n) : s # {} => T!Max(s) \in s /\ s \ {T!Max(s)} \in SUBSET (1 .. n)
  BY <1>1, LargestExists
<1>5. g = [s \in SUBSET (1 .. n) |->
             IF s = {} THEN lines ELSE T!Written(g[s \ {T!Max(s)}], c[T!Max(s)])]
  <2>1. \A s \in SUBSET (1 .. n) :
            g[s] = IF s = {} THEN lines ELSE T!Written(g[s \ {T!Max(s)}], c[T!Max(s)])
    BY <1>3, <1>4
  <2> QED BY <2>1, <1>3
<1> DEFINE iter == CHOOSE it : it = [s \in SUBSET (1 .. n) |->
             IF s = {} THEN lines ELSE T!Written(it[s \ {T!Max(s)}], c[T!Max(s)])]
<1>6. iter = [s \in SUBSET (1 .. n) |->
             IF s = {} THEN lines ELSE T!Written(iter[s \ {T!Max(s)}], c[T!Max(s)])]
  BY <1>5
<1>7. T!FoldLeft(T!Written, lines, c) = iter[1 .. n]
  BY <1>1 DEF T!FoldLeft, T!MapThenFoldSet
<1> HIDE DEF iter
<1>8. \A i \in 1 .. n : T!Max(1 .. i) = i
  <2> TAKE i \in 1 .. n
  <2>1. 1 .. i \in SUBSET (1 .. n) /\ 1 .. i # {} /\ i \in 1 .. i
    BY <1>1, UpTo
  <2>2. T!Max(1 .. i) \in 1 .. i /\ i <= T!Max(1 .. i)
    BY <1>1, <2>1, LargestExists
  <2> QED BY <1>1, <2>2
<1> DEFINE h == [i \in 0 .. n |-> iter[1 .. i]]
<1>9. h[0] = lines
  <2>1. 1 .. 0 = {} /\ {} \in SUBSET (1 .. n) /\ 0 \in 0 .. n
    BY <1>1
  <2> QED BY <2>1, <1>6
<1>10. h[n] = T!FoldLeft(T!Written, lines, c)
  BY <1>1, <1>7
<1>11. ASSUME NEW i \in 1 .. n PROVE h[i] = T!Written(h[i - 1], c[i])
  <2>1. /\ 1 .. i \in SUBSET (1 .. n) /\ 1 .. i # {} /\ i \in 0 .. n /\ i - 1 \in 0 .. n
        /\ (1 .. i) \ {i} = 1 .. (i - 1)
    BY <1>1, UpTo
  <2>2. iter[1 .. i] = T!Written(iter[(1 .. i) \ {T!Max(1 .. i)}], c[T!Max(1 .. i)])
    BY <1>6, <2>1
  <2> QED BY <1>8, <2>1, <2>2
<1> HIDE DEF h
<1> QED BY <1>9, <1>10, <1>11 DEF Drains, n

\* A drain takes nothing back of what was read, and settles nothing of its own.
LEMMA DrainAdds ==
  ASSUME NEW lines \in Seq(Lines), NEW c \in Seq(Lines \cup {T!Barrier}),
         NEW all, all = T!FoldLeft(T!Written, lines, c)
  PROVE  /\ all \in Seq(Lines)
         /\ Later(T!Read(lines), T!Read(all))
         /\ ~T!Read(lines).sure /\ (\A i \in 1 .. Len(c) : ~Hard(c[i])) => ~T!Read(all).sure
<1>1. PICK h : Drains(lines, c, h)
  BY DrainInSteps
<1> DEFINE n == Len(c)
           quiet == ~T!Read(lines).sure /\ \A i \in 1 .. n : ~Hard(c[i])
           Good(d) == /\ d \in Seq(Lines)
                      /\ Later(T!Read(lines), T!Read(d))
                      /\ quiet => ~T!Read(d).sure
           K == {i \in Nat : i <= n => Good(h[i])}
<1>2. n \in Nat /\ \A i \in 1 .. n : c[i] \in Lines \cup {T!Barrier}
  OBVIOUS
<1>3. Good(lines)
  BY ReadGrows, TraceFields, FollowsItself DEF Later
<1>4. ASSUME NEW d, Good(d), NEW i \in 1 .. n PROVE Good(T!Written(d, c[i]))
  <2>1. CASE c[i] = T!Barrier
    BY <1>4, <2>1 DEF T!Written
  <2>2. CASE c[i] # T!Barrier
    <3>1. c[i] \in Lines /\ T!Written(d, c[i]) = Append(d, c[i]) /\ d \in Seq(Lines)
      BY <1>2, <1>4, <2>2 DEF T!Written, T!Persisted
    <3> DEFINE e == c[i]
    <3>2. Append(d, e) \in Seq(Lines)
      BY <3>1
    <3>3. T!Read(Append(d, e)) = T!Handle(T!Read(d), e) /\ T!Read(d) \in Traces /\
            T!Read(lines) \in Traces
          /\ T!Read(Append(d, e)) \in Traces
      BY <3>1, <3>2, ReadGrows
    <3>4. Later(T!Read(lines), T!Read(Append(d, e)))
      BY <1>4, <3>1, <3>3, HandleAdds, LaterOn
    <3>5. quiet => ~T!Read(Append(d, e)).sure
      BY <1>4, <3>1, <3>3, HandleEnds
    <3> QED BY <3>1, <3>2, <3>4, <3>5
  <2> QED BY <2>1, <2>2
<1>5. 0 \in K
  BY <1>1, <1>3 DEF Drains
<1>6. ASSUME NEW i \in K PROVE i + 1 \in K
  <2>1. SUFFICES ASSUME i + 1 <= n PROVE Good(h[i + 1])
    OBVIOUS
  <2>2. i + 1 \in 1 .. n /\ (i + 1) - 1 = i /\ Good(h[i])
    <3> HIDE DEF Good
    <3> QED BY <1>2, <2>1
  <2>3. h[i + 1] = T!Written(h[i], c[i + 1])
    BY <1>1, <2>2 DEF Drains
  <2> HIDE DEF Good, n
  <2> QED BY <1>4, <2>2, <2>3
<1>7. K = Nat
  <2> HIDE DEF K
  <2> QED BY <1>5, <1>6, NatSet, K \subseteq Nat DEF K
<1>8. Good(all)
  <2>1. h[n] = all
    BY <1>1 DEF Drains
  <2> HIDE DEF Good
  <2> QED BY <1>2, <1>7, <2>1
<1> QED BY <1>8

-----------------------------------------------------------------------------
(* The trace of a run: what the interface shows.                           *)

\* What the interface is told, and what it shows of it (AssistantStore).
EndKinds == {"complete", "disagreement_cancelled", "error", "stopped"}
Ends == [type: {"end"}, kind: EndKinds]
Views ==
    [phase: Phases \cup {FirstPhase}, steps: Seq(StepRows), deltas: Seq(Deltas),
     milestones: Seq({"subgoal_completed", "recovery_succeeded"} \X Nat),
     terminal: {"none"} \cup EndKinds]

\* What is shown stays typed, and of an end it is the end that is shown.
LEMMA ShownTyped ==
  ASSUME NEW t \in Views, NEW e \in Lines \cup Ends
  PROVE  /\ T!Shown(t, e) \in Views
         /\ T!Shown(t, e).terminal = IF e.type = "end" THEN e.kind ELSE t.terminal
<1>1. T!NextStep(t) \in Deltas
  <2>1. T!NextStep(t) = T!NextStep([steps |-> t.steps])
    BY DEF T!NextStep
  <2> QED BY <2>1 DEF Deltas, Views
<1> DEFINE row == [index |-> e.index, phase |-> t.phase, failed |-> e.failed]
<1>2. e.type = "step" => row \in StepRows
  BY DEF Lines, Ends, StepRows, Views
<1>3. e.type = "boundary" /\ e.kind # "terminal" =>
        <<e.kind, e.index>> \in {"subgoal_completed", "recovery_succeeded"} \X Nat
  BY DEF Lines, Ends
<1> HIDE DEF row
<1>4. CASE e.type = "step"
  <2>1. T!Shown(t, e) = [t EXCEPT !.steps = Append(@, row)]
    BY <1>4 DEF T!Shown, row
  <2>2. Append(t.steps, row) \in Seq(StepRows)
    BY <1>2, <1>4 DEF Views
  <2> QED BY <1>4, <2>1, <2>2 DEF Views
<1>5. CASE e.type = "state"
  BY <1>5 DEF T!Shown, Views, Lines, Ends
<1>6. CASE e.type = "world"
  <2>1. T!Shown(t, e) = [t EXCEPT !.deltas = Append(@, T!NextStep(t))]
    BY <1>6 DEF T!Shown
  <2>2. Append(t.deltas, T!NextStep(t)) \in Seq(Deltas)
    BY <1>1 DEF Views
  <2> QED BY <1>6, <2>1, <2>2 DEF Views
<1>7. CASE e.type = "boundary" /\ e.kind # "terminal"
  <2>1. T!Shown(t, e) = [t EXCEPT !.milestones = Append(@, <<e.kind, e.index>>)]
    BY <1>7 DEF T!Shown
  <2>2. Append(t.milestones, <<e.kind, e.index>>)
           \in Seq({"subgoal_completed", "recovery_succeeded"} \X Nat)
    BY <1>7, <1>3 DEF Views
  <2> QED BY <1>7, <2>1, <2>2 DEF Views
<1>8. CASE e.type = "end"
  <2>1. T!Shown(t, e) = [t EXCEPT !.terminal = e.kind]
    BY <1>8 DEF T!Shown
  <2>2. e.kind \in EndKinds
    BY <1>8 DEF Lines, Ends
  <2> QED BY <1>8, <2>1, <2>2 DEF Views
<1>9. CASE \/ e.type \in {"goal_complete", "cap_hit", "resolved", "completion_disagreement"}
           \/ e.type = "boundary" /\ e.kind = "terminal"
  <2>1. T!Shown(t, e) = t
    BY <1>9 DEF T!Shown
  <2> QED BY <1>9, <2>1
<1> QED BY <1>4, <1>5, <1>6, <1>7, <1>8, <1>9 DEF Lines, Ends

\* The file and the interface take a line the same way.
LEMMA SameParts ==
  ASSUME NEW t \in Views, NEW u \in Traces, T!Parts(t) = T!Parts(u), NEW e \in Lines
  PROVE  T!Parts(T!Shown(t, e)) = T!Parts(T!Handle(u, e))
<1>0. t.phase = u.phase /\ t.steps = u.steps /\ t.deltas = u.deltas /\
        t.milestones = u.milestones
  BY DEF T!Parts
<1>1. CASE e.type = "step"
  BY <1>0, <1>1 DEF T!Shown, T!Handle, T!Parts, Views, Traces
<1>2. CASE e.type = "state"
  BY <1>0, <1>2 DEF T!Shown, T!Handle, T!Parts, Views, Traces
<1>3. CASE e.type = "world"
  <2>1. T!NextStep(t) = T!NextStep(u)
    BY <1>0 DEF T!NextStep
  <2> QED BY <1>0, <1>3, <2>1 DEF T!Shown, T!Handle, T!Parts, Views, Traces
<1>4. CASE e.type = "boundary"
  BY <1>0, <1>4 DEF T!Shown, T!Handle, T!Parts, Views, Traces, T!SetTerminal
<1>5. CASE e.type \in {"goal_complete", "cap_hit", "completion_disagreement", "resolved"}
  BY <1>0, <1>5 DEF T!Shown, T!Handle, T!Parts, Views, Traces, T!SetTerminal
<1> QED BY <1>1, <1>2, <1>3, <1>4, <1>5 DEF Lines

\* The end of the run changes none of it.
LEMMA EndKeepsParts ==
  ASSUME NEW t \in Views, NEW e \in Ends
  PROVE  T!Parts(T!Shown(t, e)) = T!Parts(t)
BY DEF T!Shown, Ends, Views, T!Parts

\* A sequence of two.
LEMMA Two ==
  ASSUME NEW x, NEW y
  PROVE  Append(<<x>>, y) = <<x, y>>
<1> DEFINE r == Append(<<x>>, y)
           q == <<x, y>>
<1>1. <<x>> \in Seq({x, y}) /\ Len(<<x>>) = 1 /\ <<x>>[1] = x
  OBVIOUS
<1>2. r \in Seq({x, y}) /\ Len(r) = 2 /\ r[1] = x /\ r[2] = y
  BY <1>1, AppendProperties
<1>3. q \in Seq({x, y}) /\ Len(q) = 2 /\ q[1] = x /\ q[2] = y
  OBVIOUS
<1> HIDE DEF r, q
<1>4. \A i \in 1 .. 2 : r[i] = q[i]
  BY <1>2, <1>3
<1>5. r = q
  BY <1>2, <1>3, <1>4, SeqEqual
<1> QED BY <1>5 DEF r, q

\* One more element, of the same set.
LEMMA AppendIn ==
  ASSUME NEW S, NEW s \in Seq(S), NEW x \in S
  PROVE  Append(s, x) \in Seq(S)
OBVIOUS

\* What is in a sequence.
Items(s) == {s[i] : i \in DOMAIN s}

\* The last that is put in, and the first that is taken out.
LEMMA ItemsOf ==
  ASSUME NEW S, NEW s \in Seq(S)
  PROVE  /\ \A x \in S : Items(Append(s, x)) = Items(s) \cup {x}
         /\ s # <<>> => /\ Items(s) = Items(Tail(s)) \cup {Head(s)}
                        /\ Head(s) \in S /\ Tail(s) \in Seq(S)
<1>1. ASSUME NEW x \in S PROVE Items(Append(s, x)) = Items(s) \cup {x}
  <2> DEFINE r == Append(s, x)
  <2>1. /\ DOMAIN s = 1 .. Len(s) /\ DOMAIN r = 1 .. Len(s) + 1 /\ Len(s) \in Nat
        /\ r[Len(s) + 1] = x /\ \A i \in 1 .. Len(s) : r[i] = s[i]
    OBVIOUS
  <2> HIDE DEF r
  <2> QED BY <2>1 DEF Items, r
<1>2. ASSUME s # <<>>
      PROVE  Items(s) = Items(Tail(s)) \cup {Head(s)} /\ Head(s) \in S /\ Tail(s) \in Seq(S)
  <2> DEFINE r == Tail(s)
  <2>1. /\ Head(s) \in S /\ r \in Seq(S) /\ Len(r) = Len(s) - 1 /\ Len(s) \in Nat \ {0}
        /\ \A i \in 1 .. Len(r) : r[i] = s[i + 1]
    BY <1>2, HeadTailProperties
  <2>2. DOMAIN s = 1 .. Len(s) /\ DOMAIN r = 1 .. Len(s) - 1 /\ Head(s) = s[1]
    BY <1>2, <2>1
  <2> HIDE DEF r
  <2>3. ASSUME NEW i \in DOMAIN s PROVE s[i] \in Items(r) \cup {s[1]}
    <3>1. CASE i = 1
      BY <3>1
    <3>2. CASE i # 1
      <4>1. i - 1 \in DOMAIN r /\ r[i - 1] = s[i]
        BY <2>1, <2>2, <3>2
      <4> QED BY <4>1 DEF Items
    <3> QED BY <3>1, <3>2
  <2>4. ASSUME NEW i \in DOMAIN r PROVE r[i] \in Items(s)
    <3>1. i + 1 \in DOMAIN s /\ r[i] = s[i + 1]
      BY <2>1, <2>2
    <3> QED BY <3>1 DEF Items
  <2>5. s[1] \in Items(s)
    BY <2>1, <2>2 DEF Items
  <2>6. Items(s) = Items(r) \cup {s[1]}
    BY <2>3, <2>4, <2>5 DEF Items
  <2> QED BY <2>1, <2>2, <2>6 DEF r
<1> QED BY <1>1, <1>2

-----------------------------------------------------------------------------
(* The trace of a run: the invariant.                                      *)

\* The types.
TraceTypes ==
  /\ pc \in {"start", "running", "halting", "deciding", "terminal", "waiting", "done"}
  /\ result \in {"none", "cancelled", "confirmed", "rejected"} \cup T!Halts
  /\ step \in Nat /\ forwarder \in BOOLEAN /\ cancelled \in BOOLEAN /\ acked \in BOOLEAN
  /\ disk \in Seq(Lines) /\ chan \in Seq(Lines \cup {T!Barrier}) /\ outbox \in Seq(Lines)
  /\ inbox \in Seq(Lines \cup Ends) /\ ui \in Views

\* Where the run is tells what it has decided; what is put out is sent before it goes
\* on, and the forwarder ends only when the run was cancelled or is over.
TraceStages ==
  /\ result = "none" <=> pc \in {"start", "running"}
  /\ pc = "halting" => result \in T!Halts
  /\ pc = "deciding" => result = "disagreed"
  /\ result = "disagreed" => pc \in {"halting", "deciding"}
  /\ result = "cancelled" => cancelled
  /\ pc \notin {"running", "halting"} => outbox = <<>>
  /\ ~forwarder => cancelled /\ chan = <<>>
  /\ acked => pc \in {"waiting", "done"}
  /\ pc = "done" => acked
  /\ acked => chan = <<>>

\* The barrier is the last that is sent.
BarrierLast == \A i \in DOMAIN chan : chan[i] = T!Barrier => i = Len(chan) /\ pc = "waiting"

\* What is said of the run is said once it is over, and nothing after it.
OverOnce ==
  /\ \A i \in DOMAIN inbox : inbox[i].type = "end" =>
        i = Len(inbox) /\ pc = "done" /\ inbox[i].kind = T!EndKind
  /\ ui.terminal # "none" => pc = "done" /\ inbox = <<>> /\ ui.terminal = T!EndKind

\* What the interface will have shown when it has heard so much of its inbox: at every
\* point a part of the file, and at the end of it all of the file, while every line the
\* forwarder writes is emitted too.
Hearing(v) ==
  /\ v \in [0 .. Len(inbox) -> Views] /\ v[0] = ui
  /\ \A i \in 1 .. Len(inbox) : v[i] = T!Shown(v[i - 1], inbox[i])
  /\ \A i \in 0 .. Len(inbox) : Follows(v[i], T!Hydrated)
  /\ forwarder => T!Parts(v[Len(inbox)]) = T!Parts(T!Hydrated)

Heard == \E v : Hearing(v)

\* The lines on their way to the file.
Pending == Items(chan) \cup Items(outbox)

\* The line that settles a run that has come to its end, and what it is read as.
Word == IF result = "completed" THEN "goal_complete" ELSE "cap_hit"
Ending == IF result = "completed" THEN "complete" ELSE "stopped"

\* Before the verdict nothing settles the end, in the file or on its way.
Undecided ==
  result \in {"none", "disagreed", "halted", "failed"} =>
      ~T!Hydrated.sure /\ \A e \in Pending : ~Hard(e)

\* A run that completed or was capped is settled by its own word alone, and the word is
\* in the file or on its way.
Worded ==
  result \in {"completed", "capped"} /\ ~cancelled =>
      /\ \A e \in Pending : Hard(e) => e.type = Word
      /\ T!Hydrated.sure => T!Hydrated.terminal = Ending
      /\ T!Hydrated.sure \/ \E e \in Pending : e.type = Word

\* Of a run that was halted the file tells, or will.
HaltTold ==
  result = "halted" /\ ~cancelled =>
      \/ T!Hydrated.terminal = "stopped"
      \/ \E e \in Pending : e.type = "boundary" /\ e.kind = "terminal"

\* The decision of the operator is in the file, and settles it.
Ruled ==
  /\ result = "confirmed" => T!Hydrated.sure /\ T!Hydrated.terminal = "complete"
  /\ result = "rejected" => T!Hydrated.sure /\ T!Hydrated.terminal = "disagreement_cancelled"

\* The variant of the run is entered when it has ended, once.
Entered ==
  result # "cancelled" =>
      variant = IF pc \in {"start", "running", "halting", "deciding"} \/ result = "failed"
                     THEN <<>>
                ELSE <<result \in {"completed", "confirmed"}>>

\* The invariant.
TraceInv ==
  TraceTypes /\ TraceStages /\ BarrierLast /\ OverOnce /\ Heard
  /\ Undecided /\ Worded /\ HaltTold /\ Ruled /\ Entered

-----------------------------------------------------------------------------
(* The trace of a run: each action keeps it.                               *)

\* The last lines of a run settle it as it ended.
LEMMA LastWordsSay ==
  ASSUME step \in Nat, NEW h \in T!Halts
  PROVE  /\ T!LastWords(h) \in Seq(Lines)
         /\ h \in {"disagreed", "halted", "failed"} => \A e \in Items(T!LastWords(h)) : ~Hard(e)
         /\ h = "completed" =>
              /\ \A e \in Items(T!LastWords(h)) : Hard(e) => e.type = "goal_complete"
              /\ \E e \in Items(T!LastWords(h)) : e.type = "goal_complete"
         /\ h = "capped" =>
              /\ \A e \in Items(T!LastWords(h)) : Hard(e) => e.type = "cap_hit"
              /\ \E e \in Items(T!LastWords(h)) : e.type = "cap_hit"
         /\ h = "halted" => \E e \in Items(T!LastWords(h)) : e.type = "boundary" /\
              e.kind = "terminal"
<1> DEFINE closing == [type |-> "boundary", kind |-> "terminal", index |-> step]
           first == CASE h = "completed" -> [type |-> "goal_complete"]
                      [] h = "disagreed" -> [type |-> "completion_disagreement"]
                      [] OTHER -> [type |-> "cap_hit"]
<1>1. closing \in Lines /\ closing.type = "boundary" /\ closing.kind = "terminal" /\ ~Hard(closing)
  BY DEF Lines, Hard
<1>2. CASE h = "failed"
  <2>1. T!LastWords(h) = <<>>
    BY <1>2 DEF T!LastWords
  <2>2. <<>> \in Seq(Lines) /\ Items(<<>>) = {}
    BY DEF Items
  <2> QED BY <1>2, <2>1, <2>2
<1>3. CASE h = "halted"
  <2>1. T!LastWords(h) = <<closing>>
    BY <1>3 DEF T!LastWords
  <2> HIDE DEF closing
  <2>2. T!LastWords(h) \in Seq(Lines) /\ Items(T!LastWords(h)) = {closing}
    BY <1>1, <2>1 DEF Items
  <2> QED BY <1>1, <1>3, <2>2
<1>4. CASE h \in {"completed", "disagreed", "capped"}
  <2>1. first \in Lines /\ T!LastWords(h) = <<first, closing>>
    <3>1. CASE h = "completed"
      <4>1. T!LastWords(h) = Append(<<[type |-> "goal_complete"]>>, closing)
        BY <3>1 DEF T!LastWords
      <4>2. T!LastWords(h) = <<[type |-> "goal_complete"], closing>>
        BY <4>1, Two
      <4> QED BY <3>1, <4>2 DEF Lines
    <3>2. CASE h = "disagreed"
      <4>1. T!LastWords(h) = Append(<<[type |-> "completion_disagreement"]>>, closing)
        BY <3>2 DEF T!LastWords
      <4>2. T!LastWords(h) = <<[type |-> "completion_disagreement"], closing>>
        BY <4>1, Two
      <4> QED BY <3>2, <4>2 DEF Lines
    <3>3. CASE h = "capped"
      <4>1. T!LastWords(h) = Append(<<[type |-> "cap_hit"]>>, closing)
        BY <3>3 DEF T!LastWords
      <4>2. T!LastWords(h) = <<[type |-> "cap_hit"], closing>>
        BY <4>1, Two
      <4> QED BY <3>3, <4>2 DEF Lines
    <3> QED BY <1>4, <3>1, <3>2, <3>3
  <2>2. /\ h = "completed" => first.type = "goal_complete"
        /\ h = "disagreed" => first.type = "completion_disagreement"
        /\ h = "capped" => first.type = "cap_hit"
    BY <1>4
  <2> HIDE DEF closing, first
  <2>3. T!LastWords(h) \in Seq(Lines) /\ Items(T!LastWords(h)) = {first, closing}
    BY <1>1, <2>1 DEF Items
  <2> QED BY <1>1, <1>4, <2>2, <2>3 DEF Hard
<1> QED BY <1>2, <1>3, <1>4 DEF T!Halts

\* What a run tells of its steps settles nothing.
LEMMA TellsLines ==
  ASSUME step \in Nat, NEW e \in T!Told
  PROVE  e \in Lines /\ ~Hard(e) /\ (e.type = "step" => step + 1 \in Nat)
BY DEF T!Told, Lines, Hard

\* Every step keeps the types;
LEMMA TraceTypesStay ==
  ASSUME TraceTypes, TraceStages, [T!Next]_(T!vars)
  PROVE  TraceTypes'
<1> USE DEF T!engine, TraceTypes, TraceStages, T!Halts
<1>1. ASSUME T!StartFails PROVE TraceTypes'
  BY <1>1 DEF T!StartFails
<1>2. ASSUME T!Begin PROVE TraceTypes'
  BY <1>2 DEF T!Begin
<1>3. ASSUME NEW e \in T!Told, T!Tell(e) PROVE TraceTypes'
  BY <1>3, TellsLines DEF T!Tell
<1>4. ASSUME NEW h \in T!Halts, T!Halt(h) PROVE TraceTypes'
  BY <1>4, LastWordsSay DEF T!Halt
<1>5. ASSUME T!Send PROVE TraceTypes'
  <2>1. Head(outbox) \in Lines /\ Tail(outbox) \in Seq(Lines)
    BY <1>5, HeadTailProperties DEF T!Send
  <2>2. chan' \in Seq(Lines \cup {T!Barrier})
    <3>1. chan' = chan \/ chan' = Append(chan, Head(outbox))
      BY <1>5 DEF T!Send
    <3>2. chan \in Seq(Lines \cup {T!Barrier}) /\ Head(outbox) \in Lines \cup {T!Barrier}
      BY <2>1
    <3> QED BY <3>1, <3>2, AppendIn
  <2> QED BY <1>5, <2>1, <2>2 DEF T!Send
<1>6. ASSUME T!Return PROVE TraceTypes'
  BY <1>6 DEF T!Return
<1>7. ASSUME T!Cancelled PROVE TraceTypes'
  BY <1>7 DEF T!Cancelled
<1>8. ASSUME NEW a \in {"confirm", "cancel"}, T!Resolve(a) PROVE TraceTypes'
  <2>1. [type |-> "resolved", action |-> a] \in Lines
    BY DEF Lines
  <2> QED BY <1>8, <2>1 DEF T!Resolve
<1>9. ASSUME T!SendBarrier PROVE TraceTypes'
  <2>1. chan' \in Seq(Lines \cup {T!Barrier})
    <3>1. chan' = chan \/ chan' = Append(chan, T!Barrier)
      BY <1>9 DEF T!SendBarrier
    <3>2. chan \in Seq(Lines \cup {T!Barrier}) /\ T!Barrier \in Lines \cup {T!Barrier}
      OBVIOUS
    <3> QED BY <3>1, <3>2, AppendIn
  <2> QED BY <1>9, <2>1 DEF T!SendBarrier
<1>10. ASSUME T!EmitTerminal PROVE TraceTypes'
  <2>1. [type |-> "end", kind |-> T!EndKind] \in Ends
    BY DEF T!EndKind, Ends, EndKinds
  <2> QED BY <1>10, <2>1 DEF T!EmitTerminal
<1>11. ASSUME T!Forward PROVE TraceTypes'
  <2>1. Head(chan) \in Lines \cup {T!Barrier} /\ Tail(chan) \in Seq(Lines \cup {T!Barrier})
    BY <1>11, HeadTailProperties DEF T!Forward
  <2>2. CASE Head(chan) = T!Barrier
    BY <1>11, <2>1, <2>2 DEF T!Forward
  <2>3. CASE Head(chan) # T!Barrier
    <3>1. Head(chan) \in Lines /\ disk' = Append(disk, Head(chan))
          /\ (inbox' = inbox \/ inbox' = Append(inbox, Head(chan)))
      BY <1>11, <2>1, <2>3 DEF T!Forward, T!Persisted
    <3>2. /\ disk \in Seq(Lines) /\ inbox \in Seq(Lines \cup Ends)
          /\ Head(chan) \in Lines \cup Ends
      BY <3>1
    <3>3. disk' \in Seq(Lines) /\ inbox' \in Seq(Lines \cup Ends)
      BY <3>1, <3>2, AppendIn
    <3> QED BY <1>11, <2>1, <2>3, <3>3 DEF T!Forward
  <2> QED BY <2>2, <2>3
<1>12. ASSUME T!Stop PROVE TraceTypes'
  BY <1>12 DEF T!Stop
<1>13. ASSUME T!Drain PROVE TraceTypes'
  <2>1. disk' = T!FoldLeft(T!Written, disk, chan)
    BY <1>13 DEF T!Drain
  <2>2. disk' \in Seq(Lines)
    BY <2>1, DrainAdds
  <2>3. acked' \in BOOLEAN /\ chan' = <<>> /\ forwarder' = FALSE
        /\ UNCHANGED <<pc, T!engine, cancelled, variant, inbox, ui>>
    BY <1>13 DEF T!Drain
  <2>4. <<>> \in Seq(Lines \cup {T!Barrier})
    OBVIOUS
  <2> QED BY <2>2, <2>3, <2>4
<1>14. ASSUME T!Show PROVE TraceTypes'
  <2>1. Head(inbox) \in Lines \cup Ends /\ Tail(inbox) \in Seq(Lines \cup Ends)
    BY <1>14, HeadTailProperties DEF T!Show
  <2>2. T!Shown(ui, Head(inbox)) \in Views
    BY <2>1, ShownTyped
  <2> QED BY <1>14, <2>1, <2>2 DEF T!Show
<1>15. CASE UNCHANGED T!vars
  BY <1>15 DEF T!vars
<1> QED BY <1>1, <1>2, <1>3, <1>4, <1>5, <1>6, <1>7, <1>8, <1>9, <1>10, <1>11, <1>12, <1>13,
       <1>14, <1>15 DEF T!Next

\* the stages and the barrier;
LEMMA StagesStay ==
  ASSUME TraceTypes, TraceStages, BarrierLast, [T!Next]_(T!vars)
  PROVE  TraceStages' /\ BarrierLast'
<1> USE DEF T!engine, TraceStages, TraceTypes, T!Halts
<1>1. ASSUME T!StartFails PROVE TraceStages' /\ BarrierLast'
  BY <1>1 DEF T!StartFails, BarrierLast
<1>2. ASSUME T!Begin PROVE TraceStages' /\ BarrierLast'
  BY <1>2 DEF T!Begin, BarrierLast
<1>3. ASSUME NEW e \in T!Told, T!Tell(e) PROVE TraceStages' /\ BarrierLast'
  BY <1>3 DEF T!Tell, BarrierLast
<1>4. ASSUME NEW h \in T!Halts, T!Halt(h) PROVE TraceStages' /\ BarrierLast'
  BY <1>4 DEF T!Halt, BarrierLast
<1>5. ASSUME T!Send PROVE TraceStages' /\ BarrierLast'
  <2>1. CASE forwarder
    <3>1. chan' = Append(chan, Head(outbox)) /\ pc \in {"running", "halting"} /\ pc' = pc /\
            ~acked
      BY <1>5, <2>1 DEF T!Send
    <3>2. BarrierLast'
      <4>1. Head(outbox) \in Lines
        BY <1>5, HeadTailProperties DEF T!Send
      <4>2. Head(outbox) # T!Barrier
        BY <4>1 DEF Lines, T!Barrier
      <4>3. ASSUME NEW i \in DOMAIN chan' PROVE chan'[i] # T!Barrier
        <5>1. i \in 1 .. Len(chan) + 1 /\ Len(chan) \in Nat
          BY <3>1
        <5>2. CASE i = Len(chan) + 1
          BY <3>1, <4>2, <5>2
        <5>3. CASE i # Len(chan) + 1
          BY <3>1, <5>1, <5>3 DEF BarrierLast
        <5> QED BY <5>2, <5>3
      <4> QED BY <4>3 DEF BarrierLast
    <3> QED BY <1>5, <2>1, <3>1, <3>2 DEF T!Send
  <2>2. CASE ~forwarder
    BY <1>5, <2>2 DEF T!Send, BarrierLast
  <2> QED BY <2>1, <2>2
<1>6. ASSUME T!Return PROVE TraceStages' /\ BarrierLast'
  BY <1>6 DEF T!Return, BarrierLast
<1>7. ASSUME T!Cancelled PROVE TraceStages' /\ BarrierLast'
  BY <1>7 DEF T!Cancelled, BarrierLast
<1>8. ASSUME NEW a \in {"confirm", "cancel"}, T!Resolve(a) PROVE TraceStages' /\ BarrierLast'
  BY <1>8 DEF T!Resolve, BarrierLast
<1>9. ASSUME T!SendBarrier PROVE TraceStages' /\ BarrierLast'
  <2>1. CASE forwarder
    <3>1. chan' = Append(chan, T!Barrier) /\ pc = "terminal" /\ pc' = "waiting" /\ ~acked /\
            ~acked'
      BY <1>9, <2>1 DEF T!SendBarrier
    <3>2. BarrierLast'
      <4>1. ASSUME NEW i \in DOMAIN chan', chan'[i] = T!Barrier PROVE i = Len(chan')
        <5>1. i \in 1 .. Len(chan) + 1 /\ Len(chan) \in Nat /\ Len(chan') = Len(chan) + 1
          BY <3>1
        <5>2. i \in 1 .. Len(chan) => chan'[i] = chan[i]
          BY <3>1, <5>1
        <5> QED BY <3>1, <4>1, <5>1, <5>2 DEF BarrierLast
      <4> QED BY <3>1, <4>1 DEF BarrierLast
    <3> QED BY <1>9, <2>1, <3>1, <3>2 DEF T!SendBarrier
  <2>2. CASE ~forwarder
    BY <1>9, <2>2 DEF T!SendBarrier, BarrierLast
  <2> QED BY <2>1, <2>2
<1>10. ASSUME T!EmitTerminal PROVE TraceStages' /\ BarrierLast'
  BY <1>10 DEF T!EmitTerminal, T!Drained, BarrierLast
<1>11. ASSUME T!Forward PROVE TraceStages' /\ BarrierLast'
  <2>1. /\ Len(chan') = Len(chan) - 1 /\ chan' = Tail(chan) /\ Len(chan) \in Nat \ {0}
        /\ chan' \in Seq(Lines \cup {T!Barrier}) /\ Head(chan) = chan[1]
        /\ \A i \in 1 .. Len(chan') : chan'[i] = chan[i + 1]
    BY <1>11, HeadTailProperties DEF T!Forward
  <2>2. DOMAIN chan = 1 .. Len(chan) /\ DOMAIN chan' = 1 .. Len(chan')
    BY <2>1
  <2>3. BarrierLast'
    <3>1. ASSUME NEW i \in DOMAIN chan', chan'[i] = T!Barrier
          PROVE  i = Len(chan') /\ pc = "waiting"
      <4>1. i + 1 \in DOMAIN chan /\ chan[i + 1] = T!Barrier
        BY <2>1, <2>2, <3>1
      <4> QED BY <2>1, <2>2, <4>1 DEF BarrierLast
    <3> QED BY <1>11, <3>1 DEF BarrierLast, T!Forward
  <2>4. chan[1] = T!Barrier => chan' = <<>> /\ pc = "waiting"
    <3>1. SUFFICES ASSUME chan[1] = T!Barrier PROVE chan' = <<>> /\ pc = "waiting"
      OBVIOUS
    <3>2. 1 \in DOMAIN chan
      BY <2>1, <2>2
    <3>3. 1 = Len(chan) /\ pc = "waiting"
      BY <3>1, <3>2 DEF BarrierLast
    <3>4. Len(chan') = 0
      BY <2>1, <3>3
    <3> QED BY <2>1, <3>3, <3>4
  <2>5. acked => chan' = <<>>
    BY <1>11 DEF T!Forward
  <2>6. /\ acked' => acked \/ (pc = "waiting" /\ chan' = <<>>)
        /\ acked => acked'
        /\ forwarder /\ ~cancelled /\ UNCHANGED <<pc, result, outbox, forwarder, cancelled>>
    BY <1>11, <2>1, <2>4 DEF T!Forward
  <2> HIDE DEF T!engine
  <2> QED BY <2>3, <2>5, <2>6
<1>12. ASSUME T!Stop PROVE TraceStages' /\ BarrierLast'
  BY <1>12 DEF T!Stop, BarrierLast
<1>13. ASSUME T!Drain PROVE TraceStages' /\ BarrierLast'
  BY <1>13 DEF T!Drain, BarrierLast
<1>14. ASSUME T!Show PROVE TraceStages' /\ BarrierLast'
  BY <1>14 DEF T!Show, BarrierLast
<1>15. CASE UNCHANGED T!vars
  BY <1>15 DEF T!vars, BarrierLast
<1> QED BY <1>1, <1>2, <1>3, <1>4, <1>5, <1>6, <1>7, <1>8, <1>9, <1>10, <1>11, <1>12, <1>13,
       <1>14, <1>15 DEF T!Next

\* the end, said once;
LEMMA OverStaysOnce ==
  ASSUME TraceTypes, TraceStages, TraceTypes', OverOnce, [T!Next]_(T!vars)
  PROVE  OverOnce'
<1> USE DEF T!engine, TraceTypes, TraceStages
<1>1. ASSUME T!StartFails PROVE OverOnce'
  BY <1>1 DEF T!StartFails, OverOnce, T!EndKind
<1>2. ASSUME T!Begin PROVE OverOnce'
  BY <1>2 DEF T!Begin, OverOnce, T!EndKind
<1>3. ASSUME NEW e \in T!Told, T!Tell(e) PROVE OverOnce'
  BY <1>3 DEF T!Tell, OverOnce, T!EndKind
<1>4. ASSUME NEW h \in T!Halts, T!Halt(h) PROVE OverOnce'
  BY <1>4 DEF T!Halt, OverOnce, T!EndKind
<1>5. ASSUME T!Send PROVE OverOnce'
  BY <1>5 DEF T!Send, OverOnce, T!EndKind
<1>6. ASSUME T!Return PROVE OverOnce'
  BY <1>6 DEF T!Return, OverOnce, T!EndKind
<1>7. ASSUME T!Cancelled PROVE OverOnce'
  BY <1>7 DEF T!Cancelled, OverOnce, T!EndKind
<1>8. ASSUME NEW a \in {"confirm", "cancel"}, T!Resolve(a) PROVE OverOnce'
  BY <1>8 DEF T!Resolve, OverOnce, T!EndKind
<1>9. ASSUME T!SendBarrier PROVE OverOnce'
  BY <1>9 DEF T!SendBarrier, OverOnce, T!EndKind
<1>10. ASSUME T!EmitTerminal PROVE OverOnce'
  <2> DEFINE e == [type |-> "end", kind |-> T!EndKind]
  <2>1. /\ inbox' = Append(inbox, e) /\ pc = "waiting" /\ pc' = "done" /\ ui' = ui
        /\ result' = result
    BY <1>10 DEF T!EmitTerminal
  <2>2. T!EndKind' = T!EndKind
    BY <2>1 DEF T!EndKind
  <2>3. ui.terminal = "none" /\ \A i \in DOMAIN inbox : inbox[i].type # "end"
    BY <2>1 DEF OverOnce
  <2>4. ASSUME NEW i \in DOMAIN inbox', inbox'[i].type = "end"
        PROVE  i = Len(inbox') /\ inbox'[i].kind = T!EndKind
    <3>1. /\ i \in 1 .. Len(inbox) + 1 /\ Len(inbox) \in Nat /\ Len(inbox') = Len(inbox) + 1
          /\ inbox'[Len(inbox) + 1] = e
      BY <2>1
    <3>2. i \in 1 .. Len(inbox) => inbox'[i] = inbox[i]
      BY <2>1, <3>1
    <3> QED BY <2>3, <2>4, <3>1, <3>2
  <2> HIDE DEF e
  <2> QED BY <2>1, <2>2, <2>3, <2>4 DEF OverOnce
<1>11. ASSUME T!Forward PROVE OverOnce'
  <2>1. chan # <<>> /\ UNCHANGED <<pc, result, ui>>
    BY <1>11 DEF T!Forward
  <2>2. pc # "done" /\ T!EndKind' = T!EndKind
    BY <2>1 DEF T!EndKind
  <2>3. ui.terminal = "none" /\ \A i \in DOMAIN inbox : inbox[i].type # "end"
    BY <2>2 DEF OverOnce
  <2>4. ASSUME NEW i \in DOMAIN inbox' PROVE inbox'[i].type # "end"
    <3>1. CASE inbox' = inbox
      BY <2>3, <3>1
    <3>2. CASE inbox' # inbox
      <4>1. inbox' = Append(inbox, Head(chan)) /\ Head(chan) # T!Barrier
        BY <1>11, <3>2 DEF T!Forward
      <4>2. Head(chan) \in Lines
        BY <2>1, <4>1, HeadTailProperties
      <4>3. Head(chan).type # "end"
        BY <4>2 DEF Lines
      <4> DEFINE e == Head(chan)
      <4> HIDE DEF e
      <4>4. inbox' = Append(inbox, e) /\ e.type # "end"
        BY <4>1, <4>3 DEF e
      <4>5. i \in 1 .. Len(inbox) + 1 /\ Len(inbox) \in Nat /\ inbox'[Len(inbox) + 1] = e
        BY <4>4
      <4>6. i \in 1 .. Len(inbox) => inbox'[i] = inbox[i]
        BY <4>4
      <4>7. DOMAIN inbox = 1 .. Len(inbox)
        OBVIOUS
      <4> QED BY <2>3, <4>4, <4>5, <4>6, <4>7
    <3> QED BY <3>1, <3>2
  <2> QED BY <2>1, <2>3, <2>4 DEF OverOnce
<1>12. ASSUME T!Stop PROVE OverOnce'
  BY <1>12 DEF T!Stop, OverOnce, T!EndKind
<1>13. ASSUME T!Drain PROVE OverOnce'
  BY <1>13 DEF T!Drain, OverOnce, T!EndKind
<1>14. ASSUME T!Show PROVE OverOnce'
  <2> DEFINE e == Head(inbox)
  <2>1. /\ inbox # <<>> /\ inbox' = Tail(inbox) /\ ui' = T!Shown(ui, e) /\
             UNCHANGED <<pc, result>>
        /\ e \in Lines \cup Ends /\ e = inbox[1] /\ Len(inbox) \in Nat \ {0}
        /\ Len(inbox') = Len(inbox) - 1 /\ \A i \in 1 .. Len(inbox') : inbox'[i] = inbox[i + 1]
    BY <1>14, HeadTailProperties DEF T!Show
  <2>2. DOMAIN inbox = 1 .. Len(inbox) /\ DOMAIN inbox' = 1 .. Len(inbox')
    BY <2>1
  <2>3. T!EndKind' = T!EndKind
    BY <2>1 DEF T!EndKind
  <2>4. ui'.terminal = IF e.type = "end" THEN e.kind ELSE ui.terminal
    BY <2>1, ShownTyped
  <2> HIDE DEF e
  <2>5. ui.terminal = "none"
    BY <2>1 DEF OverOnce
  <2>6. ui'.terminal # "none" => pc' = "done" /\ inbox' = <<>> /\ ui'.terminal = T!EndKind
    <3>1. ASSUME e.type = "end"
          PROVE  pc = "done" /\ Len(inbox) = 1 /\ e.kind = T!EndKind
      <4>1. 1 \in DOMAIN inbox /\ inbox[1].type = "end"
        BY <2>1, <2>2, <3>1
      <4> QED BY <2>1, <4>1 DEF OverOnce
    <3>2. Len(inbox) = 1 => inbox' = <<>>
      <4>1. Len(inbox) = 1 => Len(inbox') = 0
        BY <2>1
      <4> QED BY <4>1
    <3> QED BY <2>1, <2>4, <2>5, <3>1, <3>2
  <2>7. ASSUME NEW i \in DOMAIN inbox', inbox'[i].type = "end"
        PROVE  i = Len(inbox') /\ pc' = "done" /\ inbox'[i].kind = T!EndKind
    <3>1. i + 1 \in DOMAIN inbox /\ inbox[i + 1].type = "end"
      BY <2>1, <2>2, <2>7
    <3> QED BY <2>1, <2>2, <3>1 DEF OverOnce
  <2> QED BY <2>3, <2>6, <2>7 DEF OverOnce
<1>15. CASE UNCHANGED T!vars
  BY <1>15 DEF T!vars, OverOnce, T!EndKind
<1> QED BY <1>1, <1>2, <1>3, <1>4, <1>5, <1>6, <1>7, <1>8, <1>9, <1>10, <1>11, <1>12, <1>13,
       <1>14, <1>15 DEF T!Next

\* What each step does to the file, as it is read: lines are added by the forwarder, by
\* the decision and by the drain, and none is taken back.
LEMMA DiskGrows ==
  ASSUME TraceTypes, [T!Next]_(T!vars)
  PROVE  /\ T!Hydrated \in Traces /\ T!Hydrated' \in Traces
         /\ Later(T!Hydrated, T!Hydrated')
         /\ T!Forward /\ Head(chan) # T!Barrier =>
               Head(chan) \in Lines /\ T!Hydrated' = T!Handle(T!Hydrated, Head(chan))
         /\ \A a \in {"confirm", "cancel"} : T!Resolve(a) =>
               T!Hydrated' = T!Handle(T!Hydrated, [type |-> "resolved", action |-> a])
         /\ ~T!Drain /\ ~(T!Forward /\ Head(chan) # T!Barrier) /\
              (\A a \in {"confirm", "cancel"} : ~T!Resolve(a))
               => T!Hydrated' = T!Hydrated
<1>1. disk \in Seq(Lines) /\ T!Hydrated \in Traces
  BY ReadGrows DEF TraceTypes, T!Hydrated
<1>2. ASSUME NEW e \in Lines, disk' = Append(disk, e)
      PROVE  /\ T!Hydrated' = T!Handle(T!Hydrated, e) /\ T!Hydrated' \in Traces
             /\ Later(T!Hydrated, T!Hydrated')
  <2>1. T!Hydrated' = T!Handle(T!Hydrated, e)
    BY <1>1, <1>2, ReadGrows DEF T!Hydrated
  <2> QED BY <1>1, <2>1, HandleTyped, HandleAdds
<1>3. ASSUME disk' = disk
      PROVE  T!Hydrated' = T!Hydrated /\ Later(T!Hydrated, T!Hydrated')
  <2>1. T!Hydrated' = T!Hydrated
    BY <1>3 DEF T!Hydrated
  <2> QED BY <1>1, <2>1, TraceFields, FollowsItself DEF Later
<1>4. ASSUME T!Forward, Head(chan) # T!Barrier
      PROVE  Head(chan) \in Lines /\ disk' = Append(disk, Head(chan))
  <2>1. Head(chan) \in Lines \cup {T!Barrier}
    BY <1>4, HeadTailProperties DEF T!Forward, TraceTypes
  <2> QED BY <1>4, <2>1 DEF T!Forward, T!Persisted
<1>5. ASSUME NEW a \in {"confirm", "cancel"}, T!Resolve(a)
      PROVE  [type |-> "resolved", action |-> a] \in Lines
             /\ disk' = Append(disk, [type |-> "resolved", action |-> a])
  BY <1>5 DEF T!Resolve, Lines
<1>6. ASSUME T!Drain PROVE T!Hydrated' \in Traces /\ Later(T!Hydrated, T!Hydrated')
  <2>1. disk' = T!FoldLeft(T!Written, disk, chan) /\ chan \in Seq(Lines \cup {T!Barrier})
    BY <1>6 DEF T!Drain, TraceTypes
  <2>2. disk' \in Seq(Lines) /\ Later(T!Read(disk), T!Read(disk'))
    BY <1>1, <2>1, DrainAdds
  <2> QED BY <2>2, ReadGrows DEF T!Hydrated
<1>7. ~T!Drain /\ ~(T!Forward /\ Head(chan) # T!Barrier) /\
        (\A a \in {"confirm", "cancel"} : ~T!Resolve(a))
          => disk' = disk
  BY DEF T!Next, T!vars, T!StartFails, T!Begin, T!Tell, T!Halt, T!Send, T!Return,
         T!Cancelled, T!SendBarrier,
         T!EmitTerminal, T!Forward, T!Stop, T!Show
<1> QED BY <1>1, <1>2, <1>3, <1>4, <1>5, <1>6, <1>7

\* What will be shown, when the interface hears nothing new;
LEMMA HeardKept ==
  ASSUME Heard, T!Hydrated \in Traces, T!Hydrated' \in Traces, Later(T!Hydrated, T!Hydrated'),
         inbox' = inbox, ui' = ui,
         forwarder' => forwarder /\
           T!Parts(T!Hydrated') = T!Parts(T!Hydrated), Len(inbox) \in Nat
  PROVE  Heard'
<1>1. PICK v : Hearing(v)
  BY DEF Heard
<1>2. \A i \in 0 .. Len(inbox) : Follows(v[i], T!Hydrated')
  <2> TAKE i \in 0 .. Len(inbox)
  <2>1. v[i] \in Views /\ Follows(v[i], T!Hydrated)
    BY <1>1 DEF Hearing
  <2>2. Fields(v[i])
    BY <2>1 DEF Views, Fields
  <2> QED BY <2>1, <2>2, TraceFields, FollowsOn DEF Later
<1>3. Hearing(v)'
  BY <1>1, <1>2 DEF Hearing
<1> QED BY <1>3 DEF Heard

\* when it is told one thing more;
LEMMA HeardMore ==
  ASSUME Heard, T!Hydrated \in Traces, T!Hydrated' \in Traces, Later(T!Hydrated, T!Hydrated'),
         inbox \in Seq(Lines \cup Ends), ui' = ui,
         NEW e, inbox' = Append(inbox, e), forwarder' = forwarder,
         \/ e \in Ends /\ T!Hydrated' = T!Hydrated
         \/ e \in Lines /\ forwarder /\ T!Hydrated' = T!Handle(T!Hydrated, e)
  PROVE  Heard'
<1>1. PICK v : Hearing(v)
  BY DEF Heard
<1> DEFINE n == Len(inbox)
           w == T!Shown(v[n], e)
           u == [i \in 0 .. n + 1 |-> IF i = n + 1 THEN w ELSE v[i]]
<1>2. /\ n \in Nat /\ Len(inbox') = n + 1 /\ inbox'[n + 1] = e
      /\ \A i \in 1 .. n : inbox'[i] = inbox[i]
  OBVIOUS
<1>3. v[n] \in Views /\ Follows(v[n], T!Hydrated) /\
        (forwarder => T!Parts(v[n]) = T!Parts(T!Hydrated))
  BY <1>1, <1>2 DEF Hearing
<1>4. w \in Views
  BY <1>3, ShownTyped
<1>5. Follows(w, T!Hydrated') /\ (forwarder => T!Parts(w) = T!Parts(T!Hydrated'))
  <2>1. CASE e \in Ends /\ T!Hydrated' = T!Hydrated
    <3>1. T!Parts(w) = T!Parts(v[n])
      BY <1>3, <2>1, EndKeepsParts
    <3> QED BY <1>3, <2>1, <3>1 DEF Follows, T!Parts
  <2>2. CASE e \in Lines /\ forwarder /\ T!Hydrated' = T!Handle(T!Hydrated, e)
    <3>1. T!Parts(w) = T!Parts(T!Hydrated')
      BY <1>3, <2>2, SameParts
    <3>2. Follows(T!Hydrated', T!Hydrated')
      BY TraceFields, FollowsItself
    <3> QED BY <3>1, <3>2 DEF Follows, T!Parts
  <2> QED BY <2>1, <2>2
<1> HIDE DEF w, n
<1>6. u \in [0 .. n + 1 -> Views] /\ u[0] = ui /\ u[n + 1] = w
  BY <1>1, <1>2, <1>4 DEF Hearing, n
<1>7. \A i \in 1 .. n + 1 : u[i] = T!Shown(u[i - 1], inbox'[i])
  <2> TAKE i \in 1 .. n + 1
  <2>1. CASE i = n + 1
    <3>1. u[i] = w /\ i - 1 = n /\ u[n] = v[n]
      BY <1>2, <2>1
    <3> QED BY <1>2, <2>1, <3>1 DEF w
  <2>2. CASE i # n + 1
    <3>1. i \in 1 .. n /\ i - 1 \in 0 .. n
      BY <1>2, <2>2
    <3>2. u[i] = v[i] /\ u[i - 1] = v[i - 1] /\ inbox'[i] = inbox[i]
      BY <1>2, <3>1
    <3> QED BY <1>1, <3>1, <3>2 DEF Hearing, n
  <2> QED BY <2>1, <2>2
<1>8. \A i \in 0 .. n + 1 : Follows(u[i], T!Hydrated')
  <2> TAKE i \in 0 .. n + 1
  <2>1. CASE i = n + 1
    BY <1>5, <1>6, <2>1
  <2>2. CASE i # n + 1
    <3>1. i \in 0 .. n /\ u[i] = v[i]
      BY <1>2, <2>2
    <3>2. v[i] \in Views /\ Follows(v[i], T!Hydrated)
      BY <1>1, <3>1 DEF Hearing, n
    <3>3. Fields(v[i])
      BY <3>2 DEF Views, Fields
    <3>4. Follows(v[i], T!Hydrated')
      BY <3>2, <3>3, TraceFields, FollowsOn DEF Later
    <3> QED BY <3>1, <3>4
  <2> QED BY <2>1, <2>2
<1> HIDE DEF u
<1>9. PICK x : x = u
  OBVIOUS
<1>10. Hearing(x)'
  BY <1>2, <1>5, <1>6, <1>7, <1>8, <1>9 DEF Hearing, n
<1> QED BY <1>10 DEF Heard

\* when it shows the first that it was told.
LEMMA HeardLess ==
  ASSUME Heard, TraceTypes, T!Show
  PROVE  Heard'
<1>1. PICK v : Hearing(v)
  BY DEF Heard
<1> DEFINE n == Len(inbox)
           u == [i \in 0 .. n - 1 |-> v[i + 1]]
<1>2. /\ n \in Nat \ {0} /\ inbox' = Tail(inbox) /\ Len(inbox') = n - 1 /\ Head(inbox) = inbox[1]
      /\ \A i \in 1 .. n - 1 : inbox'[i] = inbox[i + 1]
  BY HeadTailProperties DEF T!Show, TraceTypes
<1>3. ui' = T!Shown(ui, Head(inbox)) /\ forwarder' = forwarder /\ T!Hydrated' = T!Hydrated
  BY DEF T!Show, T!Hydrated
<1>4. u[0] = ui'
  <2>1. v[0 + 1] = T!Shown(v[(0 + 1) - 1], inbox[0 + 1]) /\ v[0] = ui
    BY <1>1, <1>2 DEF Hearing
  <2> QED BY <1>2, <1>3, <2>1
<1>5. u \in [0 .. n - 1 -> Views] /\ u[n - 1] = v[n]
  BY <1>1, <1>2 DEF Hearing
<1>6. \A i \in 1 .. n - 1 : u[i] = T!Shown(u[i - 1], inbox'[i])
  <2> TAKE i \in 1 .. n - 1
  <2>1. i + 1 \in 1 .. n /\ (i + 1) - 1 = i /\ (i - 1) + 1 = i /\ i - 1 \in 0 .. n - 1
        /\ i \in 0 .. n - 1
    BY <1>2
  <2>2. v[i + 1] = T!Shown(v[i], inbox[i + 1])
    BY <1>1, <2>1 DEF Hearing
  <2>3. u[i] = v[i + 1] /\ u[i - 1] = v[i]
    BY <2>1
  <2> QED BY <1>2, <2>2, <2>3
<1>7. \A i \in 0 .. n - 1 : Follows(u[i], T!Hydrated)
  <2> TAKE i \in 0 .. n - 1
  <2>1. i + 1 \in 0 .. n
    BY <1>2
  <2> QED BY <1>1, <2>1 DEF Hearing
<1>8. forwarder => T!Parts(v[n]) = T!Parts(T!Hydrated)
  BY <1>1 DEF Hearing
<1> HIDE DEF u
<1>9. PICK x : x = u
  OBVIOUS
<1>10. Hearing(x)'
  BY <1>2, <1>3, <1>4, <1>5, <1>6, <1>7, <1>8, <1>9 DEF Hearing
<1> QED BY <1>10 DEF Heard

\* Every step keeps what will be shown a part of the file.
LEMMA HeardStays ==
  ASSUME TraceTypes, Heard, [T!Next]_(T!vars)
  PROVE  Heard'
<1>1. /\ T!Hydrated \in Traces /\ T!Hydrated' \in Traces /\ Later(T!Hydrated, T!Hydrated')
  BY DiskGrows
<1>2. inbox \in Seq(Lines \cup Ends) /\ Len(inbox) \in Nat
  BY DEF TraceTypes
<1>3. CASE T!EmitTerminal
  <2> DEFINE e == [type |-> "end", kind |-> T!EndKind]
  <2>1. inbox' = Append(inbox, e) /\ ui' = ui /\ forwarder' = forwarder
    BY <1>3 DEF T!EmitTerminal
  <2>2. e \in Ends
    BY DEF T!EndKind, Ends, EndKinds
  <2>3. T!Hydrated' = T!Hydrated
    BY <1>3 DEF T!EmitTerminal, T!Hydrated
  <2> HIDE DEF e
  <2> QED BY <1>1, <1>2, <2>1, <2>2, <2>3, HeardMore
<1>4. CASE T!Forward
  <2>1. forwarder /\ forwarder' = forwarder /\ ui' = ui /\ chan # <<>>
    BY <1>4 DEF T!Forward
  <2>2. CASE Head(chan) = T!Barrier
    <3>1. inbox' = inbox /\ T!Hydrated' = T!Hydrated
      BY <1>4, <2>2 DEF T!Forward, T!Hydrated
    <3> QED BY <1>1, <1>2, <2>1, <3>1, HeardKept
  <2>3. CASE Head(chan) # T!Barrier
    <3> DEFINE e == Head(chan)
    <3>1. e \in Lines /\ T!Hydrated' = T!Handle(T!Hydrated, e)
      BY <1>4, <2>3, DiskGrows
    <3>2. inbox' = IF e.type = "goal_complete" THEN inbox ELSE Append(inbox, e)
      BY <1>4, <2>3 DEF T!Forward
    <3> HIDE DEF e
    <3>3. CASE e.type = "goal_complete"
      <4>1. T!Parts(T!Hydrated') = T!Parts(T!Hydrated)
        BY <1>1, <3>1, <3>3, HandleEnds DEF Hard
      <4> QED BY <1>1, <1>2, <2>1, <3>2, <3>3, <4>1, HeardKept
    <3>4. CASE e.type # "goal_complete"
      BY <1>1, <1>2, <2>1, <3>1, <3>2, <3>4, HeardMore
    <3> QED BY <3>3, <3>4
  <2> QED BY <2>2, <2>3
<1>5. ASSUME NEW a \in {"confirm", "cancel"}, T!Resolve(a) PROVE Heard'
  <2> DEFINE e == [type |-> "resolved", action |-> a]
  <2>1. e \in Lines /\ Hard(e)
    BY DEF Lines, Hard
  <2>2. T!Hydrated' = T!Handle(T!Hydrated, e)
    BY <1>5, DiskGrows
  <2> HIDE DEF e
  <2>3. T!Parts(T!Hydrated') = T!Parts(T!Hydrated)
    BY <1>1, <2>1, <2>2, HandleEnds
  <2>4. inbox' = inbox /\ ui' = ui /\ forwarder' = forwarder
    BY <1>5 DEF T!Resolve
  <2> QED BY <1>1, <1>2, <2>3, <2>4, HeardKept
<1>6. CASE T!Drain
  <2>1. inbox' = inbox /\ ui' = ui /\ ~forwarder'
    BY <1>6 DEF T!Drain
  <2> QED BY <1>1, <1>2, <2>1, HeardKept
<1>7. CASE T!Show
  BY <1>7, HeardLess
<1>8. CASE ~T!EmitTerminal /\ ~T!Forward /\ ~T!Drain /\ ~T!Show
           /\ (\A a \in {"confirm", "cancel"} : ~T!Resolve(a))
  <2>1. T!Hydrated' = T!Hydrated
    BY <1>8, DiskGrows
  <2>2. UNCHANGED <<inbox, ui, forwarder>>
    BY <1>8 DEF T!Next, T!vars, T!StartFails, T!Begin, T!Tell, T!Halt, T!Send, T!Return,
           T!Cancelled, T!SendBarrier,
                T!Stop
  <2> QED BY <1>1, <1>2, <2>1, <2>2, HeardKept
<1> QED BY <1>3, <1>4, <1>5, <1>6, <1>7, <1>8

\* What each step does to the lines on their way.
LEMMA PendingMoves ==
  ASSUME TraceTypes, [T!Next]_(T!vars)
  PROVE  /\ \A e \in T!Told : T!Tell(e) => Pending' = Pending \cup {e}
         /\ \A h \in T!Halts : T!Halt(h) => Pending' = Pending \cup Items(T!LastWords(h))
         /\ T!Send => Pending' \subseteq Pending /\ (forwarder => Pending' = Pending)
         /\ T!Cancelled => Pending' \subseteq Pending
         /\ T!SendBarrier => Pending' \subseteq Pending \cup {T!Barrier} /\
              Pending \subseteq Pending'
         /\ T!Forward => Pending = Pending' \cup {Head(chan)}
         /\ T!Drain => Pending' \subseteq Pending
         /\ UNCHANGED <<chan, outbox>> => Pending' = Pending
<1>0. /\ Items(<<>>) = {} /\ chan \in Seq(Lines \cup {T!Barrier}) /\ outbox \in Seq(Lines)
      /\ outbox \in Seq(Lines \cup {T!Barrier})
  BY DEF Items, TraceTypes
<1>1. ASSUME NEW e \in T!Told, T!Tell(e) PROVE Pending' = Pending \cup {e}
  <2>1. outbox = <<>> /\ outbox' = <<e>> /\ chan' = chan
    BY <1>1 DEF T!Tell
  <2>2. Items(<<e>>) = {e}
    BY DEF Items
  <2> QED BY <1>0, <2>1, <2>2 DEF Pending, Items
<1>2. ASSUME NEW h \in T!Halts, T!Halt(h) PROVE Pending' = Pending \cup Items(T!LastWords(h))
  <2>1. outbox = <<>> /\ outbox' = T!LastWords(h) /\ chan' = chan
    BY <1>2 DEF T!Halt
  <2> QED BY <1>0, <2>1 DEF Pending, Items
<1>3. ASSUME T!Send PROVE Pending' \subseteq Pending /\ (forwarder => Pending' = Pending)
  <2>1. /\ outbox # <<>> /\ outbox' = Tail(outbox)
        /\ IF forwarder THEN chan' = Append(chan, Head(outbox)) ELSE chan' = chan
    BY <1>3 DEF T!Send
  <2>2. Items(outbox) = Items(outbox') \cup {Head(outbox)} /\
          Head(outbox) \in Lines \cup {T!Barrier}
    BY <1>0, <2>1, ItemsOf
  <2>3. CASE forwarder
    <3> DEFINE x == Head(outbox)
    <3>0. x \in Lines \cup {T!Barrier} /\ chan' = Append(chan, x)
      BY <2>1, <2>2, <2>3
    <3> HIDE DEF x
    <3>a. Items(Append(chan, x)) = Items(chan) \cup {x}
      BY <1>0, <3>0, ItemsOf
    <3>1. Items(chan') = Items(chan) \cup {Head(outbox)}
      BY <3>0, <3>a DEF x
    <3>2. Pending' = Items(chan') \cup Items(outbox') /\ Pending = Items(chan) \cup Items(outbox)
      BY DEF Pending, Items
    <3> QED BY <2>2, <2>3, <3>1, <3>2
  <2>4. CASE ~forwarder
    <3>1. Pending' = Items(chan') \cup Items(outbox') /\ Pending = Items(chan) \cup Items(outbox)
      BY DEF Pending, Items
    <3> QED BY <2>1, <2>2, <2>4, <3>1
  <2> QED BY <2>3, <2>4
<1>4. ASSUME T!Cancelled PROVE Pending' \subseteq Pending
  <2>1. outbox' = <<>> /\ chan' = chan
    BY <1>4 DEF T!Cancelled
  <2> QED BY <1>0, <2>1 DEF Pending, Items
<1>5. ASSUME T!SendBarrier
      PROVE  Pending' \subseteq Pending \cup {T!Barrier} /\ Pending \subseteq Pending'
  <2>1. outbox' = outbox /\ (chan' = chan \/ chan' = Append(chan, T!Barrier))
    BY <1>5 DEF T!SendBarrier, T!engine
  <2>2. chan' = Append(chan, T!Barrier) => Items(chan') = Items(chan) \cup {T!Barrier}
    BY <1>0, ItemsOf
  <2>3. Pending' = Items(chan') \cup Items(outbox') /\ Pending = Items(chan) \cup Items(outbox)
    BY DEF Pending, Items
  <2> QED BY <2>1, <2>2, <2>3
<1>6. ASSUME T!Forward PROVE Pending = Pending' \cup {Head(chan)}
  <2>1. outbox' = outbox /\ chan # <<>> /\ chan' = Tail(chan)
    BY <1>6 DEF T!Forward, T!engine
  <2>2. Items(chan) = Items(chan') \cup {Head(chan)}
    BY <1>0, <2>1, ItemsOf
  <2>3. Pending' = Items(chan') \cup Items(outbox') /\ Pending = Items(chan) \cup Items(outbox)
    BY DEF Pending, Items
  <2> QED BY <2>1, <2>2, <2>3
<1>7. ASSUME T!Drain PROVE Pending' \subseteq Pending
  <2>1. outbox' = outbox /\ chan' = <<>>
    BY <1>7 DEF T!Drain, T!engine
  <2> QED BY <1>0, <2>1 DEF Pending, Items
<1>8. UNCHANGED <<chan, outbox>> => Pending' = Pending
  BY DEF Pending, Items
<1> QED BY <1>1, <1>2, <1>3, <1>4, <1>5, <1>6, <1>7, <1>8

\* Nothing is settled before the verdict;
LEMMA UndecidedStays ==
  ASSUME TraceTypes, TraceStages, Undecided, [T!Next]_(T!vars)
  PROVE  Undecided'
<1> USE DEF T!engine, TraceTypes, TraceStages
<1>1. ASSUME T!StartFails PROVE Undecided'
  <2>1. T!Hydrated' = T!Hydrated
    BY <1>1 DEF T!StartFails, T!Hydrated
  <2>2. Pending' = Pending
    BY <1>1, PendingMoves DEF T!StartFails
  <2> QED BY <1>1, <2>1, <2>2 DEF T!StartFails, Undecided, T!Halts, T!Drained
<1>2. ASSUME T!Begin PROVE Undecided'
  <2>1. T!Hydrated' = T!Hydrated
    BY <1>2 DEF T!Begin, T!Hydrated
  <2>2. Pending' = Pending
    BY <1>2, PendingMoves DEF T!Begin
  <2> QED BY <1>2, <2>1, <2>2 DEF T!Begin, Undecided, T!Halts, T!Drained
<1>3. ASSUME NEW e \in T!Told, T!Tell(e) PROVE Undecided'
  <2>1. T!Hydrated' = T!Hydrated
    BY <1>3 DEF T!Tell, T!Hydrated
  <2>2. Pending' = Pending \cup {e} /\ ~Hard(e)
    BY <1>3, PendingMoves, TellsLines
  <2> QED BY <1>3, <2>1, <2>2 DEF T!Tell, Undecided
<1>4. ASSUME NEW h \in T!Halts, T!Halt(h) PROVE Undecided'
  <2>1. T!Hydrated' = T!Hydrated
    BY <1>4 DEF T!Halt, T!Hydrated
  <2>2. Pending' = Pending \cup Items(T!LastWords(h))
    BY <1>4, PendingMoves
  <2>3. h \in {"disagreed", "halted", "failed"} => \A e \in Items(T!LastWords(h)) : ~Hard(e)
    BY LastWordsSay
  <2>4. pc = "running" /\ result' = h
    BY <1>4 DEF T!Halt
  <2>5. result = "none"
    BY <2>4 DEF TraceStages
  <2>6. ~T!Hydrated.sure /\ \A e \in Pending : ~Hard(e)
    BY <2>5 DEF Undecided
  <2>7. CASE h \in {"disagreed", "halted", "failed"}
    BY <2>1, <2>2, <2>3, <2>6, <2>7 DEF Undecided
  <2>8. CASE h \notin {"disagreed", "halted", "failed"}
    <3>1. h # "none"
      BY DEF T!Halts
    <3> QED BY <2>4, <2>8, <3>1 DEF Undecided
  <2> QED BY <2>7, <2>8
<1>5. ASSUME T!Send PROVE Undecided'
  <2>1. T!Hydrated' = T!Hydrated
    BY <1>5 DEF T!Send, T!Hydrated
  <2>2. Pending' \subseteq Pending
    BY <1>5, PendingMoves
  <2> QED BY <1>5, <2>1, <2>2 DEF T!Send, Undecided
<1>6. ASSUME T!Return PROVE Undecided'
  <2>1. T!Hydrated' = T!Hydrated
    BY <1>6 DEF T!Return, T!Hydrated
  <2>2. Pending' = Pending
    BY <1>6, PendingMoves DEF T!Return
  <2> QED BY <1>6, <2>1, <2>2 DEF T!Return, Undecided, T!Halts, T!Drained
<1>7. ASSUME T!Cancelled PROVE Undecided'
  <2>1. T!Hydrated' = T!Hydrated
    BY <1>7 DEF T!Cancelled, T!Hydrated
  <2>2. result' = "cancelled"
    BY <1>7 DEF T!Cancelled
  <2> QED BY <2>2 DEF Undecided
<1>8. ASSUME NEW a \in {"confirm", "cancel"}, T!Resolve(a) PROVE Undecided'
  <2>1. result' \in {"rejected", "confirmed"}
    BY <1>8 DEF T!Resolve
  <2> QED BY <2>1 DEF Undecided
<1>9. ASSUME T!SendBarrier PROVE Undecided'
  <2>1. T!Hydrated' = T!Hydrated
    BY <1>9 DEF T!SendBarrier, T!Hydrated
  <2>2. Pending' \subseteq Pending \cup {T!Barrier}
    BY <1>9, PendingMoves
  <2>3. ~Hard(T!Barrier)
    BY DEF Hard, T!Barrier
  <2> QED BY <1>9, <2>1, <2>2, <2>3 DEF T!SendBarrier, Undecided
<1>10. ASSUME T!EmitTerminal PROVE Undecided'
  <2>1. T!Hydrated' = T!Hydrated
    BY <1>10 DEF T!EmitTerminal, T!Hydrated
  <2>2. Pending' = Pending
    BY <1>10, PendingMoves DEF T!EmitTerminal
  <2> QED BY <1>10, <2>1, <2>2 DEF T!EmitTerminal, Undecided, T!Halts, T!Drained
<1>11. ASSUME T!Forward PROVE Undecided'
  <2>1. Pending = Pending' \cup {Head(chan)} /\ result' = result
    BY <1>11, PendingMoves DEF T!Forward
  <2>2. CASE Head(chan) = T!Barrier
    <3>1. T!Hydrated' = T!Hydrated
      BY <1>11, <2>2 DEF T!Forward, T!Hydrated
    <3> QED BY <2>1, <3>1 DEF Undecided
  <2>3. CASE Head(chan) # T!Barrier
    <3>1. Head(chan) \in Lines /\ T!Hydrated' = T!Handle(T!Hydrated, Head(chan)) /\
            T!Hydrated \in Traces
      BY <1>11, <2>3, DiskGrows
    <3>2. ~T!Hydrated.sure /\ ~Hard(Head(chan)) => ~T!Hydrated'.sure
      BY <3>1, HandleEnds
    <3> QED BY <2>1, <3>2 DEF Undecided
  <2> QED BY <2>2, <2>3
<1>12. ASSUME T!Stop PROVE Undecided'
  <2>1. T!Hydrated' = T!Hydrated
    BY <1>12 DEF T!Stop, T!Hydrated
  <2>2. Pending' = Pending
    BY <1>12, PendingMoves DEF T!Stop
  <2> QED BY <1>12, <2>1, <2>2 DEF T!Stop, Undecided, T!Halts, T!Drained
<1>13. ASSUME T!Drain PROVE Undecided'
  <2>1. Pending' \subseteq Pending /\ result' = result
    BY <1>13, PendingMoves DEF T!Drain
  <2>2. ~T!Hydrated.sure /\ (\A e \in Pending : ~Hard(e)) => ~T!Hydrated'.sure
    <3>1. disk' = T!FoldLeft(T!Written, disk, chan) /\ chan \in Seq(Lines \cup {T!Barrier})
          /\ disk \in Seq(Lines)
      BY <1>13 DEF T!Drain
    <3>2. \A i \in 1 .. Len(chan) : chan[i] \in Pending
      BY DEF Pending, Items
    <3> QED BY <3>1, <3>2, DrainAdds DEF T!Hydrated
  <2> QED BY <2>1, <2>2 DEF Undecided
<1>14. ASSUME T!Show PROVE Undecided'
  <2>1. T!Hydrated' = T!Hydrated
    BY <1>14 DEF T!Show, T!Hydrated
  <2>2. Pending' = Pending
    BY <1>14, PendingMoves DEF T!Show
  <2> QED BY <1>14, <2>1, <2>2 DEF T!Show, Undecided, T!Halts, T!Drained
<1>15. CASE UNCHANGED T!vars
  <2>1. T!Hydrated' = T!Hydrated
    BY <1>15 DEF T!vars, T!Hydrated
  <2>2. Pending' = Pending
    BY <1>15, PendingMoves DEF T!vars
  <2> QED BY <1>15, <2>1, <2>2 DEF T!vars, Undecided, T!Halts, T!Drained
<1> QED BY <1>1, <1>2, <1>3, <1>4, <1>5, <1>6, <1>7, <1>8, <1>9, <1>10, <1>11, <1>12, <1>13,
       <1>14, <1>15 DEF T!Next

\* the verdict settles it, whoever writes the line;
LEMMA WordedStays ==
  ASSUME TraceTypes, TraceStages, Undecided, Worded, [T!Next]_(T!vars)
  PROVE  Worded'
<1> USE DEF T!engine, TraceTypes, TraceStages
<1>1. ASSUME T!StartFails PROVE Worded'
  <2>1. result' = "failed"
    BY <1>1 DEF T!StartFails
  <2> QED BY <2>1 DEF Worded
<1>2. ASSUME T!Begin PROVE Worded'
  <2>1. T!Hydrated' = T!Hydrated
    BY <1>2 DEF T!Begin, T!Hydrated
  <2>2. Pending' = Pending
    BY <1>2, PendingMoves DEF T!Begin
  <2> QED BY <1>2, <2>1, <2>2 DEF T!Begin, Worded, Word, Ending, T!Halts, T!Drained
<1>3. ASSUME NEW e \in T!Told, T!Tell(e) PROVE Worded'
  <2>1. result' = "none"
    BY <1>3 DEF T!Tell
  <2> QED BY <2>1 DEF Worded
<1>4. ASSUME NEW h \in T!Halts, T!Halt(h) PROVE Worded'
  <2>1. T!Hydrated' = T!Hydrated
    BY <1>4 DEF T!Halt, T!Hydrated
  <2>2. Pending' = Pending \cup Items(T!LastWords(h)) /\ result' = h /\ result = "none"
    BY <1>4, PendingMoves DEF T!Halt
  <2>3. ~T!Hydrated.sure /\ \A e \in Pending : ~Hard(e)
    BY <2>2 DEF Undecided
  <2>4. CASE h = "completed"
    <3>1. /\ \A e \in Items(T!LastWords(h)) : Hard(e) => e.type = "goal_complete"
          /\ \E e \in Items(T!LastWords(h)) : e.type = "goal_complete"
      BY <2>4, LastWordsSay
    <3> QED BY <2>1, <2>2, <2>3, <2>4, <3>1 DEF Worded, Word
  <2>5. CASE h = "capped"
    <3>1. /\ \A e \in Items(T!LastWords(h)) : Hard(e) => e.type = "cap_hit"
          /\ \E e \in Items(T!LastWords(h)) : e.type = "cap_hit"
      BY <2>5, LastWordsSay
    <3> QED BY <2>1, <2>2, <2>3, <2>5, <3>1 DEF Worded, Word
  <2>6. CASE h \notin {"completed", "capped"}
    BY <2>2, <2>6 DEF Worded
  <2> QED BY <2>4, <2>5, <2>6
<1>5. ASSUME T!Send PROVE Worded'
  <2>1. T!Hydrated' = T!Hydrated
    BY <1>5 DEF T!Send, T!Hydrated
  <2>2. ~forwarder => cancelled'
    BY <1>5 DEF T!Send
  <2>3. forwarder => Pending' = Pending
    BY <1>5, PendingMoves
  <2> QED BY <1>5, <2>1, <2>2, <2>3 DEF T!Send, Worded, Word, Ending
<1>6. ASSUME T!Return PROVE Worded'
  <2>1. T!Hydrated' = T!Hydrated
    BY <1>6 DEF T!Return, T!Hydrated
  <2>2. Pending' = Pending
    BY <1>6, PendingMoves DEF T!Return
  <2> QED BY <1>6, <2>1, <2>2 DEF T!Return, Worded, Word, Ending, T!Halts, T!Drained
<1>7. ASSUME T!Cancelled PROVE Worded'
  <2>1. result' = "cancelled"
    BY <1>7 DEF T!Cancelled
  <2> QED BY <2>1 DEF Worded
<1>8. ASSUME NEW a \in {"confirm", "cancel"}, T!Resolve(a) PROVE Worded'
  <2>1. result' \in {"rejected", "confirmed"}
    BY <1>8 DEF T!Resolve
  <2> QED BY <2>1 DEF Worded
<1>9. ASSUME T!SendBarrier PROVE Worded'
  <2>1. T!Hydrated' = T!Hydrated
    BY <1>9 DEF T!SendBarrier, T!Hydrated
  <2>2. Pending' \subseteq Pending \cup {T!Barrier} /\ Pending \subseteq Pending'
    BY <1>9, PendingMoves
  <2>3. ~Hard(T!Barrier)
    BY DEF Hard, T!Barrier
  <2> QED BY <1>9, <2>1, <2>2, <2>3 DEF T!SendBarrier, Worded, Word, Ending
<1>10. ASSUME T!EmitTerminal PROVE Worded'
  <2>1. T!Hydrated' = T!Hydrated
    BY <1>10 DEF T!EmitTerminal, T!Hydrated
  <2>2. Pending' = Pending
    BY <1>10, PendingMoves DEF T!EmitTerminal
  <2> QED BY <1>10, <2>1, <2>2 DEF T!EmitTerminal, Worded, Word, Ending, T!Halts, T!Drained
<1>11. ASSUME T!Forward PROVE Worded'
  <2>1. Pending = Pending' \cup {Head(chan)} /\ result' = result /\ cancelled' = cancelled
    BY <1>11, PendingMoves DEF T!Forward
  <2>2. Word' = Word /\ Ending' = Ending
    BY <2>1 DEF Word, Ending
  <2>3. CASE Head(chan) = T!Barrier
    <3>1. T!Hydrated' = T!Hydrated
      BY <1>11, <2>3 DEF T!Forward, T!Hydrated
    <3>2. Head(chan).type # Word
      BY <2>3 DEF T!Barrier, Word
    <3> QED BY <2>1, <2>2, <3>1, <3>2 DEF Worded
  <2>4. CASE Head(chan) # T!Barrier
    <3> DEFINE x == Head(chan)
    <3>1. x \in Lines /\ T!Hydrated' = T!Handle(T!Hydrated, x) /\ T!Hydrated \in Traces
          /\ Later(T!Hydrated, T!Hydrated')
      BY <1>11, <2>4, DiskGrows
    <3> HIDE DEF x
    <3>2. SUFFICES ASSUME result \in {"completed", "capped"}, ~cancelled
                   PROVE  /\ T!Hydrated'.sure => T!Hydrated'.terminal = Ending
                          /\ T!Hydrated'.sure \/ \E e \in Pending' : e.type = Word
      BY <2>1, <2>2 DEF Worded
    <3>3. Worded /\ x \in Pending
      BY <2>1 DEF x
    <3>4. CASE T!Hydrated.sure
      BY <3>1, <3>2, <3>3, <3>4 DEF Worded, Later
    <3>5. CASE ~T!Hydrated.sure /\ Hard(x)
      <4>1. x.type = Word
        BY <3>2, <3>3, <3>5 DEF Worded
      <4>2. T!Hydrated'.sure /\ T!Hydrated'.terminal = Ending
        BY <3>1, <3>2, <3>5, <4>1, HandleEnds DEF Word, Ending
      <4> QED BY <4>2
    <3>6. CASE ~T!Hydrated.sure /\ ~Hard(x)
      <4>1. ~T!Hydrated'.sure
        BY <3>1, <3>6, HandleEnds
      <4>2. x.type # Word
        BY <3>6 DEF Hard, Word
      <4>3. \E e \in Pending : e.type = Word
        BY <3>2, <3>3, <3>6 DEF Worded
      <4> QED BY <2>1, <4>1, <4>2, <4>3 DEF x
    <3> QED BY <3>4, <3>5, <3>6
  <2> QED BY <2>3, <2>4
<1>12. ASSUME T!Stop PROVE Worded'
  <2>1. cancelled'
    BY <1>12 DEF T!Stop
  <2> QED BY <2>1 DEF Worded
<1>13. ASSUME T!Drain PROVE Worded'
  <2>1. cancelled'
    BY <1>13 DEF T!Drain
  <2> QED BY <2>1 DEF Worded
<1>14. ASSUME T!Show PROVE Worded'
  <2>1. T!Hydrated' = T!Hydrated
    BY <1>14 DEF T!Show, T!Hydrated
  <2>2. Pending' = Pending
    BY <1>14, PendingMoves DEF T!Show
  <2> QED BY <1>14, <2>1, <2>2 DEF T!Show, Worded, Word, Ending, T!Halts, T!Drained
<1>15. CASE UNCHANGED T!vars
  <2>1. T!Hydrated' = T!Hydrated
    BY <1>15 DEF T!vars, T!Hydrated
  <2>2. Pending' = Pending
    BY <1>15, PendingMoves DEF T!vars
  <2> QED BY <1>15, <2>1, <2>2 DEF T!vars, Worded, Word, Ending, T!Halts, T!Drained
<1> QED BY <1>1, <1>2, <1>3, <1>4, <1>5, <1>6, <1>7, <1>8, <1>9, <1>10, <1>11, <1>12, <1>13,
       <1>14, <1>15 DEF T!Next

\* the halt is told;
LEMMA HaltStaysTold ==
  ASSUME TraceTypes, TraceStages, Undecided, HaltTold, [T!Next]_(T!vars)
  PROVE  HaltTold'
<1> USE DEF T!engine, TraceTypes, TraceStages
<1>1. ASSUME T!StartFails PROVE HaltTold'
  <2>1. result' = "failed"
    BY <1>1 DEF T!StartFails
  <2> QED BY <2>1 DEF HaltTold
<1>2. ASSUME T!Begin PROVE HaltTold'
  <2>1. T!Hydrated' = T!Hydrated
    BY <1>2 DEF T!Begin, T!Hydrated
  <2>2. Pending' = Pending
    BY <1>2, PendingMoves DEF T!Begin
  <2> QED BY <1>2, <2>1, <2>2 DEF T!Begin, HaltTold, T!Halts, T!Drained
<1>3. ASSUME NEW e \in T!Told, T!Tell(e) PROVE HaltTold'
  <2>1. result' = "none"
    BY <1>3 DEF T!Tell
  <2> QED BY <2>1 DEF HaltTold
<1>4. ASSUME NEW h \in T!Halts, T!Halt(h) PROVE HaltTold'
  <2>1. Pending' = Pending \cup Items(T!LastWords(h)) /\ result' = h
    BY <1>4, PendingMoves DEF T!Halt
  <2>2. h = "halted" =>
          \E e \in Items(T!LastWords(h)) : e.type = "boundary" /\ e.kind = "terminal"
    BY LastWordsSay
  <2> QED BY <2>1, <2>2 DEF HaltTold
<1>5. ASSUME T!Send PROVE HaltTold'
  <2>1. T!Hydrated' = T!Hydrated
    BY <1>5 DEF T!Send, T!Hydrated
  <2>2. ~forwarder => cancelled'
    BY <1>5 DEF T!Send
  <2>3. forwarder => Pending' = Pending
    BY <1>5, PendingMoves
  <2> QED BY <1>5, <2>1, <2>2, <2>3 DEF T!Send, HaltTold
<1>6. ASSUME T!Return PROVE HaltTold'
  <2>1. T!Hydrated' = T!Hydrated
    BY <1>6 DEF T!Return, T!Hydrated
  <2>2. Pending' = Pending
    BY <1>6, PendingMoves DEF T!Return
  <2> QED BY <1>6, <2>1, <2>2 DEF T!Return, HaltTold, T!Halts, T!Drained
<1>7. ASSUME T!Cancelled PROVE HaltTold'
  <2>1. result' = "cancelled"
    BY <1>7 DEF T!Cancelled
  <2> QED BY <2>1 DEF HaltTold
<1>8. ASSUME NEW a \in {"confirm", "cancel"}, T!Resolve(a) PROVE HaltTold'
  <2>1. result' \in {"rejected", "confirmed"}
    BY <1>8 DEF T!Resolve
  <2> QED BY <2>1 DEF HaltTold
<1>9. ASSUME T!SendBarrier PROVE HaltTold'
  <2>1. T!Hydrated' = T!Hydrated
    BY <1>9 DEF T!SendBarrier, T!Hydrated
  <2>2. Pending \subseteq Pending'
    BY <1>9, PendingMoves
  <2> QED BY <1>9, <2>1, <2>2 DEF T!SendBarrier, HaltTold
<1>10. ASSUME T!EmitTerminal PROVE HaltTold'
  <2>1. T!Hydrated' = T!Hydrated
    BY <1>10 DEF T!EmitTerminal, T!Hydrated
  <2>2. Pending' = Pending
    BY <1>10, PendingMoves DEF T!EmitTerminal
  <2> QED BY <1>10, <2>1, <2>2 DEF T!EmitTerminal, HaltTold, T!Halts, T!Drained
<1>11. ASSUME T!Forward PROVE HaltTold'
  <2>1. Pending = Pending' \cup {Head(chan)} /\ result' = result /\ cancelled' = cancelled
    BY <1>11, PendingMoves DEF T!Forward
  <2>2. CASE Head(chan) = T!Barrier
    <3>1. T!Hydrated' = T!Hydrated /\ Head(chan).type # "boundary"
      BY <1>11, <2>2 DEF T!Forward, T!Hydrated, T!Barrier
    <3> QED BY <2>1, <3>1 DEF HaltTold
  <2>3. CASE Head(chan) # T!Barrier
    <3> DEFINE x == Head(chan)
    <3>1. x \in Lines /\ T!Hydrated' = T!Handle(T!Hydrated, x) /\ T!Hydrated \in Traces
      BY <1>11, <2>3, DiskGrows
    <3>2. x \in Pending
      BY <2>1
    <3> HIDE DEF x
    <3>3. SUFFICES ASSUME result = "halted", ~cancelled
                   PROVE  \/ T!Hydrated'.terminal = "stopped"
                          \/ \E e \in Pending' : e.type = "boundary" /\ e.kind = "terminal"
      BY <2>1 DEF HaltTold
    <3>4. ~T!Hydrated.sure /\ ~Hard(x)
      BY <3>2, <3>3 DEF Undecided
    <3>5. CASE T!Hydrated.terminal = "stopped"
      BY <3>1, <3>4, <3>5, HandleEnds
    <3>6. CASE x.type = "boundary" /\ x.kind = "terminal"
      BY <3>1, <3>4, <3>6, HandleEnds
    <3>7. CASE T!Hydrated.terminal # "stopped" /\ ~(x.type = "boundary" /\ x.kind = "terminal")
      BY <2>1, <3>3, <3>7 DEF HaltTold, x
    <3> QED BY <3>5, <3>6, <3>7
  <2> QED BY <2>2, <2>3
<1>12. ASSUME T!Stop PROVE HaltTold'
  <2>1. cancelled'
    BY <1>12 DEF T!Stop
  <2> QED BY <2>1 DEF HaltTold
<1>13. ASSUME T!Drain PROVE HaltTold'
  <2>1. cancelled'
    BY <1>13 DEF T!Drain
  <2> QED BY <2>1 DEF HaltTold
<1>14. ASSUME T!Show PROVE HaltTold'
  <2>1. T!Hydrated' = T!Hydrated
    BY <1>14 DEF T!Show, T!Hydrated
  <2>2. Pending' = Pending
    BY <1>14, PendingMoves DEF T!Show
  <2> QED BY <1>14, <2>1, <2>2 DEF T!Show, HaltTold, T!Halts, T!Drained
<1>15. CASE UNCHANGED T!vars
  <2>1. T!Hydrated' = T!Hydrated
    BY <1>15 DEF T!vars, T!Hydrated
  <2>2. Pending' = Pending
    BY <1>15, PendingMoves DEF T!vars
  <2> QED BY <1>15, <2>1, <2>2 DEF T!vars, HaltTold, T!Halts, T!Drained
<1> QED BY <1>1, <1>2, <1>3, <1>4, <1>5, <1>6, <1>7, <1>8, <1>9, <1>10, <1>11, <1>12, <1>13,
       <1>14, <1>15 DEF T!Next

\* the decision stays;
LEMMA RuledStays ==
  ASSUME TraceTypes, TraceStages, Undecided, Ruled, [T!Next]_(T!vars)
  PROVE  Ruled'
<1>1. ASSUME NEW a \in {"confirm", "cancel"}, T!Resolve(a) PROVE Ruled'
  <2> DEFINE e == [type |-> "resolved", action |-> a]
  <2>1. e \in Lines /\ e.type = "resolved" /\ e.action = a
    BY DEF Lines
  <2>2. T!Hydrated' = T!Handle(T!Hydrated, e) /\ T!Hydrated \in Traces
    BY <1>1, DiskGrows
  <2> HIDE DEF e
  <2>3. ~T!Hydrated.sure /\ result' = IF a = "cancel" THEN "rejected" ELSE "confirmed"
    BY <1>1 DEF T!Resolve, TraceStages, Undecided
  <2> QED BY <2>1, <2>2, <2>3, HandleEnds DEF Ruled
<1>2. CASE \A a \in {"confirm", "cancel"} : ~T!Resolve(a)
  <2>1. Later(T!Hydrated, T!Hydrated')
    BY DiskGrows
  <2>2. result' = result \/ result' \in T!Halts \cup {"cancelled"}
    BY <1>2 DEF T!Next, T!vars, T!StartFails, T!Begin, T!Tell, T!Halt, T!Send, T!Return,
           T!Cancelled, T!SendBarrier,
                T!EmitTerminal, T!Forward, T!Stop, T!Drain, T!Show, T!engine, T!Halts
  <2> QED BY <2>1, <2>2 DEF Ruled, Later, T!Halts
<1> QED BY <1>1, <1>2

\* and the variant is entered once.
LEMMA EnteredStays ==
  ASSUME TraceTypes, TraceStages, Entered, [T!Next]_(T!vars)
  PROVE  Entered'
<1> USE DEF T!engine, TraceTypes, TraceStages, Entered, T!Halts
<1>1. ASSUME T!StartFails PROVE Entered'
  BY <1>1 DEF T!StartFails
<1>2. ASSUME T!Begin PROVE Entered'
  BY <1>2 DEF T!Begin
<1>3. ASSUME NEW e \in T!Told, T!Tell(e) PROVE Entered'
  BY <1>3 DEF T!Tell
<1>4. ASSUME NEW h \in T!Halts, T!Halt(h) PROVE Entered'
  BY <1>4 DEF T!Halt
<1>5. ASSUME T!Send PROVE Entered'
  BY <1>5 DEF T!Send
<1>6. ASSUME T!Return PROVE Entered'
  BY <1>6 DEF T!Return
<1>7. ASSUME T!Cancelled PROVE Entered'
  BY <1>7 DEF T!Cancelled
<1>8. ASSUME NEW a \in {"confirm", "cancel"}, T!Resolve(a) PROVE Entered'
  BY <1>8 DEF T!Resolve
<1>9. ASSUME T!SendBarrier PROVE Entered'
  BY <1>9 DEF T!SendBarrier
<1>10. ASSUME T!EmitTerminal PROVE Entered'
  BY <1>10 DEF T!EmitTerminal
<1>11. ASSUME T!Forward PROVE Entered'
  BY <1>11 DEF T!Forward
<1>12. ASSUME T!Stop PROVE Entered'
  BY <1>12 DEF T!Stop
<1>13. ASSUME T!Drain PROVE Entered'
  BY <1>13 DEF T!Drain
<1>14. ASSUME T!Show PROVE Entered'
  BY <1>14 DEF T!Show
<1>15. CASE UNCHANGED T!vars
  BY <1>15 DEF T!vars
<1> QED BY <1>1, <1>2, <1>3, <1>4, <1>5, <1>6, <1>7, <1>8, <1>9, <1>10, <1>11, <1>12, <1>13,
       <1>14, <1>15 DEF T!Next

\* The invariant holds before the run has started,
LEMMA TraceInit == T!Init => TraceInv
<1> SUFFICES ASSUME T!Init PROVE TraceInv
  OBVIOUS
<1>1. T!Hydrated = T!Unread /\ T!Unread \in Traces
  <2>1. <<>> \in Seq(Lines)
    OBVIOUS
  <2> QED BY <2>1, ReadGrows, UnreadTyped DEF T!Init, T!Hydrated
<1>2. Items(<<>>) = {}
  BY DEF Items
<1>3. T!NoTrace \in Views
  BY DEF T!NoTrace, Views
<1>4. TraceTypes
  <2>1. /\ <<>> \in Seq(Lines) /\ <<>> \in Seq(Lines \cup {T!Barrier}) /\
             <<>> \in Seq(Lines \cup Ends)
        /\ 0 \in Nat
    OBVIOUS
  <2>2. forwarder \in BOOLEAN /\ cancelled \in BOOLEAN /\ acked \in BOOLEAN
    BY Zenon DEF T!Init
  <2> QED BY <1>3, <2>1, <2>2 DEF T!Init, TraceTypes
<1>5. TraceStages /\ BarrierLast /\ OverOnce
  BY DEF T!Init, TraceStages, BarrierLast, OverOnce, T!NoTrace
<1>6. Undecided /\ Worded /\ HaltTold /\ Ruled /\ Entered
  BY <1>1, <1>2 DEF T!Init, Undecided, Worded, HaltTold, Ruled, Entered, Pending, T!Unread
<1>7. Heard
  <2> DEFINE v == [i \in 0 .. 0 |-> T!NoTrace]
  <2>1. T!Parts(T!NoTrace) = T!Parts(T!Unread)
    BY DEF T!NoTrace, T!Unread, T!Parts
  <2>2. Follows(T!NoTrace, T!Unread)
    <3>1. Follows(T!Unread, T!Unread)
      BY <1>1, TraceFields, FollowsItself
    <3> QED BY <2>1, <3>1 DEF Follows, T!Parts
  <2>3. Hearing(v)
    BY <1>1, <1>3, <2>1, <2>2 DEF T!Init, Hearing
  <2> QED BY <2>3 DEF Heard
<1> QED BY <1>4, <1>5, <1>6, <1>7 DEF TraceInv

\* and every step keeps it.
LEMMA TraceInStep == TraceInv /\ [T!Next]_(T!vars) => TraceInv'
<1> SUFFICES ASSUME TraceInv, [T!Next]_(T!vars) PROVE TraceInv'
  OBVIOUS
<1>1. TraceTypes'
  BY TraceTypesStay DEF TraceInv
<1> QED BY <1>1, StagesStay, OverStaysOnce, HeardStays, UndecidedStays, WordedStays,
       HaltStaysTold,
           RuledStays, EnteredStays DEF TraceInv

\* What it says of the properties.
LEMMA TraceShows == TraceInv => T!ShownIsStored /\ T!SameTrace /\ T!VerdictKept
<1> SUFFICES ASSUME TraceInv PROVE T!ShownIsStored /\ T!SameTrace /\ T!VerdictKept
  OBVIOUS
<1>1. PICK v : Hearing(v)
  BY DEF TraceInv, Heard
<1>2. Len(inbox) \in Nat /\ 0 \in 0 .. Len(inbox)
  BY DEF TraceInv, TraceTypes
<1>3. T!ShownIsStored
  BY <1>1, <1>2 DEF Hearing, T!ShownIsStored, Follows
<1>4. T!VerdictKept
  BY DEF TraceInv, Ruled, T!VerdictKept
<1>5. ASSUME ui.terminal # "none", ~cancelled
      PROVE  /\ T!Parts(ui) = T!Parts(T!Hydrated)
             /\ ui.terminal = IF result = "failed" THEN "error" ELSE T!Hydrated.terminal
             /\ variant = IF result = "failed" THEN <<>>
                  ELSE <<T!Hydrated.terminal = "complete">>
  <2>1. pc = "done" /\ inbox = <<>> /\ ui.terminal = T!EndKind
    BY <1>5 DEF TraceInv, OverOnce
  <2>2. outbox = <<>> /\ chan = <<>> /\ forwarder /\ result # "cancelled"
    BY <1>5, <2>1 DEF TraceInv, TraceStages
  <2>3. Pending = {}
    BY <2>2 DEF Pending, Items
  <2>4. T!Parts(ui) = T!Parts(T!Hydrated)
    BY <1>1, <2>1, <2>2 DEF Hearing
  <2>5. result \in {"completed", "capped", "halted", "failed", "confirmed", "rejected"}
    BY <2>1, <2>2 DEF TraceInv, TraceTypes, TraceStages, T!Halts
  <2>6. result # "failed" => T!Hydrated.terminal = T!EndKind
    <3>1. CASE result \in {"completed", "capped"}
      BY <1>5, <2>3, <3>1 DEF TraceInv, Worded, Word, Ending, T!EndKind
    <3>2. CASE result = "halted"
      BY <1>5, <2>3, <3>2 DEF TraceInv, HaltTold, T!EndKind
    <3>3. CASE result \in {"confirmed", "rejected"}
      BY <3>3 DEF TraceInv, Ruled, T!EndKind
    <3> QED BY <2>5, <3>1, <3>2, <3>3
  <2>7. variant = IF result = "failed" THEN <<>> ELSE <<result \in {"completed", "confirmed"}>>
    BY <2>1, <2>2 DEF TraceInv, Entered
  <2>8. T!EndKind = "complete" <=> result \in {"completed", "confirmed"}
    BY <2>5 DEF T!EndKind
  <2>9. result = "failed" => T!EndKind = "error"
    BY DEF T!EndKind
  <2>10. (result \in {"completed", "confirmed"}) = (T!EndKind = "complete")
    BY <2>8
  <2> QED BY <2>1, <2>4, <2>6, <2>7, <2>9, <2>10
<1>6. T!SameTrace
  BY <1>5 DEF T!SameTrace
<1> QED BY <1>3, <1>4, <1>6

\* What the interface shows is a part of what a restart would read back, at any moment;
\* of a run nobody stopped the two are the same in the end, and the decision of the
\* operator is what the file tells: for any number of steps, phases and any room in
\* the channel.
THEOREM TraceKept == T!Spec => [](T!ShownIsStored /\ T!SameTrace /\ T!VerdictKept)
<1>1. T!Spec => []TraceInv
  BY TraceInit, TraceInStep, PTL DEF T!Spec
<1> QED BY <1>1, TraceShows, PTL

-----------------------------------------------------------------------------
(* The parts of MCKept.  A behaviour of it is one of a part, and of the    *)
(* other parts there is nothing to show.                                   *)

\* A behaviour never changes the part it is of.
LEMMA PartStays ==
  ASSUME [KeptNext]_<<part, vars, restMemory>>
  PROVE  part' = part
BY DEF KeptNext

\* A step of this part is one of RunFiles.
LEMMA FilesPart ==
  ASSUME [KeptNext]_<<part, vars, restMemory>>, part = "files"
  PROVE  [F!Next]_(F!vars)
<1>1. CASE KeptNext
  BY <1>1 DEF KeptNext
<1>2. CASE UNCHANGED <<part, vars, restMemory>>
  BY <1>2 DEF restMemory, F!vars, F!program, F!runVars, F!chatVars, F!sweepVars
<1> QED BY <1>1, <1>2

\* What is left of the runs of a project is what the user wants: no sweep takes the
\* traces of a fresh run, one that got to its end has left nothing old, and what a
\* clear of the conversation took stays away (privacy.rs, agent_chat.rs).
THEOREM FilesAreWantedHolds == KeptSpec => []FilesAreWanted
<1> DEFINE here == part = "files"
<1>1. KeptInit => ~here \/ F!Init
  BY DEF KeptInit
<1>2. [KeptNext]_<<part, vars, restMemory>> /\ ~here => ~here'
  BY PartStays
<1>3. [KeptNext]_<<part, vars, restMemory>> /\ here => [F!Next]_(F!vars) /\ here'
  BY PartStays, FilesPart
<1>4. ~here \/ (F!FreshKept /\ F!SweptIsGone /\ F!ClearStays) => FilesAreWanted
  BY DEF FilesAreWanted
<1> HIDE DEF here
<1> QED BY <1>1, <1>2, <1>3, <1>4, FilesKept, PTL DEF KeptSpec, F!Spec

\* A step of this part is one of RunTrace.
LEMMA TracePart ==
  ASSUME [KeptNext]_<<part, vars, restMemory>>, part = "trace"
  PROVE  [T!Next]_(T!vars)
<1>1. CASE KeptNext
  BY <1>1 DEF KeptNext
<1>2. CASE UNCHANGED <<part, vars, restMemory>>
  BY <1>2 DEF vars, restMemory, T!vars, T!engine
<1> QED BY <1>1, <1>2

\* What the interface shows of a run is what the file tells of it: a part of it at any
\* moment, and the same when the end of a run nobody stopped is shown; and the decision
\* of the operator is what the file tells (run_trace.rs, assistantSlice.ts).
THEOREM OneAccountHolds == KeptSpec => []OneAccount
<1> DEFINE here == part = "trace"
<1>1. KeptInit => ~here \/ T!Init
  BY DEF KeptInit
<1>2. [KeptNext]_<<part, vars, restMemory>> /\ ~here => ~here'
  BY PartStays
<1>3. [KeptNext]_<<part, vars, restMemory>> /\ here => [T!Next]_(T!vars) /\ here'
  BY PartStays, TracePart
<1>4. ~here \/ (T!ShownIsStored /\ T!SameTrace /\ T!VerdictKept) => OneAccount
  BY DEF OneAccount
<1> HIDE DEF here
<1> QED BY <1>1, <1>2, <1>3, <1>4, TraceKept, PTL DEF KeptSpec, T!Spec

\* A step of these parts is one of SkillLibrary.
LEMMA LibraryPart ==
  ASSUME [KeptNext]_<<part, vars, restMemory>>, part \in {"library", "shared"}
  PROVE  [L!Next]_(L!vars)
<1>1. CASE KeptNext
  BY <1>1 DEF KeptNext
<1>2. CASE UNCHANGED <<part, vars, restMemory>>
  BY <1>2 DEF restMemory, L!vars, L!frames, L!watch
<1> QED BY <1>1, <1>2

\* The steps an extraction takes for a subgoal are those recorded while it was open,
\* whether or not others change the skills meanwhile (apply_mutations).
THEOREM ExtractsItsWorkHolds == KeptSpec => []ExtractsItsWork
<1> DEFINE here == part \in {"library", "shared"}
<1>1. KeptInit => ~here \/ L!Init
  BY DEF KeptInit
<1>2. [KeptNext]_<<part, vars, restMemory>> /\ ~here => ~here'
  BY PartStays
<1>3. [KeptNext]_<<part, vars, restMemory>> /\ here => [L!Next]_(L!vars) /\ here'
  BY PartStays, LibraryPart
<1>4. ~here \/ L!ExtractsItsWork => ExtractsItsWork
  BY DEF ExtractsItsWork
<1> HIDE DEF here
<1> QED BY <1>1, <1>2, <1>3, <1>4, LibraryExtracts, PTL DEF KeptSpec, L!Spec

\* As long as nobody else writes, the file of a skill is a row of the index, and the
\* newest one unless a version was written again (maybe_extract_skill).
THEOREM IndexIsDiskHolds == KeptSpec => []IndexIsDisk
<1> DEFINE here == part \in {"library", "shared"}
<1>1. KeptInit => ~here \/ L!Init
  BY DEF KeptInit
<1>2. [KeptNext]_<<part, vars, restMemory>> /\ ~here => ~here'
  BY PartStays
<1>3. [KeptNext]_<<part, vars, restMemory>> /\ here => [L!Next]_(L!vars) /\ here'
  BY PartStays, LibraryPart
<1>4. ~here \/ L!IndexIsDisk => IndexIsDisk
  BY DEF IndexIsDisk
<1>5. L!Spec => []L!IndexIsDisk
  BY LibraryAssumption, LibraryIndexed
<1> HIDE DEF here
<1> QED BY <1>1, <1>2, <1>3, <1>4, <1>5, PTL DEF KeptSpec, L!Spec
=============================================================================
