--------------------------- MODULE EpisodicMemory ---------------------------
(***************************************************************************)
(* The memory of recoveries: the writer task every run starts              *)
(* (agent/episodic/write.rs), the SQLite files it writes                   *)
(* (agent/episodic/store.rs), and the end of a run that asks it to promote *)
(* what the run has learnt and waits a second for the answer               *)
(* (src-tauri/commands/agent/task.rs).                                     *)
(*                                                                         *)
(* A run hands a recovery to its writer and goes on.  The writer takes one *)
(* request after the other and may outlive its run.  It holds a sender of  *)
(* the run's event channel, whose forwarder the cleanup of a run waits     *)
(* for, so the next run starts once the writer has nothing left to do.     *)
(* But a stop ends the forwarder at once: the writer of a stopped run may  *)
(* still be at work, on the same files, when the next run starts.          *)
(*                                                                         *)
(* An episode is a key: the signature of the state the run failed in and   *)
(* the hash of the actions that led out of it.  Time stamps are of one     *)
(* second, which several runs may start in: the store compares them with   *)
(* datetime(), which cuts off the rest.                                    *)
(***************************************************************************)
EXTENDS Integers, Sequences, FiniteSets, Functions, FiniteSetsExt

CONSTANTS
    Projects,       \* each has a store of its own; they share the global one
    Signatures, Actions,
    MaxRuns,        \* bound: runs started
    MaxRecoveries,  \* bound: recoveries of all runs
    MaxSeconds,     \* bound: seconds in which something happens
    CHANNEL_CAP,    \* requests a writer's queue holds
    max_per_scope   \* rows a store keeps

ASSUME RunsAssumption == MaxRuns \in Nat \ {0} /\ MaxRecoveries \in Nat
ASSUME ClockAssumption == MaxSeconds \in Nat \ {0}
ASSUME GlobalAssumption == "global" \notin Projects
ASSUME CapsAssumption == CHANNEL_CAP \in Nat \ {0} /\ max_per_scope \in Nat \ {0}

Keys == Signatures \X Actions
Runs == 1..MaxRuns
Seconds == 1..MaxSeconds
Global == "global"
Stores == Projects \cup {Global}
NoRequest == [kind |-> "none"]

\* A row: how often it was seen, when first and when last, and when it was last
\* retrieved (0 is NULL).
Row == [count: Nat, created: Seconds, seen: Seconds, retrieved: 0..MaxSeconds]
IsTable(t) == DOMAIN t \subseteq Keys /\ t \in [DOMAIN t -> Row]

Requests ==
    [kind: {"derive"}, key: Keys] \cup [kind: {"promote"}, clean: BOOLEAN]
        \cup [kind: {"flush"}]
Promoting == [kind |-> "promoting"]

VARIABLES
    rows,       \* of each store, a function from the keys it has to rows
    project,    \* of each run started so far
    began,      \* of each of them, the second it started in
    now,        \* the second it is
    aged,       \* rows created in this second or an earlier one are an hour old
    phase,      \* of the last run: running, ending, flushing or over
    queue,      \* of each run's writer
    work,       \* of each writer: what it is doing, and the rows yet to promote
    acked,      \* runs whose flush has been answered
    flushed,    \* runs that ended with that answer, and not by the timeout
    stopped,    \* the user has stopped the last run, which ends its event forwarder
    mixed,      \* runs whose writer had work left when the next run started,
                \* and those next runs
    recoveries, \* recoveries handed to a writer
    again,      \* pairs of a run and a key its project's store had when it started,
                \* seen in that very second
    stored,     \* of each run, how often its writer has stored a key
    promoted    \* pairs of a run and a key it has stored in the global store

vars == <<rows, project, began, now, aged, phase, queue, work, acked, flushed, stopped, mixed,
          recoveries, again, stored, promoted>>
clock == <<project, began, now, aged, again>>
files == <<rows, stored, promoted>>

Started == DOMAIN project
Current == Len(project)
Idle(r) == queue[r] = <<>> /\ work[r].req = NoRequest
AtRest == [req |-> NoRequest, todo |-> {}]

Init ==
    /\ rows = [s \in Stores |-> <<>>]
    /\ project = <<>> /\ began = <<>> /\ again = {}
    /\ now = 1 /\ aged = 0
    /\ phase = "over"
    /\ queue = [r \in Runs |-> <<>>]
    /\ work = [r \in Runs |-> AtRest]
    /\ acked = {} /\ flushed = {} /\ stopped = FALSE /\ mixed = {}
    /\ recoveries = 0
    /\ stored = [r \in Runs |-> [k \in Keys |-> 0]]
    /\ promoted = {}

-----------------------------------------------------------------------------
(* The store.                                                              *)

\* prune_lru: what is over the cap goes, rows of the last hour never, the ones
\* no run has retrieved first, then those not retrieved or seen for longest.
Older(t, k, l) ==
    IF (t[k].retrieved = 0) # (t[l].retrieved = 0) THEN t[k].retrieved = 0
    ELSE IF t[k].retrieved # t[l].retrieved THEN t[k].retrieved < t[l].retrieved
    ELSE t[k].seen < t[l].seen

Prunings(t) ==
    LET old == {k \in DOMAIN t : t[k].created <= aged}
        excess == Cardinality(DOMAIN t) - max_per_scope
        n == IF excess < Cardinality(old) THEN excess ELSE Cardinality(old)
    IN  IF excess <= 0 THEN {t}
        ELSE {Restrict(t, DOMAIN t \ gone) :
                 gone \in {d \in kSubset(n, old) :
                              \A k \in d, l \in old \ d : ~Older(t, l, k)}}

Once(born) == [count |-> 1, created |-> born, seen |-> now, retrieved |-> 0]
Again(row) == [count |-> row.count + 1, created |-> row.created, seen |-> now,
               retrieved |-> row.retrieved]

\* insert: a row of the same key is merged with, a new one may push others out.
Inserted(t, k, born) ==
    IF k \in DOMAIN t
    THEN {[t EXCEPT ![k] = Again(@)]}
    ELSE Prunings([l \in DOMAIN t \cup {k} |-> IF l = k THEN Once(born) ELSE t[l]])

\* retrieve: the rows with the signature, or all rows when there are none, are
\* scored; those returned are marked.  A store of the instance has fewer rows
\* than a retrieval returns (2 * retrieved_episodes_k).
Hits(t, sig) ==
    LET exact == {k \in DOMAIN t : k[1] = sig}
    IN  IF exact # {} THEN exact ELSE DOMAIN t
Retrieved(t, sig) ==
    [k \in DOMAIN t |->
        IF k \in Hits(t, sig) THEN [t[k] EXCEPT !.retrieved = now] ELSE t[k]]

Touched_Any(r) == DOMAIN rows[project[r]]
\* list_run_touched: rows seen in the second the run started in, or later.
Touched(r) ==
    {k \in DOMAIN rows[project[r]] : rows[project[r]][k].seen >= began[r]}

ShouldPromote_First(count, known) == count >= 1 \/ known
ShouldPromote(count, known) == count >= 2 \/ known

-----------------------------------------------------------------------------
(* The run.                                                                *)

\* spawn_agent_cleanup: the session is given up when the event forwarder is
\* done, by a stop or because the writer has dropped the last sender.
CleanedUp == Current > 0 /\ ~stopped => Idle(Current)

\* A second passes.
Tick ==
    /\ now < MaxSeconds /\ now' = now + 1
    /\ UNCHANGED <<project, began, aged, again, phase, queue, work, acked, flushed, stopped,
                   mixed, recoveries>> /\ UNCHANGED files

\* run_agent opens the stores and spawns the writer.  It may start in the second the
\* last run ended in, or an hour later; within a run no hour passes.
StartRun(p) ==
    /\ phase = "over" /\ Current < MaxRuns /\ CleanedUp
    /\ project' = Append(project, p)
    /\ \/ UNCHANGED <<now, aged>>
       \/ now < MaxSeconds /\ now' = now + 1 /\ aged' = now
    /\ began' = Append(began, now')
    /\ again' = again \cup
          {<<Current + 1, k>> : k \in {l \in DOMAIN rows[p] : rows[p][l].seen = now'}}
    /\ phase' = "running" /\ stopped' = FALSE
    /\ LET behind == {q \in Started : ~Idle(q)}
       IN  mixed' = IF behind = {} THEN mixed ELSE mixed \cup behind \cup {Current + 1}
    /\ UNCHANGED <<queue, work, acked, flushed, recoveries>> /\ UNCHANGED files

\* try_retrieve_episodic, at the start of the run and at each entry into the
\* phase Recovering.
Retrieve(sig) ==
    /\ phase = "running"
    /\ rows' = [s \in Stores |-> IF s \in {project[Current], Global}
                                 THEN Retrieved(rows[s], sig) ELSE rows[s]]
    /\ UNCHANGED <<clock, phase, queue, work, acked, flushed, stopped, mixed,
                   recoveries, stored, promoted>>

\* queue_recovery_success_write: a full queue drops the request.
Recover(k) ==
    /\ phase = "running" /\ recoveries < MaxRecoveries
    /\ Len(queue[Current]) < CHANNEL_CAP
    /\ queue' = [queue EXCEPT ![Current] = Append(@, [kind |-> "derive", key |-> k])]
    /\ recoveries' = recoveries + 1
    /\ UNCHANGED <<clock, phase, work, acked, flushed, stopped, mixed>> /\ UNCHANGED files

\* queue_terminal_promotion: only a completed run promotes; a run without the
\* global store ends here; a full queue drops the request, not the flush.
EndRun(clean) ==
    /\ phase = "running"
    /\ \/ phase' = "ending"
          /\ queue' = [queue EXCEPT ![Current] =
                IF Len(@) < CHANNEL_CAP
                THEN Append(@, [kind |-> "promote", clean |-> clean]) ELSE @]
       \/ phase' = "over" /\ UNCHANGED queue
    /\ UNCHANGED <<clock, work, acked, flushed, stopped, mixed, recoveries>> /\ UNCHANGED files

\* force_stop: a run that is still deciding ends without a promotion, the end of
\* one that has completed takes its course.
Stop ==
    /\ ~stopped /\ (phase # "over" \/ ~CleanedUp)
    /\ stopped' = TRUE
    /\ phase' = IF phase = "running" THEN "over" ELSE phase
    /\ UNCHANGED <<clock, queue, work, acked, flushed, mixed, recoveries>> /\ UNCHANGED files

SendFlush ==
    /\ phase = "ending" /\ Len(queue[Current]) < CHANNEL_CAP
    /\ queue' = [queue EXCEPT ![Current] = Append(@, [kind |-> "flush"])]
    /\ phase' = "flushing"
    /\ UNCHANGED <<clock, work, acked, flushed, stopped, mixed, recoveries>> /\ UNCHANGED files

\* The barrier as it was before it went through the queue (episodic/types.rs:218).
Answered_Polled(r) == queue[r] = <<>> \/ r \in acked
Answered(r) == r \in acked

FlushReturns ==
    /\ phase = "flushing" /\ Answered(Current)
    /\ phase' = "over"
    /\ flushed' = flushed \cup {Current}
    /\ UNCHANGED <<clock, queue, work, acked, stopped, mixed, recoveries>> /\ UNCHANGED files

\* The second is over, before or after the flush found room in the queue.
FlushTimesOut ==
    /\ phase \in {"ending", "flushing"}
    /\ phase' = "over"
    /\ UNCHANGED <<clock, queue, work, acked, flushed, stopped, mixed, recoveries>>
    /\ UNCHANGED files

-----------------------------------------------------------------------------
(* The writer of run r.                                                    *)

Take(r) ==
    /\ r \in Started /\ work[r].req = NoRequest /\ queue[r] # <<>>
    /\ work' = [work EXCEPT ![r].req = Head(queue[r])]
    /\ queue' = [queue EXCEPT ![r] = Tail(@)]
    /\ UNCHANGED <<clock, phase, acked, flushed, stopped, mixed, recoveries>>
    /\ UNCHANGED files

\* handle_derive_and_insert.
Derive(r) ==
    /\ work[r].req.kind = "derive"
    /\ \E t \in Inserted(rows[project[r]], work[r].req.key, now) :
          rows' = [rows EXCEPT ![project[r]] = t]
    /\ stored' = [stored EXCEPT ![r][work[r].req.key] = @ + 1]
    /\ work' = [work EXCEPT ![r] = AtRest]
    /\ UNCHANGED <<clock, phase, queue, acked, flushed, stopped, mixed, recoveries, promoted>>

\* What the database refuses is given up with a warning.
Fails(r) ==
    /\ work[r].req.kind \in {"derive", "promote"}
    /\ work' = [work EXCEPT ![r] = AtRest]
    /\ UNCHANGED <<clock, phase, queue, acked, flushed, stopped, mixed, recoveries>>
    /\ UNCHANGED files

Candidate(p, k) == <<k, rows[p][k].count, rows[p][k].created>>

\* promote_matching_episodes: the rows are listed once, with their counts
\* and the time of their creation, ...
ListTouched(r) ==
    /\ work[r].req.kind = "promote"
    /\ work' = [work EXCEPT ![r] =
          IF work[r].req.clean
          THEN [req |-> Promoting,
                todo |-> {Candidate(project[r], k) : k \in Touched(r)}]
          ELSE AtRest]
    /\ UNCHANGED <<clock, phase, queue, acked, flushed, stopped, mixed, recoveries>>
    /\ UNCHANGED files

\* ... and go to the global store one by one, those that pass the gate.
PromoteOne(r, c) ==
    LET known == \E l \in DOMAIN rows[Global] : l[1] = c[1][1]
    IN  /\ work[r].req.kind = "promoting"
        /\ work' = [work EXCEPT ![r].todo = @ \ {c}]
        /\ \/ /\ ShouldPromote(c[2], known)
              /\ \E t \in Inserted(rows[Global], c[1], c[3]) :
                    rows' = [rows EXCEPT ![Global] = t]
              /\ promoted' = promoted \cup {<<r, c[1]>>}
           \/ UNCHANGED <<rows, promoted>>    \* gated out, or the insert failed
        /\ UNCHANGED <<clock, phase, queue, acked, flushed, stopped, mixed, recoveries, stored>>

Promoted(r) ==
    /\ work[r].req.kind = "promoting" /\ work[r].todo = {}
    /\ work' = [work EXCEPT ![r] = AtRest]
    /\ UNCHANGED <<clock, phase, queue, acked, flushed, stopped, mixed, recoveries>>
    /\ UNCHANGED files

Acknowledge(r) ==
    /\ work[r].req.kind = "flush"
    /\ acked' = acked \cup {r}
    /\ work' = [work EXCEPT ![r] = AtRest]
    /\ UNCHANGED <<clock, phase, queue, flushed, stopped, mixed, recoveries>>
    /\ UNCHANGED files

Writer(r) ==
    \/ Take(r) \/ Derive(r) \/ Fails(r) \/ ListTouched(r)
    \/ \E c \in work[r].todo : PromoteOne(r, c)
    \/ Promoted(r) \/ Acknowledge(r)

Next ==
    \/ Tick
    \/ \E p \in Projects : StartRun(p)
    \/ \E s \in Signatures : Retrieve(s)
    \/ \E k \in Keys : Recover(k)
    \/ \E clean \in BOOLEAN : EndRun(clean)
    \/ Stop \/ SendFlush \/ FlushReturns \/ FlushTimesOut
    \/ \E r \in Runs : Writer(r)

Spec == Init /\ [][Next]_vars

-----------------------------------------------------------------------------
(* Properties.                                                             *)

TypeOK ==
    /\ DOMAIN rows = Stores /\ \A s \in Stores : IsTable(rows[s])
    /\ project \in Seq(Projects) /\ Current <= MaxRuns
    /\ now \in Seconds /\ aged \in 0..now
    /\ began \in Seq(Seconds) /\ Len(began) = Current
    /\ again \subseteq Runs \X Keys
    /\ phase \in {"running", "ending", "flushing", "over"}
    /\ queue \in [Runs -> Seq(Requests)]
    /\ work \in [Runs -> [req: Requests \cup {NoRequest, Promoting},
                          todo: SUBSET (Keys \X Nat \X Seconds)]]
    /\ acked \subseteq Runs /\ flushed \subseteq acked /\ stopped \in BOOLEAN
    /\ mixed \subseteq Runs /\ recoveries \in Nat
    /\ stored \in [Runs -> [Keys -> Nat]]
    /\ promoted \subseteq Runs \X Keys

\* A run that has ended with its flush answered has left nothing behind in its
\* writer: what it learnt is on disk, where the next run will look for it, and
\* its promotions are made.  That is what the barrier is there for.
FlushedIsStored ==
    \A r \in flushed : Idle(r)

\* Project p has met the episode k twice, in one run or in two.
MetTwice(p, k) ==
    \E q, r \in Started :
        /\ project[q] = p /\ project[r] = p
        /\ stored[q][k] >= 1 /\ stored[r][k] >= 1
        /\ q = r => stored[q][k] >= 2

\* The global store only tells of signatures that some project has met, and got
\* out of by the same actions, at least twice, however rows were merged, pruned,
\* promoted and confirmed by other projects in between.
PromotionEarned ==
    \A k \in DOMAIN rows[Global] :
        \E p \in Projects, a \in Actions : MetTwice(p, <<k[1], a>>)

\* A run promotes only what it has met itself (episodic/types.rs:239-243), with two
\* exceptions.  A run takes for its own what an earlier one stored in the very second it
\* started in.  And when a run starts while the writer of a stopped one has work left,
\* rows are stamped when they are written and listed when the pass is reached, so each
\* takes the other's for its own.
PromotesItsOwn ==
    \A rk \in promoted : rk[1] \in mixed \/ rk \in again \/ stored[rk[1]][rk[2]] > 0

\* What is promoted was earned: the two together.
PromotedIsEarned == PromotionEarned /\ PromotesItsOwn
=============================================================================
