------------------------------ MODULE RunFiles ------------------------------
(***************************************************************************)
(* What the runs of a project leave on disk, and what takes it away again: *)
(* the execution directories, the index of variants, the rows of the       *)
(* episodic store and the chat (run_storage.rs, variant_index.rs,          *)
(* agent_chat.rs), the sweep that every start of the program makes on a    *)
(* thread of its own (privacy.rs, retention.rs), and the user who clears   *)
(* the conversation.                                                       *)
(*                                                                         *)
(* Nothing locks these files: the sweep reads, filters and rewrites while  *)
(* runs append.  The program may be killed at any step.                    *)
(***************************************************************************)
EXTENDS Integers, FiniteSets, FiniteSetsExt

CONSTANTS
    Settings,       \* values of traceRetentionDays, which may be edited by hand
    MaxRetention,   \* MAX_RETENTION_DAYS
    Width,          \* bits of the integer it is cast to, 64 in the code
    Episodes,       \* keys of rows
    MaxRuns, MaxDay, MaxStarts, MaxClears   \* bounds

Runs == 1..MaxRuns
Days == 0..MaxDay
None == 0

VARIABLES
    setting,    \* traceRetentionDays in settings.json
    today,
    starts,     \* how often the program has been started
    up,         \* is it running?
    last,       \* the last run to start, in any process
    run,        \* the run in progress, or None
    day,        \* of each run: the time stamp in the name of its directory
    dirs,       \* runs with a directory
    index,      \* runs with a line in variant_index.jsonl
    rows,       \* per episode: none or one row with its day and its references
    chat,       \* conversations agent_chat.json may hold: none or one
    saves,      \* conversations in the saves on their way
    conversation,   \* the one the interface shows
    clearing,   \* what a clear in flight has still to do
    sweep,      \* the sweep: where it is, what it has removed, what it has read
    listed,     \* history: runs entered in the index since it was last cleared
    wiped,      \* history: runs whose line a clear has taken out
    late,       \* history: saves in flight when a clear began
    cleared,    \* history: the conversations before this one have been cleared
    raced,      \* history: lines appended or cleared after the sweep had read
    torn,       \* history: lines whose directory went in a sweep that was cut short
    stuck       \* history: directories that could not be removed

program == <<setting, today, starts, up>>
runVars == <<last, run, day, listed>>
chatVars == <<chat, saves, conversation, clearing, wiped, late, cleared>>
sweepVars == <<sweep, raced, torn, stuck>>
vars == <<program, runVars, dirs, index, rows, chatVars, sweepVars>>

AtRest == [pc |-> "idle", removed |-> {}, read |-> {}, refs |-> {}]

Init ==
    /\ setting \in Settings /\ today = 0 /\ starts = 0 /\ up = FALSE
    /\ last = None /\ run = None /\ day = [r \in Runs |-> 0] /\ listed = {}
    /\ dirs = {} /\ index = {} /\ rows = [e \in Episodes |-> {}]
    /\ chat = {} /\ saves = {} /\ conversation = 0 /\ clearing = {}
    /\ wiped = {} /\ late = {} /\ cleared = 0
    /\ sweep = AtRest /\ raced = {} /\ torn = {} /\ stuck = {}

-----------------------------------------------------------------------------
(* The program.                                                            *)

NextDay ==
    /\ today < MaxDay /\ sweep.pc \in {"idle", "done"}
    /\ today' = today + 1 /\ sweep' = AtRest
    /\ UNCHANGED <<setting, starts, up, runVars, dirs, index, rows, chatVars, raced, torn, stuck>>

\* spawn_expired_app_data_runs_sweep.
Start ==
    /\ ~up /\ starts < MaxStarts
    /\ up' = TRUE /\ starts' = starts + 1
    /\ sweep' = IF setting = 0 THEN AtRest ELSE [AtRest EXCEPT !.pc = "dirs"]
    /\ stuck' = {}
    /\ UNCHANGED <<setting, today, runVars, dirs, index, rows, chatVars, raced, torn>>

Kill ==
    /\ up
    /\ up' = FALSE /\ run' = None /\ saves' = {} /\ clearing' = {}
    /\ torn' = torn \cup (sweep.removed \cap index)
    /\ sweep' = AtRest
    /\ UNCHANGED <<setting, today, starts, last, day, listed, dirs, index, rows, chat,
                   conversation, wiped, late, cleared, raced, stuck>>

-----------------------------------------------------------------------------
(* The sweep.                                                              *)

Signed(n) == LET m == n % (2 ^ Width) IN IF m >= 2 ^ (Width - 1) THEN m - 2 ^ Width ELSE m

Window_Unclamped == Signed(setting)
Window == Signed(IF setting < MaxRetention THEN setting ELSE MaxRetention)

Expired(d) == d < today - Window

\* One directory after the other; what cannot be removed is left with a warning.
SweepDir(r) ==
    /\ sweep.pc = "dirs" /\ r \in dirs \ stuck /\ Expired(day[r])
    /\ \/ dirs' = dirs \ {r} /\ sweep' = [sweep EXCEPT !.removed = @ \cup {r}] /\ UNCHANGED stuck
       \/ stuck' = stuck \cup {r} /\ UNCHANGED <<dirs, sweep>>
    /\ UNCHANGED <<program, runVars, index, rows, chatVars, raced, torn>>

\* prune_variant_index_entries reads the index, if a directory went ...
SweepReadIndex ==
    /\ sweep.pc = "dirs" /\ \A r \in dirs \ stuck : ~Expired(day[r])
    /\ sweep' = IF index \cap sweep.removed = {} THEN [sweep EXCEPT !.pc = "age"]
                ELSE [sweep EXCEPT !.pc = "index", !.read = index]
    /\ UNCHANGED <<program, runVars, dirs, index, rows, chatVars, raced, torn, stuck>>

Kept_All(read, removed) == read
Kept(read, removed) == read \ removed

\* ... and puts what is left in its place, or removes it when nothing is left.
SweepWriteIndex ==
    /\ sweep.pc = "index"
    /\ \/ /\ index' = Kept(sweep.read, sweep.removed)
          /\ raced' = raced \cup ((index \ sweep.read) \X {"lost"})
                            \cup ((Kept(sweep.read, sweep.removed) \ index) \X {"back"})
          /\ UNCHANGED torn
       \/ torn' = torn \cup (sweep.removed \cap index)      \* the write fails
          /\ UNCHANGED <<index, raced>>
    /\ sweep' = [sweep EXCEPT !.pc = "age", !.removed = {}]
    /\ UNCHANGED <<program, runVars, dirs, rows, chatVars, stuck>>

\* sweep_workflow_local_db: rows go by the day they were first stored, ...
SweepAge ==
    /\ sweep.pc = "age"
    /\ rows' = [e \in Episodes |-> {w \in rows[e] : ~Expired(w.created)}]
    /\ sweep' = [sweep EXCEPT !.pc = "select"]
    /\ UNCHANGED <<program, runVars, dirs, index, chatVars, raced, torn, stuck>>

\* ... the rest is read once, with its references, ...
SweepSelect ==
    /\ sweep.pc = "select"
    /\ sweep' = [sweep EXCEPT !.pc = "refs",
                    !.refs = UNION {{<<e, w.refs>> : w \in rows[e]} : e \in Episodes}]
    /\ UNCHANGED <<program, runVars, dirs, index, rows, chatVars, raced, torn, stuck>>

\* ... and a row none of whose references was there any more is deleted.
SweepRow(e, refs) ==
    /\ sweep.pc = "refs" /\ <<e, refs>> \in sweep.refs
    /\ rows' = IF refs \cap dirs = {} THEN [rows EXCEPT ![e] = {}] ELSE rows
    /\ sweep' = [sweep EXCEPT !.refs = @ \ {<<e, refs>>}]
    /\ UNCHANGED <<program, runVars, dirs, index, chatVars, raced, torn, stuck>>

SweepDone ==
    /\ sweep.pc = "refs" /\ sweep.refs = {}
    /\ sweep' = [sweep EXCEPT !.pc = "done"]
    /\ UNCHANGED <<program, runVars, dirs, index, rows, chatVars, raced, torn, stuck>>

-----------------------------------------------------------------------------
(* The runs.                                                               *)

\* begin_execution; a run that stores no traces leaves nothing and is not here.
\* VariantIndex::load_existing tells it of the lines whose directory is there.
StartRun ==
    /\ up /\ run = None /\ last < MaxRuns
    /\ last' = last + 1 /\ run' = last'
    /\ day' = [day EXCEPT ![last'] = today]
    /\ dirs' = dirs \cup {last'}
    /\ UNCHANGED <<program, listed, index, rows, chatVars, sweepVars>>

\* A recovery is stored, with a reference to the run's directory, or merged.
Remember(e) ==
    /\ run # None
    /\ rows' = [rows EXCEPT ![e] =
          IF @ = {} THEN {[created |-> today, refs |-> {run}]}
          ELSE {[w EXCEPT !.refs = @ \cup {run}] : w \in @}]
    /\ UNCHANGED <<program, runVars, dirs, index, chatVars, sweepVars>>

\* append_variant_entry, unless the run was stopped or has failed.
EndRun(entered) ==
    /\ run # None
    /\ run' = None
    /\ index' = IF entered THEN index \cup {run} ELSE index
    /\ listed' = IF entered THEN listed \cup {run} ELSE listed
    /\ UNCHANGED <<program, last, day, dirs, rows, chatVars, sweepVars>>

-----------------------------------------------------------------------------
(* The chat.                                                               *)

\* Every message starts a save of the conversation, unless a clear is in flight.
Say ==
    /\ up /\ clearing = {}
    /\ saves' = saves \cup {conversation}
    /\ UNCHANGED <<program, runVars, dirs, index, rows, chat, conversation, clearing, wiped,
                   late, cleared, sweepVars>>

\* save_agent_chat; saves in flight land in any order.
Save(c) ==
    /\ c \in saves
    /\ saves' = saves \ {c} /\ chat' = {c}
    /\ UNCHANGED <<program, runVars, dirs, index, rows, conversation, clearing, wiped, late,
                   cleared, sweepVars>>

\* clear_agent_conversation drops the drafts, empties the index, then removes the
\* chat, and gives up at the first of these that fails.
Clear ==
    /\ up /\ clearing = {} /\ conversation < MaxClears
    /\ conversation' = conversation + 1
    /\ clearing' = {"index", "chat"}
    /\ late' = late \cup saves
    /\ UNCHANGED <<program, runVars, dirs, index, rows, chat, saves, wiped, cleared, sweepVars>>

ClearIndex ==
    /\ "index" \in clearing
    /\ index' = {} /\ listed' = {} /\ wiped' = wiped \cup index
    /\ clearing' = {"chat"}
    /\ UNCHANGED <<program, last, run, day, dirs, rows, chat, saves, conversation, late,
                   cleared, sweepVars>>

ChatLeft_WithoutIndex == IF wiped = {} THEN chat ELSE {}
ChatLeft == {}

ClearChat ==
    /\ clearing = {"chat"}
    /\ chat' = ChatLeft /\ clearing' = {} /\ cleared' = conversation
    /\ UNCHANGED <<program, runVars, dirs, index, rows, saves, conversation, wiped, late, sweepVars>>

ClearFails ==
    /\ clearing # {} /\ clearing' = {}
    /\ UNCHANGED <<program, runVars, dirs, index, rows, chat, saves, conversation, wiped, late,
                   cleared, sweepVars>>

Next ==
    \/ NextDay \/ Start \/ Kill
    \/ (\E r \in Runs : SweepDir(r)) \/ SweepReadIndex \/ SweepWriteIndex
    \/ SweepAge \/ SweepSelect \/ SweepDone
    \/ (\E e \in Episodes, refs \in SUBSET Runs : SweepRow(e, refs))
    \/ StartRun \/ (\E e \in Episodes : Remember(e)) \/ (\E b \in BOOLEAN : EndRun(b))
    \/ Say \/ (\E c \in saves : Save(c)) \/ Clear \/ ClearIndex \/ ClearChat
    \/ ClearFails

Spec == Init /\ [][Next]_vars

-----------------------------------------------------------------------------
(* Properties.                                                             *)

Fresh(d) == setting = 0 \/ (d >= today - setting /\ d >= today - MaxRetention)

\* No setting, however large, and no sweep, wherever it is cut short, takes the
\* traces of a run that is not older than the user said, or its line in the
\* index.  The exception is a line that is appended while the sweep holds its
\* copy of the index.
FreshKept ==
    \A r \in 1..last :
        Fresh(day[r]) =>
            /\ r \in dirs
            /\ r \in listed => r \in index \/ <<r, "lost">> \in raced

\* What a sweep that got to its end has left is not older than the user said:
\* directories, lines and episodes, of which each still has a trace to show.
\* But what could not be removed stays, and a line whose directory went in a
\* sweep that was cut short stays for good: the next one does not look for it.
SweptIsGone ==
    sweep.pc = "done" =>
        /\ \A r \in dirs : Fresh(day[r]) \/ r \in stuck
        /\ \A r \in index : Fresh(day[r]) \/ r \in stuck \cup torn
        /\ \A e \in Episodes : \A w \in rows[e] : Fresh(w.created) /\ w.refs \cap dirs # {}

\* A clear that has come to its end has taken the chat and the lines there were,
\* and nothing brings them back but a save that was on its way when it began, or
\* a sweep that had read the index.
ClearStays ==
    /\ \A c \in chat : c >= cleared \/ c \in late
    /\ \A r \in wiped \cap index : <<r, "back">> \in raced
=============================================================================
