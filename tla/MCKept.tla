------------------------------- MODULE MCKept -------------------------------
(***************************************************************************)
(* Four things that are kept beyond the step that made them, each by       *)
(* itself: the recoveries of EpisodicMemory, the skills a run extracts     *)
(* (SkillLibrary), the files of the runs (RunFiles) and the trace of one   *)
(* (RunTrace).  A behaviour is one of one of them; the variables of the    *)
(* others have no value, and variables of one name are one.                *)
(***************************************************************************)
EXTENDS EpisodicMemory, TLC

CONSTANTS
    p1, p2, s1, a1, a2,
    Tool, Id, Base, MaxWork, MaxDepth, MaxVersion, MaxOutside, Backlog,     \* SkillLibrary
    Settings, MaxRetention, Width, Episodes, MaxDay, MaxStarts, MaxClears,  \* RunFiles
    Phases, FirstPhase, MaxEvents, ChannelCap                               \* RunTrace

\* The setting is a natural number, and MAX_RETENTION_DAYS fits the signed integer
\* both sweeps cast it to (retention.rs:41, privacy.rs:164).
ASSUME FilesAssumption ==
  /\ Settings \subseteq Nat /\ MaxRetention \in Nat /\ MaxDay \in Nat
  /\ {2 ^ Width, 2 ^ (Width - 1)} \subseteq Nat
  /\ MaxRetention < 2 ^ (Width - 1) /\ 2 ^ (Width - 1) <= 2 ^ Width

ASSUME LibraryAssumption == Base \in Id

\* Two projects and one state with two ways out of it, of which a store has room
\* for one.
MCProjects == {p1, p2}
MCSignatures == {s1}
MCActions == {a1, a2}

\* Three recoveries that all take one way, or two that take any; the ways only
\* differ by name, and where all take one it is the same.
OneWay ==
  \A r \in Runs : \A i \in DOMAIN queue[r] :
    queue[r][i].kind = "derive" => queue[r][i].key[2] = a1
Symmetry == Permutations(MCProjects) \cup Permutations(MCActions)

VARIABLES
    part,
    entries, running, recorded, pushIdx, subgoals, index, disk, writing, events, recent, reread,
    outside, alone, revisited,
    setting, today, starts, up, last, run, day, dirs, chat, saves, conversation, clearing,
    sweep, listed, wiped, late, cleared, raced, torn, stuck,
    pc, result, step, sent, outbox, chan, forwarder, cancelled, variant, inbox, ui

L == INSTANCE SkillLibrary
F == INSTANCE RunFiles WITH rows <- entries
T == INSTANCE RunTrace

\* A run that has the skills to itself makes three steps on three levels, enough for
\* the sketches A, B, B and A again, of one id.
Alone == outside = 0 /\ \A w \in writing : w.row.id = Base

\* Where others change them too, two steps on two levels.
Shared == /\ Len(recorded) <= 2 /\ Len(pushIdx) <= 2
          /\ \A w \in writing : w.row.version <= 2

-----------------------------------------------------------------------------
(* One part of the four; the variables of the others have no value.        *)
None == "none"
NoRows == [s \in Stores |-> <<>>]

KeptInit ==
  \/ /\ part \in {"memory", "rivals"} /\ Init
     /\ entries = None /\ running = None /\ recorded = None /\ pushIdx = None /\ subgoals = None
     /\ index = None /\ disk = None /\ writing = None /\ events = None /\ recent = None
     /\ reread = None /\ outside = None /\ alone = None /\ revisited = None
     /\ setting = None /\ today = None
     /\ starts = None /\ up = None /\ last = None /\ run = None /\ day = None
     /\ dirs = None /\ chat = None /\ saves = None /\ conversation = None
     /\ clearing = None /\ sweep = None /\ listed = None /\ wiped = None /\ late = None
     /\ cleared = None /\ raced = None /\ torn = None /\ stuck = None /\ pc = None
     /\ result = None /\ step = None /\ sent = None /\ outbox = None /\ chan = None
     /\ forwarder = None /\ cancelled = None /\ variant = None /\ inbox = None
     /\ ui = None
  \/ /\ part \in {"library", "shared"} /\ L!Init
     /\ rows = NoRows /\ project = None /\ began = None /\ now = None /\ aged = None
     /\ again = None /\ phase = None /\ queue = None
     /\ work = None /\ acked = None /\ flushed = {} /\ stopped = None /\ mixed = None
     /\ recoveries = None /\ stored = None /\ promoted = {} /\ entries = None /\ setting = None
     /\ today = None /\ starts = None /\ up = None /\ last = None /\ run = None
     /\ day = None /\ dirs = None /\ chat = None /\ saves = None /\ conversation = None
     /\ clearing = None /\ sweep = None /\ listed = None /\ wiped = None /\ late = None
     /\ cleared = None /\ raced = None /\ torn = None /\ stuck = None /\ pc = None
     /\ result = None /\ step = None /\ sent = None /\ outbox = None /\ chan = None
     /\ forwarder = None /\ cancelled = None /\ variant = None /\ inbox = None
     /\ ui = None
  \/ /\ part = "files" /\ F!Init
     /\ rows = NoRows /\ project = None /\ began = None /\ now = None /\ aged = None
     /\ again = None /\ phase = None /\ queue = None
     /\ work = None /\ acked = None /\ flushed = {} /\ stopped = None /\ mixed = None
     /\ recoveries = None /\ stored = None /\ promoted = {} /\ running = None
     /\ recorded = None /\ pushIdx = None /\ subgoals = None /\ disk = None
     /\ writing = None /\ events = None /\ recent = None /\ reread = None
     /\ outside = None /\ alone = None /\ revisited = None /\ pc = None
     /\ result = None /\ step = None
     /\ sent = None /\ outbox = None /\ chan = None /\ forwarder = None
     /\ cancelled = None /\ variant = None /\ inbox = None /\ ui = None
  \/ /\ part = "trace" /\ T!Init
     /\ rows = NoRows /\ project = None /\ began = None /\ now = None /\ aged = None
     /\ again = None /\ phase = None /\ queue = None
     /\ work = None /\ flushed = {} /\ stopped = None /\ mixed = None
     /\ recoveries = None /\ stored = None /\ promoted = {} /\ entries = None /\ running = None
     /\ recorded = None /\ pushIdx = None /\ subgoals = None /\ index = None
     /\ writing = None /\ events = None /\ recent = None /\ reread = None
     /\ outside = None /\ alone = None /\ revisited = None /\ setting = None
     /\ today = None /\ starts = None
     /\ up = None /\ last = None /\ run = None /\ day = None /\ dirs = None /\ chat = None
     /\ saves = None /\ conversation = None /\ clearing = None /\ sweep = None
     /\ listed = None /\ wiped = None /\ late = None /\ cleared = None /\ raced = None
     /\ torn = None /\ stuck = None

restMemory ==
  <<entries, running, recorded, pushIdx, subgoals, index, disk, writing, events, recent, reread,
    outside, alone, revisited, setting, today, starts, up, last, run, day, dirs, chat, saves,
    conversation, clearing, sweep, listed, wiped, late, cleared, raced, torn, stuck, pc,
    result, step, sent, outbox, chan, forwarder, cancelled, variant, inbox, ui>>
restLibrary ==
  <<rows, project, began, now, aged, again, phase, queue, work, acked, flushed, stopped,
    mixed, recoveries,
    stored, promoted, entries, setting, today, starts, up, last, run, day, dirs, chat, saves,
    conversation, clearing, sweep, listed, wiped, late, cleared, raced, torn, stuck, pc,
    result, step, sent, outbox, chan, forwarder, cancelled, variant, inbox, ui>>
restFiles ==
  <<rows, project, began, now, aged, again, phase, queue, work, acked, flushed, stopped,
    mixed, recoveries, stored,
    promoted, running, recorded, pushIdx, subgoals, disk, writing, events, recent, reread,
    outside, alone, revisited, pc, result, step, sent, outbox, chan, forwarder, cancelled, variant,
    inbox, ui>>
restTrace ==
  <<rows, project, began, now, aged, again, phase, queue, work, flushed, stopped, mixed,
    recoveries, stored,
    promoted, entries, running, recorded, pushIdx, subgoals, index, writing, events, recent,
    reread, outside, alone, revisited, setting, today, starts, up, last, run, day, dirs, chat, saves,
    conversation, clearing, sweep, listed, wiped, late, cleared, raced, torn, stuck>>

KeptNext ==
  /\ part' = part
  /\ \/ part = "memory" /\ Next /\ OneWay' /\ UNCHANGED restMemory
     \/ part = "rivals" /\ Next /\ recoveries' <= 2 /\ UNCHANGED restMemory
     \/ part = "library" /\ L!Next /\ Alone' /\ UNCHANGED restLibrary
     \/ part = "shared" /\ L!Next /\ Shared' /\ UNCHANGED restLibrary
     \/ part = "files" /\ F!Next /\ UNCHANGED restFiles
     \/ part = "trace" /\ T!Next /\ UNCHANGED restTrace

KeptSpec == KeptInit /\ [][KeptNext]_<<part, vars, restMemory>>

-----------------------------------------------------------------------------
(* The properties of each part; those of EpisodicMemory are its own, which *)
(* hold of a memory of which there is nothing.                             *)

\* The steps an extraction of SkillLibrary takes for a subgoal are those
\* recorded while it was open (apply_mutations, the two stacks).
ExtractsItsWork == part \in {"library", "shared"} => L!ExtractsItsWork

\* As long as nobody else writes, the file of a skill is a row of the index, and
\* the newest one unless a version was written again (maybe_extract_skill).
IndexIsDisk == part \in {"library", "shared"} => L!IndexIsDisk

\* The files of RunFiles are those the user wants: a sweep takes what is older
\* than the setting says and nothing else, wherever it is cut short, save a line
\* appended while it held its copy of the index and what could not be removed;
\* and what a clear of the conversation took comes back only by a save that was
\* on its way or a sweep that had read the index.
FilesAreWanted == part = "files" => F!FreshKept /\ F!SweptIsGone /\ F!ClearStays

\* What the interface shows of a run in RunTrace is, whenever the program might
\* be killed, a part of what the restarted program will read back; and when it
\* hears that a run which nobody stopped is over, the two accounts are the same;
\* the operator's decision on a disagreement is what the file will tell, wherever
\* the queued terminal record comes in.
OneAccount == part = "trace" => T!ShownIsStored /\ T!SameTrace /\ T!VerdictKept
=============================================================================
