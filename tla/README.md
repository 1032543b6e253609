# Clickweave: a verification project

TLA+ models of the parts of Clickweave whose correctness depends on the order
in which things happen, TLC runs that check them on small instances, and TLAPS
proofs of what holds for every instance. Every definition is translated from
the code; the lines it stands for are listed in `PROJECT.json` under `map`.

Paths below are relative to the repository; `agent/` is
`crates/clickweave-engine/src/agent/`, `core/` is `crates/clickweave-core/src/`
and `commands/` is `src-tauri/src/commands/`.

## The system

A desktop application (Tauri shell, React interface) in which a language model
drives the desktop through tools of an MCP server that runs as a child process.
The operator starts a run, answers approval requests, may stop it at any time,
and keeps what worked as a *skill*, a directory with `SKILL.md` and
`replay.json` that later runs replay and the model may patch. A *walkthrough*
records the operator instead and makes a draft of the recording.

| Component | State | What is hard | Modules |
|---|---|---|---|
| Agent loop, `agent/runner/` | steps, two error counters, last failure, destructive streak, subgoals, phase, recovery snapshot | counters that several handlers update differently; the order of guards; every path must use up a turn | `AgentLoop` |
| Prompts and context, `agent/context.rs`, `prompt.rs`, `prior_turns.rs` | the messages of the run | cutting to a budget without parting calls from results | `Transcript` |
| No-progress tracking, `runner/progress.rs` | last action, window of six, a pending text | what is the same situation, and who resets what | `NoProgress` |
| Permissions, `agent/permissions.rs`, the gate | the policy of the settings | precedence of rules, globs, overrides, annotations | `Permissions` |
| CDP lifecycle and focus, `cdp_lifecycle.rs`, `runner/focus.rs`, world model | the bound app, remembered URLs, evidence and its age | events queued at one step and applied at another | `CdpFocus` |
| Tool mapping and trace, `agent/tool_mapping/`, `runner/records.rs` | nodes and edges of the run | the chain over calls that add no node; descriptors of an earlier snapshot | `TraceGraph` |
| Task state and skills learnt, `runner/records.rs`, `skills/extractor.rs`, `index.rs`, `watcher.rs` | subgoal stack and stacks beside it, an index, a directory | stacks in step; index against disk, own writes against others' | `SkillLibrary` |
| Skill sketches and replay, `skills/provenance.rs`, `loop_folding.rs`, `executor/skill_runner.rs` | a sketch, a run of it | folding, references into results, resuming | `SkillReplay` |
| Skill text, `skills/parser.rs`, `emitter.rs`, `patch.rs` | lines of a file, a sidecar | ids in comments, files edited by hand | `SkillText`, `SkillFile` |
| Skill patch journal, `skills/store.rs` | the files, `.tx/` with staged files, manifest and marker | a kill between any two file operations; two commands at once | `SkillJournal`, `AtomicSkillStore` |
| Episodic memory, `agent/episodic/` | two SQLite stores, a bounded queue | what is dropped when the queue is full or time is up; promotion | `EpisodicMemory` |
| Agent session, `commands/agent/` | `AgentHandle`: token, task handle, two pending senders | check-then-act on a mutex; stop against every wait; old cleanups | `AgentSession` |
| Run trace, `run_trace.rs`, forwarder, interface | the file, the channel, the interface's account | a barrier, a stop, a verdict that overtakes | `RunTrace` |
| Run files, chat, retention | execution directories, index of variants, chat | a sweep against appends and clears | `RunFiles` |
| Skill run executor, `commands/executor.rs` | `ExecutorHandle` with a generation, the run record | a stop both cancels and aborts; cleanup by generation | `ExecutorSession` |
| MCP client, `clickweave-mcp` | request id, pipes, I/O lock | late and stray answers, a timeout in the middle of a line | `McpClient` |
| Walkthrough commands, `commands/walkthrough.rs` | session, capture task, tap, directory | a stop that works unlocked; a cancel against writers | `WalkthroughSession` |
| Walkthrough recording, `walkthrough_session/`, `core/walkthrough/` | the log, the draft | events appended late; hovers, pauses, pictures | `WalkthroughRecording`, `HoverDraft` |
| Browser tabs of a recording, `cdp_setup.rs`, `cdp_click.rs`, `core/cdp.rs` | one connection, URLs to go back to | one connection for all apps and tabs | `CdpTabs` |
| LLM client | none | its outcomes are the loop's environment | - |
| Project files, Chrome profiles, evals, platform capture, views | files | no state between requests | - |

How they interact: `run_agent` installs a token in the `AgentHandle`, spawns the
run's task, which runs the agent loop, and the forwarders that carry its events
and approval requests to the interface; the operator's commands reach the run
only through the handle. The loop calls the MCP client and the LLM client,
queues recoveries for the episodic writer, and hands completed subgoals to the
skill extractor. The interface's skill commands and the extractor write through
`SkillStore`. A recording has a capture task of its own, which uses the MCP
client, too, and a stop hands its log to the synthesis.

## Conventions

A value that may be missing is a set with at most one member. A *history*
variable is one the code does not have; properties are stated with it. An
operator with an underscore in its name (`ShouldAbort_Late`) is a deviation: a
plausible bug, used by nothing but the mutants of `PROJECT.json`, each of which
puts it in the place of the operator it is named after and has to break the
property it is listed with. Bounds are constants named `Max...`, and stand in
the guards.

## The modules

### AgentLoop

`StateRunner::run_inner` and the handlers it calls. `pc` is the await the loop
is at (`llm`, `asking`, `dispatch`, `verify`) or its head (`top`); everything
between two awaits is one action, because nothing else touches the runner.

| Action | Code |
|---|---|
| `Observe`, `StepsExhausted` | `observe_for_next_turn`, the end of the `for` |
| `LlmFails` | `?` on the chat call and on the parse |
| `TurnSkipped`, `TurnBlocked`, `TurnAsks`, `TurnDispatched` | the chain of guards before a tool call: synthetic focus, CDP lifecycle, coordinates, permission |
| `TurnDone`, `TurnReplans`, `TurnPatchMalformed`, `TurnPatch` | the other arms of `run_turn` |
| `Approve`, `Reject`, `ApprovalLost` | `request_approval` |
| `ToolOk`, `ToolErr` | `handle_tool_success_outcome`, `handle_tool_error_outcome` |
| `VerifyDone` | `verify_completion` |

The model, the tools, the operator and the vision check answer anything they
can answer. A tool call is a model value, and the sets `Observation`,
`Destructive`, ... stand for the predicates the code asks of it. `Policy` is
the answer of `permissions.rs`, which `Permissions` models; the nudges, which
change only what the model is told, are `NoProgress`.

`stateErrors` and `runnerErrors` are two variables because the code has two
counters, `state.consecutive_errors` and `consecutive_errors` of the runner, and
its handlers update them differently. The properties never read them off each
other: they compare them with `OpenErrors(steps)`, the failures in the record of
the run that no later success made good.

### Transcript

What one request to the model holds. `Compose` appends the state block and
compacts (`Folded`, `Windowed`, `Unstaled`, `Budgeted`: old state blocks, the
window, superseded snapshots and the budget, in the order of `context.rs`);
`Answer` is the reply, with the messages the code appends for its arm. The
transcript that is sent is the one that is kept, so every compaction works on
the result of the one before. A message is its role, its tool, what is left of
its body and its length in tokens. The reply with a skill patch is the arm that
panics (see Findings).

### NoProgress

Three detectors: one action repeated, a cycle of two or three actions, and a
search for a send button that finds nothing. An action is a pair of a call and
the signature of the context it was made in; the history variables `trail` and
`searched` record what was done, and the properties say when a nudge is due from
these alone.

### Permissions

`Propose` evaluates a call under a policy and passes the gate, `Answer` is the
operator's. The policy is any list of up to two rules with globs and argument
needles, overrides by tool, "allow all", and the guardrail. `Like` is the
reference definition of a glob match, with the places where its parts begin and
end, against which the loop with its backtracking is checked; `PolicyDecides`
states the precedence without the order the code looks at things in.

### CdpFocus

The steps of a run as far as they move the focus or the CDP session (`Launch`,
`Focus`, `Quit` with their skipped and managed forms), the user who may quit any
app at any time (`Exits`), and `Observe`, which mirrors the page and then applies
the queued invalidation events. A snapshot is the step it was captured at, which
is all its freshness depends on; `shifted` is the history of dispatched focus and
lifecycle calls, a turn's own and those the runner makes while it relaunches an app
(`Relaunching`), for which no event is queued. Process ids, ports and polls are an
outcome.

### TraceGraph

The table from a call with its arguments to a typed node (`NodeOf`) and from a
node to a call (`CallOf`), for every tool of `agent/tool_mapping/`; the chain of
nodes and edges that `AddNode` extends for acting calls; and the accessibility
tree, parsed from its indentation, from which `Enriched` takes the description of
the element a uid means. An argument is present, absent, empty, or of a type the
code refuses. What a node cannot carry to a call is spelled out (`SaysText`,
`SaysNobody`).

### SkillLibrary

A run pushes and completes subgoals, and a completed one is extracted:
`WriteOut` and `Install` are the two halves of the extraction, for the store and
the index are written one after the other. Between them the watcher consumes
file events (`Ignore`, `Reread`, `MarkEdited`, `Forget`), and the commands of
the interface confirm, edit, fork and remove (`Confirm`, `Edit`, `Fork`,
`Remove`); those count as changes from outside, for each command makes a store of
its own with an empty table of own writes. `revisited` is the history of ids of
which a version was written twice: a merge counts on from the newest draft of its
own sketch, not from the newest of the id (see "Seen while modelling").

### SkillReplay

`Record` is any recording of up to four calls, `Extract` makes the sketch:
values of earlier results become references, repeated polls become a loop, and
what is left is literal. `Edit` is a command that may bind a literal to a
parameter. `RunSkill` and `ResumeSkillFromFailure` start the native runner, step
by step with its loops; `InvokeSkill` validates the arguments against the schema
and substitutes them. `Written` is the reference: the calls the sketch says.

### SkillText and SkillFile

A file is its lines (headings, markers, prose, comments, fences), its steps and
its variables; its author may write any lines (`Write`) or start over
(`Rewrite`). `Apply` parses the file, checks the patch against the sections,
changes the skill and emits all of it. The properties compare what is read back,
and the sidecar with the steps.

### SkillJournal and AtomicSkillStore

`AtomicSkillStore` says what a reader may rely on: applying a patch is one step
on all files of the skill, a command returns Ok only after its patch is in, and
a patch is never taken out. `SkillJournal` is the code: every call into the file
system of `write_atomic_multi_file` is an action, `apply_committed_transaction`
is the loop of `Rename`, shared by a command and the recovery, and `Crash` may
happen between any two. A file's content is the set of patches in it, so that
lost, torn and doubled writes are told apart. The refinement mapping takes the
content of the store to `Recovered`: the staged files where marker and manifest
exist, the live ones elsewhere.

Its parameters are the questions: `Recovers` (does `Start` go on to the recovery,
which the code has but the application does not call), `Faults` (which calls may
fail), `Writer` (how many commands at once). A crash is the death of the process:
what a finished call wrote stays. Loss of power, where unsynced files may vanish, is
not modelled. The modification check of `write_atomic_multi_file` and the lint
refuse a command before it touches the journal, which is the same as a command that
never began.

### EpisodicMemory

A run recovers from a state (`Recover` queues the episode, or drops it when the
queue is full), ends or is stopped, and asks its writer to promote and to flush;
the writer takes one request after the other (`Writer`) and may outlive its run.
Rows have counters and time stamps of one second: `list_run_touched` compares them
with `datetime()`, which cuts off the rest. `Tick` lets a second pass at any time, and
a run may start in the second the last one ended in, or an hour later (`aged`, which is
what the pruning asks for). Inserting merges, evicts above `max_per_scope`; promotion
copies a row to the global store, where it keeps the time it was made. `stored` is the
history of what each run has stored, `mixed` that of the runs that started while
another's writer had work left, and `again` notes the rows that a run's store had, when
the run started, with a stamp of that very second. The global store is a file of its own
and no project's (`GlobalAssumption`).

### AgentSession

The session's handle with its two slots for oneshot senders, and for each run
its `run_agent` command (`launch`), task, approval forwarder and cleanup. A
sender is a location: `sender[r]` is where the sender of the approval request of
run `r` is (queued, with the forwarder, in the handle, taken by a command) or how
it ended (answered, or closed because it was dropped). An action is what one
thread does between two waits or under one hold of the mutex;
`approve_agent_action` is two actions, because it releases the handle before it
sends, and `resolve_completion_disagreement` is one, because it does not.

`SerialStart` says that other commands wait while `run_agent` is under way.
`run_agent` has no await between its check and the store of the task handle, so
this is what happens when one worker thread gets to serve the commands in turn;
nothing in the code enforces it, and the run `overlap` shows what happens
otherwise.

### RunTrace

Two accounts of one run: `events.jsonl`, which `run_trace.rs` reads back after a
restart (`Hydrated`), and what the interface builds from the events it hears
(`ui`, after its filter by run id). The engine sends (`Send`), the forwarder
appends and emits (`Forward`), a stop turns it to appending only (`Stop`,
`Drain`), the task waits for a barrier before it emits the end of the run
(`SendBarrier`, `EmitTerminal`), and the operator's decision on a disagreement
goes straight to the file (`Resolve`). `Show` is the interface.

### RunFiles

Directories, the index of variants, rows and the chat of a project over some
days: runs that append (`StartRun`, `Remember`, `EndRun`), saves of the chat
(`Say`, `Save`), a clear of the conversation in its steps (`Clear`,
`ClearIndex`, `ClearChat`), the sweep in its steps (`SweepDir`, `SweepReadIndex`,
`SweepWriteIndex`, ...), and `Kill` between any two. The setting is any number of
days, one too large for the integer it is cast to included.

### ExecutorSession

The executor's handle with its three slots, for each command that starts runs
how far it is (`Check`, `GiveUp`, `Install`, `StoreTask`; `run_skill` and
`resume_skill_from_failure` differ only in the steps they pass on), and for each
run, named by its generation, its task (`Begin`, `Spawned`, `StepsEnd`, `Bail`,
`Abort`, `Save`, `SendIdle`), the state events in its channel, its forwarder
(`Forward`, `Drained`, `CleanUp`), and its record. `ui` is what the interface
shows: the last `executor://state` it heard, from whatever run
(`useExecutorNodeEvents.ts:42`).

`Stop` is `force_stop`: it cancels the token and aborts the task in one hold of
the mutex, but the task sees either at its next poll. Both selects of the
dispatch are biased, so a cancelled token wins over a step that is ready
(`Bail`), while an aborted task is dropped where it waits (`Abort`); the model
lets either happen, because the poll may run between the two calls. From `Save`
on the task never waits, so an abort comes too late: the proofs show that the
channel, which has room for 64, never holds more than two states.

A record is `open` from the start of the run until its final status is saved;
which status that is, and whether the disk refuses it, is left out, and traces
are on. What the steps are is `SkillReplay`; here they end or fail.
`supervision_respond` has no receiver (`_cmd_rx` is dropped when the command
returns).

### McpClient

Every request holds `io_lock` from the write of its line to the line that
answers it. `Advance` is the next step of a request wherever it is: taking the
lock in the order of asking, writing, reading a line, skipping what is not its
answer up to the two limits, or running into its deadline, which is on the
reading alone. `Abandon` drops a request at any await. The server answers in any
order or never, chatters, or exits; both pipes are bounded. A line that is read
in part is lost with the future that was reading it.

### WalkthroughSession

A command of `commands/walkthrough.rs` holds the lock for one action at a time
(`Step`), and between two of its actions anything may happen; `Capture` is the
capture task in its set-up, loop and drain, `Record` an event of the tap or of the
click consumer, `Deliver` an event that reaches the interface, and `User` what the
interface may issue in the state it shows. `dir` is the session's directory. The drain
waits for the click consumer until its deadline and then drops the handle, which does
not end it (`capture.rs:530`): a task that leaves by the deadline is `"loose"` and may
still write, until it comes to its own end (`Settle`).

### WalkthroughRecording

Inputs into apps are captured (`Capture`), with the process they go to or without it
(`target_pid == 0`), and processed by the loop (`Process`), which records a change of
focus only if there is one (`FocusShift`), keeps the focus over an input whose process
is not known (`FocusAfter`), and leaves out what comes while Clickweave itself has it
(`Skipped`). Clicks are enriched by tasks that append whenever they end (`Enrich`,
`Join`); a click in a page is also pushed to a queue there (`Push`), known or not, and
the queue is asked, for a known one only, without saying which click is meant
(`Retrieve`, `GiveUp`). The draft is `normalize_events` of whatever the
log has, as one operator after the other: sort, shift, coalesce, draft. The
properties compare it with the inputs: `Holder` is the app an input is taken to go to,
its own or that of the last one before it that is known.

### HoverDraft

Trackers in the MCP server and in each page remember where the pointer rested,
and are fetched after the recording; pauses are read back from the log; hovers
become candidates and find their places among the actions; two kinds of tasks
mark pictures and name what they show (`Mark`, `Name`), in any order.

### CdpTabs

The set-up takes the apps one after the other: probe, quit, wait, force, launch,
wait for the port, connect, install the listeners, look for the tab. The consumer
goes back to the app and tab of each click. After the recording the drain waits for
the consumer until its deadline (`Drain`), and the hovers are fetched, one app after
the other: connect, go back to the tab, stop the listener, retrieve, disconnect
(`ConnectForHovers` to `LeaveApp`). There is one connection; a connection may fail or
come about too late for its caller, a disconnect may fail unseen, an app may quit at
any time, tabs are opened, closed and navigated. The cancellation is a watch channel
that whoever awaits it first consumes. A consumer the drain has given up goes on beside
the retrieval. Two history variables say so, `late`, and whose connection the other
has tried to replace since it made it, `crossed`; what the properties promise, they
promise of a task that is not `Mixed` up in this way.

### MC modules

`MCAgentLoop`, `MCAgentSession`, `MCExecutorSession`, `MCSkillJournal`, `MCMcpClient`,
`MCTranscript` and `MCWalkthroughSession` name model values, sets and symmetries of
one module. `MCKept`, `MCRecorded`, `MCTurns` and `MCCalls` each check components that
do not interact in one run: a variable `part` picks one of their instances in the
initial state and stays, the variables of the others are `"none"`, variables of the
same name are one variable, and every property is masked by its part. In `MCKept` the
properties of `EpisodicMemory` are checked as they are, and what they read is empty in
the other parts, so that they say nothing there. Nothing is composed by this but the
state spaces, whose sum is what TLC explores. The bounds of `MCKept` and `MCTurns` are
constants with values in their configurations, so that `MCKept_proofs` and
`MCTurns_proofs` can prove properties for all of them; the two bounds of the library
(`Alone`, `Shared`) hold back the steps of the two parts that explore it. So are the
constants of `CdpTabs`, which stand in `MCCdpTabs` with what is checked of the tabs,
so that the proofs about them can name it; `MCCalls` extends that module. The other
bounds of `MCCalls` and those of `MCRecorded` stand in the `INSTANCE ... WITH` of the
module.

## The runs

| Run | Component | Shows | Bounds |
|---|---|---|---|
| `loop` | `AgentLoop` | `ErrorBudget`, `RepeatHalts`, `RecoveryTold`, `OnlyPermittedRun`, `HeldOnlyByOperator` | four calls, one of each class (observation; destructive and asked; denied, skippable and coordinate; managed), two error texts, `MaxSteps` 4, `MaxErrors` 3, `Cap` 2 |
| `kills` | `SkillJournal` | `ImplementsAtomic`, `QuietIsWhole` with recovery on every start | three patches, two files, three kills |
| `session` | `AgentSession` | `OneRunAlive`, `Stoppable`, `AnswersKept`, `SessionReopens` | three runs, any number of requests in each |
| `overlap` (violation) | `AgentSession` | two runs alive at once | two runs |
| `executor` | `ExecutorSession` | `OneRunWanted`, `UiSettles`, `StopEnds` | three runs, one command at a time |
| `walkthrough` | `WalkthroughSession` | `ReviewIsStopped`, `CancelledIsGone`, `CommandsReturn` | two sessions, two commands at once, four in all, one event on its way |
| `requests` | `McpClient` | `OwnAnswer`, `OnlyStraysDropped`, `RequestsEnd` | three requests, limits of one, pipes of two lines, one stray |
| `kept` | `EpisodicMemory` | `FlushedIsStored`, `PromotedIsEarned` | two projects, one state, two runs, two seconds, a queue and a store of one; one way out and three recoveries, or two ways and two recoveries |
| | `SkillLibrary` | `ExtractsItsWork`, `IndexIsDisk` | one id, three steps, three levels and three versions without changes from outside; two ids, two steps, two levels and two versions with one |
| | `RunFiles` | `FilesAreWanted` | two runs, three days, two starts, one clear; a retention that is off, of a day, and one that does not fit |
| | `RunTrace` | `OneAccount` | two phases, two events, a channel of two |
| `recorded` | `WalkthroughRecording` | `RecordedAsDone`, `EnrichedInPlace` | three inputs, one without its process, into a native app, an Electron app recognised late, and Clickweave; two clicks, one input waiting, two events of enrichment |
| | `HoverDraft` | `HoversHappened` | two apps, two places, two hovers, two events, three moments |
| `turns` | `SkillFile` | `RoundTrips`, `PatchesLand` | files of two blocks, 52 kinds of blocks, one edit |
| | `Transcript` | `ModelIsTold` | four turns, a window of two pairs, a budget of 14 tokens |
| | `SkillJournal` | `TornIsLeftAlone` | never recovered, renames and removals that fail, three patches, two files, three kills |
| | `Permissions` | `PolicyDecides` | six tools, every pattern of up to three characters, two rules |
| | `CdpFocus` | `FocusIsTrue` | a native and two Electron apps, four steps |
| | `NoProgress` | `ToldWhenStuck` | two actions, three states of the page, thresholds of three, patterns of up to three |
| `calls` | `TraceGraph` | `PathOfTheRun` | every tool with up to two arguments, trees of two and of four lines, three calls |
| | `CdpTabs` | `TabsAreRight`, `SetUpEnds` | two browsers, in one of which tabs are opened, closed and navigated, three addresses, two tabs, one click |
| | `SkillReplay` | `ReplaysAsRecorded` | recordings of four calls out of five, three layouts of sections |
| `patched` (violation) | `Transcript` | a well-formed skill patch panics the run | four turns |

Why the bounds are enough. `loop`: four turns hold an error, its recovery, and a
second failure after it, or a streak that reaches the cap with something in between,
or `MaxErrors` failures and one turn more; a third call of a class adds nothing the
sets tell apart. `kills`: two files are enough for a torn skill, three patches for a
third command to find what two left behind, three kills for a kill during a recovery
from a kill during a recovery. `session` and `executor`: three runs let the cleanup
of the first meet the third. `walkthrough`: the second session is the one a command
of the first may mistake for its own. `requests`: the third request reads what the
timeout of the first and the death of the second left in the pipe. `kept`: two
recoveries make a promotion and a third tells a double count from a new one; in two
seconds the second run starts in the second of a row or after it; a queue of one is
full when two requests come; three steps and three versions allow the sketches A, B, B,
A of one run, after which the index and the disk have different versions. `recorded`: a
click, its enrichment and another input in between, before and after; one input whose
process is not known, first, after Clickweave, or between two apps. `turns`: two blocks let a marker of one stand in the other; four turns
let a pair leave the window, be collapsed, and be cut. `calls`: a cycle of three,
gone through twice, with a fourth action to tell it from a repetition; a poll, its
repetition, and a step that refers to it.

No run checks for deadlock but `loop`: everywhere else the system stops for good
when the bounds are used up. Symmetry is used in runs without liveness only, over
values that differ by name alone. No configuration replaces a definition.

## Fairness

`AgentLoop`: the runtime polls the run's future; a call to a tool returns or
times out after 60 s (`clickweave-mcp/src/client.rs:17`), a call to the model
after the timeout of its HTTP client. `request_approval` waits without a
timeout, so nothing is assumed of the operator, and `HeldOnlyByOperator` says
exactly that: a run ends, or it waits for ever at a request.

`AgentSession`: a spawned task that can take a step takes one; a command that
began goes on. No fairness on `Stop`, on `EnsureIdle`, on the operator's answers,
on `Boot`, or on the turns of a run: a run that is neither stopped nor finished
may go on. `SessionReopens` is therefore about stopped and finished runs.
The select on the token is weakly fair although it is not biased: tokio polls
both of its branches each time the task wakes, so a cancelled token that stays
cancelled is seen.

`ExecutorSession`: the runtime polls a spawned task when it can go on, so the
task of a stopped run, its saving and sending, and its forwarder are fair. Not
fair are the commands, `Stop`, the start of the MCP server and the end of the
steps, which may hang: `StopEnds` is about stopped runs.

`McpClient`: a request that can go on does, at the latest when its deadline
passes; the lock is tokio's, which is given in the order of asking; the server
reads its input, or the write of a request, which has no deadline, would hang for
good. The server need not answer, and the callers need not ask.

`WalkthroughSession`: the commands in flight, the capture tasks and the delivery
of events go on; every call they wait for has a deadline. One condition for all
commands is enough, since each has finitely many steps. The user and the desktop
owe nothing.

`CdpTabs`: the set-up, the click consumer and the end of the recording go on, since
every call they make is answered or times out and the drain has a deadline. The apps
need not quit when they are told to, and nobody need stop the recording.

The other modules are checked for safety only.

## The proofs

Eight modules hold the theorems. Six stand beside the component they are about, the
others beside a run: `MCKept_proofs` beside the run `kept`, for `EpisodicMemory`,
`SkillLibrary`, `RunFiles` and `RunTrace`; `MCTurns_proofs` beside the run `turns`,
for `CdpFocus`, `Permissions`, `NoProgress` and `Transcript`.
`WalkthroughSession_proofs` is also the place of `CdpTabs`. None of them assumes
anything of the constants but the named assumptions of the component or of the run's
module, unless its statement says so. A theorem about a safety property has three
parts: the inductive invariant holds at the start, every action keeps it, and it
implies the property. An invariant that was not plain was first checked by TLC on the
instance of the component's run.

**`AgentLoop_proofs`**: all sets of calls, policies, texts and limits. The
properties are about the whole record `steps`; the code only keeps counters and
the last failure.

- `AgentLoopTyping`, `ErrorBudgetHolds`, `RepeatHaltsHolds`, `CapExactHolds`.
  `ErrorBudget` is inductive once the types are known. `RepeatHalts` needs that
  the last failure is the last open error of the record and that no two
  neighbouring open errors of a running loop are equal (`LoopInv`); `CapExact`
  that the streak is the number of live destructive successes at the end of the
  record, below the cap while the loop goes on (`CapInv`). Each is kept by
  `Append` according to the outcome appended: an error adds one open error, a
  success removes them all, a rejection changes nothing. These three facts are
  the lemmas the step theorems rest on.
- `OnlyPermittedRunHolds`, an action property: a dispatch comes from a turn that
  passed all guards, or from an approval, and the operator is only ever asked
  about a call that needs it (`Asked`).
- `RecoveryToldHolds`. The entry of an episode is taken when the phase turns to
  Recovering and used turns later, when a call succeeds. `EpisodeInv` relates
  three things that different handlers set: the phase, what makes a turn one of
  a recovery (`Due`: open errors, or a replan just now) and whether the entry is
  younger than every success (`Fresh`). During a turn the first two agree and
  imply the third; between two turns the phase may lag behind, in one direction
  only. Without the second part the invariant is not inductive.

**`SkillJournal_proofs`** has four parts, by what they assume beside
`JournalAssumption`.

- Nothing more: `JournalTyping` and `OneLandsHolds`, for any number of writers,
  any failing calls, any kills, recovered or not. The marker's `create_new` is
  the whole reason: `Guarded` says that it exists while a task is at the live
  files, that this task is the only one, and that the recovery runs alone.
- `Unharmed` (no kill, no failing call), any number of writers:
  `MarkerReleasedHolds`. The marker always belongs to a task that will remove it
  (`Held`).
- `Undisturbed` (one command at a time, recovery on every start, no failing
  call), any number of files, patches and kills: `JournalImplementsAtomic`,
  `QuietIsWholeHolds`, `NoneFailsHolds`. The inductive invariant `JournalInv`
  says, for each place a task may be at, exactly what `.tx` holds (`Journal`),
  what the writer has computed against the live files (`Computed`), that a
  marker found after a kill comes with its manifest and directory (`AtRest`), and
  that what a recovered reader finds agrees in all files (`Consistent`). One
  lemma per action shows that it is kept and what the step does to `Recovered`:
  the creation of the marker is `Apply`, the return of a command is `Ack`, and
  every other step, a kill included, is a stutter of the atomic store. So the
  refinement is proved step by step, for every instance.
- `Unrecovered` (one command at a time and nothing that ever recovers, which is
  what the application does today), any failing calls, any kills:
  `TornIsLeftAloneHolds`. Files that differ are guarded by the marker
  (`Marked`), and how far a command has come says what it has read, staged and
  moved (`Progress`). With a recovery whose renames fail the property is false:
  the recovery gives up at the rename, and what a later command staged before it
  failed at the marker is landed by the next recovery.

Each assumption of the third part is necessary: with TLC, `QuietIsWhole` fails
without the recovery, with a failing rename, and with a second writer.

**`ExecutorSession_proofs`** has two parts, for any number of runs.

- For any number of commands at once: `ExecutorTyping`, `StoppableHolds`,
  `NotLockedOutHolds`, `UiSettlesHolds`. The inductive invariant `SessionInv`
  says that runs not yet started left no trace (`Unstarted`), that the token is
  the newest run's or none (`Handle`) and is there while that run is alive and
  not stopped (`Newest`), that a forwarder closes only after its task is gone
  (`Closed`), what each channel may hold given where its task is (`Queue`), and
  that a forwarder which still owes an idle stands behind every `running` that
  is shown (`Shown`).
- For commands one at a time (`OneAtATime`): `OneRunWantedHolds` and
  `AccountedHolds`. `SerialInv` adds that a command past its check still finds
  the handle free (`Turns`), that a driving run nobody stopped has the handle
  (`Lone`), and hence that only cancelled runs are dropped (`Dropped`). With two
  commands at once both properties fail: the check and the installation are two
  critical sections, as in the session's finding `overlap`.

**`AgentSession_proofs`**: any set of runs, any number of requests and rulings.

- `SessionTyping` holds however the commands overlap.
- `OneRunAliveHolds`, `StoppableHolds` and `AnswersKeptHolds` assume
  `SerialStart`. A run is *active* from its check to its cleanup; one is at a
  time (`OneActive`), and the handle holds exactly what belongs to the active
  run at its stage (`Handle`): that the cleanup, which runs after the task and
  both forwarders and does not look whose slots it empties, empties its own. For
  the answers, `Requests` and `Rulings` say who may hold a sender given where the
  task and the forwarder are; a sender is dropped after a stop only, because the
  forwarder listens until then (`Forwarder`). The run `overlap` shows that the
  assumption is needed.

**`McpClient_proofs`**: any set of requests, finite or not, any limits, any noise
and any failures of the server.

- `ClientTyping` and `OwnAnswerHolds`: `io_lock` is held by one request
  (`Mutual`), and ids are handed out in order (`Numbered`).
- `OnlyStraysDroppedHolds` is an action property and the hardest of these. An id
  that is due is in one place only: on its way to the server, at the server, or
  answered and unread (`Unique`). It belongs to the request that waits for it or
  to one that was given up (`Owed`), so no answer is stolen. And a request has
  not read more strays than were sent unasked or settled for a request given up
  (`Paid`), so its limit of mismatches can only be used up by others. The
  counting needs the set of requests given up before one to be finite, although
  `Call` need not be: it maps one to one into the ids below its own.

**`WalkthroughSession_proofs`** has two parts. The first is about the session: any
number of recordings and of commands at once.

- `WalkthroughTyping`, `ReviewIsStoppedHolds`, `CancelledIsGoneHolds`. Recordings
  are numbered as they are asked for and each is started by one command
  (`Numbered`); one whose command has not had the lock yet is known to nobody
  (`Begun`), which is what keeps a stop of an older recording from being taken
  for its own; a stop that found a session has given its signal, and a recording
  that still runs has been given none (`Signalled`); and a recording that was
  cancelled is out of the session and of every stop, and its directory is gone or
  the command that will remove it is on its way with nobody left to write into it
  but a consumer that was given up, and one that has done so is `overtaken` (`Gone`).

A second part is about `CdpTabs`, for any list of apps but the empty one
(`AppsAssumption` of `MCCdpTabs`; the code's list is that of the apps the user has
chosen), any addresses and any bounds on what is polled and on what the user does.

- `TabsHold` and, in the words of the run `calls`, `TabsAreRightHolds`. There
  is one connection; while scripts are installed it is to the app they are for, while
  a click is looked for to the app of the click, and while hovers are fetched to the
  app they are fetched from, because each of the three begins with a connection of its
  own and whatever goes wrong later leaves that one or none (`Connected`). The fetch
  begins when there is no click left to look for, unless the drain has given one up
  (`Fetching`); from then on each of the two that connects marks the other as crossed,
  which is the exception of the property. The tabs of an app differ in their numbers, which a new tab takes
  from one counter, and the queue of a tab holds clicks into its app only
  (`TabsOf`): with that, the queue that is read through the connection holds clicks
  of the app that is asked about. An app has one address to go back to
  (`Remembering`), and when a single tab shows it, the first of the three searches
  finds that tab and no other.

**`MCKept_proofs`** has five parts. The first is about `EpisodicMemory`, for any
projects, signatures, actions, any number of runs and recoveries, any length of the
queue and size of a store.

- `MemoryTyping`.
- `FlushedIsStoredHolds`: a flush is the last request of its run, in the queue and
  at work, and nothing is handed to a writer after it (`LastWord`).
- `PromotesItsOwnHolds` and `PromotionEarnedHolds`: a writer at work is the last
  run's, or it was at work at every start since, so all of those runs are `mixed`
  (`Behind`). Hence every row was stored by a run of its project such that each later
  run of the project either began after the second of the row, or found the row there
  when it began in it, or began while a writer was behind (`Met`, `Foreign`, `Traced`,
  `Listed`); seconds and runs only grow (`Grows`, `Noted`). And a row with a count of two was met twice in its project, which the merge, the pruning,
  the promotion and the confirmation from another project all keep. Rows of one
  key are promoted under the key of their state alone, which is why the property
  names the actions by a quantifier. `PromotedIsEarnedHolds` states the two
  together, as the run `kept` checks them.

The second is about `SkillLibrary`: any tools, ids, depths and versions.

- `LibraryExtracts`: the stack of push indices and the subgoals change
  together, and what was recorded since an index grows with what is recorded.
- `LibraryTyping` and `LibraryIndexed`, for an id that skills start from
  (`Base \in Id`): while nothing came from outside and no own event was late
  (`OwnEvents`), every skill of the index has a file and one that is no draft has
  one row (`OneFamily`), what is being written is a draft above drafts and newer
  than they are (`NewDraft`), and outside the two halves of a write the file is
  the newest row (`FileIsRow`). The attempt to prove the property as it first
  stood, without `revisited`, failed for a good reason: a run that extracts the
  sketches A, B, B, A writes version 2 twice, which instances with two versions
  are too small to show. The property now says what holds, and the instance has
  three.

The third is about `RunFiles`: any settings, any number of runs, days, starts and
clears, and any episodes. `FilesAssumption` says that the cap on the setting fits the
signed integer the code casts it to; the powers of two are two given numbers there,
because the prover does not know `^`.

- `FilesKept`: the three properties of `RunFiles`. The inductive invariant
  `FilesInv` follows the sweep. While it goes on the date stays (`SweepHere`), or what
  was spared might have become old. What it has removed was old (`RemovedAreOld`), and
  a line whose directory is gone is one it will drop, or one whose sweep was killed
  first (`LinesHaveDirs`); a run that is under way has no line yet, so the overwritten
  index can lose only a line appended in between, which is what `raced` records
  (`FreshAreThere`). What lies behind the sweep is fresh or stuck (`SweptSoFar`). The
  rows are the hard part: the sweep reads them once and judges each by the references
  it read, while a run may add references. `RowsShow` says that an episode has one row
  at most and that its references include those selected, so a row that is merged
  meanwhile is judged by less than it refers to, and what is left has a directory to
  show.

The fourth is about `RunTrace`: any number of events and phases, and any room in the
channel.

- `TraceKept`: the three properties of `RunTrace`. What a restart reads back is a fold
  over the file (`Read`), and the community modules define a fold by a `CHOOSE` of a
  recursive function, so the proof first needs that there is one. It comes from the
  library's theorem that `<` is well-founded on the natural numbers: every set that
  has 0 and with each number the next is all of them (`NatSet`), hence a function for
  every first value and every step (`NatRecursion`), hence one that takes a set of
  numbers from its largest down, as the fold does (`SetRecursion`). With it, one more
  line in the file is one more `Handle` (`ReadGrows`), and what the drain writes at
  once is written message by message (`DrainAdds`).
  The inductive invariant `TraceInv` then has two halves. The shown account: the
  interface lags behind, so it is not enough that what it shows is a part of the file;
  `Heard` says that what it will show after each of the events on their way is one,
  and that after the last of them it has all of it, as long as the forwarder writes
  and emits. The end follows everything else through the barrier, which is the last
  that is sent (`BarrierLast`), and is said once (`OverOnce`). The word of the end:
  before the verdict nothing in the file, the channel or the outbox settles it
  (`Undecided`), so the operator's decision, which overtakes the queue, is the first
  hard word, and a later fallback cannot replace it (`Ruled`); a run that completed or
  was capped has its own word in the file or on its way and no other (`Worded`), one
  that was halted the terminal record (`HaltTold`), and the index has one entry
  (`Entered`).

The fifth carries these theorems to the behaviours the run `kept` checks: a behaviour
never changes its `part`, its steps are steps of the component (`FilesPart`,
`TracePart`, `LibraryPart`), and in other parts there is nothing to show. So `FilesAreWantedHolds`, `OneAccountHolds`,
`ExtractsItsWorkHolds` and `IndexIsDiskHolds` are about the very definitions of the run,
for every value of its constants.

**`MCTurns_proofs`** has five parts. The first is about `CdpFocus`, the desktop as the
loop shows it to the model: any apps, any time to live and any number of steps.

- `FocusShows`: what the prompt shows was captured after every focus or lifecycle
  call, the runner's own quits and launches included, but for a relaunch in a turn
  whose own call the harness answered (`Unannounced`); no snapshot in it is too old,
  and its page is one of the session the server
  has. The property alone is not inductive, because a call is made in one step and its
  event is applied in another: `FocusInv` says that a snapshot from before the call is
  only kept while the event is still queued (`After`), that a turn has nothing
  queued (`Unshown`), and that while the runner works on an app, the event of the
  turn's own call, if it made one, is queued (`Announced`): that event is what covers a
  relaunch, which queues none. `TurnStep` says of all actions but the observation what
  they may do to the evidence and the queue; `ObserveStep` that the observation drops
  what it must.

The second is about `Permissions`: any rules, any number of them, patterns and names of
any length, any overrides and tools. `PolicyAssumption` says what they are made of, and
that an override is for a plain name, since its key is the name of a tool
(`PermissionPolicyWire::per_tool`), which holds no `*` or `?`; an override for a name with a star would
be a glob, and the property would then be false of the code.

- `PolicyHolds`. Three computations stand between the code and the declarative policy,
  and each needs an induction, which is had from the well-founded order on the natural
  numbers (`NatSet`). `glob_match` walks two indices and backtracks: `GlobIsLike` shows
  by induction on what is left of the pattern and the text that the walk answers
  whether there are places where the parts of the pattern begin and end (`LikeUnfolds`,
  with a cut added or taken off in front). The rules are folded in their order:
  `CombinedIsStrictest` shows that what comes out is the strictest action of those that
  match, so no rule's place in the list matters. An override is a pattern that matches
  its own name only (`LiteralIsLike`), so appending the overrides as rules says what
  they say (`RulesSay`). What `evaluate` and the gate make of this is by cases
  (`EvaluateDecides`, `GateInv`).

The third is about `NoProgress`: any actions and contexts, any thresholds and any
length of cycles. `ProgressAssumption` says that the history, of twice the longest
cycle, holds a repetition that is told of.

- `NudgesTrue`. The loop keeps a count, the actions in the context of the last one, and
  a count of searches; the history has every action and every search. `Tells` relates
  them from the end backwards (`Back`): what is kept is the end of the history, of one
  context, and goes back as far as that context does, and the count as far as the
  repetition does, or the window is full. So the threshold is met by the one exactly
  when by the other (`CountTells`), and the loop's search for a cycle, which counts from
  the start of two passes, finds the cycles of the history in one context
  (`CycleIsCycleOf`, `CycleTells`). Of the searches, the text is forgotten exactly when
  one was made in another context, and else the count is the number of the last ones
  that found nothing (`Searching`).

The fourth is about `Transcript`: any sizes, budgets, logs of earlier runs and window
of at least the current step (`TranscriptAssumption`), and runs of any length.

- `TranscriptHolds`. A sequence of messages in which every result follows its call and
  every call has its result is a talk (`Talk`); two of them one after the other are one
  (`TalkJoined`), and what changes no call, role or tool of one leaves one (`TalkKept`).
  The passes of `compact` are then taken one by one, each with what it does to the last
  two messages: folding the snapshots cannot take the newest result (`FoldedFacts`); a
  step that leaves the window is collapsed with its results, since a call and its
  result are of one step (`StepIsTalk`), and the current step stays as it is
  (`WindowedFacts`); of the state blocks the last stays (`UnstaledFacts`); and when a
  message is cut to the budget, everything before it has been (`BudgetedFacts`). The
  window and the cutting are recursions over the messages, so that there is a function
  for each is shown first, by induction on the numbers (`NatSet`). Between requests the
  last message is the result of the last action or the replan, unless a skill was
  invoked (`LastTells`); `CompactFacts` carries it into the next request.

The fifth carries theorems to the behaviours the run `turns` checks, as in
`MCKept_proofs`: `FocusIsTrueHolds`, `PolicyDecidesHolds`, `ToldWhenStuckHolds`,
`ModelIsToldHolds`, and `TornIsLeftAloneHolds`, which is the theorem of
`SkillJournal_proofs` for a program that never recovers, with one writer (`OneWriter`).

Proved, and not among the properties of a run: the types, `CapExact`, `NoneFails`,
`OneLands`, `MarkerReleased`, and of the executor `Stoppable`, `NotLockedOut` and
`Accounted`.

Only model-checked:

- Liveness, which is out of the prover's reach with fairness and `ENABLED`:
  `HeldOnlyByOperator`, `SessionReopens`, `StopEnds`, `CommandsReturn`,
  `RequestsEnd`, `SetUpEnds`.
- The safety of `TraceGraph`, `SkillReplay`, `SkillFile`, `WalkthroughRecording` and
  `HoverDraft`. They compute with sequences of arbitrary length: what a recording
  becomes is sorted and coalesced, a file is split and put together again. What such a computation yields for every input is shown by
  induction over data. The library's induction theorems take an operator, which the
  installed provers cannot instantiate; the way around it that the proofs about
  `RunTrace`, `Permissions` and `Transcript` take, a set of numbers for the operator,
  costs a lemma for each recursion.

No module uses `RECURSIVE`.

## Findings

- **The start of a run is not atomic** (`overlap`). Three critical sections, and
  a second command between them leaves two runs alive, of which one cannot be
  stopped; the command promises "Already running"
  (`src-tauri/src/commands/error.rs:69`), and its comment (`commands.rs:392-394`)
  that the cleanup prevents "stale event leakage".
- **A skill patch panics the run** (`patched`). `run_turn` reports an applied
  `skill_patch_*` as a tool success, and `loop_control.rs:921` takes everything
  but a tool call to `unreachable!("ToolSuccess outcome implies ToolCall action")`.
  `docs/reference/engine/execution.md:77` describes the pseudo-tools as
  "dispatched to `apply_skill_patch`".

## Seen while modelling

The models have the behaviour below; no run is kept for it. Line numbers are
those of this commit.

Agent loop, prompts and focus

- A success resets the runner's error counter (`turn_runtime.rs:94`) and not the
  state's, from which a blocked call counts on (`loop_control.rs:542`): error,
  success, blocked call aborts a run with a budget of two, "Aborted after 2
  consecutive errors" (`agent/types.rs:565-567`; `:301` has "Maximum consecutive
  errors before aborting.").
- `handle_permission_gate` lets tools that only look pass before it asks for the
  policy (`loop_control.rs:686-688`); `PermissionsTab.tsx:161` says "Rules apply
  to any tool matching the glob. Deny beats Ask beats Allow". Without a gate "ask"
  runs unasked, and annotations that contradict each other skip the guardrail.
- A relaunch for CDP quits and launches the app without an invalidation of its own
  (`runner/cdp_lifecycle.rs:581-656`), against `tool_classification.rs:46-47` "`observe()`
  drains a `FocusChanging` event for each". After a launch or focus that was dispatched,
  the event of that call covers it; after one the harness answered itself, the pictures
  and elements of the app that was quit stay in the prompt until they age
  (`Unannounced` in `CdpFocus`).
- The guard of coordinate primitives lapses when the observation of the page has
  failed (`runner/cdp_lifecycle.rs:251`).
- The nudge of a repetition replaces that of a search; failures, replans and
  completed subgoals do not reset what is kept of a search; cycles are found up to
  a length of three and in one context.
- A pair that was collapsed to a brief line is collapsed again at the next turn, to
  "action=text tool=unknown outcome=", although the line is there to name the action
  and the tool (`context.rs:739-742`); the result of a failed `invoke_skill` right
  after a snapshot is omitted; "only the most recent snapshot is retained at full
  fidelity" is untrue once there is a newer pair.
- `ttl_steps` of the elements is never enforced. The engine's `remembered_url`
  (`cdp_lifecycle.rs:171`) is never used, and a random port is taken for free.
- The call that reaches the destructive cap never gets a node of the trace
  (`loop_control.rs:967-973`). `focus_window` with an empty name is not readable
  back, the text of a click by text and the dwell of a hover are lost when
  written, numbers are cut to 32 bits, names with quotes in the accessibility tree
  are cut; the trace graph has no reader outside of tests.

Sessions, traces and files

- The answer to an approval carries no id of the question (`commands.rs:472`).
- A skill run that is stopped is as a rule aborted before it saves its record,
  which then says `ok` without an end (`executor.rs:38`, `skill_run.rs:72`). The
  idle made up for an aborted run may reach the interface after the `running` of
  its successor (`executor.rs:288`). A stop between the installation of a run and
  the store of its task handle answers "No workflow is running" although it
  cancels the run. `run_tool_call` ignores `_requires_approval`
  (`skill_runner.rs:143`) against `execution.md:20` and `:32`.
- `disagreement.rs` says "The Tauri event forwarder has already exited by this
  point", which it need not have. A stop after `goal_complete` may leave Complete
  in the file and Stopped in the interface; errors and cancellations leave no
  terminal record; the index of variants may say success where the trace has lost
  it; `AgentEvent::Error` is never sent.
- The sweep races with appends (`retention.rs:120`) and with a clear; killed
  between the removal of a directory and its tombstone it leaves the lines; ages
  count from `created_at`; `agent_chat.json` is not subject to retention. Saves of
  the chat may overlap, and opening a project races with itself
  (`projectSlice.ts:50-115`); a clear during a live run makes its later events
  stale.
- A partly read line of the MCP server is lost with the future that was reading; the
  cache of the tool list is written after the lock is released; a write has no
  deadline; no caller respawns the server on `McpError::Timeout`, though comments
  say so.

Skills and memory

- Nothing runs `recover_atomic_writes` (`store.rs:284`) but tests;
  `execution.md:89` says it runs on `load_all`. A write after a failed rename
  removes the staged files of the committed transaction (`store.rs:222`, against
  `:252-253`). Two commands tear a skill: each removes what the other staged, and
  a staged file that is gone counts as moved (`store.rs:191-195`).
- The extractor says "Files are immutable once written, so the merge emits a
  fresh version rather than mutating the source row", but `merged.version += 1`
  counts from the newest draft of the same sketch: the sketches A, B, B, A of one
  run write version 2 twice, and the newest row of the index is B in version 3
  while the file is A in version 2. A confirmed skill may be overwritten by an
  extraction (`extractor.rs:169-170`, against `:112-114`).
- Writes of the interface's commands during a run are taken for outside edits and
  set `edited_by_user`, as does an own event that comes more than 100 ms late; a
  delete event after a new extraction drops a row that the disk still has.
- Two values under one key of a result share a capture (`provenance.rs:46-61`,
  `:177-183`), so a reference may name the other one (against `:3-6`); folding joins
  any equal calls, acting ones too, and drops the captures of the later rounds, to
  which later steps may refer (`loop_folding.rs:18-33`, against `:4-6`). A folded
  poll run by the native runner always ends in "max_iterations exceeded"; steps
  before the first section are never resumed; the runner substitutes no variables;
  `requires_approval` of the sidecar (`patch.rs:267`) never reaches the sketch;
  defaults are not checked, and enums for strings only; `invoke_skill` takes
  sketches of one call only.
- `next_section_marker` searches all later lines (against `parser.rs:206-208`,
  `:260-261` "next non-blank line"); the emitter takes `####` for a heading, drops
  text before the first heading and other comments, and honours code fences that
  the parser ignores (`parser.rs:12-13`); the lint uses the sections before the
  patch and never checks references in arguments; `Reorder` with "__reorder__" is
  always refused (`patch.rs:565`, against `prompt.rs:565`).
- `read_skill_at` ignores the version (`skills.rs:191-201`),
  `save_run_as_skill` overwrites a skill of the same name, and `add_run_to_skill`
  keeps the state, ignores the version and resets the replay.
- Rows of a writer that lags behind are stamped after the next run's start, and
  `datetime()` cuts the stamps to the second (`store.rs:183-185`), so a row stored in
  the second in which a later run starts passes for that run's: a clean run without a
  recovery may promote old rows (against `episodic/types.rs:239-243`). Both are the
  exceptions `PromotesItsOwn` names. The references of a row are read and written
  without a transaction.

Walkthroughs

- A click consumer that does not end before the deadline of the drain is dropped, not
  aborted (`capture.rs:530`, unlike the enrichments, `:545`). It may write into a
  recording whose cancel is removing the directory, which then leaves `events.jsonl`
  behind (against `walkthrough.rs:717-718` "so we don't leave it behind"), and it
  shares the connection with the retrieval of the hovers, so that a click may be
  answered from the app whose hovers are fetched. Both are the exceptions that
  `CancelledIsGone` and `TabsAreRight` name.
- A cancel between the two locks of a start finds no tap to stop
  (`walkthrough.rs:250`), and it runs on, against `walkthroughSlice.ts:237-238`
  "so we don't leak a recording the user already asked to abandon".
- A cancel during Processing does not wait for the writers of the stop
  (`walkthrough.rs:718`); an error of `read_events` leaves the session in
  Processing; late replies can leave the interface in Review without a session;
  states are emitted after the lock is released; the set-up of the apps may
  consume the cancellation.
- An event without a process id is filed under the app that had the focus before it,
  and dropped after one into Clickweave (`capture.rs:385`); its click is pushed by the
  page but not asked for, and the elements that were clicked are paired with clicks by
  order (`capture.rs:171`), so it goes to the next click; a focus corrected
  with a click's time stamp cuts off the pictures of that click, and only the last
  one is corrected.
- A marking that fails keeps the name of a deleted frame
  (`walkthrough.rs:467-480`); the title of a hover is that of the app's last
  focus; the scale of the frame before is used for the one after; marked pictures
  are marked again.
- The tab to go back to is found by URL alone (`core/cdp.rs:55-62` "so retrieval
  always hits the right tab"); a server without `cdp_connect` reports Done without
  the status of each app.

## Not modelled

The global scope of skills and moves between scopes, the scores of retrieval and
the proposals, writes checked against modification times, `save_run_as_skill` and
`add_run_to_skill`, `evaluate_loop_predicate` and `update_skill_stats` (no
caller); `strip_recording_bar_click`, `target_resolution` and
`apply_walkthrough_annotations`; `tools_in_scope` and the wording of prompts; runs
with traces off; `refresh_invalid_fields`; the LLM client, whose outcomes are the
loop's environment; project and Chrome commands, evals, the capture of the
platform, and views, which keep no state that others depend on; and loss of
power, which would need a model of what the file system syncs.

## Plan

Modelled and checked: all components of the table but the last two. Proofs still
worth having, in this order: the path of a run in `TraceGraph`; and what
`SkillReplay` skips and repeats.
