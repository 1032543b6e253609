----------------------------- MODULE MCRecorded -----------------------------
(***************************************************************************)
(* A walkthrough and its draft, each by itself: what the recording keeps   *)
(* of the inputs (WalkthroughRecording), and what the stop makes of the    *)
(* hovers and the pictures (HoverDraft).  A behaviour is one of one of     *)
(* them; the variables of the other have no value, and variables of one    *)
(* name are one.                                                           *)
(***************************************************************************)
EXTENDS WalkthroughRecording, TLC

CONSTANTS notes, chat, clickweave, p1, p2

\* The places of the draft only differ by name.
Interchangeable == Permutations({p1, p2})

VARIABLES
    part,
    now, paused, ready, tracked, pc, left, frames, raw, actions, failed

\* A native app and one with pages; a recording of two frames, one of either app.
H == INSTANCE HoverDraft WITH
       App <- {notes, chat}, Web <- {chat}, Place <- {p1, p2}, Got <- {"act", "shot"},
       Recordings <- {<<[ts |-> 1, app |-> notes, scaled |-> TRUE],
                        [ts |-> 2, app |-> chat, scaled |-> FALSE]>>},
       Threshold <- 1, ClickWindow <- 2, Transition <- 1,
       MaxTime <- 2, MaxEvents <- 2, MaxHovers <- 2

-----------------------------------------------------------------------------
(* One part of the two; the variables of the other have no value.          *)
None == "none"

RecordedInit ==
  \/ /\ part = "recording" /\ Init
     /\ now = None /\ paused = None /\ ready = None /\ tracked = None /\ pc = None
     /\ left = None /\ frames = None /\ raw = None /\ actions = None /\ failed = None
  \/ /\ part = "draft" /\ H!Init
     /\ inputs = None /\ taken = None /\ focus = None /\ rechecked = None
     /\ requests = None /\ page = None /\ unseen = None

restRecording ==
  <<now, paused, ready, tracked, pc, left, frames, raw, actions, failed>>
restDraft ==
  <<inputs, taken, focus, rechecked, requests, page, unseen>>

RecordedNext ==
  /\ part' = part
  /\ \/ part = "recording" /\ Next /\ UNCHANGED restRecording
     \/ part = "draft" /\ H!Next /\ UNCHANGED restDraft

RecordedSpec == RecordedInit /\ [][RecordedNext]_<<part, vars, restRecording>>

-----------------------------------------------------------------------------
(* The properties of each part.                                            *)

\* The actions of the draft stand for all inputs the loop has taken, each once
\* and in order, and each names the app its inputs are taken to go to, though the
\* focus is recorded only when it changes, not every input tells its process, and
\* the enrichment is appended in between; the types of WalkthroughRecording come
\* with it.
RecordedAsDone == part = "recording" => TypeOK /\ DraftIsRecording /\ AppsAreRight

\* What was found out about a click is attached to that click and to no other,
\* and the elements of the page in the order they were clicked in, though both
\* come late.
EnrichedInPlace == part = "recording" => EnrichmentPlaced /\ ElementsInOrder

\* A hover is in the draft if it was dwelt on for the threshold without the time
\* paused, and stands in the order of time, though hovers are logged after the
\* rest, tracker after tracker; what the tasks found out, which end in any order,
\* is with the hover it is about, and the pictures of a saved draft are marked.
HoversHappened == part = "draft" => H!HoversLasted /\ H!HoversPlaced /\ H!AttachedToItsOwn
=============================================================================
