----------------------------- MODULE HoverDraft -----------------------------
(***************************************************************************)
(* Where the pointer rested: hovers are tracked while a walkthrough is     *)
(* recorded, by the MCP server and by a listener in each page (hover.rs,   *)
(* cdp_setup.rs), but fetched and logged only after it, and a stop makes   *)
(* candidates of them, puts them among the actions of the draft, and finds *)
(* pictures and names for what they show (session.rs, enrichment.rs,       *)
(* walkthrough_enrichment.rs, stop_walkthrough).                           *)
(*                                                                         *)
(* The user, the trackers and the recorder of frames are the environment.  *)
(* The actions of normalize_events are here one per click and one per      *)
(* change of app; WalkthroughRecording has what makes them.                *)
(***************************************************************************)
EXTENDS Integers, Sequences, FiniteSets, SequencesExt

CONSTANTS
  App,        \* the apps the user works in
  Web,        \* those with pages to listen in
  Place,      \* places and, at the same time, the elements there
  Got,        \* what a click may be enriched with: "act", "shot" or "none"
  Recordings, \* what stop_recording may return: frames in order of time
  Threshold,  \* hover_dwell_threshold
  ClickWindow,  \* HOVER_CLICK_WINDOW_MS
  Transition, \* TRANSITION_WINDOW_MS
  MaxTime, MaxEvents, MaxHovers   \* bounds

VARIABLES
  now, paused,  \* the clock, and the times spent paused so far
  log,          \* events.jsonl
  ready,        \* cdp_state: apps whose click listener is there
  tracked,      \* per tracker the hovers it has: each app of Web, and "native"
  pc,           \* how far the stop has come
  left,         \* trackers that are still to be asked
  frames,       \* recording_frames.json
  raw,          \* are the files of the frames still there?
  actions,      \* the draft
  tasks,        \* the tasks of the phase that are still to end
  failed        \* history: pictures that could not be marked

recording == <<now, paused, ready, tracked>>
vars == <<recording, log, pc, left, frames, raw, actions, tasks, failed>>

Trackers == Web \cup {"native"}

Init ==
  /\ now = 0 /\ paused = {} /\ log = <<>> /\ ready = {}
  /\ tracked = [t \in Trackers |-> <<>>] /\ pc = "recording" /\ left = Trackers
  /\ frames = <<>> /\ raw = FALSE /\ actions = <<>> /\ tasks = {} /\ failed = {}

OfKind(kinds) == SelectSeq(log, LAMBDA e : e.kind \in kinds)
Paused == LET toggles == OfKind({"pause", "resume"}) IN
          toggles # <<>> /\ Last(toggles).kind = "pause"
FocusedApp == LET shifts == OfKind({"focus"}) IN
              IF shifts = <<>> THEN {} ELSE {Last(shifts).app}

-----------------------------------------------------------------------------
(* The recording.                                                          *)

Tick ==
  /\ pc = "recording" /\ now < MaxTime /\ now' = now + 1
  /\ paused' = IF Paused THEN paused \cup {now} ELSE paused
  /\ UNCHANGED <<ready, tracked, log, pc, left, frames, raw, actions, tasks, failed>>

Log(e) ==
  /\ pc = "recording" /\ Len(log) < MaxEvents /\ log' = Append(log, e)
  /\ UNCHANGED <<recording, pc, left, frames, raw, actions, tasks, failed>>

FocusOn(app) == FocusedApp # {app} /\ Log([kind |-> "focus", ts |-> now, app |-> app])

\* A click, with a label to act on, a screenshot, or nothing; with the element
\* of the page when the app has a listener.
Click(at, got, element) ==
  /\ element => FocusedApp \cap ready # {}
  /\ ~Paused /\ Log([kind |-> "click", ts |-> now, at |-> at, got |-> got, element |-> element])

Toggle == Log([kind |-> IF Paused THEN "resume" ELSE "pause", ts |-> now])

\* setup_cdp_apps, app by app: the app quits and starts again, is connected, and
\* gets its listeners, unless one of these fails; before the capture loop starts.
SetUp(app) ==
  /\ pc = "recording" /\ now = 0 /\ log = <<>> /\ app \notin ready /\ ready' = ready \cup {app}
  /\ UNCHANGED <<now, paused, tracked, log, pc, left, frames, raw, actions, tasks, failed>>

\* The pointer leaves a place it has rested on.  The native tracker may know the
\* app, or nothing but the window; the listener of a page drops short stays.
Rested(tracker, at, app, window, start) ==
  LET seen == tracked[tracker] IN
  /\ pc = "recording" /\ start < now
  /\ Cardinality(UNION {{<<t, n>> : n \in DOMAIN tracked[t]} : t \in Trackers}) < MaxHovers
  /\ seen # <<>> => start >= Last(seen).ts + Last(seen).dwell
  /\ IF tracker = "native" THEN app \in {{}, FocusedApp} /\ (window => app = {})
     ELSE tracker \in ready /\ app = {tracker} /\ ~window /\ now - start >= Threshold
  /\ tracked' = [tracked EXCEPT ![tracker] = Append(seen,
       [ts |-> start, dwell |-> now - start, at |-> at, app |-> app, window |-> window])]
  /\ UNCHANGED <<now, paused, ready, log, pc, left, frames, raw, actions, tasks, failed>>

-----------------------------------------------------------------------------
(* The end of the capture task.                                            *)

\* stop_recording_and_persist_frames; the call may fail.
Stop ==
  /\ pc = "recording" /\ pc' = "fetch" /\ frames' \in Recordings \cup {<<>>}
  /\ raw' = (frames' # <<>>) /\ left' = ready \cup {"native"}
  /\ UNCHANGED <<recording, log, actions, tasks, failed>>

\* persist_native_hover_events, then persist_cdp_hover_events, in any order of
\* the apps; a call that fails or takes too long costs the hovers of its tracker.
Fetch(tracker) ==
  /\ pc = "fetch" /\ tracker \in left
  /\ tracker = "native" \/ "native" \notin left
  /\ left' = left \ {tracker}
  /\ \E got \in {<<>>, tracked[tracker]} :
       log' = log \o [n \in DOMAIN got |-> [kind |-> "hover", ts |-> got[n].ts,
                        hover |-> got[n], by |-> tracker]]
  /\ UNCHANGED <<recording, pc, frames, raw, actions, tasks, failed>>

-----------------------------------------------------------------------------
(* retrieve_hover_candidates                                               *)

\* Deviation: a pause the recording ended in is forgotten.
PausedIntervals_Closed ==
  LET p == OfKind({"pause", "resume"}) IN
  {<<p[n].ts, p[n + 1].ts, n>> : n \in {m \in 1 .. Len(p) - 1 : p[m].kind = "pause"}}
PausedIntervals ==
  LET p == OfKind({"pause", "resume"})
      until(n) == IF n < Len(p) THEN p[n + 1].ts ELSE MaxTime IN
  {<<p[n].ts, until(n), n>> : n \in {m \in DOMAIN p : p[m].kind = "pause"}}

LOCAL Least(a, b) == IF a < b THEN a ELSE b
LOCAL Most(a, b) == IF a > b THEN a ELSE b

EffectiveDwell(h) ==
  LET overlap(i) == Most(0, Least(i[2], h.ts + h.dwell) - Most(i[1], h.ts)) IN
  Most(0, h.dwell - FoldSet(LAMBDA i, sum : sum + overlap(i), 0, PausedIntervals))

\* A click at the same place, or, for a hover in a page, on the same element,
\* soon after the hover began.
Subsumed(h) ==
  \E e \in ToSet(OfKind({"click"})) :
    e.at = h.at /\ e.ts > h.ts /\ e.ts - h.ts < ClickWindow

\* resolve_hover_app
HoverApp(h) ==
  LET shifts == SortSeq(OfKind({"focus"}), LAMBDA a, b : a.ts < b.ts)
      before == SelectSeq(shifts, LAMBDA e : e.ts <= h.ts)
      after  == SelectSeq(shifts, LAMBDA e : e.ts > h.ts) IN
  CASE h.app # {} -> h.app
    [] h.app = {} /\ after # <<>> /\ (before = <<>> \/ after[1].ts - h.ts <= Transition) ->
         {after[1].app}
    [] h.app = {} /\ before # <<>> /\ (after = <<>> \/ after[1].ts - h.ts > Transition) ->
         {Last(before).app}
    [] OTHER -> {}

Candidate(e) ==
  [kind |-> "hover", ts |-> e.ts, at |-> e.hover.at, app |-> HoverApp(e.hover),
   dwell |-> EffectiveDwell(e.hover), art |-> <<>>, meta |-> FALSE,
   names |-> (IF e.by = "native" THEN <<>> ELSE <<<<"cdp", e.hover.at>>>>)
             \o <<<<"ax", e.hover.at>>>>]

HoverCandidates ==
  LET passes(e) == /\ e.kind = "hover" /\ EffectiveDwell(e.hover) >= Threshold
                   /\ ~e.hover.window /\ ~Subsumed(e.hover)
      kept == SelectSeq(log, passes) IN
  [n \in DOMAIN kept |-> Candidate(kept[n])]

-----------------------------------------------------------------------------
(* stop_walkthrough                                                        *)

ActionOf(e) ==
  IF e.kind = "focus"
    THEN [kind |-> "focus", ts |-> e.ts, app |-> {e.app}, at |-> {}, art |-> <<>>,
          meta |-> FALSE, names |-> <<>>]
    ELSE [kind |-> "click", ts |-> e.ts, at |-> e.at,
          art |-> IF e.got = "shot" THEN <<[of |-> "click", marked |-> FALSE]>> ELSE <<>>,
          meta |-> e.got = "shot",
          names |-> (IF e.element THEN <<<<"cdp", e.at>>>> ELSE <<>>)
                    \o (IF e.got = "ax" THEN <<<<"act", e.at>>>> ELSE <<>>)
                    \o <<<<"xy", e.at>>>>]

\* find_chronological_insert_position: behind the last action that is not later.
\* Deviation: behind the actions of the recording.
Position_Last(list, c) == Len(list) + 1
Position(list, c) ==
  1 + FoldSet(Most, 0, {n \in DOMAIN list : list[n].ts <= c.ts})

WithHovers ==
  LET events == OfKind({"focus", "click"}) IN
  FoldLeft(LAMBDA list, c : InsertAt(list, Position(list, c), c),
           [n \in DOMAIN events |-> ActionOf(events[n])], HoverCandidates)

\* attach_recording_frames: the frame before the hover and the one after, of the
\* app of the hover if there are any.
WithFrames(a) ==
  LET own    == SelectSeq(frames, LAMBDA f : a.app = {f.app})
      search == IF own = <<>> THEN frames ELSE own
      before == SelectSeq(search, LAMBDA f : f.ts < a.ts)
      after  == SelectSeq(search, LAMBDA f : f.ts >= a.ts)
      found  == (IF before = <<>> THEN <<>> ELSE <<Last(before)>>)
                \o (IF after = <<>> THEN <<>> ELSE <<Head(after)>>) IN
  IF a.kind # "hover" \/ found = <<>> THEN a
  ELSE [a EXCEPT !.art = [k \in DOMAIN found |-> [of |-> found[k], marked |-> FALSE]],
                 !.meta = found[1].scaled]

Marks(list) ==
  {t \in [idx : DOMAIN list, path : 1 .. 2] :
     LET a == list[t.idx] IN a.kind = "hover" /\ a.meta /\ t.path \in DOMAIN a.art}

Draft ==
  /\ pc = "fetch" /\ left = {} /\ pc' = "mark"
  /\ actions' = LET list == WithHovers IN [i \in DOMAIN list |-> WithFrames(list[i])]
  /\ tasks' = Marks(actions')
  /\ UNCHANGED <<recording, log, left, frames, raw, failed>>

\* generate_hover_screenshots: the pictures are marked in parallel.
Mark(t, done) ==
  /\ pc = "mark" /\ t \in tasks /\ tasks' = tasks \ {t}
  /\ IF done /\ raw THEN actions' = [actions EXCEPT ![t.idx].art[t.path].marked = TRUE]
                         /\ UNCHANGED failed
     ELSE failed' = failed \cup {t} /\ UNCHANGED actions
  /\ UNCHANGED <<recording, log, pc, left, frames, raw>>

\* resolve_click_targets_with_vlm asks for what has a picture and no name yet.
Unnamed(a) ==
  /\ a.kind \in {"click", "hover"} /\ a.art # <<>> /\ a.meta
  /\ \A name \in ToSet(a.names) : name[1] \notin {"act", "vlm"}

\* Deviation: a task knows its place among the tasks only.
Asked_Compact ==
  LET picked == SelectSeq([i \in DOMAIN actions |-> i], LAMBDA i : Unnamed(actions[i])) IN
  {[idx |-> n, at |-> actions[picked[n]].at] : n \in DOMAIN picked}
Asked == {[idx |-> i, at |-> actions[i].at] : i \in {j \in DOMAIN actions : Unnamed(actions[j])}}

\* Without an endpoint nothing is asked.
Ask ==
  /\ pc = "mark" /\ tasks = {} /\ pc' = "name" /\ tasks' \in {{}, Asked}
  /\ UNCHANGED <<recording, log, left, frames, raw, actions, failed>>

\* The answers come in any order, or do not.  A name goes behind the element of
\* the page and before all others.
Name(t, answered) ==
  /\ pc = "name" /\ t \in tasks /\ tasks' = tasks \ {t}
  /\ LET names == actions[t.idx].names
         pos   == 1 + Len(SelectSeq(names, LAMBDA name : name[1] \in {"cdp", "act"})) IN
     actions' = IF answered THEN [actions EXCEPT ![t.idx].names =
                                    InsertAt(names, pos, <<"vlm", t.at>>)]
                ELSE actions
  /\ UNCHANGED <<recording, log, pc, left, frames, raw, failed>>

\* The files of the frames, which may show secrets, go; the actions are saved.
Save ==
  /\ pc = "name" /\ tasks = {} /\ pc' = "saved" /\ raw' = FALSE
  /\ UNCHANGED <<recording, log, left, frames, actions, tasks, failed>>

Next ==
  \/ Tick \/ Toggle \/ Stop \/ Draft \/ Ask \/ Save
  \/ \E app \in App : FocusOn(app)
  \/ \E app \in Web : SetUp(app)
  \/ \E at \in Place, got \in Got, element \in BOOLEAN : Click(at, got, element)
  \/ \E tracker \in Trackers, at \in Place, app \in {{}} \cup {{a} : a \in App},
        window \in BOOLEAN, start \in 0 .. MaxTime : Rested(tracker, at, app, window, start)
  \/ \E tracker \in Trackers : Fetch(tracker)
  \/ \E t \in tasks, b \in BOOLEAN : Mark(t, b) \/ Name(t, b)

Spec == Init /\ [][Next]_vars

-----------------------------------------------------------------------------
(* Properties                                                              *)

Hovers == {a \in ToSet(actions) : a.kind = "hover"}

\* The draft has the hovers that lasted: a hover in it was dwelt on for the
\* threshold while the recording was not paused, and one that was logged and
\* dwelt on for that long is in it, unless it shows a window only or a click
\* came after it.  The pauses are read back from the log.
HoversLasted ==
  pc \notin {"recording", "fetch"} =>
    LET lasted(h) == Cardinality(h.ts .. h.ts + h.dwell - 1 \ paused) >= Threshold
        hovers == {e \in ToSet(log) : e.kind = "hover"} IN
    /\ \A a \in Hovers : \E e \in hovers : e.ts = a.ts /\ e.hover.at = a.at /\ lasted(e.hover)
    /\ \A e \in hovers :
         /\ lasted(e.hover) /\ ~e.hover.window
         /\ \A c \in ToSet(OfKind({"click"})) : c.ts <= e.ts
         => \E a \in Hovers : a.ts = e.ts /\ a.at = e.hover.at

\* The draft is in the order of time, though its hovers were logged after the
\* rest, tracker after tracker.
HoversPlaced ==
  \A m, n \in DOMAIN actions : m < n => actions[m].ts <= actions[n].ts

\* What the tasks found out, which end in any order, is with the action it is
\* about: every name is one of its place, and in a draft that was saved all
\* pictures of hovers are marked, unless marking them failed or there was no
\* scale to mark them by.  Those are left naming files that are gone.
AttachedToItsOwn ==
  /\ \A a \in ToSet(actions) : \A name \in ToSet(a.names) : name[2] = a.at
  /\ pc = "saved" => \A i \in DOMAIN actions : \A k \in DOMAIN actions[i].art :
       actions[i].kind = "hover" /\ actions[i].meta =>
         actions[i].art[k].marked \/ [idx |-> i, path |-> k] \in failed
=============================================================================
