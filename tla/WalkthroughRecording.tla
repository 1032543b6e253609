------------------------ MODULE WalkthroughRecording ------------------------
(***************************************************************************)
(* From the events of the tap to the actions of a draft: the capture loop  *)
(* with the tasks that enrich its clicks (capture.rs, click_enrichment.rs, *)
(* cdp_click.rs), the log they all append to (storage.rs), and the pure    *)
(* normalize_events (normalize.rs, event_coalescing.rs) that a stop runs   *)
(* over the log, however much of it has come.                              *)
(*                                                                         *)
(* The user, the pages with their click listeners and the MCP server are   *)
(* the environment.  An input is a number, the place of its capture.  The  *)
(* tap does not always know the process an input goes to.                  *)
(***************************************************************************)
EXTENDS Naturals, Sequences, FiniteSets, SequencesExt

CONSTANTS
  App,        \* the apps the user works in
  Kind,       \* the kinds of input, of click, text, key and scroll
  Own,        \* Clickweave itself, one of them
  Web,        \* apps with a click listener, set up before the recording
  Late,       \* apps whose kind is recognised only when they are checked again
  KeyGap, ScrollGap, TextGap,  \* the gaps of event_coalescing.rs
  MaxInputs, MaxClicks, MaxTime,  \* bounds on the inputs, on the clock,
  MaxUnknown,  \* on the inputs of which the process is not known,
  MaxWaiting, MaxExtra  \* on the backlog and on what enriches the clicks

ASSUME AppAssumption == Own \in App /\ Web \cup Late \subseteq App \ {Own}
ASSUME KindAssumption == Kind \subseteq {"click", "text", "key", "scroll"}
ASSUME BoundAssumption ==
  {KeyGap, ScrollGap, TextGap, MaxInputs, MaxClicks, MaxTime, MaxUnknown, MaxWaiting,
   MaxExtra} \subseteq Nat

VARIABLES
  inputs,    \* environment: what the tap has captured
  taken,     \* how many of them the loop has processed
  focus,     \* last_pid; self_focused when it is that of Own
  rechecked, \* app_kind_cache: apps found out to be not native
  log,       \* events.jsonl
  tasks,     \* what the enrichment of each click may still append
  requests,  \* clicks whose element is still to be asked for, in order
  page,      \* environment: clicks in __cw_clicks
  unseen     \* environment: clicks the page may still push

vars == <<inputs, taken, focus, rechecked, log, tasks, requests, page, unseen>>

Input  == 1 .. MaxInputs
Extra  == {"ax", "shot", "crop", "vlm", "cdp"}
Stamps == 0 .. MaxTime
Event ==
  [kind : {"focus"}, ts : Stamps, app : App]
  \cup [kind : Kind, ts : Stamps, of : Input]
  \cup [kind : Extra \ {"cdp"}, ts : Stamps, of : Input]
  \cup [kind : {"cdp"}, ts : Stamps, of : Input, entry : Input]

TypeOK ==
  /\ inputs \in Seq([kind : Kind, app : App, known : BOOLEAN, ts : Stamps])
  /\ taken \in 0 .. Len(inputs) /\ focus \subseteq App /\ Cardinality(focus) <= 1
  /\ rechecked \subseteq Late /\ log \in Seq(Event)
  /\ tasks \in [Input -> SUBSET {"enrich", "crop", "vlm"}]
  /\ requests \in Seq(Input) /\ page \in Seq(Input)
  /\ unseen \subseteq Input

Init ==
  /\ inputs = <<>> /\ taken = 0 /\ focus = {} /\ rechecked = {} /\ log = <<>>
  /\ tasks = [i \in Input |-> {}] /\ requests = <<>>
  /\ page = <<>> /\ unseen = {}

-----------------------------------------------------------------------------
(* The user and the page. *)

Now == IF inputs = <<>> THEN 0 ELSE Last(inputs).ts

\* Two inputs a person makes are at least a millisecond apart.  Of one that is not
\* known, target_pid is 0.
Capture(kind, app, known, ts) ==
  /\ Len(inputs) < MaxInputs /\ Len(inputs) < taken + MaxWaiting
  /\ ts \in Now + 1 .. MaxTime
  /\ kind = "click" => Cardinality({i \in DOMAIN inputs : inputs[i].kind = "click"}) < MaxClicks
  /\ known \/ Cardinality({i \in DOMAIN inputs : ~inputs[i].known}) < MaxUnknown
  /\ inputs' = Append(inputs, [kind |-> kind, app |-> app, known |-> known, ts |-> ts])
  /\ unseen' = IF kind = "click" /\ app \in Web
                 THEN unseen \cup {Len(inputs) + 1} ELSE unseen
  /\ UNCHANGED <<taken, focus, rechecked, log, tasks, requests, page>>

\* The click reaches the listener some time after the tap, in order; a click
\* with another button, or in another tab, never does.
Push(i) ==
  /\ i \in unseen /\ page' = Append(page, i)
  /\ unseen' = {j \in unseen : j > i}
  /\ UNCHANGED <<inputs, taken, focus, rechecked, log, tasks, requests>>

-----------------------------------------------------------------------------
(* process_capture_events *)

\* handle_capture_focus_change: what goes to a process that is not known leaves the
\* focus where it was.
FocusAfter(input) == IF input.known THEN {input.app} ELSE focus

\* A change of focus is an event of its own, but for one to Clickweave itself.
FocusShift(input) ==
  IF FocusAfter(input) \in {focus, {Own}} THEN <<>>
  ELSE <<[kind |-> "focus", ts |-> input.ts, app |-> input.app]>>

\* Deviation: only what is known to go to Clickweave is left out.
Skipped_Known(input) == input.known /\ input.app = Own
\* Nothing is recorded while Clickweave itself has the focus.
Skipped(input) == FocusAfter(input) = {Own}

\* A click has a task that enriches it, and a request if its page is known and
\* listens.
Enriched(i) == inputs[i].kind = "click" /\ ~Skipped(inputs[i])
Asks(i) == Enriched(i) /\ inputs[i].known /\ inputs[i].app \in Web

\* The change of focus and then the input, both with the time of the capture.
Process ==
  /\ taken < Len(inputs) /\ taken' = taken + 1
  /\ LET i     == taken + 1
         input == inputs[i] IN
     /\ focus' = FocusAfter(input)
     /\ log' = IF Skipped(input) THEN log
               ELSE log \o FocusShift(input)
                    \o <<[kind |-> input.kind, ts |-> input.ts, of |-> i]>>
     /\ tasks' = IF Enriched(i) THEN [tasks EXCEPT ![i] = {"enrich"}] ELSE tasks
     /\ requests' = IF Asks(i) THEN Append(requests, i) ELSE requests
  /\ UNCHANGED <<inputs, rechecked, page, unseen>>

\* The bound on the events that enrich clicks.
Fits(n) == Cardinality({m \in DOMAIN log : log[m].kind \in Extra}) + n <= MaxExtra

Persist(i, kinds) ==
  log \o [n \in DOMAIN kinds |-> [kind |-> kinds[n], ts |-> inputs[i].ts, of |-> i]]

\* enrich_click_background up to the join: what the accessibility and the
\* screenshot call gave, then the kind of the app if it was checked again, which
\* only that of a known process is.
Enrich(i) ==
  /\ "enrich" \in tasks[i]
  /\ \E kinds \in {<<>>, <<"ax">>, <<"shot">>, <<"ax", "shot">>}, actionable \in BOOLEAN :
       LET app     == inputs[i].app
           checked == ~actionable /\ inputs[i].known /\ app \in Late \ rechecked IN
       /\ Fits(Len(kinds))
       /\ actionable => "ax" \in ToSet(kinds)
       /\ rechecked' = IF checked THEN rechecked \cup {app} ELSE rechecked
       /\ log' = Persist(i, kinds)
                 \o (IF checked
                       THEN <<[kind |-> "focus", ts |-> inputs[i].ts, app |-> app]>>
                       ELSE <<>>)
       /\ tasks' = [tasks EXCEPT ![i] =
                      IF "shot" \notin ToSet(kinds) THEN {}
                      ELSE {"crop"} \cup (IF actionable THEN {} ELSE {"vlm"})]
  /\ UNCHANGED <<inputs, taken, focus, requests, page, unseen>>

\* The crop and the label of the vision model, in either order.
Join(i, kind) ==
  /\ kind \in tasks[i] \ {"enrich"} /\ Fits(1)
  /\ log' = Persist(i, <<kind>>) /\ tasks' = [tasks EXCEPT ![i] = @ \ {kind}]
  /\ UNCHANGED <<inputs, taken, focus, rechecked, requests, page, unseen>>

\* Deviation: the listener's newest entry is taken.
Shifted_Newest(queue) == [entry |-> Last(queue), rest |-> Front(queue)]
Shifted(queue) == [entry |-> Head(queue), rest |-> Tail(queue)]

\* cdp_retrieve_click, one request after the other: what the page has at the
\* moment it is asked.
Retrieve ==
  /\ requests # <<>> /\ page # <<>> /\ Fits(1) /\ requests' = Tail(requests)
  /\ LET i == Head(requests) IN
     log' = Append(log, [kind |-> "cdp", ts |-> inputs[i].ts, of |-> i,
                         entry |-> Shifted(page).entry])
  /\ page' = Shifted(page).rest
  /\ UNCHANGED <<inputs, taken, focus, rechecked, tasks, unseen>>

\* Four polls found the page empty, or a call failed; a call that timed out
\* may have shifted the entry.
GiveUp ==
  /\ requests # <<>> /\ requests' = Tail(requests)
  /\ page' \in {page} \cup {Shifted(queue).rest : queue \in {page} \ {<<>>}}
  /\ UNCHANGED <<inputs, taken, focus, rechecked, log, tasks, unseen>>

-----------------------------------------------------------------------------

Next ==
  \/ \E kind \in Kind, app \in App, known \in BOOLEAN, ts \in Stamps :
       Capture(kind, app, known, ts)
  \/ Process \/ Retrieve \/ GiveUp
  \/ \E i \in Input : Push(i) \/ Enrich(i)
                      \/ \E kind \in {"crop", "vlm"} : Join(i, kind)

Spec == Init /\ [][Next]_vars

-----------------------------------------------------------------------------
(* normalize_events *)

\* Deviation: the events stay in the order they were appended in.
Sorted_Appended(events) == events

\* A stable sort by time.
Sorted(events) ==
  LET before(m, n) == events[m].ts < events[n].ts
                      \/ (events[m].ts = events[n].ts /\ m < n)
      order == SortSeq([n \in DOMAIN events |-> n], before) IN
  [n \in DOMAIN events |-> events[order[n]]]

\* The state of the loop: the actions so far, the app, the text that waits,
\* the times of the last scroll and key, and whether the lookahead of the last
\* click still goes on.
Start == [actions |-> <<>>, app |-> {}, text |-> <<>>, textTs |-> 0,
          lastTs |-> [scroll |-> 0, key |-> 0], open |-> FALSE]

ActionOf(kind, sources, app) == [kind |-> kind, src |-> sources, app |-> app, got |-> {}]

Flush(s) ==
  IF s.text = <<>> THEN s
  ELSE [s EXCEPT !.actions = Append(@, ActionOf("text", s.text, s.app)), !.text = <<>>]

\* Deviation: the app changes before the text that waits is flushed.
Focus_First(s, e) ==
  LET f == Flush([s EXCEPT !.app = {e.app}]) IN
  IF s.app = {e.app} THEN f
  ELSE [f EXCEPT !.actions = Append(@, ActionOf("focus", <<>>, {e.app}))]

\* A change to the app that has the focus is no action.
Focus(s, e) ==
  LET f == Flush(s) IN
  IF s.app = {e.app} THEN f
  ELSE [f EXCEPT !.app = {e.app},
                 !.actions = Append(@, ActionOf("focus", <<>>, {e.app}))]

Text(s, e) ==
  LET f == IF s.text # <<>> /\ e.ts - s.textTs > TextGap THEN Flush(s) ELSE s IN
  [f EXCEPT !.text = Append(@, e.of), !.textTs = e.ts]

Click(s, e) ==
  LET f == Flush(s) IN
  [f EXCEPT !.actions = Append(@, ActionOf("click", <<e.of>>, s.app)), !.open = TRUE]

\* Scrolls, and presses of the same key, merge with the action before them.
Repeated(s, e, gap) ==
  LET f == Flush(s)
      n == Len(f.actions)
      merges == n > 0 /\ f.actions[n].kind = e.kind /\ e.ts - s.lastTs[e.kind] <= gap IN
  [f EXCEPT !.actions = IF merges THEN [@ EXCEPT ![n].src = Append(@, e.of)]
                        ELSE Append(@, ActionOf(e.kind, <<e.of>>, s.app)),
            !.lastTs[e.kind] = e.ts]

\* An enrichment event belongs to the click whose lookahead reaches it, and
\* stands for nothing otherwise.
Enrichment(s, e) ==
  IF s.open THEN [s EXCEPT !.actions[Len(s.actions)].got = @ \cup {e}] ELSE s

Consume(s, e) ==
  IF e.kind \in Extra THEN Enrichment(s, e)
  ELSE LET c == [s EXCEPT !.open = FALSE] IN
       CASE e.kind = "focus"  -> Focus(c, e)
         [] e.kind = "text"   -> Text(c, e)
         [] e.kind = "click"  -> Click(c, e)
         [] e.kind = "key"    -> Repeated(c, e, KeyGap)
         [] e.kind = "scroll" -> Repeated(c, e, ScrollGap)

\* Deviation: the text that waits at the end is forgotten.
Actions_Unflushed == FoldLeft(Consume, Start, Sorted(log)).actions
Actions == Flush(FoldLeft(Consume, Start, Sorted(log))).actions

-----------------------------------------------------------------------------
(* Properties *)

\* The app an input is taken to go to: its own, or that of the last input before
\* it that is known.
Holder(i) ==
  {inputs[j].app : j \in {j \in 1 .. i : /\ inputs[j].known
                                        /\ \A l \in j + 1 .. i : ~inputs[l].known}}

Recorded == SelectSeq([i \in 1 .. taken |-> i], LAMBDA i : Holder(i) # {Own})

\* The draft is the recording: its actions stand for all inputs the loop has
\* taken but those into Clickweave, each once and in order, however the enrichment
\* of the clicks was appended between them, and neighbours merged.
DraftIsRecording ==
  LET actions == Actions IN
  FlattenSeq([n \in DOMAIN actions |-> actions[n].src]) = Recorded

\* Each action names the app its inputs are taken to go to, though the focus is
\* recorded only when it changes, not at all for Clickweave or for an input that is
\* not known, and again, later, by the enrichment of a click.
AppsAreRight ==
  \A action \in ToSet(Actions) : \A i \in ToSet(action.src) : action.app = Holder(i)

\* What was found out about a click is attached to that click and to no other,
\* unless the app was checked again at that very click.
EnrichmentPlaced ==
  LET actions == ToSet(Actions)
      cut(e) == \E f \in ToSet(log) :
                  f.kind = "focus" /\ f.ts = e.ts /\ f.app \in rechecked IN
  /\ \A action \in actions : \A e \in action.got : action.src = <<e.of>>
  /\ \A e \in ToSet(log) :
       e.kind \in Extra /\ ~cut(e) => \E action \in actions : e \in action.got

\* The elements of the page are attached in the order they were clicked in,
\* each to one click.
ElementsInOrder ==
  \A m, n \in DOMAIN log :
    m < n /\ log[m].kind = "cdp" /\ log[n].kind = "cdp" =>
      log[m].entry < log[n].entry /\ log[m].of < log[n].of
=============================================================================
