------------------------------ MODULE CdpFocus ------------------------------
(***************************************************************************)
(* What the agent believes about the desktop and what the desktop is: the  *)
(* world model with its invalidation events (world_model.rs, records.rs),  *)
(* the focus policy and its synthetic answers (focus.rs, loop_control.rs)  *)
(* and the CDP session the runner acquires on its own                      *)
(* (runner/cdp_lifecycle.rs, cdp_lifecycle.rs).                            *)
(*                                                                         *)
(* The model's choices, the MCP server, the apps and the user who may quit *)
(* any of them are the environment.  A value that may be missing is a set  *)
(* with at most one member; a snapshot is the step it was captured at.     *)
(***************************************************************************)
EXTENDS Naturals

CONSTANTS
  App,        \* apps of the desktop
  Electron,   \* those of kind ElectronApp or ChromeBrowser
  AxTools,    \* does the server advertise the whole AX dispatch toolset?
  Ttl,        \* ttl_steps of a snapshot, 8 in the code
  MaxSteps    \* bound on step_index (AgentConfig::max_steps)

VARIABLES
  proc,       \* environment: is an app not running, plain, or with a debug port
  session,    \* environment: the app the server's CDP session is attached to
  allow,      \* AgentConfig::allow_focus_window
  pc,         \* where the turn is
  target,     \* the app auto_connect_cdp works on
  step,       \* step_index
  connected,  \* cdp_state.connected_app
  kinds,      \* known_app_kinds
  cached,     \* does the client's tool list hold the CDP tools?
  focused,    \* world_model.focused_app
  status,     \* world_model.cdp_connect_status, by the app it names
  url,        \* state.current_url, by the app it belongs to
  page,       \* world_model.cdp_page, by the app it belongs to
  ax,         \* world_model.last_native_ax_snapshot
  shot,       \* world_model.last_screenshot
  elements,   \* world_model.elements
  pending,    \* pending_events
  shifted     \* history: the last focus or lifecycle call dispatched by a turn, and
              \* the last of the runner's own, with the step_index each left

envVars  == <<proc, session, allow>>
linkVars == <<connected, kinds, cached, status>>
pageVars == <<url, page>>
evidence == <<ax, shot, elements>>
vars == <<envVars, pc, target, step, linkVars, focused, pageVars, evidence,
          pending, shifted>>

Kind  == {"Native", "Cdp"}
Event == {"FocusChanging", "AppLifecycle", "CdpNavigation",
          "StaleAx", "StaleShot"}
KindOf(a) == IF a \in Electron THEN "Cdp" ELSE "Native"
IsOption(o, S) == o \subseteq S /\ \A x, y \in o : x = y

TypeOK ==
  /\ proc \in [App -> {"none", "plain", "debug"}]
  /\ IsOption(session, App) /\ allow \in BOOLEAN
  /\ pc \in {"top", "llm", "probe", "port", "relaunch", "force", "launch", "connect"}
  /\ IsOption(target, App) /\ (pc \notin {"top", "llm"} => target # {})
  /\ step \in Nat
  /\ IsOption(connected, App) /\ cached \in BOOLEAN
  /\ kinds \in [App -> Kind \cup {"unknown"}]
  /\ IsOption(focused, [app : App, kind : Kind])
  /\ IsOption(status, App) /\ IsOption(url, App) /\ IsOption(page, App)
  /\ IsOption(ax, Nat) /\ IsOption(shot, Nat) /\ IsOption(elements, Nat)
  /\ pending \subseteq Event
  /\ shifted \subseteq [at : Nat, own : BOOLEAN]

Init ==
  /\ proc \in [App -> {"none", "plain"}] /\ session = {} /\ allow \in BOOLEAN
  /\ pc = "top" /\ target = {} /\ step = 0
  /\ connected = {} /\ kinds = [a \in App |-> "unknown"] /\ cached = FALSE
  /\ focused = {} /\ status = {} /\ url = {} /\ page = {}
  /\ ax = {} /\ shot = {} /\ elements = {} /\ pending = {} /\ shifted = {}

-----------------------------------------------------------------------------
(* The observation at the head of a turn. *)

\* One event per snapshot that is older than its own time to live.
Stale(captured, event) ==
  IF \E s \in captured : step - s > Ttl THEN {event} ELSE {}
\* Deviation: the age of one snapshot stands for both.
Aged_Shared == IF Stale(ax, "StaleAx") = {} THEN {} ELSE {"StaleAx", "StaleShot"}
Aged == Stale(ax, "StaleAx") \cup Stale(shot, "StaleShot")

\* Deviation: a focus change leaves the screenshot.
DropsShot_AgedOnly(events) == "StaleShot" \in events

\* What an event drops.  The focused app is left to the post-tool hook.
Shift    == {"FocusChanging", "AppLifecycle"}
DropsPage(events) == "CdpNavigation" \in events
DropsElements(events) == events \cap (Shift \cup {"CdpNavigation"}) # {}
DropsAx(events)   == events \cap (Shift \cup {"StaleAx"}) # {}
DropsShot(events) == events \cap (Shift \cup {"StaleShot"}) # {}

\* cdp_summarize_page: no call unless the client's list has the tool; an
\* error, or an answer that does not parse, is no page.
Summary == IF cached THEN {session, {}} ELSE {{}}

\* Deviation: a call that fails leaves the URL as it was.
Remembered_Sticky(answer) == IF answer = {} THEN url ELSE answer

\* Every answer replaces the remembered URL; it stands in for an answer
\* without one.
Remembered(answer) == answer

Mirrored(answer) == IF answer # {} THEN answer ELSE Remembered(answer)

\* observe_for_next_turn: the page is mirrored first, the queued events are
\* applied after it.
Observe ==
  /\ pc = "top" /\ step < MaxSteps
  /\ \E answer \in Summary :
       LET events == pending \cup Aged
           unless(drop, o) == IF drop THEN {} ELSE o IN
       /\ url' = Remembered(answer)
       /\ page' = unless(DropsPage(events), Mirrored(answer))
       /\ elements' = unless(DropsElements(events), elements)
       /\ ax' = unless(DropsAx(events), ax)
       /\ shot' = unless(DropsShot(events), shot)
  /\ pending' = {} /\ pc' = "llm"
  /\ UNCHANGED <<envVars, target, step, linkVars, focused, shifted>>

-----------------------------------------------------------------------------
(* The turn the model chose. *)

Push == step' = step + 1

\* A focus or lifecycle call goes to the server: the turn's own, or one of the
\* runner's while it relaunches an app.
Dispatched(own) ==
  shifted' = {m \in shifted : m.own # own} \cup {[at |-> step', own |-> own]}

\* A tool that failed, a blocked call, or a tool without effect here.
Recorded ==
  /\ pc = "llm" /\ Push /\ pc' = "top"
  /\ UNCHANGED <<envVars, target, linkVars, focused, pageVars, evidence,
                 pending, shifted>>

\* A turn that records no step: a replan, or an answer that does not parse.
Unrecorded ==
  /\ pc = "llm" /\ pc' = "top"
  /\ UNCHANGED <<envVars, target, step, linkVars, focused, pageVars, evidence,
                 pending, shifted>>

\* take_ax_snapshot fills the snapshot, and the elements if it parses to any.
Snapshot ==
  /\ pc = "llm" /\ Push /\ pc' = "top"
  /\ ax' = {step} /\ elements' \in {elements, {step}}
  /\ UNCHANGED <<envVars, target, linkVars, focused, pageVars, shot, pending,
                 shifted>>

Screenshot ==
  /\ pc = "llm" /\ Push /\ pc' = "top" /\ shot' = {step}
  /\ UNCHANGED <<envVars, target, linkVars, focused, pageVars, ax, elements,
                 pending, shifted>>

\* find_text with matches; an empty or unreadable result is Recorded.
FindText ==
  /\ pc = "llm" /\ Push /\ pc' = "top" /\ elements' = {step}
  /\ UNCHANGED <<envVars, target, linkVars, focused, pageVars, ax, shot,
                 pending, shifted>>

\* A CDP call on an element that is gone fails and drops the elements.
StaleUid ==
  /\ pc = "llm" /\ Push /\ pc' = "top" /\ elements' = {}
  /\ UNCHANGED <<envVars, target, linkVars, focused, pageVars, ax, shot,
                 pending, shifted>>

Navigate ==
  /\ pc = "llm" /\ session # {} /\ Push /\ pc' = "top"
  /\ pending' = pending \cup {"CdpNavigation"}
  /\ UNCHANGED <<envVars, target, linkVars, focused, pageVars, evidence,
                 shifted>>

\* coordinate_primitive_blocked, in the kinds it tells apart.
Blocked == \E f \in focused : \/ f.kind = "Cdp" /\ page # {}
                              \/ f.kind = "Native" /\ AxTools

\* A coordinate primitive that reaches the server; a blocked one is Recorded.
Coordinate ==
  /\ pc = "llm" /\ ~Blocked /\ Push /\ pc' = "top"
  /\ UNCHANGED <<envVars, target, linkVars, focused, pageVars, evidence,
                 pending, shifted>>

\* quit_app, dispatched: the hook forgets the app it names.
Quit(a) ==
  /\ pc = "llm" /\ proc[a] # "none" /\ Push /\ pc' = "top"
  /\ proc' = [proc EXCEPT ![a] = "none"] /\ session' = session \ {a}
  /\ pending' = pending \cup Shift
  /\ connected' = connected \ {a}
  /\ IF \E f \in focused : f.app = a
       THEN focused' = {} /\ status' = {}
       ELSE UNCHANGED <<focused, status>>
  /\ Dispatched(FALSE)
  /\ UNCHANGED <<allow, target, kinds, cached, pageVars, evidence>>

-----------------------------------------------------------------------------
(* Launch and focus, dispatched or answered by the harness, and the hook   *)
(* after them.                                                             *)

\* auto_connect_cdp by the kind it is given: a native app is left alone, an
\* unknown one is probed.
ConnectBy(a, kind) ==
  CASE kind = "Native"  -> pc' = "top" /\ UNCHANGED target
    [] kind = "Cdp"     -> pc' = "port" /\ target' = {a}
    [] kind = "unknown" -> pc' = "probe" /\ target' = {a}

\* maybe_cdp_connect after a launch or a focus.  A structured result names the
\* kind; without one the app is taken for a native app until it is probed.
Hook(a, kind) ==
  /\ kinds' = IF kind = "unknown" THEN kinds ELSE [kinds EXCEPT ![a] = kind]
  /\ focused' = {[app |-> a, kind |-> IF kind = "Cdp" THEN "Cdp" ELSE "Native"]}
  /\ status' = {}
  /\ ConnectBy(a, kind)
  /\ UNCHANGED <<connected, cached>>

Told(a) == {KindOf(a), "unknown"}

\* running_app_for_no_focus_launch: the app runs and the call names only it.
SkipLaunch(a) ==
  /\ pc = "llm" /\ ~allow /\ proc[a] # "none" /\ Push
  /\ \E kind \in Told(a) : Hook(a, kind)
  /\ UNCHANGED <<envVars, pageVars, evidence, pending, shifted>>

\* A launch with arguments of its own is never skipped, nor one whose
\* list_apps fails.
Launch(a) ==
  /\ pc = "llm" /\ Push
  /\ \E kind \in Told(a) : Hook(a, kind)
  /\ proc' = [proc EXCEPT ![a] = IF @ = "none" THEN "plain" ELSE @]
  /\ pending' = pending \cup Shift /\ Dispatched(FALSE)
  /\ UNCHANGED <<session, allow, pageVars, evidence>>

\* should_skip_focus_window, in the order of its tests.
SkipReason(a) ==
  CASE ~allow                                            -> "PolicyDisabled"
    [] allow /\ kinds[a] = "Native" /\ AxTools           -> "AxAvailable"
    [] allow /\ kinds[a] = "Cdp" /\ a \in connected /\ cached -> "CdpLive"
    [] allow /\ kinds[a] = "Cdp" /\ ~(a \in connected /\ cached)
                                                         -> "CdpAttachable"
    [] OTHER                                             -> "none"

\* The step is recorded; the CDP session is acquired as if the call had been
\* made, without its hook: focused_app stays.
SkipFocus(a) ==
  /\ pc = "llm" /\ SkipReason(a) # "none" /\ Push
  /\ IF SkipReason(a) \in {"PolicyDisabled", "CdpAttachable"} /\ a \notin connected
       THEN ConnectBy(a, kinds[a])
       ELSE pc' = "top" /\ UNCHANGED target
  /\ UNCHANGED <<envVars, linkVars, focused, pageVars, evidence, pending, shifted>>

Focus(a) ==
  /\ pc = "llm" /\ SkipReason(a) = "none" /\ proc[a] # "none" /\ Push
  /\ \E kind \in Told(a) : Hook(a, kind)
  /\ pending' = pending \cup {"FocusChanging"} /\ Dispatched(FALSE)
  /\ UNCHANGED <<envVars, pageVars, evidence>>

-----------------------------------------------------------------------------
(* auto_connect_cdp: probe, an existing debug port, quit and relaunch,     *)
(* connect.                                                                *)

Fail(a) == status' = {a} /\ pc' = "top"

\* connect_with_retries: one of its attempts may succeed.
Reachable(a) == proc[a] = "debug"

Connected(a) ==
  /\ session' = {a} /\ connected' = {a} /\ status' = {}
  /\ cached' \in {cached, TRUE}        \* the refresh of the tool list may fail
  /\ pc' = "top"

Probe(a) ==
  /\ pc = "probe" /\ a \in target
  /\ \/ Fail(a) /\ UNCHANGED <<kinds, focused>>
     \/ a \notin Electron /\ pc' = "top" /\ UNCHANGED <<kinds, focused, status>>
     \/ /\ a \in Electron /\ pc' = "port"
        /\ kinds' = [kinds EXCEPT ![a] = "Cdp"]
        /\ focused' = {IF f.app = a THEN [f EXCEPT !.kind = "Cdp"] ELSE f :
                         f \in focused}
        /\ UNCHANGED status
  /\ UNCHANGED <<envVars, target, step, connected, cached, pageVars, evidence,
                 pending, shifted>>

\* try_existing_cdp_port: without a debug port, or when no attempt connects,
\* the app is relaunched.
ExistingPort(a) ==
  /\ pc = "port" /\ a \in target
  /\ \/ Reachable(a) /\ Connected(a)
     \/ pc' = "relaunch" /\ UNCHANGED <<session, connected, status, cached>>
  /\ UNCHANGED <<proc, allow, target, step, kinds, focused, pageVars, evidence,
                 pending, shifted>>

\* The calls of relaunch_for_cdp are the runner's own: each goes to the server, and
\* no event is queued for it.
Relaunching ==
  /\ UNCHANGED <<target, step, focused, pageVars, evidence, pending>>
  /\ Dispatched(TRUE)

\* relaunch_for_cdp begins with quit_and_wait: whether list_apps shows the exit
\* or not, what was known of the connection is forgotten.
QuitAndWait(a) ==
  /\ pc = "relaunch" /\ a \in target /\ connected' = connected \ {a}
  /\ \/ /\ proc' = [proc EXCEPT ![a] = "none"] /\ session' = session \ {a}
        /\ pc' \in {"launch", "force"}
     \/ proc[a] # "none" /\ pc' = "force" /\ UNCHANGED <<proc, session>>
  /\ Relaunching
  /\ UNCHANGED <<allow, kinds, cached, status>>

\* force_quit, the outcome of which is not looked at.
ForceQuit(a) ==
  /\ pc = "force" /\ a \in target /\ pc' = "launch"
  /\ \/ proc' = [proc EXCEPT ![a] = "none"] /\ session' = session \ {a}
     \/ UNCHANGED <<proc, session>>
  /\ Relaunching
  /\ UNCHANGED <<allow, linkVars>>

\* launch_with_debug_port: an app that still runs stays as it is; a launch that
\* fails is tried once more without the port.
Started(a, p) == proc' = [proc EXCEPT ![a] = IF @ = "none" THEN p ELSE @]

Relaunch(a) ==
  /\ pc = "launch" /\ a \in target
  /\ \/ Started(a, "debug") /\ pc' = "connect" /\ UNCHANGED status
     \/ (\E p \in {"plain", "none"} : Started(a, p)) /\ Fail(a)
  /\ Relaunching
  /\ UNCHANGED <<session, allow, connected, kinds, cached>>

\* connect_relaunched_cdp
Connect(a) ==
  /\ pc = "connect" /\ a \in target
  /\ \/ Reachable(a) /\ Connected(a)
     \/ Fail(a) /\ UNCHANGED <<session, connected, cached>>
  /\ UNCHANGED <<proc, allow, target, step, kinds, focused, pageVars, evidence,
                 pending, shifted>>

\* Environment: the user quits an app, or it crashes.
Exits(a) ==
  /\ proc[a] # "none"
  /\ proc' = [proc EXCEPT ![a] = "none"] /\ session' = session \ {a}
  /\ UNCHANGED <<allow, pc, target, step, linkVars, focused, pageVars, evidence,
                 pending, shifted>>

-----------------------------------------------------------------------------

Answered == Snapshot \/ Screenshot \/ FindText \/ StaleUid \/ Navigate
            \/ Coordinate \/ Recorded \/ Unrecorded

Managed(a) == Probe(a) \/ ExistingPort(a) \/ QuitAndWait(a) \/ ForceQuit(a)
              \/ Relaunch(a) \/ Connect(a)

Next ==
  \/ Observe
  \/ Answered
  \/ \E a \in App : \/ Quit(a) \/ Launch(a) \/ SkipLaunch(a)
                    \/ Focus(a) \/ SkipFocus(a)
                    \/ Managed(a) \/ Exits(a)

Spec == Init /\ [][Next]_vars

-----------------------------------------------------------------------------
(* Properties *)

\* The runner relaunched an app in a turn whose own launch or focus the harness
\* answered itself: no call of that turn has queued an event.
Unannounced(m) == m.own /\ [at |-> m.at, own |-> FALSE] \notin shifted

\* What the prompt shows was captured after every focus or lifecycle call the
\* run dispatched, its own quits and launches included, but for those of a turn
\* whose launch or focus the harness answered itself: the event is queued at one
\* step and applied at another, with failures, skips and relaunches in between.
EvidenceAfterShift ==
  pc = "llm" => \A s \in ax \cup shot \cup elements, m \in shifted :
                  s >= m.at \/ Unannounced(m)

\* The body of a snapshot that is older than its time to live is not shown,
\* whatever the other snapshot's age.
EvidenceAged ==
  pc = "llm" => \A s \in ax \cup shot : step - s <= Ttl

\* The page a turn starts with is the page of the session the server has at
\* that moment: the remembered URL of an app that is gone never fills in for
\* an answer that did not come.
PageIsLive == pc = "top" /\ pc' = "llm" => page' \subseteq session

\* The three together: what a turn is shown of the desktop is true of it, as far
\* as the loop can know.
FocusIsTrue == EvidenceAfterShift' /\ EvidenceAged' /\ PageIsLive
=============================================================================
