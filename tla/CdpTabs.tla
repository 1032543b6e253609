------------------------------- MODULE CdpTabs -------------------------------
(***************************************************************************)
(* A walkthrough that records in browsers: every app the user has chosen   *)
(* is brought under a debugging port and gets its listeners before the     *)
(* recording (cdp_setup.rs); during it the one connection the MCP server   *)
(* has goes back and forth between the apps, and in each it looks for the  *)
(* tab its listeners are in, to ask what a click was on (cdp_click.rs,     *)
(* clickweave-core/src/cdp.rs), and after it once more, for the hovers     *)
(* (capture.rs, hover.rs).                                                 *)
(*                                                                         *)
(* The apps, their tabs, the user and the server are the environment.  A   *)
(* value that may be missing is a set with at most one member; a port      *)
(* stands for the app that was started with it.                            *)
(***************************************************************************)
EXTENDS Naturals, Sequences, FiniteSets, SequencesExt

CONSTANTS
  Apps,       \* cdp_apps, in their order
  Url,        \* pages: records of an origin, a path and a query
  Home,       \* the page a new window starts with
  QuitPolls,  \* how often list_apps is asked, 20 in the code
  Tries,      \* how often a connection is tried, about 10 in the code
  EmptyPolls, \* POLL_DELAYS_MS, 4 in the code
  Browsed,    \* bound: the apps whose tabs the user changes
  MaxTabs, MaxMoves, MaxClicks   \* bounds on what the user does

VARIABLES
  proc,      \* environment: is an app not running, plain, or with a port?
  tabs,      \* environment: its tabs, in the order the server lists them
  conn,      \* environment: the app the server is connected to, and the tab
  fresh,     \* environment: the number the next tab gets
  acts,      \* environment: what the user has done so far
  pc,        \* where the set-up is, and then "recording"
  turn,      \* the app it works on, by its place
  tries,     \* how often it has polled
  injected,  \* has the click listener been installed in this app, and where?
  page,      \* selected_page_url, before the app is inserted
  cancel,    \* the watch channel of the session
  known,     \* cdp_state: by app the URL to go back to
  told,      \* the last progress the interface was told of an app
  requests,  \* the channel of the click consumer
  job,       \* what the consumer is at
  answers,   \* history: by click the entry it was resolved with
  hover,     \* where the end of the recording is: the apps left and the one asked
  late,      \* history: has the drain given the consumer up?
  crossed    \* history: the tasks at work since when the other has tried to connect

desktop == <<proc, tabs, fresh, acts>>
setup   == <<pc, turn, tries, injected, page, cancel, known, told>>
fetch   == <<hover, late, crossed>>
clicks  == <<requests, job, answers, fetch>>
vars == <<desktop, conn, setup, clicks>>

App == ToSet(Apps)
\* Has it the click listener, and which clicks has that queued?
Tab(id, url) == [id |-> id, url |-> url, hears |-> FALSE, queue |-> <<>>]
Idle == [at |-> "idle", tries |-> 0, index |-> {}]

Init ==
  /\ proc \in [App -> {"none", "plain", "debug"}] /\ fresh = 2
  /\ tabs = [a \in App |-> IF proc[a] = "none" THEN <<>> ELSE <<Tab(1, Home)>>]
  /\ conn = {} /\ acts = [moves |-> 0, clicks |-> 0]
  /\ pc = "app" /\ turn = 1 /\ tries = 0 /\ injected = {} /\ page = {}
  /\ cancel = FALSE /\ known = [a \in {} |-> {}] /\ told = [a \in App |-> "nothing"]
  /\ requests = <<>> /\ job = Idle /\ answers = {}
  /\ hover = [at |-> "recording", left |-> {}, of |-> {}, index |-> {}]
  /\ late = FALSE /\ crossed = {}

-----------------------------------------------------------------------------
(* The server: it is connected to one app and has selected one of its tabs. *)

Places(a, id) == {k \in DOMAIN tabs[a] : tabs[a][k].id = id}
Selected(a)   == UNION {Places(a, c.tab) : c \in {d \in conn : d.app = a}}

\* cdp_connect selects the first page; it fails without a port or a page.
Reachable(a) == proc[a] = "debug" /\ tabs[a] # <<>>
Attach(a) == conn' = {[app |-> a, tab |-> tabs[a][1].id]}

\* It may fail and leave what was, or nothing; or connect too late for its caller.
FailsToConnect(a) == conn' \in {conn, {}} \/ (Reachable(a) /\ Attach(a))

\* cdp_list_pages, which may fail: the URLs of the app the server is connected
\* to, and which of them is selected.
Listed == {[urls |-> [k \in DOMAIN tabs[c.app] |-> tabs[c.app][k].url],
            selected |-> Places(c.app, c.tab)] : c \in conn}

-----------------------------------------------------------------------------
(* setup_cdp_apps                                                          *)

Here == Apps[turn]
Tell(status) == told' = [told EXCEPT ![Here] = status]
NextApp == /\ turn' = turn + 1 /\ tries' = 0 /\ injected' = {} /\ page' = {}
           /\ pc' = IF turn = Len(Apps) THEN "recording" ELSE "app"

Fail == Tell("failed") /\ NextApp /\ UNCHANGED <<cancel, known>>

\* The signal is looked at before each app; it is remembered.
Interrupted == cancel /\ pc' = "recording" /\ UNCHANGED <<turn, tries, injected, page, cancel, known, told>>

\* prepare_cdp_recording_port: an app that has a port keeps it, if pgrep and ps
\* show it.
Prepare ==
  /\ pc = "app"
  /\ \/ Interrupted
     \/ /\ ~cancel /\ UNCHANGED <<turn, tries, injected, page, cancel, known>>
        /\ \/ proc[Here] = "debug" /\ pc' = "connect" /\ Tell("connecting")
           \/ pc' = "quit" /\ Tell("restarting")
  /\ UNCHANGED <<desktop, conn, clicks>>

Exit(a) == /\ proc' = [proc EXCEPT ![a] = "none"] /\ tabs' = [tabs EXCEPT ![a] = <<>>]
           /\ conn' = {c \in conn : c.app # a}

\* quit_existing_cdp_app: whatever the answer, the exit is waited for.
QuitApp ==
  /\ pc = "quit" /\ pc' = "wait"
  /\ \/ Exit(Here)
     \/ UNCHANGED <<proc, tabs, conn>>
  /\ UNCHANGED <<fresh, acts, turn, tries, injected, page, cancel, known, told, clicks>>

\* Deviation: the wait has no end.
WaitForExit_Endless ==
  /\ pc = "wait"
  /\ \/ proc[Here] = "none" /\ pc' = "launch" /\ tries' = 0
     \/ pc' = "wait" /\ tries' = 0
  /\ UNCHANGED <<desktop, conn, turn, injected, page, cancel, known, told, clicks>>

\* wait_for_app_exit: list_apps may fail, or still name the app.
WaitForExit ==
  /\ pc = "wait"
  /\ \/ proc[Here] = "none" /\ pc' = "launch" /\ tries' = 0
     \/ tries < QuitPolls /\ pc' = "wait" /\ tries' = tries + 1
     \/ tries = QuitPolls /\ pc' = "force" /\ tries' = 0
  /\ UNCHANGED <<desktop, conn, turn, injected, page, cancel, known, told, clicks>>

\* force_quit_cdp_app
ForceQuit ==
  /\ pc = "force" /\ pc' = "launch"
  /\ \/ Exit(Here)
     \/ UNCHANGED <<proc, tabs, conn>>
  /\ UNCHANGED <<fresh, acts, turn, tries, injected, page, cancel, known, told, clicks>>

\* launch_cdp_app: an app that would not quit is only brought to the front and
\* stays as it was.
Launch ==
  /\ pc = "launch"
  /\ \/ /\ pc' = "connect" /\ Tell("connecting")
        /\ IF proc[Here] = "none"
             THEN /\ proc' = [proc EXCEPT ![Here] = "debug"]
                  /\ tabs' = [tabs EXCEPT ![Here] = <<Tab(fresh, Home)>>]
                  /\ fresh' = fresh + 1
             ELSE UNCHANGED <<proc, tabs, fresh>>
        /\ UNCHANGED <<turn, tries, injected, page, cancel, known>>
     \/ Fail /\ UNCHANGED <<proc, tabs, fresh>>
  /\ UNCHANGED <<acts, conn, clicks>>

\* connect_cdp_for_setup: the signal interrupts poll_cdp_ready.
ConnectForSetup ==
  /\ pc = "connect"
  /\ \/ Interrupted /\ FailsToConnect(Here)
     \/ /\ ~cancel /\ Reachable(Here) /\ Attach(Here) /\ pc' = "inject"
        /\ UNCHANGED <<turn, tries, injected, page, cancel, known, told>>
     \/ /\ ~cancel /\ tries < Tries /\ tries' = tries + 1 /\ FailsToConnect(Here)
        /\ UNCHANGED <<pc, turn, injected, page, cancel, known, told>>
     \/ ~cancel /\ tries = Tries /\ FailsToConnect(Here) /\ Fail
  /\ UNCHANGED <<desktop, clicks>>

InjectClickListener ==
  /\ pc = "inject"
  /\ \/ \E c \in conn : \E k \in Places(c.app, c.tab) :
          /\ tabs' = [tabs EXCEPT ![c.app][k].hears = TRUE]
          /\ injected' = {c} /\ pc' = "hover"
     \/ UNCHANGED <<tabs, injected>> /\ pc' = "list"
  /\ UNCHANGED <<proc, fresh, acts, conn, turn, tries, page, cancel, known, told, clicks>>

\* The hover listener, whatever comes of it.
InjectHoverListener ==
  /\ pc = "hover" /\ pc' = "list"
  /\ UNCHANGED <<desktop, conn, turn, tries, injected, page, cancel, known, told, clicks>>

\* current_selected_page_url: the selected page, else the first.
Remembered(list) ==
  IF list.selected # {} THEN {list.urls[k] : k \in list.selected}
  ELSE {list.urls[k] : k \in {1} \cap DOMAIN list.urls}

ListPages ==
  /\ pc = "list" /\ pc' = "disconnect"
  /\ page' \in {{}} \cup {Remembered(list) : list \in Listed}
  /\ UNCHANGED <<desktop, conn, turn, tries, injected, cancel, known, told, clicks>>

\* cdp_disconnect, whose failure nobody sees; the app is ready if its click
\* listener was installed.
Disconnect ==
  /\ pc = "disconnect" /\ conn' \in {conn, {}}
  /\ IF injected = {} THEN Fail
     ELSE /\ known' = [a \in DOMAIN known \cup {Here} |->
                         IF a = Here THEN page ELSE known[a]]
          /\ Tell("ready") /\ NextApp /\ UNCHANGED cancel
  /\ UNCHANGED <<desktop, clicks>>

-----------------------------------------------------------------------------
(* The user.                                                               *)

Moved == acts.moves < MaxMoves /\ acts' = [acts EXCEPT !.moves = @ + 1]

Open(a, k, url) ==
  /\ Moved /\ proc[a] # "none" /\ k \in 1 .. Len(tabs[a]) + 1 /\ Len(tabs[a]) < MaxTabs
  /\ tabs' = [tabs EXCEPT ![a] = InsertAt(@, k, Tab(fresh, url))] /\ fresh' = fresh + 1
  /\ UNCHANGED <<proc, conn, setup, clicks>>

Close(a, k) ==
  /\ Moved /\ tabs' = [tabs EXCEPT ![a] = RemoveAt(@, k)]
  /\ UNCHANGED <<proc, fresh, conn, setup, clicks>>

\* A new document has no listeners and no queue; a page may also change its
\* address and stay the document it is.
Navigate(a, k, url) ==
  /\ Moved /\ url # tabs[a][k].url
  /\ \/ tabs' = [tabs EXCEPT ![a][k] = Tab(@.id, url)]
     \/ url.origin = tabs[a][k].url.origin /\ tabs' = [tabs EXCEPT ![a][k].url = url]
  /\ UNCHANGED <<proc, fresh, conn, setup, clicks>>

\* The user quits an app, or it crashes.
UserQuits(a) ==
  /\ Moved /\ proc[a] # "none" /\ Exit(a)
  /\ UNCHANGED <<fresh, setup, clicks>>

Cancel ==
  /\ pc # "recording" /\ ~cancel /\ cancel' = TRUE
  /\ UNCHANGED <<desktop, conn, pc, turn, tries, injected, page, known, told, clicks>>

\* A click reaches the listener of its tab, and the capture loop asks for it if
\* the app is in cdp_state.
Click(a, k) ==
  /\ pc = "recording" /\ hover.at = "recording" /\ ~cancel /\ acts.clicks < MaxClicks
  /\ LET id == acts.clicks + 1
         click == [id |-> id, app |-> a, tab |-> tabs[a][k].id] IN
     /\ tabs' = IF tabs[a][k].hears
                  THEN [tabs EXCEPT ![a][k].queue = Append(@, click)] ELSE tabs
     /\ requests' = IF a \in DOMAIN known THEN Append(requests, click) ELSE requests
  /\ acts' = [acts EXCEPT !.clicks = @ + 1]
  /\ UNCHANGED <<proc, fresh, conn, setup, job, answers, fetch>>

-----------------------------------------------------------------------------
(* spawn_cdp_click_consumer: cdp_retrieve_click, one request at a time.     *)

Asked == Head(requests)
Goto(at) == job' = [Idle EXCEPT !.at = at]
GiveUp == job' = Idle /\ requests' = Tail(requests)

\* The tasks that are in the middle of an app, and the one whose connection may be
\* the other's because the drain did not wait for the consumer.
AtWork == (IF job.at # "idle" THEN {"clicks"} ELSE {})
          \cup (IF hover.of # {} THEN {"hovers"} ELSE {})
Taken(task) == crossed' = AtWork \ {task}
Mixed(task) == late /\ task \in crossed

\* Deviation: a connection that was refused is taken for one.
Reconnect_Unchecked ==
  /\ job.at = "idle" /\ requests # <<>>
  /\ \/ Reachable(Asked.app) /\ Attach(Asked.app)
     \/ ~Reachable(Asked.app) /\ UNCHANGED conn
  /\ Goto(IF known[Asked.app] = {} THEN "poll" ELSE "list")
  /\ UNCHANGED <<desktop, setup, requests, answers, fetch>>

Reconnect ==
  /\ job.at = "idle" /\ requests # <<>> /\ Taken("clicks")
  /\ \/ /\ Reachable(Asked.app) /\ Attach(Asked.app)
        /\ Goto(IF known[Asked.app] = {} THEN "poll" ELSE "list") /\ UNCHANGED requests
     \/ FailsToConnect(Asked.app) /\ GiveUp
  /\ UNCHANGED <<desktop, setup, answers, hover, late>>

\* The first page of the list the test holds for.
First(urls, Test(_)) ==
  LET hits == {k \in DOMAIN urls : Test(urls[k])} IN
  {k \in hits : \A l \in hits : k <= l}

\* Deviation: only the origin is compared.
PickPage_Origin(urls, url) == First(urls, LAMBDA u : u.origin = url.origin)

\* pick_page_index_for_url: the same address, else the same but for the query,
\* else the same origin.
PickPage(urls, url) ==
  LET exact  == First(urls, LAMBDA u : u = url)
      path   == First(urls, LAMBDA u : u.origin = url.origin /\ u.path = url.path)
      origin == First(urls, LAMBDA u : u.origin = url.origin) IN
  IF exact # {} THEN exact ELSE IF path # {} THEN path ELSE origin

\* restore_selected_page: a list that fails, or shows no match, leaves the page
\* the server has selected.
Restore ==
  /\ job.at = "list"
  /\ \/ \E list \in Listed, url \in known[Asked.app] :
          LET index == PickPage(list.urls, url) IN
          job' = [Idle EXCEPT !.at = IF index \subseteq list.selected THEN "poll" ELSE "select",
                              !.index = index]
     \/ Goto("poll")
  /\ UNCHANGED <<desktop, conn, setup, requests, answers, fetch>>

\* cdp_select_page, by the place the page had in the list.
Select(index) ==
  \/ \E c \in conn, k \in index :
       k \in DOMAIN tabs[c.app] /\ conn' = {[c EXCEPT !.tab = tabs[c.app][k].id]}
  \/ UNCHANGED conn

SelectPage ==
  /\ job.at = "select" /\ Select(job.index) /\ Goto("poll")
  /\ UNCHANGED <<desktop, setup, requests, answers, fetch>>

\* The oldest click of the page's queue; one that is empty is asked again.
Poll ==
  /\ job.at = "poll"
  /\ \/ \E c \in conn : \E k \in Places(c.app, c.tab) :
          LET queue == tabs[c.app][k].queue IN
          IF queue # <<>>
            THEN /\ answers' = answers \cup {[of |-> Asked, entry |-> Head(queue),
                                              mixed |-> Mixed("clicks")]}
                 /\ tabs' = [tabs EXCEPT ![c.app][k].queue = Tail(@)] /\ GiveUp
            ELSE /\ job' = IF job.tries + 1 < EmptyPolls THEN [job EXCEPT !.tries = @ + 1]
                           ELSE [Idle EXCEPT !.at = "check"]
                 /\ UNCHANGED <<answers, tabs, requests>>
     \/ GiveUp /\ UNCHANGED <<tabs, answers>>
  /\ UNCHANGED <<proc, fresh, acts, conn, setup, fetch>>

\* CDP_CHECK_AND_REINJECT_JS
Reinject ==
  /\ job.at = "check" /\ GiveUp
  /\ \/ \E c \in conn : \E k \in Places(c.app, c.tab) :
          tabs' = IF tabs[c.app][k].hears THEN tabs
                  ELSE [tabs EXCEPT ![c.app][k].hears = TRUE,
                                    ![c.app][k].queue = <<>>]
     \/ UNCHANGED tabs
  /\ UNCHANGED <<proc, fresh, acts, conn, setup, answers, fetch>>

-----------------------------------------------------------------------------
(* The end of the recording: drain_capture_tasks, then                     *)
(* persist_cdp_hover_events, one app at a time.                            *)

StopRecording ==
  /\ pc = "recording" /\ hover.at = "recording" /\ hover' = [hover EXCEPT !.at = "drain"]
  /\ UNCHANGED <<desktop, conn, setup, requests, job, answers, late, crossed>>

Through == requests = <<>> /\ job = Idle
Begin   == hover' = [hover EXCEPT !.at = "next", !.left = DOMAIN known]

\* Deviation: the consumer is not waited for.
Drain_Unawaited ==
  /\ hover.at = "drain" /\ Begin
  /\ UNCHANGED <<desktop, conn, setup, requests, job, answers, late, crossed>>

\* The consumer is waited for, until the deadline; what is left of it goes on.
Drain ==
  /\ hover.at = "drain" /\ Begin
  /\ late' = ~Through
  /\ UNCHANGED <<desktop, conn, setup, requests, job, answers, crossed>>

On(at)  == hover' = [hover EXCEPT !.at = at, !.index = {}]
Skip(a) == hover' = [hover EXCEPT !.at = "next", !.left = @ \ {a}, !.of = {}, !.index = {}]

\* An app that refuses is passed over.
ConnectForHovers(a) ==
  /\ hover.at = "next" /\ a \in hover.left /\ Taken("hovers")
  /\ \/ /\ Reachable(a) /\ Attach(a)
        /\ hover' = [hover EXCEPT !.at = IF known[a] = {} THEN "stop" ELSE "list", !.of = {a}]
     \/ FailsToConnect(a) /\ Skip(a)
  /\ UNCHANGED <<desktop, setup, requests, job, answers, late>>

FetchOver ==
  /\ hover.at = "next" /\ hover.left = {} /\ On("over")
  /\ UNCHANGED <<desktop, conn, setup, requests, job, answers, late, crossed>>

\* restore_selected_page once more
RestoreForHovers ==
  /\ hover.at = "list"
  /\ \/ \E list \in Listed, a \in hover.of : \E url \in known[a] :
          LET index == PickPage(list.urls, url) IN
          hover' = [hover EXCEPT !.at = IF index \subseteq list.selected THEN "stop" ELSE "select",
                                 !.index = index]
     \/ On("stop")
  /\ UNCHANGED <<desktop, conn, setup, requests, job, answers, late, crossed>>

SelectForHovers ==
  /\ hover.at = "select" /\ Select(hover.index) /\ On("stop")
  /\ UNCHANGED <<desktop, setup, requests, job, answers, late, crossed>>

\* CDP_STOP_HOVER_JS, whatever comes of it.
StopHovers ==
  /\ hover.at = "stop" /\ On("retrieve")
  /\ UNCHANGED <<desktop, conn, setup, requests, job, answers, late, crossed>>

\* CDP_RETRIEVE_HOVERS_JS: what it finds is persisted as the app's; if it fails
\* the app is left connected.
RetrieveHovers(a) ==
  /\ hover.at = "retrieve" /\ a \in hover.of
  /\ On("leave") \/ Skip(a)
  /\ UNCHANGED <<desktop, conn, setup, requests, job, answers, late, crossed>>

LeaveApp(a) ==
  /\ hover.at = "leave" /\ a \in hover.of /\ Skip(a) /\ conn' \in {conn, {}}
  /\ UNCHANGED <<desktop, setup, requests, job, answers, late, crossed>>

-----------------------------------------------------------------------------

SetUp == Prepare \/ QuitApp \/ WaitForExit \/ ForceQuit \/ Launch \/ ConnectForSetup
         \/ InjectClickListener \/ InjectHoverListener \/ ListPages \/ Disconnect
Consume == Reconnect \/ Restore \/ SelectPage \/ Poll \/ Reinject
Fetch == \/ Drain \/ FetchOver \/ RestoreForHovers \/ SelectForHovers \/ StopHovers
         \/ \E a \in App : ConnectForHovers(a) \/ RetrieveHovers(a) \/ LeaveApp(a)

Next ==
  \/ SetUp \/ Consume \/ Fetch \/ Cancel \/ StopRecording
  \/ \E a \in App : UserQuits(a) \/ \E k \in DOMAIN tabs[a] : Click(a, k)
  \/ \E a \in App \cap Browsed :
       \/ \E k \in DOMAIN tabs[a] : Close(a, k)
       \/ \E k \in 1 .. MaxTabs, url \in Url : Open(a, k, url)
       \/ \E k \in DOMAIN tabs[a], url \in Url : Navigate(a, k, url)

\* The tasks go on: every call they make is answered or times out.
Fairness == WF_vars(SetUp) /\ WF_vars(Consume) /\ WF_vars(Fetch)
Spec == Init /\ [][Next]_vars /\ Fairness

-----------------------------------------------------------------------------
(* Properties *)

\* The server has one connection for all apps, a disconnect may fail unseen and
\* an app may quit at any time: still no script ever runs in another app than
\* the one it is for, and no click is told what was clicked in another app, as
\* long as the end of the recording waits for the clicks.  Once its drain has
\* given them up, that is still so of whichever task was the last to connect.
RunsInItsApp ==
  /\ \A c \in conn :
       /\ pc \in {"inject", "hover", "list"} => c.app = Here
       /\ job.at # "idle" => c.app = Asked.app \/ Mixed("clicks")
       /\ hover.of # {} => hover.of = {c.app} \/ Mixed("hovers")
  /\ \A answer \in answers : answer.entry.app = answer.of.app \/ answer.mixed

\* A tab that has kept the address its listeners were installed at, alone among
\* the tabs of its app, is the tab that is asked, for clicks and for hovers,
\* wherever others were opened, closed or moved, unless the list failed or the
\* tabs change meanwhile.
KeepsItsTab ==
  \A a \in DOMAIN known : \A url \in known[a] : \A k \in DOMAIN tabs[a] :
    {l \in DOMAIN tabs[a] : tabs[a][l].url = url} = {k} =>
      /\ job.at = "list" /\ job'.index # {} /\ Asked.app = a =>
           job'.index = {k} \/ Mixed("clicks")
      /\ hover.at = "list" /\ hover'.index # {} /\ a \in hover.of =>
           hover'.index = {k} \/ Mixed("hovers")

\* The set-up comes to its end, with an outcome for every app unless it was
\* cancelled, however slowly the apps quit and whatever the user does to them
\* meanwhile; and so do the search for every click and the end of the recording.
EndsWithOutcome ==
  <>[](/\ pc = "recording" /\ Through /\ hover.at \in {"recording", "over"}
       /\ ~cancel => \A a \in App : told[a] = IF a \in DOMAIN known THEN "ready" ELSE "failed")
=============================================================================
