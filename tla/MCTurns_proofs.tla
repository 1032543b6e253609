--------------------------- MODULE MCTurns_proofs ---------------------------
(***************************************************************************)
(* Theorems about the parts of MCTurns, for every instance of each.  Of    *)
(* CdpFocus: that what a turn is shown of the desktop was captured after   *)
(* the changes of focus, is not too old, and is of the session the         *)
(* server has.  Of Permissions: that a call is refused, asked about or run *)
(* as the whole policy says, whatever the order of its rules.  Of          *)
(* NoProgress: that the model is told that it goes round in circles        *)
(* exactly when it does.  Of Transcript: that the model hears what became  *)
(* of its last action, in a transcript it accepts.  Of SkillJournal: that  *)
(* a torn skill is left alone.  And that what is proved of a part holds of *)
(* the behaviours of MCTurns.                                              *)
(***************************************************************************)
EXTENDS MCTurns, FiniteSetTheorems, SequenceTheorems, WellFoundedInduction, TLAPS

-----------------------------------------------------------------------------
(* The desktop as the loop shows it to the model. *)

(* The parts of the inductive invariant: a turn has applied every queued event; no
   focus or lifecycle call is of a later step; while the runner works on an app, an
   event of this turn's own call, if it dispatched one, is queued; unless such an
   event is still queued, what is kept was captured after every call but those of a
   relaunch the turn did not ask for. *)
Unshown == pc = "llm" => pending = {}
Young == \A m \in shifted : m.at <= step
Announced ==
  pc \notin {"top", "llm"} /\ [at |-> step, own |-> FALSE] \in shifted
    => pending \cap C!Shift # {}
After ==
  pending \cap C!Shift = {} =>
    \A s \in ax \cup shot \cup elements, m \in shifted : s >= m.at \/ C!Unannounced(m)
FocusInv == C!TypeOK /\ Unshown /\ Young /\ Announced /\ After /\ C!EvidenceAged

\* A set with at most one member, of what it may be built from.
LEMMA OptionFacts ==
  ASSUME NEW S
  PROVE  /\ C!IsOption({}, S)
         /\ \A x \in S : C!IsOption({x}, S)
         /\ \A o, p : C!IsOption(o, S) /\ p \subseteq o => C!IsOption(p, S)
BY DEF C!IsOption

\* Where a turn of the focus policy may be, and what it then works on.
WorldStages == {"top", "llm", "probe", "port", "relaunch", "force", "launch", "connect"}
TurnTyped ==
  /\ C!IsOption(target, App) /\ pc \in WorldStages
  /\ (pc \notin {"top", "llm"} => target # {})

\* auto_connect_cdp starts where its app's kind sends it.
LEMMA ConnectTypes ==
  ASSUME C!TypeOK, NEW a \in App, NEW kind \in C!Kind \cup {"unknown"},
         C!ConnectBy(a, kind)
  PROVE  TurnTyped'
<1>1. CASE kind = "Native" BY <1>1 DEF C!TypeOK, C!ConnectBy, TurnTyped, WorldStages
<1>2. CASE kind = "Cdp" BY <1>2, OptionFacts DEF C!ConnectBy, TurnTyped, WorldStages
<1>3. CASE kind = "unknown" BY <1>3, OptionFacts DEF C!ConnectBy, TurnTyped, WorldStages
<1> QED BY <1>1, <1>2, <1>3 DEF C!Kind

\* maybe_cdp_connect writes values of their types and leaves the link alone.
LEMMA HookTypes ==
  ASSUME C!TypeOK, NEW a \in App, NEW kind \in C!Told(a), C!Hook(a, kind)
  PROVE  /\ TurnTyped' /\ kinds' \in [App -> C!Kind \cup {"unknown"}]
         /\ C!IsOption(focused, [app : App, kind : C!Kind])' /\ C!IsOption(status, App)'
         /\ UNCHANGED <<connected, cached>>
<1>1. kind \in C!Kind \cup {"unknown"} BY DEF C!Told, C!KindOf, C!Kind
<1>2. TurnTyped' BY <1>1, ConnectTypes DEF C!Hook
<1>3. [app |-> a, kind |-> IF kind = "Cdp" THEN "Cdp" ELSE "Native"]
        \in [app : App, kind : C!Kind]
  BY DEF C!Kind
<1>4. C!IsOption(focused', [app : App, kind : C!Kind]) /\ C!IsOption(status', App)
  BY <1>3, OptionFacts DEF C!Hook
<1>5. kinds' \in [App -> C!Kind \cup {"unknown"}]
  BY <1>1 DEF C!Hook, C!TypeOK
<1> QED BY <1>2, <1>4, <1>5 DEF C!Hook, C!IsOption

\* A call is kept with the step_index it leaves.
LEMMA CallsTyped ==
  ASSUME C!TypeOK, NEW own \in BOOLEAN, step' \in {step, step + 1}, C!Dispatched(own)
  PROVE  shifted' \subseteq [at : Nat, own : BOOLEAN]
<1>1. step' \in Nat BY DEF C!TypeOK
<1> QED BY <1>1 DEF C!TypeOK, C!Dispatched

\* Every step of the world keeps its types.
LEMMA WorldTypes == ASSUME C!TypeOK, [C!Next]_(C!vars) PROVE C!TypeOK'
<1> USE DEF C!TypeOK
<1>1. CASE C!Observe
  <2> PICK answer \in C!Summary :
         /\ url' = answer /\ page' \subseteq answer
         /\ elements' \subseteq elements /\ ax' \subseteq ax /\ shot' \subseteq shot
    BY <1>1 DEF C!Observe, C!Mirrored, C!Remembered
  <2>1. C!IsOption(answer, App) BY OptionFacts DEF C!Summary
  <2>2. /\ C!IsOption(url', App) /\ C!IsOption(page', App)
        /\ C!IsOption(ax', Nat) /\ C!IsOption(shot', Nat) /\ C!IsOption(elements', Nat)
    BY <2>1, OptionFacts
  <2> QED BY <1>1, <2>2 DEF C!Observe, C!envVars, C!linkVars
<1>2. CASE C!Answered
  <2>1. C!IsOption({step}, Nat) /\ C!IsOption({}, Nat) BY OptionFacts
  <2>2. CASE C!Snapshot \/ C!Screenshot \/ C!FindText \/ C!StaleUid
    <3>1. /\ ax' \in {ax, {step}} /\ shot' \in {shot, {step}}
          /\ elements' \in {elements, {}, {step}}
          /\ UNCHANGED <<C!envVars, target, C!linkVars, focused, C!pageVars,
                      pending, shifted>>
          /\ pc' = "top" /\ step' = step + 1
      BY <2>2 DEF C!Snapshot, C!Screenshot, C!FindText, C!StaleUid, C!Push
    <3>2. C!IsOption(ax', Nat) /\ C!IsOption(shot', Nat) /\ C!IsOption(elements', Nat)
      BY <2>1, <3>1
    <3> QED BY <3>1, <3>2 DEF C!envVars, C!linkVars, C!pageVars
  <2>3. CASE C!Navigate
    BY <2>3 DEF C!Navigate, C!Push, C!envVars, C!linkVars, C!pageVars, C!evidence,
                C!Event
  <2>4. CASE C!Coordinate \/ C!Recorded \/ C!Unrecorded
    BY <2>4 DEF C!Coordinate, C!Recorded, C!Unrecorded, C!Push, C!envVars,
                C!linkVars, C!pageVars, C!evidence
  <2> QED BY <1>2, <2>2, <2>3, <2>4 DEF C!Answered
<1>3. ASSUME NEW a \in App, C!Quit(a) PROVE C!TypeOK'
  <2>0. shifted' \subseteq [at : Nat, own : BOOLEAN] BY <1>3, CallsTyped DEF C!Quit, C!Push
  <2>1. /\ C!IsOption(session \ {a}, App)
        /\ C!IsOption(connected \ {a}, App)
        /\ C!IsOption({}, App) /\ C!IsOption({}, [app : App, kind : C!Kind])
    BY OptionFacts
  <2>2. pending' \subseteq C!Event BY <1>3 DEF C!Quit, C!Event, C!Shift
  <2>3. C!IsOption(focused', [app : App, kind : C!Kind]) /\ C!IsOption(status', App)
    BY <1>3, <2>1 DEF C!Quit
  <2>4. proc' \in [App -> {"none", "plain", "debug"}] BY <1>3 DEF C!Quit
  <2> QED BY <1>3, <2>0, <2>1, <2>2, <2>3, <2>4 DEF C!Quit, C!Push, C!pageVars, C!evidence
<1>4. ASSUME NEW a \in App, C!Launch(a) PROVE C!TypeOK'
  <2> PICK kind \in C!Told(a) : C!Hook(a, kind) BY <1>4 DEF C!Launch
  <2>1. shifted' \subseteq [at : Nat, own : BOOLEAN] BY <1>4, CallsTyped DEF C!Launch, C!Push
  <2>2. pending' \subseteq C!Event BY <1>4 DEF C!Launch, C!Event, C!Shift
  <2>3. proc' \in [App -> {"none", "plain", "debug"}] BY <1>4 DEF C!Launch
  <2>4. /\ TurnTyped' /\ kinds' \in [App -> C!Kind \cup {"unknown"}]
        /\ C!IsOption(focused', [app : App, kind : C!Kind]) /\ C!IsOption(status', App)
        /\ UNCHANGED <<connected, cached>>
    BY HookTypes
  <2> QED BY <1>4, <2>1, <2>2, <2>3, <2>4
        DEF C!Launch, C!Push, TurnTyped, WorldStages, C!pageVars, C!evidence
<1>5. ASSUME NEW a \in App, C!SkipLaunch(a) PROVE C!TypeOK'
  <2> PICK kind \in C!Told(a) : C!Hook(a, kind) BY <1>5 DEF C!SkipLaunch
  <2>4. /\ TurnTyped' /\ kinds' \in [App -> C!Kind \cup {"unknown"}]
        /\ C!IsOption(focused', [app : App, kind : C!Kind]) /\ C!IsOption(status', App)
        /\ UNCHANGED <<connected, cached>>
    BY HookTypes
  <2> QED BY <1>5, <2>4 DEF C!SkipLaunch, C!Push, TurnTyped, WorldStages, C!envVars,
                            C!pageVars, C!evidence
<1>6. ASSUME NEW a \in App, C!Focus(a) PROVE C!TypeOK'
  <2> PICK kind \in C!Told(a) : C!Hook(a, kind) BY <1>6 DEF C!Focus
  <2>1. shifted' \subseteq [at : Nat, own : BOOLEAN] BY <1>6, CallsTyped DEF C!Focus, C!Push
  <2>2. pending' \subseteq C!Event BY <1>6 DEF C!Focus, C!Event
  <2>4. /\ TurnTyped' /\ kinds' \in [App -> C!Kind \cup {"unknown"}]
        /\ C!IsOption(focused', [app : App, kind : C!Kind]) /\ C!IsOption(status', App)
        /\ UNCHANGED <<connected, cached>>
    BY HookTypes
  <2> QED BY <1>6, <2>1, <2>2, <2>4
        DEF C!Focus, C!Push, TurnTyped, WorldStages, C!envVars, C!pageVars, C!evidence
<1>7. ASSUME NEW a \in App, C!SkipFocus(a) PROVE C!TypeOK'
  <2>1. TurnTyped' BY <1>7, ConnectTypes DEF C!SkipFocus, TurnTyped, WorldStages
  <2> QED BY <1>7, <2>1 DEF C!SkipFocus, C!Push, TurnTyped, WorldStages, C!envVars,
                            C!linkVars, C!pageVars, C!evidence
<1>8. ASSUME NEW a \in App, C!Managed(a) PROVE C!TypeOK'
  <2> USE DEF C!envVars, C!linkVars, C!pageVars, C!evidence, C!Connected, C!Fail,
              C!Reachable, C!IsOption
  <2>1. CASE C!Probe(a) BY <2>1 DEF C!Probe, C!Kind
  <2>2. CASE C!ExistingPort(a) BY <2>2 DEF C!ExistingPort
  <2>7. ASSUME C!Relaunching
        PROVE  shifted' \subseteq [at : Nat, own : BOOLEAN]
    BY <2>7, CallsTyped DEF C!Relaunching
  <2>3. CASE C!QuitAndWait(a) BY <2>3, <2>7 DEF C!QuitAndWait, C!Relaunching
  <2>4. CASE C!ForceQuit(a) BY <2>4, <2>7 DEF C!ForceQuit, C!Relaunching
  <2>5. CASE C!Relaunch(a) BY <2>5, <2>7 DEF C!Relaunch, C!Started, C!Relaunching
  <2>6. CASE C!Connect(a) BY <2>6 DEF C!Connect
  <2> QED BY <1>8, <2>1, <2>2, <2>3, <2>4, <2>5, <2>6 DEF C!Managed
<1>9. ASSUME NEW a \in App, C!Exits(a) PROVE C!TypeOK'
  BY <1>9 DEF C!Exits, C!linkVars, C!pageVars, C!evidence, C!IsOption
<1>10. CASE UNCHANGED C!vars
  BY <1>10 DEF C!vars, C!envVars, C!linkVars, C!pageVars, C!evidence
<1> QED BY <1>1, <1>2, <1>3, <1>4, <1>5, <1>6, <1>7, <1>8, <1>9, <1>10 DEF C!Next

\* observe_for_next_turn drops what the queued and the aged events name, and
\* mirrors a page of the server's session only.
LEMMA ObserveStep ==
  ASSUME FocusInv, Ttl \in Nat, C!Observe
  PROVE  Unshown' /\ Young' /\ Announced' /\ After' /\ C!EvidenceAged' /\ C!PageIsLive
<1> DEFINE events == pending \cup C!Aged
<1>1. /\ ax' \subseteq ax /\ shot' \subseteq shot /\ elements' \subseteq elements
      /\ C!DropsAx(events) => ax' = {}
      /\ C!DropsShot(events) => shot' = {}
      /\ C!DropsElements(events) => elements' = {}
      /\ page' \subseteq session
      /\ pending' = {} /\ pc' = "llm" /\ step' = step /\ shifted' = shifted
  BY DEF C!Observe, C!Summary, C!Mirrored, C!Remembered
<1>2. After'
  <2>1. CASE pending \cap C!Shift = {} BY <1>1, <2>1 DEF FocusInv, After, C!Unannounced
  <2>2. CASE pending \cap C!Shift # {}
    <3>1. ax' = {} /\ shot' = {} /\ elements' = {}
      BY <1>1, <2>2 DEF C!DropsAx, C!DropsShot, C!DropsElements
    <3> QED BY <3>1 DEF After
  <2> QED BY <2>1, <2>2
<1>3. C!EvidenceAged'
  <2> SUFFICES ASSUME NEW s \in ax' \cup shot' PROVE step - s <= Ttl
    BY <1>1 DEF C!EvidenceAged
  <2>1. s \in Nat /\ step \in Nat BY <1>1 DEF FocusInv, C!TypeOK, C!IsOption
  <2>2. SUFFICES ASSUME step - s > Ttl PROVE FALSE BY <2>1
  <2>3. CASE s \in ax'
    <3>1. "StaleAx" \in C!Aged BY <1>1, <2>2, <2>3 DEF C!Aged, C!Stale
    <3> QED BY <1>1, <2>3, <3>1 DEF C!DropsAx
  <2>4. CASE s \in shot'
    <3>1. "StaleShot" \in C!Aged BY <1>1, <2>2, <2>4 DEF C!Aged, C!Stale
    <3> QED BY <1>1, <2>4, <3>1 DEF C!DropsShot
  <2> QED BY <2>3, <2>4
<1> QED BY <1>1, <1>2, <1>3 DEF Unshown, Young, Announced, C!PageIsLive, FocusInv

\* Every other step captures at the present step_index or not at all; a turn's own
\* focus or lifecycle call queues its own event, and the runner's own are made while
\* it works on an app.
LEMMA TurnStep ==
  ASSUME FocusInv, [C!Next]_(C!vars), ~C!Observe
  PROVE  /\ step' \in {step, step + 1}
         /\ pc' = "llm" => pc = "llm" /\ pending' = pending /\ step' = step
         /\ ax' \in {ax, {step}} /\ shot' \in {shot, {step}}
         /\ elements' \in {elements, {}, {step}}
         /\ pc' = "llm" => ax' = ax /\ shot' = shot
         /\ pending \subseteq pending'
         /\ pc' \notin {"top", "llm"} => step' = step + 1 \/ pc \notin {"top", "llm"}
         /\ \/ shifted' = shifted
            \/ /\ C!Dispatched(FALSE) /\ step' = step + 1 /\ pending' \cap C!Shift # {}
            \/ /\ C!Dispatched(TRUE) /\ step' = step /\ pending' = pending
               /\ pc \notin {"top", "llm"}
               /\ UNCHANGED <<ax, shot, elements>>
<1> USE DEF FocusInv, C!Push, C!Shift, C!envVars, C!linkVars, C!pageVars, C!evidence
<1>1. CASE C!Answered
  BY <1>1 DEF C!Answered, C!Snapshot, C!Screenshot, C!FindText, C!StaleUid,
              C!Navigate, C!Coordinate, C!Recorded,
              C!Unrecorded
<1>2. ASSUME NEW a \in App, NEW kind, C!ConnectBy(a, kind),
             kind \in C!Kind \cup {"unknown"}
      PROVE  pc' # "llm"
  BY <1>2 DEF C!ConnectBy, C!Kind
<1>3. ASSUME NEW a \in App, NEW kind \in C!Told(a), C!Hook(a, kind) PROVE pc' # "llm"
  BY <1>2, <1>3 DEF C!Hook, C!Told, C!KindOf, C!Kind
<1>4. ASSUME NEW a \in App, C!Quit(a) \/ C!Launch(a) \/ C!SkipLaunch(a) \/ C!Focus(a)
      PROVE  pc' # "llm"
  BY <1>3, <1>4 DEF C!Quit, C!Launch, C!SkipLaunch, C!Focus
<1>5. ASSUME NEW a \in App, C!SkipFocus(a) PROVE pc' # "llm"
  BY <1>2, <1>5 DEF C!SkipFocus, C!TypeOK
<1>6. ASSUME NEW a \in App, C!Quit(a) \/ C!Launch(a) \/ C!SkipLaunch(a)
             \/ C!Focus(a) \/ C!SkipFocus(a)
      PROVE  /\ step' = step + 1 /\ ax' = ax /\ shot' = shot /\ elements' = elements
             /\ pending \subseteq pending'
             /\ \/ shifted' = shifted
                \/ C!Dispatched(FALSE) /\ pending' \cap C!Shift # {}
  BY <1>6 DEF C!Quit, C!Launch, C!SkipLaunch, C!Focus, C!SkipFocus
<1>7. ASSUME NEW a \in App, C!Managed(a)
      PROVE  /\ pc' # "llm" /\ pc \notin {"top", "llm"}
             /\ UNCHANGED <<step, ax, shot, elements, pending>>
             /\ shifted' = shifted \/ C!Dispatched(TRUE)
  BY <1>7 DEF C!Managed, C!Probe, C!ExistingPort, C!QuitAndWait, C!ForceQuit,
              C!Relaunch, C!Connect, C!Connected, C!Fail, C!Relaunching
<1>8. ASSUME NEW a \in App, C!Exits(a)
      PROVE  UNCHANGED <<pc, step, ax, shot, elements, shifted, pending>>
  BY <1>8 DEF C!Exits
<1>9. CASE UNCHANGED C!vars BY <1>9 DEF C!vars
<1> HIDE DEF FocusInv
<1>10. ASSUME NEW a \in App, C!Quit(a) \/ C!Launch(a) \/ C!SkipLaunch(a)
             \/ C!Focus(a) \/ C!SkipFocus(a)
       PROVE pc' # "llm"
  BY <1>4, <1>5, <1>10
<1> QED BY <1>1, <1>6, <1>7, <1>8, <1>9, <1>10 DEF C!Next

\* The invariant is inductive, and every turn starts from a live page.
LEMMA FocusStep ==
  ASSUME FocusInv, Ttl \in Nat, [C!Next]_(C!vars)
  PROVE  FocusInv' /\ C!PageIsLive
<1>1. C!TypeOK' BY WorldTypes DEF FocusInv
<1>2. CASE C!Observe BY <1>1, <1>2, ObserveStep DEF FocusInv
<1>3. CASE ~C!Observe
  <2>1. /\ step \in Nat /\ \A s \in ax \cup shot \cup elements : s \in Nat
        /\ \A m \in shifted : m \in [at : Nat, own : BOOLEAN] /\ m.at <= step
    BY DEF FocusInv, C!TypeOK, C!IsOption, Young
  <2>12. /\ step' \in {step, step + 1}
         /\ ax' \in {ax, {step}} /\ shot' \in {shot, {step}}
         /\ elements' \in {elements, {}, {step}}
    BY <1>3, TurnStep
  <2>0. /\ step' \in Nat /\ step <= step'
        /\ pc' \notin {"top", "llm"} => step' = step + 1 \/ pc \notin {"top", "llm"}
        /\ pending \subseteq pending'
        /\ \A s \in ax' \cup shot' \cup elements' :
              s = step \/ s \in ax \cup shot \cup elements
    <3>1. step' \in Nat /\ step <= step' BY <2>1, <2>12
    <3>2. pc' \notin {"top", "llm"} => step' = step + 1 \/ pc \notin {"top", "llm"}
      BY <1>3, TurnStep
    <3>3. pending \subseteq pending' BY <1>3, TurnStep
    <3> QED BY <2>12, <3>1, <3>2, <3>3
  <2> DEFINE own == [at |-> step', own |-> TRUE]
             announced == [at |-> step', own |-> FALSE]
  <2>10. own.at = step' /\ own.own /\ announced.at = step' /\ ~announced.own /\ own # announced
    OBVIOUS
  <2>11. \/ shifted' = shifted
         \/ shifted' = {m \in shifted : m.own} \cup {announced} /\ pending' \cap C!Shift # {}
         \/ /\ shifted' = {m \in shifted : ~m.own} \cup {own}
            /\ step' = step /\ pc \notin {"top", "llm"}
    <3>1. CASE shifted' = shifted BY <3>1
    <3>2. CASE C!Dispatched(TRUE) /\ step' = step /\ pc \notin {"top", "llm"}
      <4>1. {m \in shifted : m.own # TRUE} = {m \in shifted : ~m.own} BY <2>1
      <4> QED BY <3>2, <4>1 DEF C!Dispatched
    <3>3. CASE C!Dispatched(FALSE) /\ pending' \cap C!Shift # {}
      <4>1. {m \in shifted : m.own # FALSE} = {m \in shifted : m.own} BY <2>1
      <4> QED BY <3>3, <4>1 DEF C!Dispatched
    <3> QED BY <1>3, <3>1, <3>2, <3>3, TurnStep
  <2> HIDE DEF own, announced
  <2>2. Young'
    <3> SUFFICES ASSUME NEW m \in shifted' PROVE m.at <= step'
      BY DEF Young
    <3>1. CASE m \in shifted BY <2>0, <2>1, <3>1
    <3>2. CASE m \in {own, announced} BY <2>0, <2>10, <3>2
    <3> QED BY <2>11, <3>1, <3>2
  <2>3. Announced'
    <3> SUFFICES ASSUME pc' \notin {"top", "llm"}, announced \in shifted',
                        pending' \cap C!Shift = {}
                 PROVE  FALSE
      BY DEF Announced, announced
    <3>1. pending \cap C!Shift = {} BY <2>0
    <3>2. announced \in shifted BY <2>10, <2>11
    <3>3. step' = step BY <2>0, <2>1, <2>10, <3>2
    <3>4. pc \notin {"top", "llm"} BY <2>0, <2>1, <3>3
    <3> QED BY <3>1, <3>2, <3>3, <3>4 DEF FocusInv, Announced, announced
  <2>4. After'
    <3> SUFFICES ASSUME pending' \cap C!Shift = {},
                        NEW s \in ax' \cup shot' \cup elements', NEW m \in shifted'
                 PROVE  s >= m.at \/ C!Unannounced(m)'
      BY DEF After
    <3>1. pending \cap C!Shift = {} BY <2>0
    <3>2. s = step \/ s \in ax \cup shot \cup elements BY <2>0
    <3>3. CASE shifted' = shifted
      BY <2>1, <3>1, <3>2, <3>3 DEF FocusInv, After, C!Unannounced
    <3>4. CASE /\ shifted' = {c \in shifted : ~c.own} \cup {own}
               /\ step' = step /\ pc \notin {"top", "llm"}
      <4>1. announced \notin shifted /\ announced \notin shifted'
        BY <2>10, <3>1, <3>4 DEF FocusInv, Announced, announced
      <4>2. CASE m = own
        <5>1. [at |-> m.at, own |-> FALSE] = announced BY <2>10, <4>2 DEF announced
        <5> QED BY <2>10, <4>1, <4>2, <5>1 DEF C!Unannounced
      <4>3. CASE m \in shifted /\ ~m.own
        <5>1. s >= m.at \/ C!Unannounced(m)
          BY <2>1, <3>1, <3>2, <4>3 DEF FocusInv, After
        <5> QED BY <4>3, <5>1 DEF C!Unannounced
      <4> QED BY <3>4, <4>2, <4>3
    <3> QED BY <2>11, <3>3, <3>4
  <2>5. Unshown' /\ C!EvidenceAged' /\ C!PageIsLive
    BY <1>3, TurnStep DEF FocusInv, Unshown, C!EvidenceAged, C!PageIsLive
  <2> QED BY <1>1, <2>2, <2>3, <2>4, <2>5 DEF FocusInv
<1> QED BY <1>2, <1>3

\* Before the first turn nothing was shown.
LEMMA FocusStarts == C!Init => FocusInv
<1> SUFFICES ASSUME C!Init PROVE FocusInv
  OBVIOUS
<1>1. C!TypeOK
  BY OptionFacts DEF C!Init, C!TypeOK
<1> QED BY <1>1 DEF C!Init, FocusInv, Unshown, Young, Announced, After, C!EvidenceAged

\* From one state of the invariant to another, with a live page at the start of a turn.
LEMMA FocusTells == FocusInv /\ FocusInv' /\ C!PageIsLive => C!TypeOK' /\ C!FocusIsTrue
BY DEF C!FocusIsTrue, FocusInv, Unshown, After, C!EvidenceAfterShift, C!EvidenceAged

\* What the prompt shows was captured after every focus or lifecycle call, but for those
\* of a relaunch in a turn whose own call the harness answered; no snapshot in it is
\* older than its time to live, and its page is one of the session the server has, for any apps, any Electron ones among them, any time to
\* live and any number of steps.
THEOREM FocusShows == C!Spec => [][C!TypeOK' /\ C!FocusIsTrue]_(C!vars)
<1>1. FocusInv /\ [C!Next]_(C!vars) => FocusInv' /\ C!PageIsLive
  BY FocusAssumption, FocusStep
<1> QED BY <1>1, FocusStarts, FocusTells, PTL DEF C!Spec

-----------------------------------------------------------------------------
(* The permission of a call: induction on the numbers. *)

\* A set of numbers that has 0 and with each number the next is all of them.
LEMMA NatSet ==
  ASSUME NEW K \in SUBSET Nat, 0 \in K, \A n \in K : n + 1 \in K
  PROVE  K = Nat
<1> DEFINE R == OpToRel(<, Nat)
           U == Nat \ K
<1>1. SUFFICES ASSUME U # {} PROVE FALSE OBVIOUS
<1>2. IsWellFoundedOn(R, Nat) BY NatLessThanWellFounded
<1> HIDE DEF R, U
<1>3. U \subseteq Nat BY DEF U
<1>4. PICK x \in U : \A y \in U : ~(<<y, x>> \in R)
  BY <1>1, <1>2, <1>3, WFMin
<1>5. x # 0 /\ x \in Nat /\ x - 1 \in Nat /\ x - 1 \notin U
  <2>1. x # 0 /\ x \in Nat BY <1>4 DEF U
  <2>2. x - 1 \in Nat /\ <<x - 1, x>> \in R BY <2>1 DEF R, OpToRel
  <2> QED BY <2>1, <2>2, <1>4
<1>6. x - 1 \in K BY <1>5 DEF U
<1>7. x \in K BY <1>6, <1>5
<1> QED BY <1>7, <1>4 DEF U

\* Of a set of the first n numbers there is a largest, and Max is one of them.
LEMMA LargestExists ==
  ASSUME NEW n \in Nat, NEW s \in SUBSET (1 .. n), s # {}
  PROVE  P!Max(s) \in s /\ \A x \in s : x <= P!Max(s)
<1> DEFINE K == {k \in Nat : \A r \in SUBSET (1 .. k) :
                    r # {} => \E m \in r : \A x \in r : m >= x}
<1>1. K = Nat
  <2>1. 0 \in K
    <3>1. \A r \in SUBSET (1 .. 0) : r = {}
      OBVIOUS
    <3> QED BY <3>1
  <2>2. ASSUME NEW k \in K PROVE k + 1 \in K
    <3>1. k \in Nat
      OBVIOUS
    <3>2. ASSUME NEW r \in SUBSET (1 .. k + 1), r # {} PROVE \E m \in r : \A x \in r : m >= x
      <4>1. CASE k + 1 \in r
        BY <3>1, <4>1
      <4>2. CASE k + 1 \notin r
        <5>1. r \in SUBSET (1 .. k)
          BY <3>1, <4>2
        <5> QED BY <3>2, <5>1
      <4> QED BY <4>1, <4>2
    <3> QED BY <3>1, <3>2
  <2> HIDE DEF K
  <2> QED BY <2>1, <2>2, NatSet, K \subseteq Nat DEF K
<1>2. \E m \in s : \A x \in s : m >= x
  BY <1>1
<1> HIDE DEF K
<1> QED BY <1>2 DEF P!Max
-----------------------------------------------------------------------------
(* The permission of a call: what a pattern matches. *)

\* The i-th character of the pattern takes what stands from a to b.
Takes(p, x, i, a, b) ==
  \/ p[i] = "*" /\ b >= a
  \/ p[i] = "?" /\ b = a + 1
  \/ p[i] \notin {"*", "?"} /\ b = a + 1 /\ x[b] = p[i]

\* The pattern from its i-th character on is like the text from its t-th on.
Cuts(p, x, i, t, cut) ==
  /\ cut \in [i - 1 .. Len(p) -> 0 .. Len(x)]
  /\ cut[i - 1] = t - 1 /\ cut[Len(p)] = Len(x)
  /\ \A j \in i .. Len(p) : Takes(p, x, j, cut[j - 1], cut[j])
LikeFrom(p, x, i, t) == \E cut : Cuts(p, x, i, t, cut)

\* Both have a length.
Lengths(p, x) == Len(p) \in Nat /\ Len(x) \in Nat

\* The equation of glob_match at a place.
Globbed(p, x, g, i, t) ==
  \/ i > Len(p) /\ t > Len(x)
  \/ /\ i <= Len(p) /\ p[i] = "*"
     /\ g[<<i + 1, t>>] \/ (t <= Len(x) /\ g[<<i, t + 1>>])
  \/ /\ i <= Len(p) /\ p[i] # "*"
     /\ t <= Len(x) /\ p[i] \in {"?", x[t]} /\ g[<<i + 1, t + 1>>]

\* At the end of the pattern the text must have ended.
LEMMA LikeEnd ==
  ASSUME NEW p, NEW x, Lengths(p, x), NEW t \in 1 .. Len(x) + 1
  PROVE  LikeFrom(p, x, Len(p) + 1, t) <=> t > Len(x)
<1> USE DEF Lengths
<1>1. ASSUME LikeFrom(p, x, Len(p) + 1, t) PROVE t > Len(x)
  <2> PICK cut : Cuts(p, x, Len(p) + 1, t, cut)
    BY <1>1 DEF LikeFrom
  <2>1. cut[(Len(p) + 1) - 1] = t - 1 /\ cut[Len(p)] = Len(x) /\ (Len(p) + 1) - 1 = Len(p)
    BY DEF Cuts
  <2> QED BY <2>1
<1>2. ASSUME t > Len(x) PROVE LikeFrom(p, x, Len(p) + 1, t)
  <2> DEFINE cut == [j \in (Len(p) + 1) - 1 .. Len(p) |-> Len(x)]
  <2>1. (Len(p) + 1) - 1 \in (Len(p) + 1) - 1 .. Len(p) /\ Len(p) \in (Len(p) + 1) - 1 .. Len(p)
        /\ t - 1 = Len(x) /\ Len(p) + 1 .. Len(p) = {}
    BY <1>2
  <2>2. Cuts(p, x, Len(p) + 1, t, cut)
    BY <2>1 DEF Cuts
  <2> QED BY <2>2 DEF LikeFrom
<1> QED BY <1>1, <1>2

\* The rest of the cuts is one of the rest of the pattern.
LEMMA CutTail ==
  ASSUME NEW p, NEW x, Lengths(p, x), NEW i \in 1 .. Len(p), NEW t \in 1 .. Len(x) + 1,
         NEW cut, Cuts(p, x, i, t, cut)
  PROVE  /\ cut[i] \in 0 .. Len(x) /\ Takes(p, x, i, t - 1, cut[i])
         /\ LikeFrom(p, x, i + 1, cut[i] + 1)
<1> USE DEF Lengths
<1>1. i \in i - 1 .. Len(p) /\ i \in i .. Len(p)
  OBVIOUS
<1>2. cut[i] \in 0 .. Len(x) /\ Takes(p, x, i, t - 1, cut[i])
  BY <1>1 DEF Cuts
<1> DEFINE rest == [j \in (i + 1) - 1 .. Len(p) |-> cut[j]]
<1>3. /\ (i + 1) - 1 = i /\ Len(p) \in i .. Len(p) /\ (cut[i] + 1) - 1 = cut[i]
      /\ \A j \in i .. Len(p) : j \in i - 1 .. Len(p)
      /\ \A j \in i + 1 .. Len(p) : j - 1 \in i .. Len(p) /\ j \in i .. Len(p)
  BY <1>2
<1>4. rest \in [(i + 1) - 1 .. Len(p) -> 0 .. Len(x)]
  BY <1>3 DEF Cuts
<1>5. rest[(i + 1) - 1] = (cut[i] + 1) - 1 /\ rest[Len(p)] = Len(x)
  BY <1>3 DEF Cuts
<1>6. ASSUME NEW j \in i + 1 .. Len(p) PROVE Takes(p, x, j, rest[j - 1], rest[j])
  <2>1. rest[j - 1] = cut[j - 1] /\ rest[j] = cut[j] /\ Takes(p, x, j, cut[j - 1], cut[j])
    BY <1>3 DEF Cuts
  <2> QED BY <2>1
<1>7. Cuts(p, x, i + 1, cut[i] + 1, rest)
  <2> HIDE DEF rest
  <2> QED BY <1>4, <1>5, <1>6 DEF Cuts
<1> QED BY <1>2, <1>7 DEF LikeFrom

\* And such a rest with one more in front.
LEMMA CutHead ==
  ASSUME NEW p, NEW x, Lengths(p, x), NEW i \in 1 .. Len(p), NEW t \in 1 .. Len(x) + 1,
         NEW b \in 0 .. Len(x), Takes(p, x, i, t - 1, b), LikeFrom(p, x, i + 1, b + 1)
  PROVE  LikeFrom(p, x, i, t)
<1> USE DEF Lengths
<1> PICK rest : Cuts(p, x, i + 1, b + 1, rest)
  BY DEF LikeFrom
<1> DEFINE cut == [j \in i - 1 .. Len(p) |-> IF j = i - 1 THEN t - 1 ELSE rest[j]]
<1>1. /\ (i + 1) - 1 = i /\ (b + 1) - 1 = b /\ t - 1 \in 0 .. Len(x)
      /\ i \in i - 1 .. Len(p) /\ i - 1 \in i - 1 .. Len(p) /\ Len(p) \in i - 1 .. Len(p)
      /\ i # i - 1 /\ Len(p) # i - 1
      /\ \A j \in i - 1 .. Len(p) : j # i - 1 => j \in i .. Len(p)
      /\ \A j \in i .. Len(p) : j \in i - 1 .. Len(p) /\ j - 1 \in i - 1 .. Len(p) /\ j # i - 1
      /\ \A j \in i .. Len(p) : j # i => j \in i + 1 .. Len(p) /\ j - 1 # i - 1
  OBVIOUS
<1>2. /\ rest \in [i .. Len(p) -> 0 .. Len(x)] /\ rest[i] = b /\ rest[Len(p)] = Len(x)
      /\ \A j \in i + 1 .. Len(p) : Takes(p, x, j, rest[j - 1], rest[j])
  BY <1>1 DEF Cuts
<1>3. cut \in [i - 1 .. Len(p) -> 0 .. Len(x)]
  BY <1>1, <1>2
<1>4. cut[i - 1] = t - 1 /\ cut[Len(p)] = Len(x)
  BY <1>1, <1>2
<1>5. ASSUME NEW j \in i .. Len(p) PROVE Takes(p, x, j, cut[j - 1], cut[j])
  <2>1. CASE j = i
    <3>1. cut[j - 1] = t - 1 /\ cut[j] = b
      BY <1>1, <1>2, <2>1
    <3> QED BY <2>1, <3>1
  <2>2. CASE j # i
    <3>1. cut[j - 1] = rest[j - 1] /\ cut[j] = rest[j] /\ j \in i + 1 .. Len(p)
      BY <1>1, <2>2
    <3> QED BY <1>2, <3>1
  <2> QED BY <2>1, <2>2
<1>6. Cuts(p, x, i, t, cut)
  <2> HIDE DEF cut
  <2> QED BY <1>3, <1>4, <1>5 DEF Cuts
<1> QED BY <1>6 DEF LikeFrom

\* What is like the text satisfies the equations of glob_match.
LEMMA LikeUnfolds ==
  ASSUME NEW p, NEW x, Lengths(p, x), NEW i \in 1 .. Len(p), NEW t \in 1 .. Len(x) + 1
  PROVE  LikeFrom(p, x, i, t) <=>
           \/ /\ p[i] = "*"
              /\ LikeFrom(p, x, i + 1, t) \/ (t <= Len(x) /\ LikeFrom(p, x, i, t + 1))
           \/ /\ p[i] # "*" /\ t <= Len(x) /\ p[i] \in {"?", x[t]}
              /\ LikeFrom(p, x, i + 1, t + 1)
<1> USE DEF Lengths
<1>1. ASSUME LikeFrom(p, x, i, t), p[i] = "*"
      PROVE  LikeFrom(p, x, i + 1, t) \/ (t <= Len(x) /\ LikeFrom(p, x, i, t + 1))
  <2> PICK cut : Cuts(p, x, i, t, cut)
    BY <1>1 DEF LikeFrom
  <2>1. cut[i] \in 0 .. Len(x) /\ cut[i] >= t - 1 /\ LikeFrom(p, x, i + 1, cut[i] + 1)
    BY <1>1, CutTail DEF Takes
  <2>2. CASE cut[i] = t - 1
    <3>1. cut[i] + 1 = t
      BY <2>2
    <3> QED BY <2>1, <3>1
  <2>3. CASE cut[i] # t - 1
    <3>1. t <= Len(x) /\ t + 1 \in 1 .. Len(x) + 1 /\ cut[i] >= (t + 1) - 1
      BY <2>1, <2>3
    <3>2. Takes(p, x, i, (t + 1) - 1, cut[i])
      BY <1>1, <3>1 DEF Takes
    <3> QED BY <2>1, <3>1, <3>2, CutHead
  <2> QED BY <2>2, <2>3
<1>2. ASSUME LikeFrom(p, x, i + 1, t), p[i] = "*" PROVE LikeFrom(p, x, i, t)
  <2>1. t - 1 \in 0 .. Len(x) /\ (t - 1) + 1 = t /\ t - 1 >= t - 1
    OBVIOUS
  <2>2. Takes(p, x, i, t - 1, t - 1)
    BY <1>2, <2>1 DEF Takes
  <2> QED BY <1>2, <2>1, <2>2, CutHead
<1>3. ASSUME t <= Len(x), LikeFrom(p, x, i, t + 1), p[i] = "*" PROVE LikeFrom(p, x, i, t)
  <2> PICK cut : Cuts(p, x, i, t + 1, cut)
    BY <1>3 DEF LikeFrom
  <2>1. t + 1 \in 1 .. Len(x) + 1
    BY <1>3
  <2>2. /\ cut[i] \in 0 .. Len(x) /\ Takes(p, x, i, (t + 1) - 1, cut[i])
        /\ LikeFrom(p, x, i + 1, cut[i] + 1)
    BY <2>1, CutTail
  <2>3. Takes(p, x, i, t - 1, cut[i])
    BY <1>3, <2>2 DEF Takes
  <2> QED BY <2>2, <2>3, CutHead
<1>4. ASSUME LikeFrom(p, x, i, t), p[i] # "*"
      PROVE  t <= Len(x) /\ p[i] \in {"?", x[t]} /\ LikeFrom(p, x, i + 1, t + 1)
  <2> PICK cut : Cuts(p, x, i, t, cut)
    BY <1>4 DEF LikeFrom
  <2>1. /\ cut[i] \in 0 .. Len(x) /\ Takes(p, x, i, t - 1, cut[i])
        /\ LikeFrom(p, x, i + 1, cut[i] + 1)
    BY CutTail
  <2>2. cut[i] = t /\ p[i] \in {"?", x[t]}
    BY <1>4, <2>1 DEF Takes
  <2> QED BY <2>1, <2>2
<1>5. ASSUME t <= Len(x), p[i] \in {"?", x[t]}, LikeFrom(p, x, i + 1, t + 1), p[i] # "*"
      PROVE  LikeFrom(p, x, i, t)
  <2>1. t \in 0 .. Len(x) /\ (t - 1) + 1 = t
    BY <1>5
  <2>2. Takes(p, x, i, t - 1, t)
    BY <1>5, <2>1 DEF Takes
  <2> QED BY <1>5, <2>1, <2>2, CutHead
<1> QED BY <1>1, <1>2, <1>3, <1>4, <1>5

\* One function satisfies the equations, and it says what is like the text.
LEMMA GlobIsLike ==
  ASSUME NEW p, NEW x, Lengths(p, x)
  PROVE  P!GlobMatch(p, x) <=> LikeFrom(p, x, 1, 1)
<1> USE DEF Lengths
<1> DEFINE D == (1 .. Len(p) + 1) \X (1 .. Len(x) + 1)
           Good(g) == g = [place \in D |-> Globbed(p, x, g, place[1], place[2])]
           R == [place \in D |-> LikeFrom(p, x, place[1], place[2])]
<1>1. ASSUME NEW i \in 1 .. Len(p) + 1, NEW t \in 1 .. Len(x) + 1
      PROVE  LikeFrom(p, x, i, t) = Globbed(p, x, R, i, t)
  <2>0. /\ \A j \in 1 .. Len(p) + 1, u \in 1 .. Len(x) + 1 : <<j, u>> \in D
        /\ \A j \in 1 .. Len(p) + 1, u \in 1 .. Len(x) + 1 : R[<<j, u>>] = LikeFrom(p, x, j, u)
    OBVIOUS
  <2>1. CASE i = Len(p) + 1
    <3>1. (Globbed(p, x, R, i, t) <=> t > Len(x)) /\ Globbed(p, x, R, i, t) \in BOOLEAN
      <4> HIDE DEF R
      <4>1. ~(i <= Len(p)) /\ i > Len(p)
        BY <2>1
      <4> QED BY <4>1 DEF Globbed
    <3>2. LikeFrom(p, x, i, t) <=> t > Len(x)
      BY <2>1, LikeEnd
    <3>3. LikeFrom(p, x, i, t) \in BOOLEAN
      BY DEF LikeFrom
    <3> HIDE DEF R
    <3> QED BY <3>1, <3>2, <3>3
  <2>2. CASE i \in 1 .. Len(p)
    <3>1. /\ i + 1 \in 1 .. Len(p) + 1 /\ i <= Len(p) /\ ~(i > Len(p))
          /\ t <= Len(x) => t + 1 \in 1 .. Len(x) + 1
      BY <2>2
    <3>2. /\ R[<<i + 1, t>>] = LikeFrom(p, x, i + 1, t)
          /\ t <= Len(x) => /\ R[<<i, t + 1>>] = LikeFrom(p, x, i, t + 1)
                            /\ R[<<i + 1, t + 1>>] = LikeFrom(p, x, i + 1, t + 1)
      BY <2>0, <3>1
    <3> HIDE DEF R
    <3>3. Globbed(p, x, R, i, t) <=>
            \/ /\ p[i] = "*"
               /\ LikeFrom(p, x, i + 1, t) \/ (t <= Len(x) /\ LikeFrom(p, x, i, t + 1))
            \/ /\ p[i] # "*" /\ t <= Len(x) /\ p[i] \in {"?", x[t]}
               /\ LikeFrom(p, x, i + 1, t + 1)
      <4>1. CASE p[i] = "*"
        BY <3>1, <3>2, <4>1 DEF Globbed
      <4>2. CASE p[i] # "*"
        BY <3>1, <3>2, <4>2 DEF Globbed
      <4> QED BY <4>1, <4>2
    <3>4. Globbed(p, x, R, i, t) \in BOOLEAN
      BY DEF Globbed
    <3>5. LikeFrom(p, x, i, t) \in BOOLEAN
      BY DEF LikeFrom
    <3>6. LikeFrom(p, x, i, t) <=> Globbed(p, x, R, i, t)
      BY <2>2, <3>3, LikeUnfolds
    <3> QED BY <3>4, <3>5, <3>6
  <2> QED BY <2>1, <2>2
<1>2. Good(R)
  <2>1. \A place \in D : place[1] \in 1 .. Len(p) + 1 /\ place[2] \in 1 .. Len(x) + 1
    OBVIOUS
  <2>2. \A place \in D : R[place] = Globbed(p, x, R, place[1], place[2])
    <3>1. \A place \in D : R[place] = LikeFrom(p, x, place[1], place[2])
      OBVIOUS
    <3> HIDE DEF R, D
    <3> QED BY <1>1, <2>1, <3>1
  <2>3. R = [place \in D |-> R[place]]
    OBVIOUS
  <2> HIDE DEF R, D
  <2> QED BY <2>2, <2>3
<1>3. ASSUME NEW g, Good(g) PROVE g[<<1, 1>>] = LikeFrom(p, x, 1, 1)
  <2> DEFINE Far(i, t) == (Len(p) + 1 - i) + (Len(x) + 1 - t)
             K == {n \in Nat : \A i \in 1 .. Len(p) + 1, t \in 1 .. Len(x) + 1 :
                     Far(i, t) <= n => g[<<i, t>>] = LikeFrom(p, x, i, t)}
  <2>0. \A i \in 1 .. Len(p) + 1, t \in 1 .. Len(x) + 1 :
           g[<<i, t>>] = Globbed(p, x, g, i, t)
    <3>1. \A place \in D : g[place] = Globbed(p, x, g, place[1], place[2])
      <4> HIDE DEF D
      <4> QED BY <1>3
    <3>2. \A i \in 1 .. Len(p) + 1, t \in 1 .. Len(x) + 1 :
             <<i, t>> \in D /\ <<i, t>>[1] = i /\ <<i, t>>[2] = t
      OBVIOUS
    <3> HIDE DEF D, Good
    <3> QED BY <3>1, <3>2
  <2> HIDE DEF Good, D, R
  <2>1. ASSUME NEW n \in Nat, NEW i \in 1 .. Len(p) + 1, NEW t \in 1 .. Len(x) + 1,
               Far(i, t) <= n,
               \A j \in 1 .. Len(p) + 1, u \in 1 .. Len(x) + 1 :
                 Far(j, u) < Far(i, t) => g[<<j, u>>] = LikeFrom(p, x, j, u)
        PROVE  g[<<i, t>>] = LikeFrom(p, x, i, t)
    <3>1. CASE i = Len(p) + 1
      <4>1. (Globbed(p, x, g, i, t) <=> t > Len(x)) /\ Globbed(p, x, g, i, t) \in BOOLEAN
        <5>1. ~(i <= Len(p)) /\ i > Len(p)
          BY <3>1
        <5> QED BY <5>1 DEF Globbed
      <4>2. LikeFrom(p, x, i, t) <=> t > Len(x)
        BY <3>1, LikeEnd
      <4>3. LikeFrom(p, x, i, t) \in BOOLEAN
        BY DEF LikeFrom
      <4> QED BY <2>0, <4>1, <4>2, <4>3
    <3>2. CASE i \in 1 .. Len(p)
      <4>1. /\ i + 1 \in 1 .. Len(p) + 1 /\ i <= Len(p) /\ ~(i > Len(p))
            /\ Far(i + 1, t) < Far(i, t)
            /\ t <= Len(x) => /\ t + 1 \in 1 .. Len(x) + 1 /\ Far(i, t + 1) < Far(i, t)
                              /\ Far(i + 1, t + 1) < Far(i, t)
        BY <3>2
      <4> HIDE DEF Far
      <4>2. /\ g[<<i + 1, t>>] = LikeFrom(p, x, i + 1, t)
            /\ t <= Len(x) => /\ g[<<i, t + 1>>] = LikeFrom(p, x, i, t + 1)
                              /\ g[<<i + 1, t + 1>>] = LikeFrom(p, x, i + 1, t + 1)
        BY <2>1, <4>1
      <4>3. Globbed(p, x, g, i, t) <=>
              \/ /\ p[i] = "*"
                 /\ LikeFrom(p, x, i + 1, t) \/ (t <= Len(x) /\ LikeFrom(p, x, i, t + 1))
              \/ /\ p[i] # "*" /\ t <= Len(x) /\ p[i] \in {"?", x[t]}
                 /\ LikeFrom(p, x, i + 1, t + 1)
        <5>1. CASE p[i] = "*"
          BY <4>1, <4>2, <5>1 DEF Globbed
        <5>2. CASE p[i] # "*"
          BY <4>1, <4>2, <5>2 DEF Globbed
        <5> QED BY <5>1, <5>2
      <4>4. Globbed(p, x, g, i, t) \in BOOLEAN
        BY DEF Globbed
      <4>5. LikeFrom(p, x, i, t) \in BOOLEAN
        BY DEF LikeFrom
      <4>6. LikeFrom(p, x, i, t) <=> Globbed(p, x, g, i, t)
        BY <3>2, <4>3, LikeUnfolds
      <4> QED BY <2>0, <4>4, <4>5, <4>6
    <3> QED BY <3>1, <3>2
  <2>2. \A i \in 1 .. Len(p) + 1, t \in 1 .. Len(x) + 1 : Far(i, t) \in Nat
    OBVIOUS
  <2> HIDE DEF Far
  <2>3. 0 \in K
    <3>1. ASSUME NEW i \in 1 .. Len(p) + 1, NEW t \in 1 .. Len(x) + 1, Far(i, t) <= 0
          PROVE  g[<<i, t>>] = LikeFrom(p, x, i, t)
      <4>1. \A j \in 1 .. Len(p) + 1, u \in 1 .. Len(x) + 1 : ~(Far(j, u) < Far(i, t))
        BY <2>2, <3>1
      <4> QED BY <2>1, <3>1, <4>1
    <3> QED BY <3>1
  <2>4. ASSUME NEW n \in K PROVE n + 1 \in K
    <3>1. n \in Nat /\ n + 1 \in Nat
      OBVIOUS
    <3>2. ASSUME NEW i \in 1 .. Len(p) + 1, NEW t \in 1 .. Len(x) + 1, Far(i, t) <= n + 1
          PROVE  g[<<i, t>>] = LikeFrom(p, x, i, t)
      <4>1. \A j \in 1 .. Len(p) + 1, u \in 1 .. Len(x) + 1 :
               Far(j, u) < Far(i, t) => Far(j, u) <= n
        BY <2>2, <3>1, <3>2
      <4>2. \A j \in 1 .. Len(p) + 1, u \in 1 .. Len(x) + 1 :
               Far(j, u) < Far(i, t) => g[<<j, u>>] = LikeFrom(p, x, j, u)
        BY <4>1
      <4> QED BY <2>1, <3>1, <3>2, <4>2
    <3> QED BY <3>1, <3>2
  <2>5. Far(1, 1) \in K /\ 1 \in 1 .. Len(p) + 1 /\ 1 \in 1 .. Len(x) + 1
    <3>1. K = Nat
      <4>1. K \in SUBSET Nat
        OBVIOUS
      <4> HIDE DEF K
      <4> QED BY <2>3, <2>4, <4>1, NatSet
    <3> QED BY <2>2, <3>1
  <2> QED BY <2>2, <2>5
<1> HIDE DEF R
<1> DEFINE made == CHOOSE g : Good(g)
<1>4. Good(made)
  <2> HIDE DEF Good
  <2> QED BY <1>2
<1>5. P!GlobMatch(p, x) = made[<<1, 1>>]
  BY DEF P!GlobMatch, Globbed
<1> HIDE DEF made, Good, R
<1> QED BY <1>3, <1>4, <1>5

\* From its first character on, a pattern is like a text as the property has it.
LEMMA LikeIsLike ==
  ASSUME NEW p, NEW x, Lengths(p, x)
  PROVE  P!Like(p, x) <=> LikeFrom(p, x, 1, 1)
<1> USE DEF Lengths
<1>1. \A cut : Cuts(p, x, 1, 1, cut) <=>
         /\ cut \in [0 .. Len(p) -> 0 .. Len(x)] /\ cut[0] = 0 /\ cut[Len(p)] = Len(x)
         /\ \A i \in 1 .. Len(p) : Takes(p, x, i, cut[i - 1], cut[i])
  BY DEF Cuts
<1>2. ASSUME NEW cut \in [0 .. Len(p) -> 0 .. Len(x)], NEW i \in 1 .. Len(p)
      PROVE  Takes(p, x, i, cut[i - 1], cut[i]) <=>
               \/ p[i] = "*" /\ cut[i] >= cut[i - 1]
               \/ p[i] = "?" /\ cut[i] = cut[i - 1] + 1
               \/ p[i] \notin {"*", "?"} /\ cut[i] = cut[i - 1] + 1 /\ x[cut[i]] = p[i]
  BY DEF Takes
<1> QED BY <1>1, <1>2 DEF P!Like, LikeFrom

\* The name of a tool, as an override has it.
PlainName(p) == \A i \in 1 .. Len(p) : p[i] \notin {"*", "?"}

\* A literal is like itself and nothing else.
LEMMA LiteralIsLike ==
  ASSUME NEW p \in Seq(STRING), NEW x \in Seq(STRING), PlainName(p)
  PROVE  P!Like(p, x) <=> p = x
<1>0. Lengths(p, x)
  BY DEF Lengths
<1>1. ASSUME P!Like(p, x) PROVE p = x
  <2> PICK cut \in [0 .. Len(p) -> 0 .. Len(x)] :
         /\ cut[0] = 0 /\ cut[Len(p)] = Len(x)
         /\ \A i \in 1 .. Len(p) : cut[i] = cut[i - 1] + 1 /\ x[cut[i]] = p[i]
    BY <1>1 DEF P!Like, PlainName
  <2> DEFINE K == {i \in Nat : i <= Len(p) => cut[i] = i}
  <2>1. 0 \in K
    OBVIOUS
  <2>2. ASSUME NEW i \in K PROVE i + 1 \in K
    <3>1. i \in Nat /\ i + 1 \in Nat /\ (i + 1) - 1 = i
      OBVIOUS
    <3>2. ASSUME i + 1 <= Len(p) PROVE cut[i + 1] = i + 1
      <4>1. cut[i] = i /\ i + 1 \in 1 .. Len(p)
        BY <1>0, <3>1, <3>2 DEF Lengths
      <4> QED BY <3>1, <4>1
    <3> QED BY <3>1, <3>2
  <2>3. K = Nat
    <3>1. K \in SUBSET Nat
      OBVIOUS
    <3> HIDE DEF K
    <3> QED BY <2>1, <2>2, <3>1, NatSet
  <2>4. \A i \in 0 .. Len(p) : cut[i] = i
    <3>1. \A i \in Nat : i <= Len(p) => cut[i] = i
      BY <2>3
    <3> QED BY <1>0, <3>1 DEF Lengths
  <2>5. Len(p) = Len(x) /\ \A i \in 1 .. Len(p) : p[i] = x[i]
    BY <1>0, <2>4 DEF Lengths
  <2> QED BY <2>5, SeqEqual
<1>2. ASSUME p = x PROVE P!Like(p, x)
  <2> DEFINE cut == [i \in 0 .. Len(p) |-> i]
  <2>1. cut \in [0 .. Len(p) -> 0 .. Len(x)] /\ cut[0] = 0 /\ cut[Len(p)] = Len(x)
    BY <1>0, <1>2 DEF Lengths
  <2>2. \A i \in 1 .. Len(p) : cut[i] = cut[i - 1] + 1 /\ x[cut[i]] = p[i]
                               /\ p[i] \notin {"*", "?"}
    BY <1>0, <1>2 DEF Lengths, PlainName
  <2> HIDE DEF cut
  <2> QED BY <2>1, <2>2 DEF P!Like
<1> QED BY <1>1, <1>2

-----------------------------------------------------------------------------
(* The permission of a call: what the rules that match it say together. *)

Actions == {"allow", "ask", "deny"}

\* The actions of the rules that match, and the strictest of some actions.
RuleActs(rules, c) == {rules[i].action : i \in {j \in DOMAIN rules : P!RuleMatches(rules[j], c)}}
Strictest(acts) ==
  IF acts = {} THEN "none"
  ELSE IF "deny" \in acts THEN "deny" ELSE IF "ask" \in acts THEN "ask" ELSE "allow"

\* One more action makes the strictest of one more.
LEMMA CombineStricter ==
  ASSUME NEW acts \in SUBSET Actions, NEW a \in Actions
  PROVE  P!Combine(Strictest(acts), a) = Strictest(acts \cup {a})
BY DEF P!Combine, Strictest, Actions

\* The largest of some numbers, and the others.
LEMMA AllButLargest ==
  ASSUME NEW n \in Nat, NEW s \in SUBSET (1 .. n), s # {}
  PROVE  /\ P!Max(s) \in s /\ s \ {P!Max(s)} \in SUBSET (1 .. n)
         /\ \A k \in Nat : s \subseteq 1 .. k + 1 => s \ {P!Max(s)} \subseteq 1 .. k
<1>1. P!Max(s) \in s /\ \A x \in s : x <= P!Max(s)
  BY LargestExists
<1>2. ASSUME NEW k \in Nat, s \subseteq 1 .. k + 1, NEW x \in s, x # P!Max(s) PROVE x \in 1 .. k
  <2>1. x \in 1 .. k + 1 /\ P!Max(s) \in 1 .. k + 1 /\ x <= P!Max(s)
    BY <1>1, <1>2
  <2> QED BY <1>2, <2>1
<1> QED BY <1>1, <1>2

\* Folded over the rules, combine_actions gives the strictest action of those that match.
LEMMA CombinedIsStrictest ==
  ASSUME NEW w, NEW c, NEW n \in Nat, DOMAIN P!RulesOf(w) = 1 .. n,
         \A i \in 1 .. n : P!RulesOf(w)[i].action \in Actions
  PROVE  P!Combined(w, c) = Strictest(RuleActs(P!RulesOf(w), c))
<1> DEFINE rules == P!RulesOf(w)
           S == SUBSET (1 .. n)
           Some(s) == {rules[i].action : i \in {j \in s : P!RuleMatches(rules[j], c)}}
           One(out, rule) == IF P!RuleMatches(rule, c) THEN P!Combine(out, rule.action) ELSE out
           Good(g) == g = [s \in S |-> IF s = {} THEN "none"
                                       ELSE One(g[s \ {P!Max(s)}], rules[P!Max(s)])]
           R == [s \in S |-> Strictest(Some(s))]
<1>1. ASSUME NEW s \in S, s # {}
      PROVE  Strictest(Some(s)) = One(Strictest(Some(s \ {P!Max(s)})), rules[P!Max(s)])
  <2>1. P!Max(s) \in s /\ P!Max(s) \in 1 .. n /\ s \ {P!Max(s)} \in S
    BY <1>1, AllButLargest
  <2>2. Some(s \ {P!Max(s)}) \in SUBSET Actions /\ rules[P!Max(s)].action \in Actions
    BY <2>1
  <2>3. CASE P!RuleMatches(rules[P!Max(s)], c)
    <3>1. Some(s) = Some(s \ {P!Max(s)}) \cup {rules[P!Max(s)].action}
      <4> HIDE DEF rules
      <4> QED BY <2>1, <2>3
    <3> HIDE DEF rules, Some
    <3> QED BY <2>2, <2>3, <3>1, CombineStricter
  <2>4. CASE ~P!RuleMatches(rules[P!Max(s)], c)
    <3>1. Some(s) = Some(s \ {P!Max(s)})
      <4> HIDE DEF rules
      <4> QED BY <2>1, <2>4
    <3> HIDE DEF rules, Some
    <3> QED BY <2>4, <3>1
  <2> QED BY <2>3, <2>4
<1>2. Strictest(Some({})) = "none"
  BY DEF Strictest
<1> HIDE DEF rules, One, Some
<1>3. Good(R)
  <2>1. ASSUME NEW s \in S
        PROVE  R[s] = IF s = {} THEN "none" ELSE One(R[s \ {P!Max(s)}], rules[P!Max(s)])
    <3>1. CASE s = {}
      BY <1>2, <3>1
    <3>2. CASE s # {}
      <4>1. s \ {P!Max(s)} \in S
        BY <3>2, AllButLargest
      <4>2. R[s] = Strictest(Some(s)) /\ R[s \ {P!Max(s)}] = Strictest(Some(s \ {P!Max(s)}))
        <5> HIDE DEF S
        <5> QED BY <4>1
      <4> HIDE DEF R
      <4> QED BY <1>1, <3>2, <4>2
    <3> QED BY <3>1, <3>2
  <2>2. R = [s \in S |-> R[s]]
    OBVIOUS
  <2> HIDE DEF R, S
  <2> QED BY <2>1, <2>2
<1>4. ASSUME NEW g, Good(g), NEW s \in S PROVE g[s] = Strictest(Some(s))
  <2>0. ASSUME NEW r \in S
        PROVE  g[r] = IF r = {} THEN "none" ELSE One(g[r \ {P!Max(r)}], rules[P!Max(r)])
    <3> HIDE DEF S
    <3> QED BY <1>4
  <2> DEFINE K == {k \in Nat : \A r \in S : r \subseteq 1 .. k => g[r] = Strictest(Some(r))}
  <2> HIDE DEF Good, R
  <2>1. 0 \in K
    <3>1. \A r \in S : r \subseteq 1 .. 0 => r = {}
      OBVIOUS
    <3> HIDE DEF S
    <3> QED BY <1>2, <2>0, <3>1
  <2>2. ASSUME NEW k \in K PROVE k + 1 \in K
    <3>1. /\ k \in Nat /\ k + 1 \in Nat
          /\ \A r \in S : r \subseteq 1 .. k => g[r] = Strictest(Some(r))
      OBVIOUS
    <3>2. ASSUME NEW r \in S, r \subseteq 1 .. k + 1 PROVE g[r] = Strictest(Some(r))
      <4>1. CASE r = {}
        BY <1>2, <2>0, <4>1
      <4>2. CASE r # {}
        <5>1. r \ {P!Max(r)} \in S /\ r \ {P!Max(r)} \subseteq 1 .. k
          BY <3>1, <3>2, <4>2, AllButLargest
        <5>2. g[r \ {P!Max(r)}] = Strictest(Some(r \ {P!Max(r)}))
          <6> HIDE DEF K, S
          <6> QED BY <3>1, <5>1
        <5> HIDE DEF K, S
        <5> QED BY <1>1, <2>0, <4>2, <5>2
      <4> QED BY <4>1, <4>2
    <3> HIDE DEF S
    <3> QED BY <3>1, <3>2
  <2>3. K = Nat
    <3>1. K \in SUBSET Nat
      OBVIOUS
    <3> HIDE DEF K
    <3> QED BY <2>1, <2>2, <3>1, NatSet
  <2>4. n \in K /\ s \subseteq 1 .. n
    <3> HIDE DEF K
    <3> QED BY <2>3
  <2> HIDE DEF S
  <2> QED BY <2>4
<1> HIDE DEF R
<1> DEFINE iter == CHOOSE g : Good(g)
<1>5. Good(iter)
  <2> HIDE DEF Good
  <2> QED BY <1>3
<1>6. P!Combined(w, c) = iter[1 .. n]
  BY DEF P!Combined, P!FoldLeft, P!MapThenFoldSet, One, rules
<1>7. 1 .. n \in S /\ Some(1 .. n) = RuleActs(P!RulesOf(w), c)
  BY DEF RuleActs, Some, rules
<1> HIDE DEF iter, Good, S
<1> QED BY <1>4, <1>5, <1>6, <1>7

\* A set in a sequence, each of its members once.
LEMMA ListsAll ==
  ASSUME NEW D, IsFiniteSet(D)
  PROVE  /\ Cardinality(D) \in Nat /\ P!SetToSeq(D) \in [1 .. Cardinality(D) -> D]
         /\ \A x \in D : \E i \in 1 .. Cardinality(D) : P!SetToSeq(D)[i] = x
<1> DEFINE n == Cardinality(D)
<1>1. n \in Nat /\ ExistsBijection(1 .. n, D)
  BY FS_CardinalityType
<1>2. \E f \in [1 .. n -> D] : IsInjective(f)
  BY <1>1 DEF ExistsBijection, Bijection, Injection, IsInjective
<1>3. P!SetToSeq(D) \in [1 .. n -> D] /\ IsInjective(P!SetToSeq(D))
  <2>1. P!Cardinality(D) = n
    BY DEF P!Cardinality, Cardinality
  <2> HIDE DEF n
  <2> QED BY <1>2, <2>1 DEF P!SetToSeq, P!IsInjective, IsInjective
<1>4. IsFiniteSet(1 .. n) /\ Cardinality(1 .. n) = n
  BY <1>1, FS_Interval
<1>5. P!SetToSeq(D) \in Injection(1 .. n, D)
  BY <1>3 DEF Injection
<1>6. P!SetToSeq(D) \in Surjection(1 .. n, D)
  BY <1>4, <1>5, FS_Injection
<1> QED BY <1>1, <1>3, <1>6 DEF Surjection

-----------------------------------------------------------------------------
(* The permission of a call: the policy of the settings. *)

\* What the settings of a policy are.
Overrides(o) ==
  /\ IsFiniteSet(DOMAIN o)
  /\ \A name \in DOMAIN o : name \in Seq(STRING) /\ PlainName(name) /\ o[name] \in Actions
Policy(w) ==
  /\ w.rules \in Seq(Rules) /\ Overrides(w.perTool)
  /\ \A i \in DOMAIN w.rules :
       w.rules[i].pattern \in Seq(STRING) /\ w.rules[i].action \in Actions

\* What a policy says of a call.
SaysOf(w, c, a) ==
  \/ \E i \in DOMAIN w.rules :
       /\ w.rules[i].action = a
       /\ P!Like(w.rules[i].pattern, c.tool.name)
       /\ w.rules[i].needle => c.found
  \/ c.tool.name \in DOMAIN w.perTool /\ w.perTool[c.tool.name] = a

\* A rule of a policy matches as the property has it.
LEMMA RuleIsLike ==
  ASSUME NEW rule, NEW c, rule.pattern \in Seq(STRING), c.tool.name \in Seq(STRING)
  PROVE  P!RuleMatches(rule, c) <=>
           P!Like(rule.pattern, c.tool.name) /\ (rule.needle => c.found)
<1>1. Lengths(rule.pattern, c.tool.name)
  BY DEF Lengths
<1>2. P!GlobMatch(rule.pattern, c.tool.name) <=> P!Like(rule.pattern, c.tool.name)
  BY <1>1, GlobIsLike, LikeIsLike
<1> QED BY <1>2 DEF P!RuleMatches

\* The rules a policy becomes are its own and one for each override, and those of them
\* that match say what the policy says.
LEMMA RulesSay ==
  ASSUME NEW w, Policy(w), NEW c, c.tool.name \in Seq(STRING)
  PROVE  /\ \E n \in Nat : DOMAIN P!RulesOf(w) = 1 .. n
         /\ \A i \in DOMAIN P!RulesOf(w) : P!RulesOf(w)[i].action \in Actions
         /\ \A a : a \in RuleActs(P!RulesOf(w), c) <=> SaysOf(w, c, a)
<1> DEFINE D == DOMAIN w.perTool
           names == P!SetToSeq(D)
           own == w.rules
           Override(name) == [pattern |-> name, needle |-> FALSE, action |-> w.perTool[name]]
           added == [i \in DOMAIN names |-> Override(names[i])]
           rules == own \o added
           x == c.tool.name
<1>1. IsFiniteSet(D) /\ \A name \in D : name \in Seq(STRING) /\ PlainName(name)
                                        /\ w.perTool[name] \in Actions
  BY DEF Policy, Overrides
<1>2. PICK m \in Nat : /\ names \in [1 .. m -> D]
                       /\ \A name \in D : \E i \in 1 .. m : names[i] = name
  BY <1>1, ListsAll
<1>3. P!RulesOf(w) = rules
  BY DEF P!RulesOf
<1>4. PICK k \in Nat : k = Len(own)
  BY DEF Policy
<1>5. own \in Seq(Rules) /\ DOMAIN own = 1 .. k
  BY <1>4 DEF Policy
<1> HIDE DEF D, names
<1>6. added \in Seq({added[i] : i \in 1 .. m}) /\ Len(added) = m /\ DOMAIN added = 1 .. m
      /\ \A i \in 1 .. m : added[i] = Override(names[i])
  <2>1. DOMAIN names = 1 .. m
    BY <1>2
  <2>2. DOMAIN added = 1 .. m /\ \A i \in 1 .. m : added[i] = Override(names[i])
    BY <2>1
  <2>3. added = [i \in 1 .. m |-> added[i]]
    BY <2>1
  <2> HIDE DEF added
  <2>4. added \in [1 .. m -> {added[i] : i \in 1 .. m}]
    BY <2>3
  <2> QED BY <2>2, <2>4
<1> HIDE DEF added, own
<1>7. /\ DOMAIN rules = 1 .. k + m
      /\ \A i \in 1 .. k + m : rules[i] = IF i <= k THEN own[i] ELSE added[i - k]
  <2> DEFINE U == Rules \cup {added[i] : i \in 1 .. m}
  <2>1. own \in Seq(U) /\ added \in Seq(U)
    BY <1>5, <1>6
  <2> HIDE DEF U
  <2>2. /\ own \o added \in Seq(U) /\ Len(own \o added) = Len(own) + Len(added)
        /\ \A i \in 1 .. Len(own) + Len(added) :
             (own \o added)[i] = IF i <= Len(own) THEN own[i] ELSE added[i - Len(own)]
    BY <2>1, ConcatProperties
  <2>3. DOMAIN (own \o added) = 1 .. Len(own \o added)
    BY <2>2
  <2> QED BY <1>4, <1>6, <2>2, <2>3
<1> HIDE DEF rules
<1>8. ASSUME NEW i \in 1 .. k
      PROVE  /\ i \in 1 .. k + m /\ rules[i] = own[i] /\ own[i].action \in Actions
             /\ P!RuleMatches(own[i], c) <=>
                  P!Like(own[i].pattern, x) /\ (own[i].needle => c.found)
  <2>1. i \in 1 .. k + m /\ rules[i] = own[i]
    BY <1>7
  <2>2. own[i].pattern \in Seq(STRING) /\ own[i].action \in Actions
    BY <1>5 DEF Policy, own
  <2> QED BY <2>1, <2>2, RuleIsLike
<1>9. ASSUME NEW i \in 1 .. m
      PROVE  /\ i + k \in 1 .. k + m /\ rules[i + k] = Override(names[i])
             /\ names[i] \in D /\ w.perTool[names[i]] \in Actions
             /\ P!RuleMatches(Override(names[i]), c) <=> names[i] = x
  <2>1. i + k \in 1 .. k + m /\ ~(i + k <= k) /\ (i + k) - k = i
    OBVIOUS
  <2>2. rules[i + k] = Override(names[i])
    BY <1>6, <1>7, <2>1
  <2>3. names[i] \in D
    BY <1>2
  <2>4. names[i] \in Seq(STRING) /\ PlainName(names[i]) /\ w.perTool[names[i]] \in Actions
    BY <1>1, <2>3
  <2>5. Override(names[i]).pattern = names[i] /\ Override(names[i]).needle = FALSE
    OBVIOUS
  <2>6. P!Like(names[i], x) <=> names[i] = x
    BY <2>4, LiteralIsLike
  <2> HIDE DEF Override
  <2>7. P!RuleMatches(Override(names[i]), c) <=> P!Like(names[i], x)
    BY <2>4, <2>5, RuleIsLike
  <2> QED BY <2>1, <2>2, <2>3, <2>4, <2>6, <2>7
<1>10. ASSUME NEW i \in 1 .. k + m, ~(i <= k)
       PROVE  i - k \in 1 .. m /\ (i - k) + k = i
  BY <1>10
<1>11. ASSUME NEW i \in 1 .. k + m PROVE rules[i].action \in Actions
  <2>1. CASE i <= k
    BY <1>8, <2>1
  <2>2. CASE ~(i <= k)
    <3>1. rules[i] = Override(names[i - k]) /\ w.perTool[names[i - k]] \in Actions
      BY <1>9, <1>10, <2>2
    <3> QED BY <3>1
  <2> QED BY <2>1, <2>2
<1>12. ASSUME NEW a, SaysOf(w, c, a)
       PROVE  \E i \in 1 .. k + m : P!RuleMatches(rules[i], c) /\ rules[i].action = a
  <2>1. CASE \E i \in DOMAIN own : /\ own[i].action = a /\ P!Like(own[i].pattern, x)
                                   /\ own[i].needle => c.found
    BY <1>5, <1>8, <2>1
  <2>2. CASE x \in D /\ w.perTool[x] = a
    <3>1. PICK i \in 1 .. m : names[i] = x
      BY <1>2, <2>2
    <3>2. P!RuleMatches(rules[i + k], c) /\ rules[i + k] = Override(x) /\ i + k \in 1 .. k + m
      BY <1>9, <3>1
    <3> QED BY <2>2, <3>2
  <2> QED BY <1>12, <2>1, <2>2 DEF SaysOf, own, D
<1>13. ASSUME NEW i \in 1 .. k + m, P!RuleMatches(rules[i], c)
       PROVE  SaysOf(w, c, rules[i].action)
  <2>1. CASE i <= k
    <3>1. i \in DOMAIN own /\ rules[i] = own[i] /\ P!Like(own[i].pattern, x)
          /\ (own[i].needle => c.found)
      BY <1>5, <1>8, <1>13, <2>1
    <3> QED BY <3>1 DEF SaysOf, own
  <2>2. CASE ~(i <= k)
    <3>1. rules[i] = Override(names[i - k]) /\ names[i - k] = x /\ x \in D
      BY <1>9, <1>10, <1>13, <2>2
    <3> QED BY <3>1 DEF SaysOf, D
  <2> QED BY <2>1, <2>2
<1>14. \A a : a \in RuleActs(rules, c) <=>
              \E i \in 1 .. k + m : P!RuleMatches(rules[i], c) /\ rules[i].action = a
  BY <1>7 DEF RuleActs
<1>15. k + m \in Nat
  OBVIOUS
<1> QED BY <1>3, <1>7, <1>11, <1>12, <1>13, <1>14, <1>15

\* What evaluate returns is what the rules, the overrides, "allow all" and the guardrail
\* say together.
LEMMA EvaluateDecides ==
  ASSUME NEW w, Policy(w), NEW c, c.tool.name \in Seq(STRING)
  PROVE  LET guarded == w.confirm /\ P!Destructive(c.tool)
             denied == ~w.allowAll /\ SaysOf(w, c, "deny")
             asks == \/ guarded
                     \/ /\ ~w.allowAll
                        /\ \/ SaysOf(w, c, "ask")
                           \/ /\ ~SaysOf(w, c, "allow") /\ ~SaysOf(w, c, "deny")
                              /\ ~P!ReadOnly(c.tool)
         IN  /\ P!Evaluate(w, c) \in Actions
             /\ P!Evaluate(w, c) = "deny" <=> denied
             /\ ~denied => (P!Evaluate(w, c) = "allow" <=> ~asks)
<1> DEFINE acts == RuleActs(P!RulesOf(w), c)
           guarded == w.confirm /\ P!Destructive(c.tool)
           base == IF P!Combined(w, c) # "none" THEN P!Combined(w, c)
                   ELSE IF P!ReadOnly(c.tool) THEN "allow" ELSE "ask"
<1>1. PICK n \in Nat : DOMAIN P!RulesOf(w) = 1 .. n
  BY RulesSay
<1>2. \A i \in 1 .. n : P!RulesOf(w)[i].action \in Actions
  BY <1>1, RulesSay
<1>3. P!Combined(w, c) = Strictest(acts)
  BY <1>1, <1>2, CombinedIsStrictest
<1>4. acts \subseteq Actions
  BY <1>1, <1>2 DEF RuleActs
<1>5. \A a \in Actions : a \in acts <=> SaysOf(w, c, a)
  BY RulesSay
<1> HIDE DEF acts
<1>6. /\ P!Combined(w, c) = "none" <=>
           ~SaysOf(w, c, "deny") /\ ~SaysOf(w, c, "ask") /\ ~SaysOf(w, c, "allow")
      /\ P!Combined(w, c) = "deny" <=> SaysOf(w, c, "deny")
      /\ P!Combined(w, c) = "ask" <=> ~SaysOf(w, c, "deny") /\ SaysOf(w, c, "ask")
      /\ P!Combined(w, c) \in Actions \cup {"none"}
  BY <1>3, <1>4, <1>5 DEF Strictest, Actions
<1>7. /\ base \in Actions
      /\ base = "deny" <=> SaysOf(w, c, "deny")
      /\ ~SaysOf(w, c, "deny") => (base = "allow" <=>
           ~(SaysOf(w, c, "ask") \/ (~SaysOf(w, c, "allow") /\ ~P!ReadOnly(c.tool))))
  BY <1>6 DEF Actions
<1>8. P!Evaluate(w, c) = IF w.allowAll THEN (IF guarded THEN "ask" ELSE "allow")
                       ELSE IF base = "allow" /\ guarded THEN "ask" ELSE base
  BY DEF P!Evaluate
<1> HIDE DEF base, guarded
<1>9. /\ P!Evaluate(w, c) \in Actions
      /\ P!Evaluate(w, c) = "deny" <=> ~w.allowAll /\ base = "deny"
      /\ P!Evaluate(w, c) = "allow" <=> ~guarded /\ (w.allowAll \/ base = "allow")
  BY <1>7, <1>8 DEF Actions
<1> QED BY <1>7, <1>9 DEF guarded

-----------------------------------------------------------------------------
(* The permission of a call: every call that was proposed. *)

Settled == {"run", "denied", "unasked", "asking", "approved", "rejected", "unavailable"}

\* What the gate did with a call.
GateTypes ==
  /\ Policy(wire) /\ gate \in BOOLEAN /\ stage \in {"idle"} \cup Settled
  /\ stage # "idle" => call.tool \in ToolList
  /\ stage = "asking" => ~P!IsObservation(call.tool)
GateInv == GateTypes /\ P!PolicyDecides

LEMMA GateStarts == P!Init => GateInv
<1> SUFFICES ASSUME P!Init PROVE GateInv
  OBVIOUS
<1>1. wire.rules \in Seq(Rules) /\ wire.perTool \in PerTool
  BY PolicyAssumption DEF P!Init, P!BoundedSeq, P!SeqOf
<1>2. \A i \in DOMAIN wire.rules : wire.rules[i] \in Rules
  BY <1>1
<1>3. Policy(wire)
  BY <1>1, <1>2, PolicyAssumption DEF Policy, Overrides, PlainName, Actions
<1>4. gate \in BOOLEAN /\ stage = "idle"
  BY PolicyAssumption DEF P!Init
<1> QED BY <1>3, <1>4 DEF GateInv, GateTypes, P!PolicyDecides

\* The call that is proposed is decided on the spot, and the answer of the operator does
\* not touch what was decided.
LEMMA GateStep ==
  ASSUME GateInv, [P!Next]_(P!vars)
  PROVE  GateInv'
<1>1. CASE P!Propose
  <2> PICK tool \in ToolList, found \in BOOLEAN :
         /\ call' = [tool |-> tool, found |-> found]
         /\ stage' = IF P!IsObservation(tool) THEN "run"
              ELSE CASE P!Evaluate(wire, [tool |-> tool, found |-> found]) = "deny" -> "denied"
                     [] P!Evaluate(wire, [tool |-> tool, found |-> found]) = "allow" -> "run"
                     [] P!Evaluate(wire, [tool |-> tool, found |-> found]) = "ask" ->
                          IF gate THEN "asking" ELSE "unasked"
         /\ UNCHANGED <<wire, gate>>
    BY <1>1 DEF P!Propose
  <2> DEFINE c == [tool |-> tool, found |-> found]
  <2>1. /\ c.tool = tool /\ c.tool.name \in Seq(STRING)
        /\ call' = c /\ wire' = wire /\ gate' = gate
    BY PolicyAssumption
  <2>2. Policy(wire) /\ gate \in BOOLEAN
    BY DEF GateInv, GateTypes
  <2> HIDE DEF c
  <2>3. \A a : P!Says(a)' <=> SaysOf(wire, c, a)
    BY <2>1 DEF P!Says, SaysOf
  <2>4. /\ P!Denied' <=> ~wire.allowAll /\ SaysOf(wire, c, "deny")
        /\ P!MustAsk' <=> \/ wire.confirm /\ P!Destructive(c.tool)
                        \/ /\ ~wire.allowAll
                           /\ \/ SaysOf(wire, c, "ask")
                              \/ /\ ~SaysOf(wire, c, "allow") /\ ~SaysOf(wire, c, "deny")
                                 /\ ~P!ReadOnly(c.tool)
    BY <2>1, <2>3 DEF P!Denied, P!MustAsk
  <2>5. /\ P!Evaluate(wire, c) \in Actions
        /\ P!Evaluate(wire, c) = "deny" <=> P!Denied'
        /\ ~P!Denied' => (P!Evaluate(wire, c) = "allow" <=> ~P!MustAsk')
    BY <2>1, <2>2, <2>4, EvaluateDecides
  <2>6. CASE P!IsObservation(tool)
    BY <2>1, <2>2, <2>6 DEF GateInv, GateTypes, P!PolicyDecides, Settled
  <2>7. CASE ~P!IsObservation(tool)
    <3>1. /\ P!Evaluate(wire, c) = "deny" => stage' = "denied"
          /\ P!Evaluate(wire, c) = "allow" => stage' = "run"
          /\ P!Evaluate(wire, c) = "ask" => stage' = IF gate THEN "asking" ELSE "unasked"
      BY <2>7 DEF c
    <3>2. stage' \in {"denied", "run", "asking", "unasked"} /\ (stage' = "unasked" => ~gate)
          /\ (stage' = "denied" <=> P!Evaluate(wire, c) = "deny")
          /\ (stage' = "run" <=> P!Evaluate(wire, c) = "allow")
      <4>1. gate = TRUE \/ gate = FALSE
        BY <2>2
      <4>2. CASE P!Evaluate(wire, c) = "deny"
        BY <3>1, <4>2
      <4>3. CASE P!Evaluate(wire, c) = "allow"
        BY <3>1, <4>3
      <4>4. CASE P!Evaluate(wire, c) = "ask"
        <5>1. stage' = IF gate THEN "asking" ELSE "unasked"
          BY <3>1, <4>4
        <5>2. CASE gate = TRUE
          BY <4>4, <5>1, <5>2
        <5>3. CASE gate = FALSE
          BY <4>4, <5>1, <5>3
        <5> QED BY <4>1, <5>2, <5>3
      <4> QED BY <2>5, <4>2, <4>3, <4>4 DEF Actions
    <3>3. P!PolicyDecides'
      <4>1. stage' = "denied" <=> P!Denied'
        BY <2>5, <3>2
      <4>2. stage' # "denied" => (stage' = "run" <=> ~P!MustAsk')
        BY <2>5, <3>2
      <4>3. stage' = "unasked" => ~gate'
        <5>1. gate' = gate /\ (gate = TRUE \/ gate = FALSE)
          BY <2>1, <2>2
        <5>2. CASE gate = TRUE
          BY <3>2, <5>2
        <5>3. CASE gate = FALSE
          BY <5>1, <5>3
        <5> QED BY <5>1, <5>2, <5>3
      <4> QED BY <4>1, <4>2, <4>3 DEF P!PolicyDecides
    <3>4. GateTypes'
      BY <2>1, <2>2, <2>7, <3>2 DEF GateTypes, Settled
    <3> QED BY <3>3, <3>4 DEF GateInv
  <2> QED BY <2>6, <2>7
<1>2. CASE P!Answer
  <2>1. /\ stage = "asking" /\ stage' \in {"approved", "rejected", "unavailable"}
        /\ UNCHANGED <<wire, gate, call>>
    BY <1>2 DEF P!Answer
  <2>2. (P!Denied' <=> P!Denied) /\ (P!MustAsk' <=> P!MustAsk)
    BY <2>1 DEF P!Denied, P!MustAsk, P!Says
  <2> QED BY <2>1, <2>2 DEF GateInv, GateTypes, P!PolicyDecides, Settled
<1>3. CASE UNCHANGED P!vars
  <2>1. (P!Denied' <=> P!Denied) /\ (P!MustAsk' <=> P!MustAsk)
    BY <1>3 DEF P!Denied, P!MustAsk, P!Says, P!vars
  <2> QED BY <1>3, <2>1 DEF GateInv, GateTypes, P!PolicyDecides, P!vars
<1> QED BY <1>1, <1>2, <1>3 DEF P!Next

\* A call that is no observation is refused, asked about or run as the rules, the
\* overrides, "allow all" and the guardrail say together, for any tools, rules and
\* overrides of any length, in whatever order the rules stand.
THEOREM PolicyHolds == P!Spec => []P!PolicyDecides
<1>1. GateInv => P!PolicyDecides
  BY DEF GateInv
<1> QED BY <1>1, GateStarts, GateStep, PTL DEF P!Spec

-----------------------------------------------------------------------------
(* The signs that a run goes round in circles. *)

\* What is i places before the end of a sequence.
Back(seq, i) == seq[Len(seq) - i]

Sig == {G!Signature(c) : c \in Contexts}
Did == Acts \X Sig

\* The history is at most as long as the window, and no element of it is lost before.
Held(seq) == seq \in Seq(Did) /\ Len(seq) <= G!Window

\* One more action: the last one, and the others one place further back.
LEMMA PushFacts ==
  ASSUME NEW seq, Held(seq), NEW x \in Did
  PROVE  /\ Held(G!PushBack(seq, x))
         /\ Len(G!PushBack(seq, x)) = IF Len(seq) = G!Window THEN G!Window ELSE Len(seq) + 1
         /\ Back(G!PushBack(seq, x), 0) = x
         /\ \A i \in 1 .. Len(G!PushBack(seq, x)) - 1 :
              Back(G!PushBack(seq, x), i) = Back(seq, i - 1)
<1>1. G!Window \in Nat \ {0, 1} /\ Len(seq) \in Nat /\ seq \in Seq(Did)
  BY ProgressAssumption DEF G!Window, Held
<1>2. CASE Len(seq) = G!Window
  <2> DEFINE rest == Tail(seq)
  <2>1. /\ rest \in Seq(Did) /\ Len(rest) = Len(seq) - 1
        /\ \A i \in 1 .. Len(rest) : rest[i] = seq[i + 1]
    BY <1>1, <1>2
  <2>2. G!PushBack(seq, x) = Append(rest, x) BY <1>2 DEF G!PushBack
  <2> HIDE DEF rest
  <2>3. /\ Append(rest, x) \in Seq(Did) /\ Len(Append(rest, x)) = Len(seq)
        /\ Append(rest, x)[Len(seq)] = x
        /\ \A i \in 1 .. Len(seq) - 1 : Append(rest, x)[i] = seq[i + 1]
    BY <1>1, <2>1
  <2> DEFINE new == Append(rest, x)
  <2> HIDE DEF new
  <2>4. \A i \in 1 .. Len(new) - 1 : Back(new, i) = Back(seq, i - 1)
    <3> SUFFICES ASSUME NEW i \in 1 .. Len(new) - 1 PROVE Back(new, i) = Back(seq, i - 1)
      OBVIOUS
    <3>1. Len(new) = Len(seq) BY <2>3 DEF new
    <3>2. Len(seq) - i \in 1 .. Len(seq) - 1 /\ Len(seq) - i + 1 = Len(seq) - (i - 1)
      BY <1>1, <3>1
    <3>3. new[Len(seq) - i] = seq[Len(seq) - i + 1] BY <2>3, <3>2 DEF new
    <3> QED BY <3>1, <3>2, <3>3 DEF Back
  <2>5. Held(new) /\ Len(new) = G!Window /\ Back(new, 0) = x
    BY <1>1, <1>2, <2>3 DEF new, Held, Back
  <2> QED BY <1>2, <2>2, <2>4, <2>5 DEF new
<1>3. CASE Len(seq) # G!Window
  <2>1. G!PushBack(seq, x) = Append(seq, x) BY <1>3 DEF G!PushBack
  <2>2. /\ Append(seq, x) \in Seq(Did) /\ Len(Append(seq, x)) = Len(seq) + 1
        /\ Append(seq, x)[Len(seq) + 1] = x
        /\ \A i \in 1 .. Len(seq) : Append(seq, x)[i] = seq[i]
    BY <1>1
  <2> QED BY <1>1, <1>3, <2>1, <2>2 DEF Held, Back
<1> QED BY <1>2, <1>3

(* What the loop keeps, against the history h: the actions r in the context of the last
   one, as far back as they go, and how often the last one was repeated. *)
Tells(r, h, act, sig, count) ==
  /\ Held(r) /\ Held(h) /\ act \in Acts /\ sig \in Sig /\ count \in Nat \ {0}
  /\ Len(r) >= 1 /\ Len(r) <= Len(h)
  /\ \A i \in 0 .. Len(r) - 1 : Back(r, i) = Back(h, i) /\ Back(r, i)[2] = sig
  /\ Len(r) < Len(h) => Back(h, Len(r))[2] # sig
  /\ count <= Len(r) \/ Len(r) = G!Window
  /\ \A i \in 0 .. Len(r) - 1 : i < count => Back(r, i) = <<act, sig>>
  /\ count < Len(r) => Back(r, count) # <<act, sig>>

\* The first action in a context.
LEMMA FirstTells ==
  ASSUME NEW h, Held(h), NEW act \in Acts, NEW sig \in Sig,
         h = <<>> \/ Back(h, 0)[2] # sig
  PROVE  Tells(G!PushBack(<<>>, <<act, sig>>), G!PushBack(h, <<act, sig>>), act, sig, 1)
<1> DEFINE x == <<act, sig>>
           r == G!PushBack(<<>>, x)
           t == G!PushBack(h, x)
<1>1. Held(<<>>) /\ x \in Did /\ Len(h) \in Nat /\ G!Window \in Nat \ {0, 1}
  BY ProgressAssumption DEF Held, Did, G!Window
<1> HIDE DEF x
<1>2. Held(r) /\ Len(r) = 1 /\ Back(r, 0) = x
  <2>1. /\ Held(r) /\ Back(r, 0) = x
        /\ Len(r) = IF Len(<<>>) = G!Window THEN G!Window ELSE Len(<<>>) + 1
    BY <1>1, PushFacts
  <2>2. Len(<<>>) = 0 OBVIOUS
  <2> QED BY <1>1, <2>1, <2>2
<1>3. /\ Held(t) /\ Back(t, 0) = x /\ Len(t) >= 1 /\ Len(t) \in Nat
      /\ Len(t) > 1 => Back(t, 1) = Back(h, 0) /\ h # <<>>
  <2>1. /\ Held(t) /\ Back(t, 0) = x
        /\ Len(t) = (IF Len(h) = G!Window THEN G!Window ELSE Len(h) + 1)
        /\ \A i \in 1 .. Len(t) - 1 : Back(t, i) = Back(h, i - 1)
    BY <1>1, PushFacts
  <2>3. Len(t) \in Nat /\ Len(t) >= 1 BY <1>1, <2>1
  <2>2. ASSUME Len(t) > 1 PROVE Back(t, 1) = Back(h, 0) /\ h # <<>>
    <3>1. 1 \in 1 .. Len(t) - 1 /\ 1 - 1 = 0 BY <2>3, <2>2
    <3>2. h # <<>> BY <1>1, <2>1, <2>2
    <3> QED BY <2>1, <3>1, <3>2
  <2> QED BY <2>1, <2>2, <2>3
<1> HIDE DEF r, t
<1>4. Tells(r, t, act, sig, 1)
  BY <1>1, <1>2, <1>3 DEF Tells, x
<1> QED BY <1>4 DEF r, t, x

\* One more action in the context of the last.
LEMMA MoreTells ==
  ASSUME NEW r, NEW h, NEW last \in Acts, NEW act \in Acts, NEW sig, NEW count,
         Tells(r, h, last, sig, count)
  PROVE  Tells(G!PushBack(r, <<act, sig>>), G!PushBack(h, <<act, sig>>), act, sig,
               IF last = act THEN count + 1 ELSE 1)
<1> DEFINE x == <<act, sig>>
           r1 == G!PushBack(r, x)
           t1 == G!PushBack(h, x)
           n == IF last = act THEN count + 1 ELSE 1
<1> USE DEF Tells
<1>1. /\ x \in Did /\ Held(r) /\ Held(h) /\ Len(h) \in Nat /\ Len(r) \in Nat
      /\ G!Window \in Nat \ {0, 1} /\ n \in Nat \ {0}
      /\ Len(r) <= G!Window /\ Len(h) <= G!Window
  BY ProgressAssumption DEF Did, Held, G!Window
<1>2. /\ Held(r1) /\ Back(r1, 0) = x /\ Held(t1) /\ Back(t1, 0) = x
      /\ Len(r1) = (IF Len(r) = G!Window THEN G!Window ELSE Len(r) + 1)
      /\ Len(t1) = (IF Len(h) = G!Window THEN G!Window ELSE Len(h) + 1)
      /\ \A i \in 1 .. Len(r1) - 1 : Back(r1, i) = Back(r, i - 1)
      /\ \A i \in 1 .. Len(t1) - 1 : Back(t1, i) = Back(h, i - 1)
  BY <1>1, PushFacts
<1> HIDE DEF r1, t1
<1>3. ASSUME NEW i \in 0 .. Len(r1) - 1
      PROVE  Back(r1, i) = Back(t1, i) /\ Back(r1, i)[2] = sig
  <2>1. CASE i = 0 BY <1>2, <2>1
  <2>2. CASE i # 0
    <3>1. i \in 1 .. Len(r1) - 1 /\ i \in 1 .. Len(t1) - 1 /\ i - 1 \in 0 .. Len(r) - 1
      BY <1>1, <1>2, <2>2
    <3>2. Back(r, i - 1) = Back(h, i - 1) /\ Back(r, i - 1)[2] = sig BY <3>1
    <3> QED BY <1>2, <3>1, <3>2
  <2> QED BY <2>1, <2>2
<1>4. ASSUME Len(r1) < Len(t1) PROVE Back(t1, Len(r1))[2] # sig
  <2>1. Len(r1) = Len(r) + 1 /\ Len(r) < Len(h) /\ Len(r1) \in 1 .. Len(t1) - 1
    BY <1>1, <1>2, <1>4
  <2>2. Back(t1, Len(r1)) = Back(h, Len(r)) BY <1>1, <1>2, <2>1
  <2> QED BY <2>1, <2>2
<1>5. n <= Len(r1) \/ Len(r1) = G!Window
  BY <1>1, <1>2
<1>6. \A i \in 0 .. Len(r1) - 1 : i < n => Back(r1, i) = x
  BY <1>1, <1>2
<1>7. n < Len(r1) => Back(r1, n) # x
  <2>1. CASE last = act
    BY <2>1, <1>1, <1>2
  <2>2. CASE last # act
    <3>1. Back(r, 0) = <<last, sig>> BY <1>1
    <3> QED BY <2>2, <3>1, <1>1, <1>2
  <2> QED BY <2>1, <2>2
<1>8. Len(r1) >= 1 /\ Len(r1) <= Len(t1)
  BY <1>1, <1>2
<1> HIDE DEF n
<1>9. Tells(r1, t1, act, sig, n)
  BY <1>1, <1>2, <1>3, <1>4, <1>5, <1>6, <1>7, <1>8
<1> QED BY <1>9 DEF r1, t1, n

\* The last action was repeated as often as the threshold says.
LEMMA CountTells ==
  ASSUME NEW r, NEW h, NEW act, NEW sig, NEW count, Tells(r, h, act, sig, count)
  PROVE  count >= RepeatThreshold <=> G!SameAtEnd(h, RepeatThreshold)
<1> DEFINE n == RepeatThreshold
<1>1. /\ n \in Nat \ {0} /\ n <= G!Window /\ Len(h) \in Nat /\ Len(r) \in Nat
      /\ count \in Nat \ {0} /\ Len(r) <= Len(h) /\ Len(h) <= G!Window /\ G!Window \in Nat
  BY ProgressAssumption DEF Tells, Held, G!Window
<1>2. G!SameAtEnd(h, n) <=> Len(h) >= n /\ \A i \in 0 .. n - 1 : Back(h, i) = Back(h, 0)
  BY <1>1 DEF G!SameAtEnd, G!Last, Back
<1> HIDE DEF n
<1>3. ASSUME count >= n PROVE G!SameAtEnd(h, n)
  <2>1. Len(r) >= n BY <1>1, <1>3 DEF Tells
  <2>2. \A i \in 0 .. n - 1 : Back(h, i) = <<act, sig>>
    BY <1>1, <1>3, <2>1 DEF Tells
  <2> QED BY <1>1, <1>2, <2>1, <2>2
<1>4. ASSUME G!SameAtEnd(h, n) PROVE count >= n
  <2>1. \A i \in 0 .. n - 1 : Back(h, i) = <<act, sig>>
    BY <1>1, <1>2, <1>4 DEF Tells
  <2>2. Len(r) >= n
    <3>1. SUFFICES ASSUME Len(r) < n PROVE FALSE BY <1>1
    <3>2. Len(r) < Len(h) /\ Len(r) \in 0 .. n - 1 BY <1>1, <1>2, <1>4, <3>1
    <3> QED BY <2>1, <3>2 DEF Tells
  <2>3. SUFFICES ASSUME count < n PROVE FALSE BY <1>1
  <2>4. count \in 0 .. n - 1 /\ count < Len(r) /\ count \in 0 .. Len(r) - 1
    BY <1>1, <2>2, <2>3
  <2> QED BY <2>1, <2>4 DEF Tells
<1> QED BY <1>3, <1>4 DEF n

\* A cycle of a length at the end of a sequence.
CycleOf(seq, len) ==
  /\ Len(seq) >= 2 * len
  /\ \A i \in 0 .. len - 1 : Back(seq, i) = Back(seq, i + len)
  /\ \E i \in 0 .. len - 1 : Back(seq, i) # Back(seq, 0)

\* detect_repeated_action_cycle looks from the start of the two passes, and finds these.
LEMMA CycleIsCycleOf ==
  ASSUME NEW seq, Held(seq)
  PROVE  G!Cycle(seq) <=> \E len \in 2 .. MaxPattern : CycleOf(seq, len)
<1> DEFINE n == Len(seq)
           Found(len) == /\ n >= 2 * len
                         /\ \E i \in 1 .. len - 1 : seq[n - 2 * len + 1 + i] # seq[n - 2 * len + 1]
                         /\ \A i \in 1 .. len : seq[n - 2 * len + i] = seq[n - len + i]
<1>1. n \in Nat BY DEF Held
<1>2. ASSUME NEW len \in 2 .. MaxPattern PROVE Found(len) <=> CycleOf(seq, len)
  <2>1. len \in Nat /\ len >= 2 BY ProgressAssumption
  <2>2. ASSUME Found(len) PROVE CycleOf(seq, len)
    <3>1. n >= 2 * len /\ \A i \in 1 .. len : seq[n - 2 * len + i] = seq[n - len + i] BY <2>2
    <3>2. PICK k \in 1 .. len - 1 : seq[n - 2 * len + 1 + k] # seq[n - 2 * len + 1] BY <2>2
    <3>3. ASSUME NEW i \in 0 .. len - 1 PROVE Back(seq, i) = Back(seq, i + len)
      <4>1. /\ len - i \in 1 .. len /\ n - 2 * len + (len - i) = n - (i + len)
            /\ n - len + (len - i) = n - i
        BY <1>1, <2>1
      <4> QED BY <3>1, <4>1 DEF Back
    <3>4. \E i \in 0 .. len - 1 : Back(seq, i) # Back(seq, 0)
      <4>1. Back(seq, (len - 1 - k) + len) # Back(seq, (len - 1) + len)
        <5>1. n - (len - 1 - k + len) = n - 2 * len + 1 + k /\ n - (len - 1 + len) = n - 2 * len + 1
          BY <1>1, <2>1
        <5> QED BY <3>2, <5>1 DEF Back
      <4>2. len - 1 - k \in 0 .. len - 1 /\ len - 1 \in 0 .. len - 1 BY <2>1
      <4>3. Back(seq, len - 1 - k) # Back(seq, len - 1)
        BY <3>3, <4>1, <4>2
      <4> QED BY <4>2, <4>3
    <3> QED BY <3>1, <3>3, <3>4 DEF CycleOf
  <2>3. ASSUME CycleOf(seq, len) PROVE Found(len)
    <3>1. n >= 2 * len /\ \A i \in 0 .. len - 1 : Back(seq, i) = Back(seq, i + len)
      BY <2>3 DEF CycleOf
    <3>2. PICK k \in 0 .. len - 1 : Back(seq, k) # Back(seq, 0) BY <2>3 DEF CycleOf
    <3>3. ASSUME NEW i \in 1 .. len PROVE seq[n - 2 * len + i] = seq[n - len + i]
      <4>1. /\ len - i \in 0 .. len - 1 /\ n - (len - i + len) = n - 2 * len + i
            /\ n - (len - i) = n - len + i
        BY <1>1, <2>1
      <4> QED BY <3>1, <4>1 DEF Back
    <3>4. \E i \in 1 .. len - 1 : seq[n - 2 * len + 1 + i] # seq[n - 2 * len + 1]
      <4>1. SUFFICES ASSUME \A i \in 1 .. len - 1 : seq[n - 2 * len + 1 + i] = seq[n - 2 * len + 1]
                     PROVE FALSE
        OBVIOUS
      <4>2. ASSUME NEW i \in 0 .. len - 1 PROVE Back(seq, i) = seq[n - 2 * len + 1]
        <5>1. Back(seq, i) = seq[n - i - len]
          <6>1. n - (i + len) = n - i - len BY <1>1, <2>1
          <6> QED BY <3>1, <6>1 DEF Back
        <5>2. CASE i = len - 1
          <6>1. n - i - len = n - 2 * len + 1 BY <5>2, <1>1, <2>1
          <6> QED BY <5>1, <6>1
        <5>3. CASE i # len - 1
          <6>1. len - 1 - i \in 1 .. len - 1 /\ n - 2 * len + 1 + (len - 1 - i) = n - i - len
            BY <5>3, <1>1, <2>1
          <6> QED BY <4>1, <5>1, <6>1
        <5> QED BY <5>2, <5>3
      <4>3. 0 \in 0 .. len - 1 BY <2>1
      <4> QED BY <3>2, <4>2, <4>3
    <3> QED BY <3>1, <3>3, <3>4
  <2> QED BY <2>2, <2>3
<1>3. G!Cycle(seq) <=> \E len \in 2 .. MaxPattern : Found(len)
  BY DEF G!Cycle
<1> QED BY <1>2, <1>3

\* Of the history, they are those in one context.
LEMMA CycleTells ==
  ASSUME NEW r, NEW h, NEW act, NEW sig, NEW count, Tells(r, h, act, sig, count),
         NEW len \in 2 .. MaxPattern
  PROVE  CycleOf(r, len) <=>
           /\ Len(h) >= 2 * len
           /\ \A i \in 0 .. (len - 1) : h[Len(h) - i] = h[Len(h) - i - len]
           /\ ~G!SameAtEnd(h, len)
           /\ \A i \in 0 .. (2 * len - 1) : h[Len(h) - i][2] = G!Last(h)[2]
<1> DEFINE n == Len(h)
<1>1. /\ len \in Nat /\ len >= 2 /\ n \in Nat /\ Len(r) \in Nat /\ Len(r) <= n /\ Len(r) >= 1
      /\ \A i \in 0 .. Len(r) - 1 : Back(r, i) = Back(h, i) /\ Back(h, i)[2] = sig
      /\ Len(r) < n => Back(h, Len(r))[2] # sig
  BY ProgressAssumption DEF Tells, Held
<1>2. G!Last(h) = Back(h, 0) /\ Back(h, 0)[2] = sig
  BY <1>1 DEF G!Last, Back
<1>3. ASSUME n >= 2 * len
      PROVE  /\ G!SameAtEnd(h, len) <=> \A i \in 0 .. len - 1 : Back(h, i) = Back(h, 0)
             /\ \A i \in 0 .. len - 1 : Back(h, i + len) = h[n - i - len]
  <2>1. \A i \in 0 .. len - 1 : n - (i + len) = n - i - len BY <1>1
  <2> QED BY <1>1, <1>2, <1>3, <2>1 DEF G!SameAtEnd, Back
<1>4. ASSUME CycleOf(r, len)
      PROVE  /\ n >= 2 * len
             /\ \A i \in 0 .. (len - 1) : h[n - i] = h[n - i - len]
             /\ ~G!SameAtEnd(h, len)
             /\ \A i \in 0 .. (2 * len - 1) : h[n - i][2] = G!Last(h)[2]
  <2>1. Len(r) >= 2 * len /\ n >= 2 * len BY <1>1, <1>4 DEF CycleOf
  <2>2. \A i \in 0 .. len - 1 : i \in 0 .. Len(r) - 1 /\ i + len \in 0 .. Len(r) - 1
    BY <1>1, <2>1
  <2>3. \A i \in 0 .. 2 * len - 1 : i \in 0 .. Len(r) - 1
    BY <1>1, <2>1
  <2>4. \A i \in 0 .. (2 * len - 1) : h[n - i][2] = G!Last(h)[2]
    BY <1>1, <1>2, <2>3 DEF Back
  <2>5. \A i \in 0 .. len - 1 : Back(h, i) = Back(h, i + len)
    BY <1>1, <1>4, <2>2 DEF CycleOf
  <2>6. 0 \in 0 .. len - 1 BY <1>1
  <2>7. ~G!SameAtEnd(h, len)
    BY <1>1, <1>3, <1>4, <2>1, <2>2, <2>6 DEF CycleOf
  <2>8. \A i \in 0 .. (len - 1) : h[n - i] = h[n - i - len]
    BY <1>3, <2>1, <2>5 DEF Back
  <2> QED BY <2>1, <2>4, <2>7, <2>8
<1>5. ASSUME n >= 2 * len,
             \A i \in 0 .. (len - 1) : h[n - i] = h[n - i - len],
             ~G!SameAtEnd(h, len),
             \A i \in 0 .. (2 * len - 1) : h[n - i][2] = G!Last(h)[2]
      PROVE  CycleOf(r, len)
  <2>1. Len(r) >= 2 * len
    <3>1. SUFFICES ASSUME Len(r) < 2 * len PROVE FALSE BY <1>1
    <3>2. Len(r) \in 0 .. 2 * len - 1 /\ Len(r) < n BY <1>1, <1>5, <3>1
    <3> QED BY <1>1, <1>2, <1>5, <3>2 DEF Back
  <2>2. \A i \in 0 .. len - 1 : i \in 0 .. Len(r) - 1 /\ i + len \in 0 .. Len(r) - 1
    BY <1>1, <2>1
  <2>3. 0 \in 0 .. len - 1 BY <1>1
  <2>4. \E i \in 0 .. len - 1 : Back(r, i) # Back(r, 0)
    BY <1>1, <1>3, <1>5, <2>2, <2>3
  <2>5. \A i \in 0 .. len - 1 : Back(h, i) = Back(h, i + len)
    BY <1>3, <1>5 DEF Back
  <2> QED BY <1>1, <2>1, <2>2, <2>4, <2>5 DEF CycleOf
<1> QED BY <1>4, <1>5

\* So the count and the cycle found in what is kept say what the history says.
LEMMA CirclingTells ==
  ASSUME NEW r, NEW h, NEW act, NEW sig, NEW count, Tells(r, h, act, sig, count)
  PROVE  count >= RepeatThreshold \/ G!Cycle(r) <=> G!Circling(h)
<1>1. Held(r) BY DEF Tells
<1>2. G!Cycle(r) <=> \E len \in 2 .. MaxPattern : CycleOf(r, len)
  BY <1>1, CycleIsCycleOf
<1>3. \A len \in 2 .. MaxPattern :
        CycleOf(r, len) <=>
           /\ Len(h) >= 2 * len
           /\ \A i \in 0 .. (len - 1) : h[Len(h) - i] = h[Len(h) - i - len]
           /\ ~G!SameAtEnd(h, len)
           /\ \A i \in 0 .. (2 * len - 1) : h[Len(h) - i][2] = G!Last(h)[2]
  BY CycleTells
<1>4. count >= RepeatThreshold <=> G!SameAtEnd(h, RepeatThreshold)
  BY CountTells
<1> QED BY <1>2, <1>3, <1>4 DEF G!Circling

\* What the loop keeps tells of the history.
Repeating ==
  \/ lastAction = {} /\ recent = <<>> /\ trail = <<>>
  \/ \E act, sig, count :
       /\ lastAction = {[call |-> act, sig |-> sig, count |-> count]}
       /\ Tells(recent, trail, act, sig, count)

\* Since a text was composed all searches were made in its context and the last n found
\* nothing, or one was made in another and the text is forgotten.
Forgotten(p, sig, found) == p = {} /\ \E i \in DOMAIN found : found[i][2] # sig
Counted(p, sig, found) ==
  \E n \in Nat :
    /\ p = {[sig |-> sig, count |-> n]} /\ n <= Len(found)
    /\ \A i \in DOMAIN found : found[i][2] = sig
    /\ \A i \in 0 .. n - 1 : Back(found, i)[1] = "none"
    /\ n < Len(found) => Back(found, n)[1] # "none"
Searching ==
  \/ searched = {} /\ pending = {}
  \/ \E sig, found :
       /\ searched = {[sig |-> sig, found |-> found]}
       /\ found \in Seq({"none", "some"} \X Sig)
       /\ Forgotten(pending, sig, found) \/ Counted(pending, sig, found)

ProgressInv == context \in Contexts /\ Repeating /\ Searching

\* Nothing is kept at the start.
LEMMA ProgressStarts == G!Init => ProgressInv
BY DEF G!Init, ProgressInv, Repeating, Searching

\* One more action, whatever was observed since the last.
LEMMA TrackStep ==
  ASSUME Repeating, NEW a \in Acts, NEW sig \in Sig, G!TrackRepeat(a, sig, "none")
  PROVE  Repeating' /\ G!NudgedWhenCircling /\ shown' # "submit"
<1> DEFINE x == <<a, sig>>
           kept == G!KeptIn(sig)
           pushed == G!PushBack(IF kept THEN recent ELSE <<>>, x)
           again == kept /\ \E last \in lastAction : last.call = a
           count == IF again THEN (CHOOSE last \in lastAction : TRUE).count + 1 ELSE 1
<1>1. /\ recent' = pushed /\ trail' = G!PushBack(trail, x)
      /\ lastAction' = {[call |-> a, sig |-> sig, count |-> count]}
      /\ shown' = IF count >= RepeatThreshold THEN "repeat"
                  ELSE IF G!Cycle(pushed) THEN "cycle" ELSE "none"
  BY DEF G!TrackRepeat
<1>2. Tells(pushed, trail', a, sig, count)
  <2>1. CASE lastAction = {} /\ recent = <<>> /\ trail = <<>>
    <3>1. kept /\ count = 1 BY <2>1 DEF G!KeptIn
    <3>2. pushed = G!PushBack(<<>>, x) BY <2>1
    <3>3. Held(trail) BY <2>1, ProgressAssumption DEF Held, G!Window
    <3>4. Tells(G!PushBack(<<>>, x), G!PushBack(trail, x), a, sig, 1)
      BY <2>1, <3>3, FirstTells
    <3> QED BY <1>1, <3>1, <3>2, <3>4
  <2>2. ASSUME NEW act, NEW was, NEW n,
               lastAction = {[call |-> act, sig |-> was, count |-> n]},
               Tells(recent, trail, act, was, n)
        PROVE  Tells(pushed, trail', a, sig, count)
    <3>1. /\ kept <=> was = sig
          /\ (\E last \in lastAction : last.call = a) <=> act = a
          /\ (CHOOSE last \in lastAction : TRUE).count = n
      <4> DEFINE one == [call |-> act, sig |-> was, count |-> n]
      <4>1. one.call = act /\ one.sig = was /\ one.count = n
        OBVIOUS
      <4> HIDE DEF one
      <4>2. lastAction = {one} BY <2>2 DEF one
      <4>3. (CHOOSE last \in lastAction : TRUE) = one BY <4>2
      <4> QED BY <4>1, <4>2, <4>3 DEF G!KeptIn
    <3>2. CASE was = sig
      <4>1. act \in Acts BY <2>2 DEF Tells
      <4>2. Tells(G!PushBack(recent, x), G!PushBack(trail, x), a, sig, IF act = a THEN n + 1 ELSE 1)
        BY <2>2, <3>2, <4>1, MoreTells
      <4>3. pushed = G!PushBack(recent, x) /\ count = IF act = a THEN n + 1 ELSE 1
        BY <3>1, <3>2
      <4> QED BY <1>1, <4>2, <4>3
    <3>3. CASE was # sig
      <4>1. Held(trail) /\ Back(trail, 0)[2] # sig
        <5>1. 0 \in 0 .. Len(recent) - 1 BY <2>2 DEF Tells, Held
        <5> QED BY <2>2, <3>3, <5>1 DEF Tells
      <4>2. Tells(G!PushBack(<<>>, x), G!PushBack(trail, x), a, sig, 1)
        BY <4>1, FirstTells
      <4>3. pushed = G!PushBack(<<>>, x) /\ count = 1
        BY <3>1, <3>3
      <4> QED BY <1>1, <4>2, <4>3
    <3> QED BY <3>2, <3>3
  <2> QED BY <2>1, <2>2 DEF Repeating
<1> HIDE DEF pushed, count
<1>3. Repeating' BY <1>1, <1>2 DEF Repeating
<1>4. count >= RepeatThreshold \/ G!Cycle(pushed) <=> G!Circling(trail')
  BY <1>2, CirclingTells
<1>5. shown' \in {"repeat", "cycle"} <=> G!Circling(trail')
  BY <1>1, <1>4
<1> QED BY <1>1, <1>3, <1>5 DEF G!NudgedWhenCircling

\* One more search in some context.
LEMMA FoundFacts ==
  ASSUME NEW seq \in Seq({"none", "some"} \X Sig), NEW x \in {"none", "some"} \X Sig
  PROVE  /\ Append(seq, x) \in Seq({"none", "some"} \X Sig)
         /\ Len(Append(seq, x)) = Len(seq) + 1 /\ Len(seq) \in Nat
         /\ Append(seq, x)[Len(seq) + 1] = x /\ Back(Append(seq, x), 0) = x
         /\ \A i \in DOMAIN seq : i \in DOMAIN Append(seq, x) /\ Append(seq, x)[i] = seq[i]
         /\ \A i \in DOMAIN Append(seq, x) : i = Len(seq) + 1 \/ i \in DOMAIN seq
         /\ \A i \in 1 .. Len(seq) : Back(Append(seq, x), i) = Back(seq, i - 1)
<1>1. \A i \in 1 .. Len(seq) :
        Len(seq) + 1 - i \in 1 .. Len(seq) /\ Len(seq) + 1 - i = Len(seq) - (i - 1)
  OBVIOUS
<1> QED BY <1>1 DEF Back

\* A search is answered with the advice when the history says so.
LEMMA SearchStep ==
  ASSUME ProgressInv, G!Search
  PROVE  Searching' /\ G!NudgedWhenSearching
<1>1. PICK hit \in {"none", "some"} :
        /\ searched' =
             {[s EXCEPT !.found = Append(@, <<hit, G!Signature(context)>>)] : s \in searched}
        /\ \/ pending = {} /\ pending' = pending /\ shown' = "none"
           \/ \E p \in pending :
                IF p.sig # G!Signature(context) THEN pending' = {} /\ shown' = "none"
                ELSE IF hit # "none" THEN pending' = {G!AfterHit(p)} /\ shown' = "none"
                ELSE /\ pending' = {[p EXCEPT !.count = @ + 1]}
                     /\ shown' = IF p.count + 1 >= SearchThreshold THEN "submit" ELSE "none"
  BY DEF G!Search
<1> DEFINE here == G!Signature(context)
           x == <<hit, here>>
<1>2. here \in Sig /\ x \in {"none", "some"} \X Sig
  BY DEF ProgressInv, Sig
<1>3. CASE searched = {} /\ pending = {}
  BY <1>1, <1>3 DEF Searching, G!NudgedWhenSearching
<1>4. ASSUME NEW sig, NEW found,
             searched = {[sig |-> sig, found |-> found]},
             found \in Seq({"none", "some"} \X Sig),
             Forgotten(pending, sig, found) \/ Counted(pending, sig, found)
      PROVE  Searching' /\ G!NudgedWhenSearching
  <2> DEFINE more == Append(found, x)
  <2>1. searched' = {[sig |-> sig, found |-> more]}
    BY <1>1, <1>4
  <2>2. /\ more \in Seq({"none", "some"} \X Sig)
        /\ Len(more) = Len(found) + 1 /\ Len(found) \in Nat
        /\ more[Len(found) + 1] = x /\ Back(more, 0) = x
        /\ \A i \in DOMAIN found : i \in DOMAIN more /\ more[i] = found[i]
        /\ \A i \in DOMAIN more : i = Len(found) + 1 \/ i \in DOMAIN found
        /\ \A i \in 1 .. Len(found) : Back(more, i) = Back(found, i - 1)
        /\ DOMAIN more = 1 .. Len(found) + 1
    BY <1>2, <1>4, FoundFacts
  <2> HIDE DEF more
  \* The advice is due when the last searches, as many as the threshold says, found nothing.
  <2>3. (\E s \in searched' : G!Fruitless(s)) <=>
          /\ Len(more) >= SearchThreshold
          /\ \A i \in DOMAIN more : more[i][2] = sig
          /\ \A i \in 0 .. SearchThreshold - 1 : Back(more, i)[1] = "none"
    BY <2>1 DEF G!Fruitless, Back
  <2>4. SearchThreshold \in Nat \ {0} /\ 0 \in 0 .. SearchThreshold - 1
    BY ProgressAssumption
  <2>5. CASE Forgotten(pending, sig, found)
    <3>1. pending' = {} /\ shown' = "none" BY <1>1, <2>5 DEF Forgotten
    <3>2. \E i \in DOMAIN more : more[i][2] # sig BY <2>2, <2>5 DEF Forgotten
    <3>3. Forgotten(pending', sig, more) BY <3>1, <3>2 DEF Forgotten
    <3>4. Searching' BY <2>1, <2>2, <3>3 DEF Searching
    <3> QED BY <2>3, <3>1, <3>2, <3>4 DEF G!NudgedWhenSearching
  <2>6. CASE Counted(pending, sig, found)
    <3>1. PICK n \in Nat :
            /\ pending = {[sig |-> sig, count |-> n]} /\ n <= Len(found)
            /\ \A i \in DOMAIN found : found[i][2] = sig
            /\ \A i \in 0 .. n - 1 : Back(found, i)[1] = "none"
            /\ n < Len(found) => Back(found, n)[1] # "none"
      BY <2>6 DEF Counted
    <3>2. CASE sig # here
      <4>1. pending' = {} /\ shown' = "none" BY <1>1, <3>1, <3>2
      <4>2. more[Len(found) + 1][2] # sig /\ Len(found) + 1 \in DOMAIN more BY <2>2, <3>2
      <4>3. Forgotten(pending', sig, more) BY <4>1, <4>2 DEF Forgotten
      <4>4. Searching' BY <2>1, <2>2, <4>3 DEF Searching
      <4> QED BY <2>3, <4>1, <4>2, <4>4 DEF G!NudgedWhenSearching
    <3>3. CASE sig = here /\ hit # "none"
      <4>1. pending' = {[sig |-> sig, count |-> 0]} /\ shown' = "none"
        BY <1>1, <3>1, <3>3 DEF G!AfterHit
      <4>2. \A i \in DOMAIN more : more[i][2] = sig BY <2>2, <3>1, <3>3
      <4>3. Back(more, 0)[1] # "none" BY <2>2, <3>3
      <4>4. Counted(pending', sig, more) BY <2>2, <4>1, <4>2, <4>3 DEF Counted
      <4>5. Searching' BY <2>1, <2>2, <4>4 DEF Searching
      <4> QED BY <2>3, <2>4, <4>1, <4>3, <4>5 DEF G!NudgedWhenSearching
    <3>4. CASE sig = here /\ hit = "none"
      <4>1. /\ pending' = {[sig |-> sig, count |-> n + 1]}
            /\ shown' = IF n + 1 >= SearchThreshold THEN "submit" ELSE "none"
        BY <1>1, <3>1, <3>4
      <4>2. \A i \in DOMAIN more : more[i][2] = sig BY <2>2, <3>1, <3>4
      <4>3. ASSUME NEW i \in 0 .. n PROVE Back(more, i)[1] = "none"
        <5>1. CASE i = 0 BY <2>2, <3>4, <5>1
        <5>2. CASE i # 0
          <6>1. i \in 1 .. Len(found) /\ i - 1 \in 0 .. n - 1 BY <2>2, <3>1, <5>2
          <6> QED BY <2>2, <3>1, <6>1
        <5> QED BY <5>1, <5>2
      <4>4. ASSUME n + 1 < Len(more) PROVE Back(more, n + 1)[1] # "none"
        <5>1. n + 1 \in 1 .. Len(found) /\ n < Len(found) /\ n + 1 - 1 = n BY <2>2, <3>1, <4>4
        <5> QED BY <2>2, <3>1, <5>1
      <4>5. Counted(pending', sig, more)
        <5>1. n + 1 \in Nat /\ n + 1 <= Len(more) /\ n + 1 - 1 = n BY <2>2, <3>1
        <5> QED BY <4>1, <4>2, <4>3, <4>4, <5>1 DEF Counted
      <4>6. Searching' BY <2>1, <2>2, <4>5 DEF Searching
      <4>7. (\E s \in searched' : G!Fruitless(s)) <=> n + 1 >= SearchThreshold
        <5>1. ASSUME n + 1 >= SearchThreshold PROVE \E s \in searched' : G!Fruitless(s)
          <6>1. Len(more) >= SearchThreshold /\ \A i \in 0 .. SearchThreshold - 1 : i \in 0 .. n
            BY <2>2, <2>4, <3>1, <5>1
          <6> QED BY <2>3, <4>2, <4>3, <6>1
        <5>2. ASSUME n + 1 < SearchThreshold, \E s \in searched' : G!Fruitless(s) PROVE FALSE
          <6>1. n + 1 < Len(more) /\ n + 1 \in 0 .. SearchThreshold - 1
            BY <2>2, <2>3, <2>4, <3>1, <5>2
          <6> QED BY <2>3, <4>4, <5>2, <6>1
        <5> QED BY <2>4, <5>1, <5>2
      <4> QED BY <4>1, <4>6, <4>7 DEF G!NudgedWhenSearching
    <3> QED BY <3>2, <3>3, <3>4
  <2> QED BY <1>4, <2>5, <2>6
<1> QED BY <1>3, <1>4 DEF ProgressInv, Searching

\* Every step keeps the invariant, and nudges when it should.
LEMMA ProgressStep ==
  ASSUME ProgressInv, G!Next
  PROVE  ProgressInv' /\ G!NudgedWhenCircling /\ G!NudgedWhenSearching
<1>1. context' \in Contexts
  BY DEF ProgressInv, G!Next, G!Observe, G!Act, G!ActSynthetic, G!Read, G!Search, G!Look,
         G!Reset, G!Complete
<1>2. G!Signature(context) \in Sig
  BY DEF ProgressInv, Sig
<1>3. ASSUME G!Act PROVE Repeating' /\ Searching' /\ G!NudgedWhenCircling /\ G!NudgedWhenSearching
  <2> DEFINE sig == G!Signature(context)
  <2>1. PICK a \in Acts :
          /\ pending' = IF a \in Composes THEN {[sig |-> sig, count |-> 0]} ELSE {}
          /\ searched' = IF a \in Composes THEN {[sig |-> sig, found |-> <<>>]} ELSE {}
          /\ G!TrackRepeat(a, sig, "none")
    BY <1>3 DEF G!Act
  <2>2. Repeating' /\ G!NudgedWhenCircling /\ shown' # "submit"
    BY <1>2, <2>1, TrackStep DEF ProgressInv
  <2>3. CASE a \in Composes
    <3>1. pending' = {[sig |-> sig, count |-> 0]} /\ searched' = {[sig |-> sig, found |-> <<>>]}
      BY <2>1, <2>3
    <3>2. Counted(pending', sig, <<>>) BY <3>1 DEF Counted
    <3>3. <<>> \in Seq({"none", "some"} \X Sig) OBVIOUS
    <3>5. Searching'
      <4> DEFINE empty == <<>>
      <4> HIDE DEF empty
      <4>1. /\ searched' = {[sig |-> sig, found |-> empty]}
            /\ empty \in Seq({"none", "some"} \X Sig) /\ Counted(pending', sig, empty)
        BY <3>1, <3>2, <3>3 DEF empty
      <4> HIDE DEF sig
      <4> QED BY <4>1 DEF Searching
    <3>4. ~ \E s \in searched' : G!Fruitless(s)
      BY <3>1, ProgressAssumption DEF G!Fruitless
    <3> QED BY <2>2, <3>5, <3>4 DEF G!NudgedWhenSearching
  <2>4. CASE a \notin Composes
    BY <2>1, <2>2, <2>4 DEF Searching, G!NudgedWhenSearching
  <2> QED BY <2>3, <2>4
<1>4. ASSUME G!ActSynthetic
      PROVE  Repeating' /\ Searching' /\ G!NudgedWhenCircling /\ G!NudgedWhenSearching
  <2>1. PICK a \in Acts : G!TrackRepeat(a, G!Signature(context), "none")
    BY <1>4 DEF G!ActSynthetic
  <2>2. Repeating' /\ G!NudgedWhenCircling
    BY <1>2, <2>1, TrackStep DEF ProgressInv
  <2>3. searched' = searched /\ pending' = pending
    BY <1>4 DEF G!ActSynthetic
  <2>4. Searching'
    BY <2>3 DEF ProgressInv, Searching
  <2> QED BY <2>2, <2>3, <2>4 DEF G!NudgedWhenSearching
<1>5. ASSUME G!Search
      PROVE  Repeating' /\ Searching' /\ G!NudgedWhenCircling /\ G!NudgedWhenSearching
  <2>1. UNCHANGED <<lastAction, recent, trail>> BY <1>5 DEF G!Search
  <2>2. Repeating' BY <2>1 DEF ProgressInv, Repeating
  <2> QED BY <1>5, <2>1, <2>2, SearchStep DEF G!NudgedWhenCircling
<1>6. ASSUME G!Observe \/ G!Look \/ G!Read
      PROVE  Repeating' /\ Searching' /\ G!NudgedWhenCircling /\ G!NudgedWhenSearching
  <2>1. UNCHANGED <<lastAction, recent, trail>> BY <1>6 DEF G!Observe, G!Look, G!Read
  <2>2. Repeating' BY <2>1 DEF ProgressInv, Repeating
  <2>3. UNCHANGED <<pending, searched>> \/ (pending' = {} /\ searched' = {} /\ shown' = "none")
    BY <1>6 DEF G!Observe, G!Look, G!Read
  <2>4. CASE UNCHANGED <<pending, searched>>
    BY <2>1, <2>2, <2>4 DEF ProgressInv, Searching, G!NudgedWhenCircling, G!NudgedWhenSearching
  <2>5. CASE pending' = {} /\ searched' = {} /\ shown' = "none"
    BY <2>1, <2>2, <2>5 DEF Searching, G!NudgedWhenCircling, G!NudgedWhenSearching
  <2> QED BY <2>3, <2>4, <2>5
<1>7. ASSUME G!Reset \/ G!Complete
      PROVE  Repeating' /\ Searching' /\ G!NudgedWhenCircling /\ G!NudgedWhenSearching
  <2>1. lastAction' = {} /\ recent' = <<>> /\ trail' = <<>> /\ UNCHANGED <<pending, searched>>
    BY <1>7 DEF G!Reset, G!Complete
  <2>2. Searching' BY <2>1 DEF ProgressInv, Searching
  <2> QED BY <2>1, <2>2 DEF Repeating, G!NudgedWhenCircling, G!NudgedWhenSearching
<1> QED BY <1>1, <1>3, <1>4, <1>5, <1>6, <1>7 DEF ProgressInv, G!Next

\* Whatever a turn observed in between, the model is told that it goes round in circles,
\* or that Enter would send its text, exactly when the actions and the searches it made
\* say so (track_repeat_action, detect_repeated_action_cycle,
\* track_post_text_submit_search).
THEOREM NudgesTrue ==
  G!Spec => [][G!NudgedWhenCircling /\ G!NudgedWhenSearching]_(G!vars)
<1> DEFINE nudged == G!NudgedWhenCircling /\ G!NudgedWhenSearching
<1>1. G!Init => ProgressInv BY ProgressStarts
<1>2. ProgressInv /\ [G!Next]_(G!vars) => ProgressInv' /\ [nudged]_(G!vars)
  <2>1. ASSUME ProgressInv, UNCHANGED G!vars PROVE ProgressInv'
    BY <2>1 DEF G!vars, ProgressInv, Repeating, Searching
  <2> QED BY <2>1, ProgressStep
<1> HIDE DEF nudged
<1>3. G!Spec => [][nudged]_(G!vars)
  BY <1>1, <1>2, PTL DEF G!Spec
<1> QED BY <1>3 DEF nudged

-----------------------------------------------------------------------------
(* The transcript: what compacting it leaves of the messages, pass by pass. *)

\* Of a set of the first n numbers Transcript's Max is the largest and its Min the
\* smallest.
LEMMA EndsExist ==
  ASSUME NEW n \in Nat, NEW s \in SUBSET (1 .. n), s # {}
  PROVE  /\ T!Max(s) \in s /\ \A x \in s : x <= T!Max(s)
         /\ T!Min(s) \in s /\ \A x \in s : T!Min(s) <= x
<1>1. \E m \in s : \A x \in s : m >= x
  BY LargestExists DEF P!Max
<1> DEFINE mirror == {n + 1 - x : x \in s}
<1>2. mirror \in SUBSET (1 .. n) /\ mirror # {}
  <2>1. PICK x \in s : TRUE
    OBVIOUS
  <2>2. n + 1 - x \in mirror
    BY <2>1
  <2>3. \A y \in s : y \in Int /\ 1 <= y /\ y <= n
    OBVIOUS
  <2>4. \A y \in s : n + 1 - y \in 1 .. n
    BY <2>3
  <2>5. mirror \subseteq 1 .. n
    BY <2>4
  <2> QED BY <2>2, <2>5
<1>3. P!Max(mirror) \in mirror /\ \A y \in mirror : y <= P!Max(mirror)
  BY <1>2, LargestExists
<1>4. PICK m \in s : n + 1 - m = P!Max(mirror)
  BY <1>3
<1>5. \A x \in s : n + 1 - x <= n + 1 - m
  BY <1>3, <1>4
<1>6. \A x \in s : m <= x
  BY <1>5
<1> QED BY <1>1, <1>6 DEF T!Max, T!Min

(* What a message is, and when every result in a sequence of them follows its
   call and every call has its result. *)
Bodies == {"full", "live", "call", "replan", "superseded", "omitted", "dropped", "brief",
           "stale", "cut"}
Named == T!Tools \cup {"bad_patch", "none", "unknown"}
Message == [role : {"assistant", "tool", "user"}, body : Bodies, tool : Named,
            about : Nat, size : Nat, told : Nat]
Answered(s) ==
  \A i \in DOMAIN s :
    /\ s[i].role = "tool" => i > 1 /\ s[i - 1] = T!Assistant("call", s[i].tool)
    /\ s[i].body = "call" => i < Len(s) /\ s[i + 1].role = "tool"
Talk == {s \in Seq(Message) : Answered(s)}

\* A talk, message by message.
LEMMA TalkFacts ==
  ASSUME NEW s \in Talk
  PROVE  /\ s \in Seq(Message) /\ Len(s) \in Nat /\ DOMAIN s = 1 .. Len(s)
         /\ \A i \in 1 .. Len(s) :
              /\ s[i] \in Message
              /\ s[i].role = "tool"
                    => i - 1 \in 1 .. Len(s) /\ s[i - 1] = T!Assistant("call", s[i].tool)
              /\ s[i].body = "call" => i + 1 \in 1 .. Len(s) /\ s[i + 1].role = "tool"
BY DEF Talk, Answered

\* Messages each of which may stand where it does are a talk.
LEMMA TalkBuilt ==
  ASSUME NEW n \in Nat, NEW s, s = [i \in 1 .. n |-> s[i]],
         \A i \in 1 .. n :
              /\ s[i] \in Message
              /\ s[i].role = "tool"
                    => i - 1 \in 1 .. n /\ s[i - 1] = T!Assistant("call", s[i].tool)
              /\ s[i].body = "call" => i + 1 \in 1 .. n /\ s[i + 1].role = "tool"
  PROVE  s \in Talk /\ Len(s) = n
<1>1. s \in [1 .. n -> Message]
  OBVIOUS
<1>2. s \in Seq(Message)
  BY <1>1, SeqDef
<1>3. DOMAIN s = 1 .. n /\ Len(s) = n
  BY <1>1, <1>2, LenProperties
<1>4. Answered(s)
  <2> SUFFICES ASSUME NEW i \in 1 .. n
               PROVE  /\ s[i].role = "tool"
                           => i > 1 /\ s[i - 1] = T!Assistant("call", s[i].tool)
                      /\ s[i].body = "call" => i < Len(s) /\ s[i + 1].role = "tool"
    BY <1>3 DEF Answered
  <2>1. i - 1 \in 1 .. n => i > 1
    OBVIOUS
  <2>2. i + 1 \in 1 .. n => i < n
    OBVIOUS
  <2> QED BY <2>1, <2>2, <1>3
<1> QED BY <1>2, <1>3, <1>4 DEF Talk

\* Two talks one after the other are a talk.
LEMMA TalkJoined ==
  ASSUME NEW s \in Talk, NEW t \in Talk
  PROVE  s \o t \in Talk
<1>1. /\ s \o t \in Seq(Message) /\ Len(s \o t) = Len(s) + Len(t)
      /\ DOMAIN (s \o t) = 1 .. Len(s) + Len(t)
  BY TalkFacts
<1>2. \A i \in 1 .. Len(s) : (s \o t)[i] = s[i]
  BY TalkFacts
<1>3. \A i \in 1 .. Len(t) : (s \o t)[Len(s) + i] = t[i]
  BY TalkFacts
<1>4. Answered(s \o t)
  <2> SUFFICES ASSUME NEW i \in 1 .. Len(s) + Len(t)
               PROVE  /\ (s \o t)[i].role = "tool"
                           => i > 1 /\ (s \o t)[i - 1] = T!Assistant("call", (s \o t)[i].tool)
                      /\ (s \o t)[i].body = "call"
                           => i < Len(s \o t) /\ (s \o t)[i + 1].role = "tool"
    BY <1>1 DEF Answered
  <2>1. CASE i <= Len(s)
    BY <2>1, <1>1, <1>2, TalkFacts
  <2>2. CASE i > Len(s)
    <3> DEFINE k == i - Len(s)
    <3>1. k \in 1 .. Len(t) /\ (s \o t)[i] = t[k]
      BY <2>2, <1>3, TalkFacts
    <3>2. t[k].role = "tool" => k - 1 \in 1 .. Len(t) /\ (s \o t)[i - 1] = t[k - 1]
      BY <3>1, <1>3, <2>2, TalkFacts
    <3>3. t[k].body = "call" => k + 1 \in 1 .. Len(t) /\ (s \o t)[i + 1] = t[k + 1]
      BY <3>1, <1>3, <2>2, TalkFacts
    <3> QED BY <3>1, <3>2, <3>3, <1>1, <2>2, TalkFacts
  <2> QED BY <2>1, <2>2, TalkFacts
<1> QED BY <1>1, <1>4 DEF Talk

\* The step a message is of: with every assistant message the next one begins.
LEMMA PairFacts ==
  ASSUME NEW s \in Seq(Message)
  PROVE  /\ \A i \in 0 .. Len(s) : T!PairOf(s, i) \in Nat
         /\ \A i \in 1 .. Len(s) :
              s[i].role # "assistant" => T!PairOf(s, i) = T!PairOf(s, i - 1)
         /\ \A i, j \in 0 .. Len(s) : i <= j => T!PairOf(s, i) <= T!PairOf(s, j)
<1> DEFINE up(i) == {j \in 1 .. i : s[j].role = "assistant"}
<1>1. \A i \in 0 .. Len(s) : IsFiniteSet(up(i))
  <2> TAKE i \in 0 .. Len(s)
  <2>1. IsFiniteSet(1 .. i)
    BY FS_Interval
  <2> QED BY <2>1, FS_Subset
<1>2. \A i \in 0 .. Len(s) : T!PairOf(s, i) = Cardinality(up(i))
  BY DEF T!PairOf, T!Cardinality, Cardinality
<1>3. \A i \in 1 .. Len(s) : s[i].role # "assistant" => up(i) = up(i - 1)
  OBVIOUS
<1>4. \A i, j \in 0 .. Len(s) : i <= j => up(i) \subseteq up(j)
  OBVIOUS
<1> HIDE DEF up
<1>5. \A i \in 0 .. Len(s) : T!PairOf(s, i) \in Nat
  BY <1>1, <1>2, FS_CardinalityType
<1>6. \A i \in 1 .. Len(s) : s[i].role # "assistant" => T!PairOf(s, i) = T!PairOf(s, i - 1)
  BY <1>2, <1>3
<1>7. \A i, j \in 0 .. Len(s) : i <= j => T!PairOf(s, i) <= T!PairOf(s, j)
  <2> TAKE i, j \in 0 .. Len(s)
  <2> HAVE i <= j
  <2>1. Cardinality(up(i)) <= Cardinality(up(j))
    BY <1>1, <1>4, FS_Subset
  <2> QED BY <2>1, <1>2
<1> QED BY <1>5, <1>6, <1>7

\* A message that is folded, dropped, cut or made stale is a message still, of the same
\* role and tool.
LEMMA MessageFacts ==
  /\ \A body \in Bodies, tool \in Named : T!Assistant(body, tool) \in Message
  /\ \A tool \in Named, about \in Nat, size \in Nat : T!Result(tool, about, size) \in Message
  /\ \A m \in Message :
       /\ m.tool \in Named
       /\ [m EXCEPT !.body = "superseded", !.size = 1] \in Message
       /\ [m EXCEPT !.body = "omitted", !.told = 0] \in Message
       /\ [m EXCEPT !.body = "dropped", !.size = 1] \in Message
       /\ [m EXCEPT !.body = "stale", !.size = 1, !.told = 0] \in Message
       /\ T!Cut(m) \in Message /\ ~T!CanCut(T!Cut(m))
<1>1. ASSUME NEW m \in Message
      PROVE  /\ m.tool \in Named
             /\ [m EXCEPT !.body = "superseded", !.size = 1] \in Message
             /\ [m EXCEPT !.body = "omitted", !.told = 0] \in Message
             /\ [m EXCEPT !.body = "dropped", !.size = 1] \in Message
  BY <1>1 DEF Message, Bodies
<1>2. ASSUME NEW m \in Message
      PROVE  /\ [m EXCEPT !.body = "stale", !.size = 1, !.told = 0] \in Message
             /\ T!Cut(m) \in Message
  BY <1>2 DEF Message, Bodies, T!Cut
<1>3. ASSUME NEW m \in Message PROVE ~T!CanCut(T!Cut(m))
  <2>1. T!Cut(m).size = 1 /\ T!Cut(m).told = 0
    BY DEF Message, T!Cut
  <2> QED BY <2>1 DEF T!CanCut, T!Tokens
<1>4. \A body \in Bodies, tool \in Named : T!Assistant(body, tool) \in Message
  BY DEF Message, T!Assistant
<1>5. \A tool \in Named, about \in Nat, size \in Nat : T!Result(tool, about, size) \in Message
  BY DEF Message, Bodies, T!Result
<1> QED BY <1>1, <1>2, <1>3, <1>4, <1>5

\* The call before a result is no longer than a line.
LEMMA CallFacts ==
  \A tool : /\ T!Assistant("call", tool).role = "assistant"
            /\ T!Assistant("call", tool).body = "call"
            /\ ~T!CanCut(T!Assistant("call", tool))
BY DEF T!Assistant, T!CanCut, T!Tokens

\* In a talk a message with the body of a call is a call.
LEMMA CallsCall ==
  ASSUME NEW s \in Talk, NEW i \in 1 .. Len(s), s[i].body = "call"
  PROVE  s[i].role = "assistant" /\ ~T!CanCut(s[i])
<1>1. i + 1 \in 1 .. Len(s) /\ s[i + 1].role = "tool"
  BY TalkFacts
<1>2. s[(i + 1) - 1] = T!Assistant("call", s[i + 1].tool)
  BY <1>1, TalkFacts
<1> QED BY <1>2, CallFacts, TalkFacts

\* A talk in which every message keeps its role, its tool and, if it is a call, its body
\* is one still.
LEMMA TalkKept ==
  ASSUME NEW s \in Talk, NEW r, r = [i \in 1 .. Len(s) |-> r[i]],
         \A i \in 1 .. Len(s) :
           /\ r[i] \in Message /\ r[i].role = s[i].role /\ r[i].tool = s[i].tool
           /\ s[i].body = "call" => r[i] = s[i]
           /\ r[i].body = "call" => r[i] = s[i]
  PROVE  r \in Talk /\ Len(r) = Len(s)
<1> DEFINE n == Len(s)
<1>1. n \in Nat
  BY TalkFacts
<1>2. ASSUME NEW i \in 1 .. n
      PROVE  /\ r[i] \in Message
             /\ r[i].role = "tool"
                   => i - 1 \in 1 .. n /\ r[i - 1] = T!Assistant("call", r[i].tool)
             /\ r[i].body = "call" => i + 1 \in 1 .. n /\ r[i + 1].role = "tool"
  <2>1. r[i].role = "tool" => i - 1 \in 1 .. n /\ s[i - 1] = T!Assistant("call", r[i].tool)
    BY TalkFacts
  <2>2. r[i].role = "tool" => r[i - 1] = s[i - 1]
    BY <2>1, CallFacts
  <2>3. r[i].body = "call" => i + 1 \in 1 .. n /\ s[i + 1].role = "tool"
    BY TalkFacts
  <2> QED BY <2>1, <2>2, <2>3
<1> QED BY <1>1, <1>2, TalkBuilt

\* What folding the snapshots leaves: the state block of the turn, and the result
\* before it in full.
LEMMA FoldedFacts ==
  ASSUME NEW s \in Talk, s # <<>>, s[Len(s)].role = "user", s[Len(s)].body = "live"
  PROVE  LET f == T!Folded(s)  n == Len(s) IN
         /\ f \in Talk /\ Len(f) = n
         /\ T!HasState(f[n]) /\ (f[n].body = "live" => f[n] = s[n])
         /\ n > 1 /\ s[n - 1].body \in {"full", "replan"} => f[n - 1] = s[n - 1]
<1> DEFINE f == T!Folded(s)
           n == Len(s)
           shots == {i \in 1 .. n : T!IsSnapshot(s[i])}
           top == T!Max(shots)
           Omits(i) == /\ s[i].role = "user" /\ s[i].body = "live"
                       /\ \E j \in shots : T!PairOf(s, j) = T!PairOf(s, i)
<1>1. n \in Nat /\ n >= 1 /\ DOMAIN s = 1 .. n
  BY TalkFacts, EmptySeq
<1>2. f = [i \in 1 .. n |->
             IF i \in shots /\ i # top THEN [s[i] EXCEPT !.body = "superseded", !.size = 1]
             ELSE IF Omits(i) THEN [s[i] EXCEPT !.body = "omitted", !.told = 0]
             ELSE s[i]]
  BY <1>1 DEF T!Folded
<1>3. shots \in SUBSET (1 .. n) /\ \A i \in shots : s[i].role = "tool"
  BY DEF T!IsSnapshot
<1>4. \A i \in shots : i <= top
  BY <1>1, <1>3, EndsExist
<1> HIDE DEF f, shots, top, Omits
<1>5. ASSUME NEW i \in 1 .. n
      PROVE  /\ f[i] \in Message /\ f[i].role = s[i].role /\ f[i].tool = s[i].tool
             /\ s[i].body = "call" => f[i] = s[i]
             /\ f[i].body = "call" => f[i] = s[i]
  <2>1. s[i] \in Message
    BY TalkFacts
  <2>2. CASE i \in shots /\ i # top
    <3>1. s[i].body # "call"
      BY <2>2, <1>3, CallsCall
    <3>2. f[i] = [s[i] EXCEPT !.body = "superseded", !.size = 1]
      BY <2>2, <1>2
    <3>3. f[i] \in Message
      BY <2>1, <3>2, MessageFacts
    <3>4. f[i].role = s[i].role /\ f[i].tool = s[i].tool /\ f[i].body = "superseded"
      BY <2>1, <3>2 DEF Message
    <3> QED BY <3>1, <3>3, <3>4
  <2>3. CASE ~(i \in shots /\ i # top) /\ Omits(i)
    <3>1. s[i].body # "call"
      BY <2>3 DEF Omits
    <3>2. f[i] = [s[i] EXCEPT !.body = "omitted", !.told = 0]
      BY <2>3, <1>2
    <3>3. f[i] \in Message
      BY <2>1, <3>2, MessageFacts
    <3>4. f[i].role = s[i].role /\ f[i].tool = s[i].tool /\ f[i].body = "omitted"
      BY <2>1, <3>2 DEF Message
    <3> QED BY <3>1, <3>3, <3>4
  <2>4. CASE ~(i \in shots /\ i # top) /\ ~Omits(i)
    BY <2>1, <2>4, <1>2
  <2> QED BY <2>2, <2>3, <2>4
<1>6. f \in Talk /\ Len(f) = n
  <2>1. f = [i \in 1 .. n |-> f[i]]
    BY <1>2
  <2> QED BY <2>1, <1>5, TalkKept
<1>7. T!HasState(f[n]) /\ (f[n].body = "live" => f[n] = s[n])
  <2>1. n \in 1 .. n /\ s[n] \in Message
    BY <1>1, TalkFacts
  <2>2. n \notin shots
    BY <1>3
  <2>3. CASE Omits(n)
    <3>1. f[n] = [s[n] EXCEPT !.body = "omitted", !.told = 0]
      BY <2>1, <2>2, <2>3, <1>2
    <3>2. f[n].role = "user" /\ f[n].body = "omitted"
      BY <2>1, <3>1 DEF Message
    <3> QED BY <3>2 DEF T!HasState
  <2>4. CASE ~Omits(n)
    <3>1. f[n] = s[n]
      BY <2>1, <2>2, <2>4, <1>2
    <3> QED BY <3>1 DEF T!HasState
  <2> QED BY <2>3, <2>4
<1>8. ASSUME n > 1, s[n - 1].body \in {"full", "replan"} PROVE f[n - 1] = s[n - 1]
  <2>1. n - 1 \in 1 .. n
    BY <1>1, <1>8
  <2>2. n - 1 \in shots => n - 1 = top
    <3>1. \A i \in shots : i <= n - 1
      BY <1>1, <1>3
    <3>2. shots # {} => top \in shots
      BY <1>1, <1>3, EndsExist DEF top
    <3>3. n - 1 \in shots => top \in 1 .. n /\ top <= n - 1 /\ n - 1 <= top
      BY <3>1, <3>2, <1>3, <1>4
    <3> QED BY <3>3, <1>1
  <2>3. ~Omits(n - 1)
    BY <1>8 DEF Omits
  <2> QED BY <2>1, <2>2, <2>3, <1>2
<1> QED BY <1>6, <1>7, <1>8 DEF f

\* A part of a talk, message by message.
LEMMA PartFacts ==
  ASSUME NEW s \in Talk, NEW a \in 1 .. Len(s), NEW b \in 1 .. Len(s), a <= b
  PROVE  /\ SubSeq(s, a, b) \in Seq(Message) /\ Len(SubSeq(s, a, b)) = b - a + 1
         /\ DOMAIN SubSeq(s, a, b) = 1 .. b - a + 1
         /\ \A k \in 1 .. b - a + 1 : SubSeq(s, a, b)[k] = s[a + k - 1]
<1>1. a \in Int /\ b \in Int /\ Len(s) \in Nat
  BY TalkFacts
<1>2. \A i \in a .. b : s[i] \in Message
  BY <1>1, TalkFacts
<1>3. /\ Len(SubSeq(s, a, b)) = b - a + 1 /\ SubSeq(s, a, b) \in Seq(Message)
      /\ \A k \in 1 .. b - a + 1 : SubSeq(s, a, b)[k] = s[a + k - 1]
  BY <1>1, <1>2, SubSeqProperties
<1>4. DOMAIN SubSeq(s, a, b) = 1 .. b - a + 1
  BY <1>3, LenProperties
<1> QED BY <1>3, <1>4

\* The messages of a step stand together.
LEMMA StepFacts ==
  ASSUME NEW s \in Talk, NEW p, NEW a \in 1 .. Len(s), NEW b \in 1 .. Len(s),
         T!PairOf(s, a) = p, T!PairOf(s, b) = p,
         \A i \in 1 .. Len(s) : T!PairOf(s, i) = p => a <= i /\ i <= b
  PROVE  /\ a <= b /\ b - a + 1 \in Nat
         /\ \A i \in 1 .. Len(s) : T!PairOf(s, i) = p <=> a <= i /\ i <= b
         /\ \A k \in 1 .. b - a + 1 : a + k - 1 \in 1 .. Len(s) /\ T!PairOf(s, a + k - 1) = p
<1>1. s \in Seq(Message) /\ Len(s) \in Nat
  BY TalkFacts
<1>2. a <= b
  OBVIOUS
<1>3. \A i \in 1 .. Len(s) : T!PairOf(s, i) = p <=> a <= i /\ i <= b
  <2> TAKE i \in 1 .. Len(s)
  <2>1. a <= i /\ i <= b => /\ T!PairOf(s, a) <= T!PairOf(s, i)
                            /\ T!PairOf(s, i) <= T!PairOf(s, b)
    BY <1>1, PairFacts
  <2>2. T!PairOf(s, i) \in Nat /\ T!PairOf(s, a) \in Nat
    BY <1>1, PairFacts
  <2>3. a <= i /\ i <= b => T!PairOf(s, i) = p
    BY <2>1, <2>2
  <2> QED BY <2>3
<1>4. \A k \in 1 .. b - a + 1 : a + k - 1 \in 1 .. Len(s) /\ T!PairOf(s, a + k - 1) = p
  BY <1>1, <1>2, <1>3
<1> QED BY <1>1, <1>2, <1>3, <1>4

\* What the window leaves of a step is a talk by itself: the brief of a call that is
\* gone with its result, or all of it.
LEMMA StepIsTalk ==
  ASSUME NEW s \in Talk, NEW p
  PROVE  T!OfPair(s, p) \in Talk
<1> DEFINE mine == {i \in 1 .. Len(s) : T!PairOf(s, i) = p}
           a == T!Min(mine)
           b == T!Max(mine)
           whole == SubSeq(s, a, b)
           n == b - a + 1
           left == [k \in 1 .. n |->
                      IF T!IsStale(s, a + k - 1)
                      THEN [whole[k] EXCEPT !.body = "dropped", !.size = 1] ELSE whole[k]]
<1>1. DOMAIN s = 1 .. Len(s) /\ Len(s) \in Nat /\ s \in Seq(Message)
  BY TalkFacts
<1>2. CASE mine = {}
  <2>1. T!OfPair(s, p) = <<>>
    BY <1>1, <1>2 DEF T!OfPair
  <2>2. <<>> \in Seq(Message) /\ DOMAIN <<>> = {}
    OBVIOUS
  <2> QED BY <2>1, <2>2 DEF Talk, Answered
<1>3. CASE mine # {}
  <2>0. /\ mine \in SUBSET (1 .. Len(s))
        /\ \A i \in 1 .. Len(s) : i \in mine <=> T!PairOf(s, i) = p
    OBVIOUS
  <2>5. a \in mine /\ b \in mine /\ \A i \in mine : a <= i /\ i <= b
    BY <1>1, <1>3, <2>0, EndsExist
  <2> HIDE DEF mine, a, b
  <2>6. /\ a \in 1 .. Len(s) /\ b \in 1 .. Len(s)
        /\ T!PairOf(s, a) = p /\ T!PairOf(s, b) = p
        /\ \A i \in 1 .. Len(s) : T!PairOf(s, i) = p => a <= i /\ i <= b
    BY <2>0, <2>5
  <2>1. /\ n \in Nat /\ a <= b
        /\ \A i \in 1 .. Len(s) : T!PairOf(s, i) = p <=> a <= i /\ i <= b
        /\ DOMAIN whole = 1 .. n
        /\ \A k \in 1 .. n :
             /\ a + k - 1 \in 1 .. Len(s) /\ T!PairOf(s, a + k - 1) = p
             /\ whole[k] = s[a + k - 1]
    <3>1. a <= b /\ b - a + 1 \in Nat
      BY <2>6, StepFacts
    <3>3. \A i \in 1 .. Len(s) : T!PairOf(s, i) = p <=> a <= i /\ i <= b
      BY <2>6, StepFacts
    <3>4. ASSUME NEW k \in 1 .. b - a + 1
          PROVE  a + k - 1 \in 1 .. Len(s) /\ T!PairOf(s, a + k - 1) = p
      BY <2>6, StepFacts
    <3>2. /\ DOMAIN SubSeq(s, a, b) = 1 .. b - a + 1
          /\ \A k \in 1 .. b - a + 1 : SubSeq(s, a, b)[k] = s[a + k - 1]
      BY <2>6, <3>1, PartFacts
    <3> QED BY <3>1, <3>2, <3>3, <3>4
  <2>2. CASE ~T!IsRecent(s, p)
    <3>1. T!OfPair(s, p) = <<T!Brief(whole)>>
      BY <1>1, <1>3, <2>2 DEF T!OfPair, mine, a, b
    <3>2. T!Brief(whole) \in Message /\ T!Brief(whole).body = "brief"
          /\ T!Brief(whole).role = "assistant"
      <4> DEFINE of == {k \in 1 .. n : whole[k].role = "tool"}
      <4>1. T!Brief(whole)
              = T!Assistant("brief", IF of = {} THEN "unknown" ELSE whole[T!Min(of)].tool)
        BY <2>1 DEF T!Brief
      <4>2. of # {} => whole[T!Min(of)].tool \in Named
        <5>1. of # {} => T!Min(of) \in 1 .. n
          BY <2>1, EndsExist, of \in SUBSET (1 .. n)
        <5>2. \A k \in 1 .. n : whole[k].tool \in Named
          <6> TAKE k \in 1 .. n
          <6>1. a + k - 1 \in 1 .. Len(s) /\ whole[k] = s[a + k - 1]
            BY <2>1
          <6> QED BY <6>1, TalkFacts, MessageFacts
        <5> QED BY <5>1, <5>2
      <4>3. (IF of = {} THEN "unknown" ELSE whole[T!Min(of)].tool) \in Named
        BY <4>2 DEF Named
      <4> HIDE DEF of
      <4>4. "brief" \in Bodies
        BY DEF Bodies
      <4>5. T!Brief(whole) \in Message
        BY <4>1, <4>3, <4>4, MessageFacts
      <4>6. \A tool : T!Assistant("brief", tool).body = "brief"
                     /\ T!Assistant("brief", tool).role = "assistant"
        BY DEF T!Assistant
      <4> QED BY <4>1, <4>5, <4>6
    <3> DEFINE one == <<T!Brief(whole)>>
    <3>3. one = [i \in 1 .. 1 |-> one[i]] /\ one[1] = T!Brief(whole)
      OBVIOUS
    <3> HIDE DEF one
    <3>4. \A i \in 1 .. 1 : one[i] \in Message /\ one[i].role # "tool" /\ one[i].body # "call"
      BY <3>2, <3>3
    <3>5. one \in Talk
      BY <3>3, <3>4, TalkBuilt
    <3> QED BY <3>1, <3>5 DEF one
  <2>3. CASE T!IsRecent(s, p)
    <3>1. T!OfPair(s, p) = left
      BY <1>1, <1>3, <2>1, <2>3 DEF T!OfPair, mine, a, b
    <3>2. left = [k \in 1 .. n |-> left[k]]
      OBVIOUS
    <3>3. ASSUME NEW k \in 1 .. n
          PROVE  /\ left[k] \in Message /\ left[k].role = s[a + k - 1].role
                 /\ left[k].tool = s[a + k - 1].tool
                 /\ s[a + k - 1].role = "assistant" => left[k] = s[a + k - 1]
                 /\ left[k].body = "call" => left[k] = s[a + k - 1]
      <4>1. whole[k] = s[a + k - 1] /\ s[a + k - 1] \in Message
        BY <2>1, TalkFacts
      <4>2. CASE T!IsStale(s, a + k - 1)
        <5>1. left[k] = [whole[k] EXCEPT !.body = "dropped", !.size = 1]
          BY <4>2
        <5>2. left[k] \in Message
          BY <4>1, <5>1, MessageFacts
        <5>3. left[k].role = whole[k].role /\ left[k].tool = whole[k].tool
              /\ left[k].body = "dropped"
          BY <4>1, <5>1 DEF Message
        <5> QED BY <4>1, <4>2, <5>2, <5>3 DEF T!IsStale
      <4>3. CASE ~T!IsStale(s, a + k - 1)
        BY <4>1, <4>3
      <4> QED BY <4>2, <4>3
    <3> HIDE DEF left
    <3>4. ASSUME NEW k \in 1 .. n, left[k].role = "tool"
          PROVE  k - 1 \in 1 .. n /\ left[k - 1] = T!Assistant("call", left[k].tool)
      <4> DEFINE i == a + k - 1
      <4>1. /\ T!PairOf(s, i) = p /\ i \in 1 .. Len(s)
            /\ s[i].role = "tool" /\ s[i].tool = left[k].tool
        BY <2>1, <3>3, <3>4
      <4>2. i - 1 \in 1 .. Len(s) /\ s[i - 1] = T!Assistant("call", s[i].tool)
        BY <4>1, TalkFacts
      <4>3. T!PairOf(s, i) = T!PairOf(s, i - 1)
        BY <4>1, <1>1, PairFacts
      <4>4. T!PairOf(s, i - 1) = p
        BY <4>1, <4>3
      <4>5. a <= i - 1 /\ i - 1 <= b
        BY <4>4, <4>2, <2>1
      <4>6. k - 1 \in 1 .. n /\ a + (k - 1) - 1 = i - 1
        BY <4>5, <2>1, <2>6, <1>1
      <4>7. left[k - 1] = s[i - 1]
        BY <3>3, <4>6, <4>2, CallFacts
      <4> QED BY <4>1, <4>2, <4>6, <4>7
    <3>5. ASSUME NEW k \in 1 .. n, left[k].body = "call"
          PROVE  k + 1 \in 1 .. n /\ left[k + 1].role = "tool"
      <4> DEFINE i == a + k - 1
      <4>1. T!PairOf(s, i) = p /\ i \in 1 .. Len(s) /\ s[i].body = "call"
        BY <2>1, <3>3, <3>5
      <4>2. i + 1 \in 1 .. Len(s) /\ s[i + 1].role = "tool"
        BY <4>1, TalkFacts
      <4>3. T!PairOf(s, i + 1) = T!PairOf(s, (i + 1) - 1)
        BY <4>2, <1>1, PairFacts
      <4>4. T!PairOf(s, i + 1) = p
        BY <4>1, <4>3
      <4>6. a <= i + 1 /\ i + 1 <= b
        BY <4>4, <4>2, <2>1
      <4>5. k + 1 \in 1 .. n /\ a + (k + 1) - 1 = i + 1
        BY <4>6, <2>1, <2>6, <1>1
      <4> QED BY <3>3, <4>2, <4>5
    <3> QED BY <3>1, <3>2, <3>3, <3>4, <3>5, <2>1, TalkBuilt
  <2> QED BY <2>2, <2>3
<1> QED BY <1>2, <1>3

\* Talks one after the other are a talk that ends with the last.
LEMMA FlattenedTalks ==
  ASSUME NEW n \in Nat, n >= 1, NEW ss, DOMAIN ss = 1 .. n, Len(ss) = n,
         \A i \in 1 .. n : ss[i] \in Talk
  PROVE  \E before \in Talk : T!FlattenSeq(ss) = before \o ss[n]
<1> DEFINE Good(g, k) == g = [i \in 1 .. k |-> IF i = 1 THEN ss[i] ELSE g[i - 1] \o ss[i]]
           K == {k \in Nat : \E g : Good(g, k)}
           made == CHOOSE g : Good(g, n)
<1>1. K = Nat
  <2>1. 0 \in K
    <3> DEFINE g == [i \in 1 .. 0 |-> ss[i]]
    <3>1. Good(g, 0)
      OBVIOUS
    <3> QED BY <3>1
  <2>2. ASSUME NEW k \in K PROVE k + 1 \in K
    <3> PICK g : Good(g, k)
      OBVIOUS
    <3> DEFINE h == [i \in 1 .. k + 1 |->
                       IF i <= k THEN g[i] ELSE IF i = 1 THEN ss[i] ELSE g[i - 1] \o ss[i]]
    <3>1. k \in Nat
      OBVIOUS
    <3>2. \A i \in 1 .. k + 1 : h[i] = IF i = 1 THEN ss[i] ELSE h[i - 1] \o ss[i]
      <4> TAKE i \in 1 .. k + 1
      <4>1. CASE i <= k
        <5>1. h[i] = g[i] /\ i \in 1 .. k
          BY <3>1, <4>1
        <5>2. g[i] = IF i = 1 THEN ss[i] ELSE g[i - 1] \o ss[i]
          BY <5>1
        <5>3. i # 1 => h[i - 1] = g[i - 1]
          BY <3>1, <4>1, <5>1
        <5> QED BY <5>1, <5>2, <5>3
      <4>2. CASE ~(i <= k)
        <5>1. h[i] = IF i = 1 THEN ss[i] ELSE g[i - 1] \o ss[i]
          BY <4>2
        <5>2. i # 1 => h[i - 1] = g[i - 1]
          BY <3>1, <4>2
        <5> QED BY <5>1, <5>2
      <4> QED BY <4>1, <4>2
    <3>3. Good(h, k + 1)
      BY <3>2
    <3> HIDE DEF h, Good
    <3>4. k + 1 \in Nat /\ \E f : Good(f, k + 1)
      BY <3>1, <3>3
    <3> QED BY <3>4
  <2> HIDE DEF K
  <2> QED BY <2>1, <2>2, NatSet, K \subseteq Nat DEF K
<1>2. Good(made, n)
  <2>1. \E g : Good(g, n)
    BY <1>1
  <2> QED BY <2>1
<1>3. T!FlattenSeq(ss) = made[n]
  BY DEF T!FlattenSeq
<1>4. \A i \in 1 .. n : made[i] = IF i = 1 THEN ss[i] ELSE made[i - 1] \o ss[i]
  BY <1>2
<1> HIDE DEF made, K, Good
<1> DEFINE L == {k \in Nat : k \in 1 .. n => made[k] \in Talk}
<1>5. L = Nat
  <2>1. 0 \in L
    OBVIOUS
  <2>2. ASSUME NEW k \in L PROVE k + 1 \in L
    <3>1. k \in Nat /\ (k \in 1 .. n => made[k] \in Talk)
      OBVIOUS
    <3>2. ASSUME k + 1 \in 1 .. n PROVE made[k + 1] \in Talk
      <4>1. CASE k = 0
        BY <1>4, <3>2, <4>1
      <4>2. CASE k # 0
        <5>1. made[k] \in Talk /\ ss[k + 1] \in Talk
          BY <3>1, <3>2, <4>2
        <5>2. made[k + 1] = made[k] \o ss[k + 1]
          <6>1. k + 1 # 1 /\ (k + 1) - 1 = k
            BY <3>1, <4>2
          <6>2. made[k + 1] = IF k + 1 = 1 THEN ss[k + 1] ELSE made[(k + 1) - 1] \o ss[k + 1]
            BY <1>4, <3>2
          <6> QED BY <6>1, <6>2
        <5> QED BY <5>1, <5>2, TalkJoined
      <4> QED BY <4>1, <4>2
    <3> QED BY <3>1, <3>2
  <2> HIDE DEF L
  <2> QED BY <2>1, <2>2, NatSet, L \subseteq Nat DEF L
<1>6. CASE n = 1
  <2>1. <<>> \in Talk
    <3>1. <<>> \in Seq(Message) /\ DOMAIN <<>> = {}
      OBVIOUS
    <3> QED BY <3>1 DEF Talk, Answered
  <2>2. made[n] = <<>> \o ss[n]
    <3>1. made[n] = ss[n] /\ ss[n] \in Talk
      BY <1>4, <1>6
    <3> QED BY <3>1, TalkFacts
  <2> QED BY <2>1, <2>2, <1>3
<1>7. CASE n # 1
  <2>1. made[n - 1] \in Talk
    BY <1>5, <1>7
  <2>2. made[n] = made[n - 1] \o ss[n]
    <3>1. n \in 1 .. n
      OBVIOUS
    <3>2. made[n] = IF n = 1 THEN ss[n] ELSE made[n - 1] \o ss[n]
      BY <1>4, <3>1
    <3> QED BY <3>2, <1>7
  <2> QED BY <2>1, <2>2, <1>3
<1> QED BY <1>6, <1>7

\* The window keeps the current step as it is: the last message, and the one before it
\* when the last is no call.
LEMMA WindowedFacts ==
  ASSUME NEW s \in Talk, s # <<>>
  PROVE  LET w == T!Windowed(s)  n == Len(s) IN
         /\ w \in Talk /\ Len(w) >= 1 /\ w[Len(w)] = s[n]
         /\ n > 1 /\ s[n].role # "assistant" => Len(w) > 1 /\ w[Len(w) - 1] = s[n - 1]
<1> DEFINE w == T!Windowed(s)
           n == Len(s)
           p == T!PairOf(s, n)
           mine == {i \in 1 .. n : T!PairOf(s, i) = p}
           a == T!Min(mine)
           tail == SubSeq(s, a, n)
           ss == [q \in 1 .. p + 1 |-> T!OfPair(s, q - 1)]
<1>1. n \in Nat /\ n >= 1 /\ DOMAIN s = 1 .. n /\ s \in Seq(Message)
  BY TalkFacts, EmptySeq
<1>2. p \in Nat /\ \A i \in 1 .. n : T!PairOf(s, i) \in Nat /\ T!PairOf(s, i) <= p
  BY <1>1, PairFacts
<1>3. a \in mine /\ T!Max(mine) = n /\ \A i \in mine : a <= i /\ i <= n
  <2>1. mine \in SUBSET (1 .. n) /\ n \in mine
    BY <1>1
  <2>2. /\ a \in mine /\ \A i \in mine : a <= i
        /\ T!Max(mine) \in mine /\ \A i \in mine : i <= T!Max(mine)
    BY <1>1, <2>1, EndsExist
  <2>3. T!Max(mine) <= n /\ n <= T!Max(mine) /\ T!Max(mine) \in 1 .. n
    BY <1>1, <2>1, <2>2
  <2> QED BY <1>1, <2>1, <2>2, <2>3
<1>4. /\ a \in 1 .. n /\ T!PairOf(s, a) = p
      /\ \A i \in 1 .. n : T!PairOf(s, i) = p => a <= i /\ i <= n
  BY <1>3
<1>5. T!Current(s) = p
  BY DEF T!Current
<1>6. mine # {} /\ T!IsRecent(s, p)
  BY <1>2, <1>3, <1>5, TranscriptAssumption DEF T!IsRecent
<1> HIDE DEF a
<1>7. /\ tail \in Seq(Message) /\ DOMAIN tail = 1 .. n - a + 1 /\ n - a + 1 \in Nat
      /\ Len(tail) = n - a + 1
      /\ \A k \in 1 .. n - a + 1 : T!PairOf(s, a + k - 1) = p
      /\ \A k \in 1 .. n - a + 1 : tail[k] = s[a + k - 1]
  <2>0. n \in 1 .. n /\ T!PairOf(s, n) = p
    BY <1>1
  <2> HIDE DEF p
  <2>1. a <= n /\ n - a + 1 \in Nat
    BY <2>0, <1>4, StepFacts
  <2>3. ASSUME NEW k \in 1 .. n - a + 1 PROVE T!PairOf(s, a + k - 1) = p
    <3> DEFINE i == a + k - 1
    <3>1. i \in 1 .. n /\ a <= i /\ i <= n
      BY <1>1, <1>4, <2>1
    <3> HIDE DEF i
    <3>2. T!PairOf(s, a) <= T!PairOf(s, i) /\ T!PairOf(s, i) <= p /\ T!PairOf(s, i) \in Nat
      BY <1>1, <1>2, <1>4, <3>1, PairFacts
    <3>3. T!PairOf(s, i) = p
      BY <1>2, <1>4, <3>2
    <3> QED BY <3>3 DEF i
  <2>2. /\ tail \in Seq(Message) /\ DOMAIN tail = 1 .. n - a + 1
        /\ Len(tail) = n - a + 1
        /\ \A k \in 1 .. n - a + 1 : tail[k] = s[a + k - 1]
    BY <2>0, <2>1, <1>4, PartFacts
  <2> QED BY <2>1, <2>2, <2>3
<1>8. T!OfPair(s, p) = tail
  <2>1. T!OfPair(s, p)
          = [k \in DOMAIN tail |->
               IF T!IsStale(s, a + k - 1) THEN [tail[k] EXCEPT !.body = "dropped", !.size = 1]
               ELSE tail[k]]
    BY <1>1, <1>3, <1>6 DEF T!OfPair, a
  <2>2. \A k \in DOMAIN tail : ~T!IsStale(s, a + k - 1)
    BY <1>2, <1>5, <1>7 DEF T!IsStale
  <2>3. tail = [k \in DOMAIN tail |-> tail[k]]
    BY <1>7
  <2> QED BY <2>1, <2>2, <2>3
<1>9. /\ tail \in Talk /\ Len(tail) = n - a + 1 /\ Len(tail) >= 1
      /\ \A k \in 1 .. n - a + 1 : tail[k] = s[a + k - 1]
  <2>1. tail \in Talk
    BY <1>8, StepIsTalk
  <2>2. n - a + 1 >= 1
    BY <1>1, <1>4
  <2> QED BY <2>1, <2>2, <1>7
<1>10. \E before \in Talk : w = before \o tail
  <2>1. p + 1 \in Nat /\ p + 1 >= 1
    BY <1>2
  <2>2. DOMAIN ss = 1 .. p + 1 /\ Len(ss) = p + 1
    BY <2>1
  <2>3. \A i \in 1 .. p + 1 : ss[i] \in Talk
    BY StepIsTalk
  <2>4. ss[p + 1] = tail
    <3> HIDE DEF p, tail
    <3>1. (p + 1) - 1 = p /\ p + 1 \in 1 .. p + 1
      BY <2>1, <1>2
    <3>2. ss[p + 1] = T!OfPair(s, (p + 1) - 1)
      BY <3>1
    <3> QED BY <3>1, <3>2, <1>8
  <2>5. w = T!FlattenSeq(ss)
    BY <1>5 DEF T!Windowed
  <2> HIDE DEF ss, tail, w, p
  <2>6. \E before \in Talk : T!FlattenSeq(ss) = before \o ss[p + 1]
    BY <2>1, <2>2, <2>3, FlattenedTalks
  <2> QED BY <2>4, <2>5, <2>6
<1>11. PICK before \in Talk : w = before \o tail
  BY <1>10
<1> DEFINE last == Len(tail)
<1>12. tail[last] = s[n]
  BY <1>1, <1>4, <1>9
<1>13. n > 1 /\ s[n].role # "assistant" => last > 1 /\ tail[last - 1] = s[n - 1]
  <2> SUFFICES ASSUME n > 1, s[n].role # "assistant"
               PROVE  last > 1 /\ tail[last - 1] = s[n - 1]
    OBVIOUS
  <2>1. T!PairOf(s, n - 1) = p
    BY <1>1, PairFacts
  <2>2. a <= n - 1
    BY <1>1, <1>4, <2>1
  <2>3. last = n - a + 1 /\ last - 1 \in 1 .. n - a + 1 /\ a + (last - 1) - 1 = n - 1
    BY <1>1, <1>4, <1>9, <2>2
  <2> HIDE DEF last, tail
  <2>4. tail[last - 1] = s[a + (last - 1) - 1]
    BY <1>9, <2>3
  <2>5. last > 1
    BY <1>1, <1>4, <2>2, <2>3
  <2> QED BY <2>3, <2>4, <2>5
<1> HIDE DEF w, tail, n
<1>14. /\ w \in Talk /\ Len(w) = Len(before) + last /\ last \in Nat /\ Len(before) \in Nat
       /\ \A k \in 1 .. last : w[Len(before) + k] = tail[k]
  BY <1>9, <1>11, TalkJoined, TalkFacts
<1>15. w \in Talk /\ Len(w) >= 1 /\ w[Len(w)] = s[n]
  BY <1>9, <1>12, <1>14
<1>16. n > 1 /\ s[n].role # "assistant" => Len(w) > 1 /\ w[Len(w) - 1] = s[n - 1]
  <2> SUFFICES ASSUME n > 1, s[n].role # "assistant"
               PROVE  Len(w) > 1 /\ w[Len(w) - 1] = s[n - 1]
    OBVIOUS
  <2>1. last > 1 /\ tail[last - 1] = s[n - 1]
    BY <1>13
  <2>2. last - 1 \in 1 .. last /\ Len(before) + (last - 1) = Len(w) - 1 /\ Len(w) > 1
    BY <2>1, <1>14
  <2>3. w[Len(before) + (last - 1)] = tail[last - 1]
    BY <2>2, <1>14
  <2> QED BY <2>1, <2>2, <2>3
<1> QED BY <1>15, <1>16 DEF w, n

\* Of the state blocks only the last stays.
LEMMA UnstaledFacts ==
  ASSUME NEW s \in Talk, s # <<>>, T!HasState(s[Len(s)])
  PROVE  LET u == T!Unstaled(s)  n == Len(s) IN
         /\ u \in Talk /\ Len(u) = n /\ u[n] = s[n]
         /\ \A i \in 1 .. n - 1 : ~T!HasState(u[i]) /\ (~T!HasState(s[i]) => u[i] = s[i])
<1> DEFINE u == T!Unstaled(s)
           n == Len(s)
           states == {i \in 1 .. n : T!HasState(s[i])}
<1>1. n \in Nat /\ n >= 1 /\ DOMAIN s = 1 .. n
  BY TalkFacts, EmptySeq
<1>2. T!Max(states) = n
  <2>1. states \in SUBSET (1 .. n) /\ n \in states
    BY <1>1
  <2>2. T!Max(states) \in states /\ \A i \in states : i <= T!Max(states)
    BY <1>1, <2>1, EndsExist
  <2>3. T!Max(states) <= n /\ n <= T!Max(states) /\ T!Max(states) \in 1 .. n
    BY <1>1, <2>1, <2>2
  <2> QED BY <1>1, <2>3
<1>3. u = [i \in 1 .. n |->
             IF T!HasState(s[i]) /\ i # n
             THEN [s[i] EXCEPT !.body = "stale", !.size = 1, !.told = 0] ELSE s[i]]
  BY <1>1, <1>2 DEF T!Unstaled
<1> HIDE DEF u, states
<1>4. ASSUME NEW i \in 1 .. n
      PROVE  /\ u[i] \in Message /\ u[i].role = s[i].role /\ u[i].tool = s[i].tool
             /\ s[i].body = "call" => u[i] = s[i]
             /\ u[i].body = "call" => u[i] = s[i]
             /\ i # n => ~T!HasState(u[i])
  <2>1. s[i] \in Message
    BY TalkFacts
  <2>2. CASE T!HasState(s[i]) /\ i # n
    <3>1. u[i] = [s[i] EXCEPT !.body = "stale", !.size = 1, !.told = 0]
      BY <1>3, <2>2
    <3>2. u[i] \in Message
      BY <2>1, <3>1, MessageFacts
    <3>3. u[i].role = s[i].role /\ u[i].tool = s[i].tool /\ u[i].body = "stale"
      BY <2>1, <3>1 DEF Message
    <3> QED BY <2>2, <3>2, <3>3 DEF T!HasState
  <2>3. CASE ~(T!HasState(s[i]) /\ i # n)
    BY <1>3, <2>1, <2>3
  <2> QED BY <2>2, <2>3
<1>5. u \in Talk /\ Len(u) = n
  <2>1. u = [i \in 1 .. n |-> u[i]]
    BY <1>3
  <2> QED BY <2>1, <1>4, TalkKept
<1>6. u[n] = s[n]
  <2>1. n \in 1 .. n /\ ~(T!HasState(s[n]) /\ n # n)
    BY <1>1
  <2> QED BY <2>1, <1>3
<1>7. ASSUME NEW i \in 1 .. n - 1
      PROVE  ~T!HasState(u[i]) /\ (~T!HasState(s[i]) => u[i] = s[i])
  <2> HIDE DEF n
  <2>1. i \in 1 .. n /\ i # n
    BY <1>1, <1>7
  <2> QED BY <2>1, <1>3, <1>4
<1> QED BY <1>5, <1>6, <1>7 DEF u

\* Everything before the last message that could be cut has been.
Bare(s) == \A i \in 1 .. Len(s) - 1 : ~T!CanCut(s[i])

(* One step of the cutting, and what the messages may be after any number of them:
   each is as it was, or cut and everything before it as short as it gets. *)
CutOnce(base, m) ==
  LET long == {i \in DOMAIN m : T!CanCut(m[i])}
  IN  IF base + T!AllTokens(m) <= MaxTokens \/ long = {} THEN m
      ELSE [m EXCEPT ![T!Min(long)] = T!Cut(@)]
Covers(s, m) == m = [i \in 1 .. Len(s) |-> m[i]]
CutDown(s, m) ==
  \A i \in 1 .. Len(s) :
    \/ m[i] = s[i]
    \/ /\ m[i] = T!Cut(s[i]) /\ T!CanCut(s[i])
       /\ \A j \in 1 .. i - 1 : ~T!CanCut(m[j])

\* Cutting the oldest message that can be cut keeps what was said of the messages.
LEMMA CutOnceKeeps ==
  ASSUME NEW s \in Talk, NEW m, Covers(s, m), CutDown(s, m), NEW base
  PROVE  Covers(s, CutOnce(base, m)) /\ CutDown(s, CutOnce(base, m))
<1> DEFINE n == Len(s)
           long == {i \in 1 .. n : T!CanCut(m[i])}
           x == T!Min(long)
           r == CutOnce(base, m)
<1>1. n \in Nat /\ m = [i \in 1 .. n |-> m[i]] /\ DOMAIN m = 1 .. n
  BY TalkFacts DEF Covers
<1>2. CASE r = m
  BY <1>2
<1>3. CASE r # m
  <2>1. long # {} /\ r = [m EXCEPT ![x] = T!Cut(m[x])]
    BY <1>1, <1>3 DEF CutOnce
  <2>2. x \in long /\ \A i \in long : x <= i
    BY <1>1, <2>1, EndsExist, long \in SUBSET (1 .. n)
  <2> HIDE DEF x, r
  <2>3. x \in 1 .. n /\ T!CanCut(m[x]) /\ \A j \in 1 .. x - 1 : ~T!CanCut(m[j])
    BY <1>1, <2>2
  <2>4. s[x] \in Message
    BY <2>3, TalkFacts
  <2>5. m[x] = s[x]
    BY <2>3, <2>4, MessageFacts DEF CutDown
  <2>6. /\ r = [i \in 1 .. n |-> r[i]] /\ r[x] = T!Cut(s[x])
        /\ \A i \in 1 .. n : i # x => r[i] = m[i]
    BY <1>1, <2>1, <2>3, <2>5
  <2>7. ASSUME NEW i \in 1 .. n
        PROVE  \/ r[i] = s[i]
               \/ /\ r[i] = T!Cut(s[i]) /\ T!CanCut(s[i])
                  /\ \A j \in 1 .. i - 1 : ~T!CanCut(r[j])
    <3>1. CASE i = x
      <4>1. \A j \in 1 .. i - 1 : r[j] = m[j]
        BY <1>1, <2>3, <2>6, <3>1
      <4> QED BY <4>1, <3>1, <2>3, <2>5, <2>6
    <3>2. CASE i # x /\ m[i] = s[i]
      BY <2>6, <3>2
    <3>3. CASE i # x /\ m[i] # s[i]
      <4>1. /\ r[i] = T!Cut(s[i]) /\ T!CanCut(s[i])
            /\ \A j \in 1 .. i - 1 : ~T!CanCut(m[j])
        BY <2>6, <3>3 DEF CutDown
      <4>2. \A j \in 1 .. i - 1 : j \in 1 .. n /\ (r[j] = m[j] \/ r[j] = T!Cut(s[x]))
        BY <1>1, <2>6
      <4>3. ~T!CanCut(T!Cut(s[x]))
        BY <2>4, MessageFacts
      <4> QED BY <4>1, <4>2, <4>3
    <3> QED BY <3>1, <3>2, <3>3
  <2>8. CutDown(s, r)
    BY <2>7 DEF CutDown
  <2>9. Covers(s, r)
    BY <2>6 DEF Covers
  <2> QED BY <2>8, <2>9 DEF r
<1> QED BY <1>2, <1>3

\* Cutting to the budget goes from the oldest message on.
LEMMA BudgetedFacts ==
  ASSUME NEW s \in Talk, NEW base
  PROVE  LET b == T!Budgeted(base, s) IN b \in Talk /\ Len(b) = Len(s) /\ CutDown(s, b)
<1> DEFINE b == T!Budgeted(base, s)
           n == Len(s)
           Good(g, k) == g = [i \in 0 .. k |-> IF i = 0 THEN s ELSE CutOnce(base, g[i - 1])]
           K == {k \in Nat : \E g : Good(g, k)}
           made == CHOOSE g : Good(g, n)
<1>0. n \in Nat /\ s \in Seq(Message) /\ s = [i \in 1 .. n |-> s[i]]
  BY TalkFacts
<1>1. K = Nat
  <2>1. 0 \in K
    <3> DEFINE g == [i \in 0 .. 0 |-> s]
    <3>1. Good(g, 0)
      OBVIOUS
    <3> HIDE DEF g, Good
    <3> QED BY <3>1
  <2>2. ASSUME NEW k \in K PROVE k + 1 \in K
    <3> PICK g : Good(g, k)
      OBVIOUS
    <3> DEFINE h == [i \in 0 .. k + 1 |->
                       IF i <= k THEN g[i] ELSE IF i = 0 THEN s ELSE CutOnce(base, g[i - 1])]
    <3>1. k \in Nat
      OBVIOUS
    <3>2. \A i \in 0 .. k + 1 : h[i] = IF i = 0 THEN s ELSE CutOnce(base, h[i - 1])
      <4> TAKE i \in 0 .. k + 1
      <4>1. CASE i <= k
        <5>1. h[i] = g[i] /\ i \in 0 .. k
          BY <3>1, <4>1
        <5>2. g[i] = IF i = 0 THEN s ELSE CutOnce(base, g[i - 1])
          BY <5>1
        <5>3. i # 0 => h[i - 1] = g[i - 1]
          BY <3>1, <4>1, <5>1
        <5> QED BY <5>1, <5>2, <5>3
      <4>2. CASE ~(i <= k)
        <5>1. h[i] = IF i = 0 THEN s ELSE CutOnce(base, g[i - 1])
          BY <4>2
        <5>2. i # 0 => h[i - 1] = g[i - 1]
          BY <3>1, <4>2
        <5> QED BY <5>1, <5>2
      <4> QED BY <4>1, <4>2
    <3>3. Good(h, k + 1)
      BY <3>2
    <3> HIDE DEF h, Good
    <3>4. k + 1 \in Nat /\ \E f : Good(f, k + 1)
      BY <3>1, <3>3
    <3> QED BY <3>4
  <2> HIDE DEF K
  <2> QED BY <2>1, <2>2, NatSet, K \subseteq Nat DEF K
<1>2. Good(made, n)
  <2>1. \E g : Good(g, n)
    BY <1>0, <1>1
  <2> QED BY <2>1
<1>3. b = made[n]
  BY DEF T!Budgeted, CutOnce
<1>4. \A i \in 0 .. n : made[i] = IF i = 0 THEN s ELSE CutOnce(base, made[i - 1])
  BY <1>2
<1> HIDE DEF made, K, Good
<1> DEFINE L == {k \in Nat : k <= n => Covers(s, made[k]) /\ CutDown(s, made[k])}
<1>5. L = Nat
  <2>1. 0 \in L
    <3>1. made[0] = s
      BY <1>0, <1>4
    <3>2. Covers(s, s) /\ CutDown(s, s)
      BY <1>0 DEF Covers, CutDown
    <3> QED BY <3>1, <3>2
  <2>2. ASSUME NEW k \in L PROVE k + 1 \in L
    <3>1. k \in Nat /\ (k <= n => Covers(s, made[k]) /\ CutDown(s, made[k]))
      OBVIOUS
    <3>2. ASSUME k + 1 <= n PROVE Covers(s, made[k + 1]) /\ CutDown(s, made[k + 1])
      <4>1. k + 1 \in 0 .. n /\ k + 1 # 0 /\ (k + 1) - 1 = k /\ k <= n
        BY <1>0, <3>1, <3>2
      <4>2. made[k + 1] = IF k + 1 = 0 THEN s ELSE CutOnce(base, made[(k + 1) - 1])
        BY <1>4, <4>1
      <4>3. made[k + 1] = CutOnce(base, made[k])
        BY <4>1, <4>2
      <4> QED BY <3>1, <4>1, <4>3, CutOnceKeeps
    <3> QED BY <3>1, <3>2
  <2> HIDE DEF L
  <2> QED BY <2>1, <2>2, NatSet, L \subseteq Nat DEF L
<1>6. Covers(s, b) /\ CutDown(s, b)
  BY <1>0, <1>3, <1>5
<1> HIDE DEF b, L
<1>7. b \in Talk /\ Len(b) = n
  <2>1. ASSUME NEW i \in 1 .. n
        PROVE  /\ b[i] \in Message /\ b[i].role = s[i].role /\ b[i].tool = s[i].tool
               /\ s[i].body = "call" => b[i] = s[i]
               /\ b[i].body = "call" => b[i] = s[i]
    <3>1. s[i] \in Message
      BY TalkFacts
    <3>2. b[i] = s[i] \/ (b[i] = T!Cut(s[i]) /\ T!CanCut(s[i]))
      BY <1>6 DEF CutDown
    <3>3. CASE b[i] = s[i]
      BY <3>1, <3>3
    <3>4. CASE b[i] = T!Cut(s[i]) /\ T!CanCut(s[i])
      <4>1. b[i] \in Message
        BY <3>1, <3>4, MessageFacts
      <4>2. b[i].role = s[i].role /\ b[i].tool = s[i].tool /\ b[i].body = "cut"
        BY <3>1, <3>4 DEF Message, T!Cut
      <4>3. s[i].body # "call"
        BY <3>4, CallsCall
      <4> QED BY <4>1, <4>2, <4>3
    <3> QED BY <3>2, <3>3, <3>4
  <2>2. b = [i \in 1 .. Len(s) |-> b[i]]
    BY <1>6 DEF Covers
  <2> QED BY <2>1, <2>2, TalkKept
<1> QED BY <1>6, <1>7 DEF b

\* What the compaction makes of a talk that ends with the turn's message: a talk that
\* ends with it and has no other state block, and before it the last result or replan
\* as it was; each as long as cutting older messages makes room for it.
LEMMA CompactFacts ==
  ASSUME NEW s \in Talk, s # <<>>, s[Len(s)].role = "user", s[Len(s)].body = "live", NEW base
  PROVE  LET c == T!Compact(base, s) IN
         /\ c \in Talk /\ Len(c) >= 1
         /\ \A i \in 1 .. Len(c) - 1 : ~T!HasState(c[i])
         /\ \/ Bare(c)
            \/ /\ T!HasState(c[Len(c)])
               /\ c[Len(c)].body = "live" => c[Len(c)] = s[Len(s)]
         /\ Len(s) > 1 /\ s[Len(s) - 1].body \in {"full", "replan"} =>
              \/ Bare(c)
              \/ Len(c) > 1 /\ c[Len(c) - 1] = s[Len(s) - 1]
<1> DEFINE f == T!Folded(s)
           w == T!Windowed(f)
           u == T!Unstaled(w)
           c == T!Budgeted(base, u)
           Newest == Len(s) > 1 /\ s[Len(s) - 1].body \in {"full", "replan"}
<1>0. Len(s) \in Nat /\ Len(s) >= 1
  BY TalkFacts, EmptySeq
<1>1. /\ f \in Talk /\ Len(f) = Len(s)
      /\ T!HasState(f[Len(f)]) /\ (f[Len(f)].body = "live" => f[Len(f)] = s[Len(s)])
      /\ Newest => f[Len(f) - 1] = s[Len(s) - 1]
  BY FoldedFacts
<1> HIDE DEF f
<1>2. f # <<>> /\ f[Len(f)].role = "user" /\ f[Len(f)].role # "assistant"
  BY <1>0, <1>1 DEF T!HasState
<1>3. /\ w \in Talk /\ Len(w) >= 1 /\ w[Len(w)] = f[Len(f)]
      /\ Len(f) > 1 => Len(w) > 1 /\ w[Len(w) - 1] = f[Len(f) - 1]
  BY <1>1, <1>2, WindowedFacts
<1> HIDE DEF w
<1>4. w # <<>> /\ T!HasState(w[Len(w)]) /\ Len(w) \in Nat
  BY <1>1, <1>3, TalkFacts
<1>5. /\ u \in Talk /\ Len(u) = Len(w) /\ u[Len(u)] = w[Len(w)]
      /\ \A i \in 1 .. Len(w) - 1 : ~T!HasState(u[i]) /\ (~T!HasState(w[i]) => u[i] = w[i])
  BY <1>3, <1>4, UnstaledFacts
<1> HIDE DEF u
<1>6. c \in Talk /\ Len(c) = Len(u) /\ CutDown(u, c)
  BY <1>5, BudgetedFacts
<1> DEFINE n == Len(c)
<1> HIDE DEF c
<1>8. /\ n \in Nat /\ n >= 1 /\ n = Len(u) /\ n = Len(w)
      /\ \A i \in 1 .. n :
           c[i] = u[i] \/ (c[i] = T!Cut(u[i]) /\ \A j \in 1 .. i - 1 : ~T!CanCut(c[j]))
  <2>1. n \in Nat /\ n >= 1 /\ n = Len(u) /\ n = Len(w)
    BY <1>3, <1>4, <1>5, <1>6
  <2> HIDE DEF n
  <2> QED BY <1>6, <2>1 DEF CutDown
<1> HIDE DEF n
<1>9. ASSUME NEW i \in 1 .. n - 1 PROVE ~T!HasState(c[i])
  <2>1. i \in 1 .. n /\ i \in 1 .. Len(w) - 1
    BY <1>8, <1>9
  <2>2. u[i] \in Message /\ ~T!HasState(u[i])
    BY <2>1, <1>5, <1>8, TalkFacts
  <2>3. ~T!HasState(T!Cut(u[i]))
    BY <2>2 DEF Message, T!Cut, T!HasState
  <2> QED BY <2>1, <2>2, <2>3, <1>8
<1>10. \/ Bare(c)
       \/ T!HasState(c[n]) /\ (c[n].body = "live" => c[n] = s[Len(s)])
  <2>1. n \in 1 .. n
    BY <1>8
  <2>2. CASE c[n] = u[n]
    <3>1. c[n] = f[Len(f)]
      BY <2>2, <1>3, <1>5, <1>8
    <3> QED BY <3>1, <1>1
  <2>3. CASE c[n] # u[n]
    BY <2>1, <2>3, <1>8 DEF Bare, n
  <2> QED BY <2>2, <2>3
<1>11. ASSUME Newest PROVE Bare(c) \/ (n > 1 /\ c[n - 1] = s[Len(s) - 1])
  <2>1. n > 1 /\ n - 1 \in 1 .. n /\ n - 1 \in 1 .. Len(w) - 1
    BY <1>1, <1>3, <1>8, <1>11
  <2>2. w[n - 1] = s[Len(s) - 1] /\ ~T!HasState(w[n - 1])
    BY <1>1, <1>3, <1>8, <1>11 DEF T!HasState
  <2>3. u[n - 1] = s[Len(s) - 1]
    BY <2>1, <2>2, <1>5
  <2>4. CASE c[n - 1] = u[n - 1]
    BY <2>1, <2>3, <2>4
  <2>5. CASE c[n - 1] # u[n - 1]
    <3>1. /\ c[n - 1] = T!Cut(u[n - 1])
          /\ \A j \in 1 .. (n - 1) - 1 : ~T!CanCut(c[j])
      BY <2>1, <2>5, <1>8
    <3>2. ~T!CanCut(c[n - 1])
      BY <3>1, <2>1, <1>5, <1>8, TalkFacts, MessageFacts
    <3>3. ASSUME NEW j \in 1 .. n - 1 PROVE ~T!CanCut(c[j])
      <4>1. j = n - 1 \/ j \in 1 .. (n - 1) - 1
        BY <1>8, <3>3
      <4> QED BY <3>1, <3>2, <4>1
    <3> QED BY <3>3 DEF Bare, n
  <2> QED BY <2>4, <2>5
<1>12. T!Compact(base, s) = c
  BY DEF T!Compact, f, w, u, c
<1> QED BY <1>6, <1>8, <1>9, <1>10, <1>11, <1>12 DEF n

(* Before a request the last message is the result of the last action or the replan,
   but for the answer to invoke_skill; the request says so. *)
LastTells ==
  \/ previous.act = "invoke_skill"
  \/ /\ messages # <<>> /\ messages[Len(messages)].body \in {"full", "replan"}
     /\ messages[Len(messages)].about = previous.about
TranscriptInv ==
  /\ messages \in Talk /\ turns \in Nat /\ asked \in BOOLEAN
  /\ previous \in [about : Nat, act : T!Calls \cup {"none"}, size : Nat]
  /\ ~asked /\ ended = "no" /\ previous.about > 0 => LastTells
  /\ T!Heard /\ T!StateIsFresh

\* What the answer adds is a talk by itself.
LEMMA OneMessage ==
  ASSUME NEW m \in Message, m.role # "tool", m.body # "call"
  PROVE  <<m>> \in Talk
<1> DEFINE one == <<m>>
<1>1. one = [i \in 1 .. 1 |-> one[i]] /\ one[1] = m
  OBVIOUS
<1> HIDE DEF one
<1>2. \A i \in 1 .. 1 : one[i] \in Message /\ one[i].role # "tool" /\ one[i].body # "call"
  BY <1>1
<1>3. one \in Talk
  BY <1>1, <1>2, TalkBuilt
<1> QED BY <1>3 DEF one

\* So are a call and its result.
LEMMA CallAndResult ==
  ASSUME NEW tool \in Named, NEW about \in Nat, NEW size \in Nat
  PROVE  <<T!Assistant("call", tool), T!Result(tool, about, size)>> \in Talk
<1> DEFINE two == <<T!Assistant("call", tool), T!Result(tool, about, size)>>
<1>1. /\ two = [i \in 1 .. 2 |-> two[i]]
      /\ two[1] = T!Assistant("call", tool) /\ two[2] = T!Result(tool, about, size)
  OBVIOUS
<1> HIDE DEF two
<1>2. /\ two[1] \in Message /\ two[1].role = "assistant" /\ two[1].body = "call"
      /\ two[2] \in Message /\ two[2].role = "tool" /\ two[2].body = "full"
      /\ two[2].tool = tool
  <2>1. "call" \in Bodies
    BY DEF Bodies
  <2>2. two[1] \in Message
    BY <1>1, <2>1, MessageFacts
  <2>5. two[2] \in Message
    BY <1>1 DEF T!Result, Message, Bodies
  <2>3. /\ T!Assistant("call", tool).role = "assistant"
        /\ T!Assistant("call", tool).body = "call"
    BY CallFacts
  <2>4. /\ T!Result(tool, about, size).role = "tool"
        /\ T!Result(tool, about, size).body = "full"
        /\ T!Result(tool, about, size).tool = tool
    BY DEF T!Result
  <2> QED BY <1>1, <2>2, <2>3, <2>4, <2>5
<1>3. ASSUME NEW i \in 1 .. 2
      PROVE  /\ two[i] \in Message
             /\ two[i].role = "tool"
                   => i - 1 \in 1 .. 2 /\ two[i - 1] = T!Assistant("call", two[i].tool)
             /\ two[i].body = "call" => i + 1 \in 1 .. 2 /\ two[i + 1].role = "tool"
  <2>1. CASE i = 1
    BY <2>1, <1>2
  <2>2. CASE i = 2
    BY <2>2, <1>1, <1>2
  <2> QED BY <2>1, <2>2
<1>4. two \in Talk
  BY <1>1, <1>3, TalkBuilt
<1> QED BY <1>4 DEF two

\* What a reply asks for is one of the calls, and no mutation.
LEMMA ActionFacts ==
  ASSUME NEW reply \in T!Replies
  PROVE  T!Action(reply) \in T!Calls \ {"mutation"}
<1> DEFINE acts == {i \in DOMAIN reply : reply[i] # "mutation"}
<1>1. DOMAIN reply \in SUBSET (1 .. 2) /\ \A i \in DOMAIN reply : reply[i] \in T!Calls
  <2>1. CASE reply = <<>>
    BY <2>1
  <2>2. CASE \E c \in T!Calls : reply = <<c>>
    BY <2>2
  <2>3. CASE reply \in T!Calls \X T!Calls
    BY <2>3
  <2> QED BY <2>1, <2>2, <2>3 DEF T!Replies
<1>2. CASE acts = {}
  BY <1>2 DEF T!Action, T!Calls
<1>3. CASE acts # {}
  <2>1. T!Min(acts) \in acts
    BY <1>1, <1>3, EndsExist, acts \in SUBSET (1 .. 2)
  <2>2. T!Action(reply) = reply[T!Min(acts)]
    BY <1>3 DEF T!Action
  <2> QED BY <1>1, <2>1, <2>2
<1> QED BY <1>2, <1>3

\* A run starts with nothing said.
LEMMA TranscriptStarts == T!Init => TranscriptInv
<1> SUFFICES ASSUME T!Init PROVE TranscriptInv
  OBVIOUS
<1>1. <<>> \in Talk
  <2>1. <<>> \in Seq(Message) /\ DOMAIN <<>> = {}
    OBVIOUS
  <2> QED BY <2>1 DEF Talk, Answered
<1>2. /\ previous \in [about : Nat, act : T!Calls \cup {"none"}, size : Nat]
      /\ previous.about = 0
  BY DEF T!Init
<1>3. messages = <<>> /\ asked = FALSE /\ turns = 0
  BY DEF T!Init
<1>4. T!Heard /\ T!StateIsFresh
  BY <1>3 DEF T!Heard, T!StateIsFresh
<1>5. ~(previous.about > 0)
  BY <1>2
<1>6. turns \in Nat /\ asked \in BOOLEAN /\ messages \in Talk
  BY <1>1, <1>3
<1> QED BY <1>2, <1>4, <1>5, <1>6 DEF TranscriptInv

\* What the compaction sends says what became of the last action.
LEMMA ComposeTells ==
  ASSUME TranscriptInv, NEW size \in StateSizes, T!Compose(size)
  PROVE  TranscriptInv'
<1> DEFINE m == T!UserTurn(size, previous)
           s == Append(messages, m)
           c == T!Compact(goal.tokens, s)
           k == Len(messages)
<1>1. m \in Message /\ m.role = "user" /\ m.body = "live" /\ m.about = previous.about
  <2>1. size \in Nat /\ previous.about \in Nat /\ previous.size \in Nat
    BY TranscriptAssumption DEF TranscriptInv
  <2>2. "live" \in Bodies /\ "none" \in Named
    BY DEF Bodies, Named
  <2> QED BY <2>1, <2>2 DEF T!UserTurn, Message
<1> HIDE DEF m
<1>2. /\ messages \in Talk /\ messages \in Seq(Message) /\ k \in Nat
  BY TalkFacts DEF TranscriptInv
<1>3. s \in Talk
  <2>1. s = messages \o <<m>>
    BY <1>1, <1>2
  <2>2. <<m>> \in Talk
    BY <1>1, OneMessage
  <2> QED BY <1>2, <2>1, <2>2, TalkJoined
<1>4. /\ Len(s) = k + 1 /\ s # <<>> /\ s[k + 1] = m /\ (k > 0 => s[k] = messages[k])
  <2>1. Len(s) = k + 1 /\ s[k + 1] = m
    BY <1>1, <1>2
  <2>2. s # <<>>
    BY <1>2, <2>1
  <2>3. k > 0 => s[k] = messages[k]
    BY <1>1, <1>2
  <2> QED BY <2>1, <2>2, <2>3
<1> HIDE DEF s
<1>5. /\ messages' = c /\ asked' = TRUE /\ turns' \in Nat /\ previous' = previous
      /\ ~asked /\ ended = "no"
  BY DEF T!Compose, TranscriptInv, s, m
<1>6. /\ c \in Talk /\ Len(c) >= 1
      /\ \A i \in 1 .. Len(c) - 1 : ~T!HasState(c[i])
      /\ \/ Bare(c)
         \/ T!HasState(c[Len(c)]) /\ (c[Len(c)].body = "live" => c[Len(c)] = s[Len(s)])
      /\ Len(s) > 1 /\ s[Len(s) - 1].body \in {"full", "replan"} =>
           \/ Bare(c)
           \/ Len(c) > 1 /\ c[Len(c) - 1] = s[Len(s) - 1]
  <2>1. s[Len(s)].role = "user" /\ s[Len(s)].body = "live"
    BY <1>1, <1>4
  <2> QED BY <1>3, <1>4, <2>1, CompactFacts
<1> HIDE DEF c
<1>7. Len(c) \in Nat /\ DOMAIN c = 1 .. Len(c)
  BY <1>6, TalkFacts
<1>8. Bare(c) => T!CutToTheBone'
  BY <1>5 DEF Bare, T!CutToTheBone
<1>9. T!StateIsFresh'
  BY <1>5, <1>6, <1>8 DEF T!StateIsFresh, T!Last
<1>10. T!Heard'
  <2> SUFFICES ASSUME previous.about > 0, ~Bare(c)
               PROVE  \/ \E i \in 1 .. Len(c) : /\ c[i].body \in {"full", "live", "replan"}
                                                /\ c[i].about = previous.about
                      \/ previous.act = "invoke_skill" /\ c[Len(c)].body = "omitted"
    BY <1>5, <1>7, <1>8 DEF T!Heard, T!Says, T!Last
  <2>1. CASE previous.act = "invoke_skill"
    <3>1. c[Len(c)].body = "omitted" \/ c[Len(c)] = m
      BY <1>4, <1>6 DEF T!HasState
    <3> QED BY <2>1, <3>1, <1>1, <1>6, <1>7
  <2>2. CASE previous.act # "invoke_skill"
    <3>1. /\ messages # <<>> /\ messages[k].body \in {"full", "replan"}
          /\ messages[k].about = previous.about
      BY <1>5, <2>2 DEF TranscriptInv, LastTells
    <3>2. k > 0 /\ Len(s) > 1 /\ Len(s) - 1 = k
      BY <1>2, <1>4, <3>1, EmptySeq
    <3>3. s[Len(s) - 1] = messages[k]
      BY <1>4, <3>2
    <3>4. Len(c) > 1 /\ c[Len(c) - 1] = messages[k]
      BY <1>6, <3>1, <3>2, <3>3
    <3>5. Len(c) - 1 \in 1 .. Len(c)
      BY <1>7, <3>4
    <3> QED BY <3>1, <3>4, <3>5
  <2> QED BY <2>1, <2>2
<1>11. /\ asked' \in BOOLEAN
       /\ previous' \in [about : Nat, act : T!Calls \cup {"none"}, size : Nat]
  BY <1>5 DEF TranscriptInv
<1> QED BY <1>5, <1>6, <1>9, <1>10, <1>11 DEF TranscriptInv

\* The answer leaves the call with its result, or the replan, at the end.
LEMMA AnswerTells ==
  ASSUME TranscriptInv, NEW reply \in T!Replies, NEW size \in Sizes, T!Answer(reply, size)
  PROVE  TranscriptInv'
<1> DEFINE act == T!Action(reply)
           k == Len(messages)
<1>1. act \in T!Calls \ {"mutation"}
  BY ActionFacts
<1> HIDE DEF act
<1>2. /\ messages \in Talk /\ messages \in Seq(Message) /\ k \in Nat
      /\ turns \in Nat /\ size \in Nat
  BY TalkFacts, TranscriptAssumption DEF TranscriptInv
<1>3. /\ asked' = FALSE /\ turns' = turns
      /\ previous' = IF ended' = "no" THEN [about |-> turns, act |-> act, size |-> size]
                     ELSE previous
  BY DEF T!Answer, act
<1>4. previous' \in [about : Nat, act : T!Calls \cup {"none"}, size : Nat]
  BY <1>1, <1>2, <1>3 DEF TranscriptInv
<1>5. T!Heard' /\ T!StateIsFresh'
  BY <1>3 DEF T!Heard, T!StateIsFresh
<1>6. CASE act \in T!Tools \cup {"bad_patch"}
  <2> DEFINE two == <<T!Assistant("call", act), T!Result(act, turns, size)>>
  <2>0. T!Action(reply) \in T!Tools \cup {"bad_patch"} /\ T!Action(reply) # "agent_replan"
    BY <1>6 DEF act, T!Tools, T!Dropped, T!Producing
  <2>1. messages' = messages \o two
    <3> DEFINE a == T!Assistant("call", T!Action(reply))
               r == T!Result(T!Action(reply), turns, size)
    <3>1. messages' = messages \o <<a, r>>
      BY <2>0 DEF T!Answer
    <3> QED BY <3>1 DEF act
  <2>2. two \in Talk /\ Len(two) = 2 /\ two[2] = T!Result(act, turns, size)
    BY <1>2, <1>6, CallAndResult DEF Named
  <2> HIDE DEF two
  <2>3. messages' \in Talk
    BY <1>2, <2>1, <2>2, TalkJoined
  <2>4. Len(messages') = k + 2 /\ messages'[k + 2] = T!Result(act, turns, size)
    <3>1. two \in Seq(Message)
      BY <2>2, TalkFacts
    <3> DEFINE both == messages \o two
    <3>2. Len(both) = k + 2 /\ both[k + 2] = two[2]
      <4>1. Len(both) = Len(messages) + Len(two)
        BY <1>2, <3>1, ConcatProperties
      <4>2. Len(both) = k + 2 /\ k + 2 \in 1 .. Len(messages) + Len(two) /\ (k + 2) - k = 2
        BY <1>2, <2>2, <4>1
      <4>3. both[k + 2] = IF k + 2 <= k THEN messages[k + 2] ELSE two[(k + 2) - k]
        BY <1>2, <3>1, <4>2, ConcatProperties
      <4>4. ~(k + 2 <= k)
        BY <1>2
      <4> QED BY <4>2, <4>3, <4>4
    <3> QED BY <2>1, <2>2, <3>2
  <2>5. /\ messages'[Len(messages')].body = "full"
        /\ messages'[Len(messages')].about = turns
    BY <2>4 DEF T!Result
  <2>6. messages' # <<>>
    BY <1>2, <2>4
  <2>7. ended' = "no" => LastTells'
    BY <1>3, <2>5, <2>6 DEF LastTells
  <2> QED BY <1>2, <1>3, <1>4, <1>5, <2>3, <2>7 DEF TranscriptInv
<1>7. CASE act = "agent_replan"
  <2> DEFINE m == [T!Assistant("replan", "none") EXCEPT !.about = turns]
  <2>1. messages' = Append(messages, m)
    BY <1>7 DEF T!Answer, T!Tools, T!Dropped, T!Producing, act
  <2>2. /\ m \in Message /\ m.role = "assistant" /\ m.body = "replan" /\ m.about = turns
    <3>1. "replan" \in Bodies /\ "none" \in Named
      BY DEF Bodies, Named
    <3> QED BY <1>2, <3>1 DEF T!Assistant, Message
  <2> HIDE DEF m
  <2>3. messages' \in Talk
    <3>1. messages' = messages \o <<m>>
      BY <1>2, <2>1, <2>2
    <3>2. <<m>> \in Talk
      BY <2>2, OneMessage
    <3> QED BY <1>2, <3>1, <3>2, TalkJoined
  <2>4. Len(messages') = k + 1 /\ messages'[k + 1] = m /\ messages' # <<>>
    BY <1>2, <2>1, <2>2
  <2>5. ended' = "no" => LastTells'
    BY <1>3, <2>2, <2>4 DEF LastTells
  <2> QED BY <1>2, <1>3, <1>4, <1>5, <2>3, <2>5 DEF TranscriptInv
<1>8. CASE act \notin T!Tools \cup {"bad_patch", "agent_replan"}
  <2>1. messages' = messages
    BY <1>8 DEF T!Answer, act
  <2>2. act \in {"invoke_skill", "agent_done", "skill_patch"}
    BY <1>1, <1>8 DEF T!Calls
  <2>3. ended' = "no" => act = "invoke_skill"
    BY <2>2 DEF T!Answer, act
  <2>4. ended' = "no" => LastTells'
    BY <1>3, <2>3 DEF LastTells
  <2> QED BY <1>2, <1>3, <1>4, <1>5, <2>1, <2>4 DEF TranscriptInv
<1> QED BY <1>6, <1>7, <1>8

\* Every turn keeps what is invariant of the messages.
LEMMA TranscriptStep == TranscriptInv /\ [T!Next]_(T!vars) => TranscriptInv'
<1> SUFFICES ASSUME TranscriptInv, [T!Next]_(T!vars) PROVE TranscriptInv'
  OBVIOUS
<1>1. CASE UNCHANGED T!vars
  BY <1>1 DEF T!vars, TranscriptInv, LastTells, T!Heard, T!StateIsFresh, T!Says,
              T!CutToTheBone
<1>2. CASE T!Next
  BY <1>2, ComposeTells, AnswerTells DEF T!Next
<1> QED BY <1>1, <1>2

\* What is invariant says what the model is told.
LEMMA TranscriptTells == TranscriptInv => T!Linked /\ T!Heard /\ T!StateIsFresh
<1> SUFFICES ASSUME TranscriptInv PROVE T!Linked
  BY DEF TranscriptInv
<1> QED BY DEF TranscriptInv, Talk, Answered, T!Linked

\* Every result follows its call, the request says what became of the last action, and it
\* ends with the state block of this turn and has no other, as long as cutting older
\* messages makes room for it (compact, append_action_result_to_history), whatever the
\* sizes and budgets and however long the run.
THEOREM TranscriptHolds == T!Spec => [](T!Linked /\ T!Heard /\ T!StateIsFresh)
<1>1. T!Init => TranscriptInv BY TranscriptStarts
<1>2. TranscriptInv /\ [T!Next]_(T!vars) => TranscriptInv' BY TranscriptStep
<1> QED BY <1>1, <1>2, TranscriptTells, PTL DEF T!Spec

-----------------------------------------------------------------------------
(* The parts of MCTurns.  A behaviour of it is one of a part, and of the   *)
(* other parts there is nothing to show.                                   *)

\* A behaviour never changes the part it is of.
LEMMA PartStays ==
  ASSUME [TurnsNext]_<<part, vars, restFile>>
  PROVE  part' = part
BY DEF TurnsNext

\* A step of this part is one of CdpFocus.
LEMMA FocusPart ==
  ASSUME [TurnsNext]_<<part, vars, restFile>>, part = "focus"
  PROVE  [C!Next]_(C!vars)
<1>1. CASE TurnsNext
  BY <1>1 DEF TurnsNext
<1>2. CASE UNCHANGED <<part, vars, restFile>>
  BY <1>2 DEF restFile, C!vars, C!envVars, C!linkVars, C!pageVars, C!evidence
<1> QED BY <1>1, <1>2

\* What the prompt shows was captured after every focus or lifecycle call, but for those
\* of a relaunch in a turn whose own call the harness answered, and within its time to
\* live, and its page is one of the session the server has (observe_for_next_turn,
\* apply_invalidations, relaunch_for_cdp).
THEOREM FocusIsTrueHolds == TurnsSpec => FocusIsTrue
<1> DEFINE here == part = "focus"
<1> DEFINE seen == C!TypeOK' /\ C!FocusIsTrue
<1>1. TurnsInit => ~here \/ FocusInv
  BY FocusStarts DEF TurnsInit
<1>2. [TurnsNext]_<<part, vars, restFile>> /\ ~here => ~here'
  BY PartStays
<1>3. [TurnsNext]_<<part, vars, restFile>> /\ here /\ FocusInv => FocusInv' /\ here' /\ seen
  BY PartStays, FocusPart, FocusAssumption, FocusStep, FocusTells DEF FocusInv
<1>4. (here /\ seen) \/ ~here => [here => seen]_restFile
  OBVIOUS
<1>5. FocusIsTrue <=> [][here => seen]_restFile
  BY DEF FocusIsTrue
<1> HIDE DEF here, seen, FocusIsTrue
<1> QED BY <1>1, <1>2, <1>3, <1>4, <1>5, PTL DEF TurnsSpec

\* A step of this part is one of NoProgress.
LEMMA ProgressPart ==
  ASSUME [TurnsNext]_<<part, vars, restFile>>, part = "progress"
  PROVE  [G!Next]_(G!vars)
<1>1. CASE TurnsNext
  BY <1>1 DEF TurnsNext
<1>2. CASE UNCHANGED <<part, vars, restFile>>
  BY <1>2 DEF restFile, G!vars
<1> QED BY <1>1, <1>2

\* Whatever a turn observed in between, the model is told that it goes round in circles,
\* or that Enter would send its text, exactly when the actions and the searches it made
\* say so (track_repeat_action, track_post_text_submit_search).
THEOREM ToldWhenStuckHolds == TurnsSpec => ToldWhenStuck
<1> DEFINE here == part = "progress"
<1> DEFINE nudged == G!NudgedWhenCircling /\ G!NudgedWhenSearching
<1>1. TurnsInit => ~here \/ ProgressInv
  BY ProgressStarts DEF TurnsInit
<1>2. [TurnsNext]_<<part, vars, restFile>> /\ ~here => ~here'
  BY PartStays
<1>3. [TurnsNext]_<<part, vars, restFile>> /\ here /\ ProgressInv
        => ProgressInv' /\ here' /\ [nudged]_restFile
  <2>1. ASSUME [TurnsNext]_<<part, vars, restFile>>, here, ProgressInv
        PROVE  ProgressInv' /\ here' /\ [nudged]_restFile
    <3>1. here' /\ [G!Next]_(G!vars) BY <2>1, PartStays, ProgressPart
    <3>2. CASE G!Next BY <2>1, <3>1, <3>2, ProgressStep
    <3>3. CASE UNCHANGED G!vars
      <4>1. ProgressInv' BY <2>1, <3>3 DEF G!vars, ProgressInv, Repeating, Searching
      <4>2. nudged BY <3>3 DEF G!vars, G!NudgedWhenCircling, G!NudgedWhenSearching
      <4> QED BY <3>1, <4>1, <4>2
    <3> QED BY <3>1, <3>2, <3>3
  <2> QED BY <2>1
<1>4. ~here \/ [nudged]_restFile => [here => nudged]_restFile
  OBVIOUS
<1>5. ToldWhenStuck <=> [][here => nudged]_restFile
  BY DEF ToldWhenStuck
<1> HIDE DEF here, nudged, ToldWhenStuck
<1> QED BY <1>1, <1>2, <1>3, <1>4, <1>5, PTL DEF TurnsSpec

\* A step of this part is one of Permissions.
LEMMA PermissionsPart ==
  ASSUME [TurnsNext]_<<part, vars, restFile>>, part = "permissions"
  PROVE  [P!Next]_(P!vars)
<1>1. CASE TurnsNext
  BY <1>1 DEF TurnsNext
<1>2. CASE UNCHANGED <<part, vars, restFile>>
  BY <1>2 DEF restFile, P!vars
<1> QED BY <1>1, <1>2

\* A call that is no observation is refused, asked about or run as the rules, the
\* overrides, "allow all" and the guardrail say together, in whatever order the rules
\* stand (evaluate, combine_actions, handle_permission_gate).
THEOREM PolicyDecidesHolds == TurnsSpec => []PolicyDecides
<1> DEFINE here == part = "permissions"
<1>1. TurnsInit => ~here \/ P!Init
  BY DEF TurnsInit
<1>2. [TurnsNext]_<<part, vars, restFile>> /\ ~here => ~here'
  BY PartStays
<1>3. [TurnsNext]_<<part, vars, restFile>> /\ here => [P!Next]_(P!vars) /\ here'
  BY PartStays, PermissionsPart
<1>4. ~here \/ P!PolicyDecides => PolicyDecides
  BY DEF PolicyDecides
<1> HIDE DEF here
<1> QED BY <1>1, <1>2, <1>3, <1>4, PolicyHolds, PTL DEF TurnsSpec, P!Spec

\* A step of this part is one of Transcript.
LEMMA TranscriptPart ==
  ASSUME [TurnsNext]_<<part, vars, restFile>>, part = "transcript"
  PROVE  [T!Next]_(T!vars)
<1>1. CASE TurnsNext
  BY <1>1 DEF TurnsNext
<1>2. CASE UNCHANGED <<part, vars, restFile>>
  BY <1>2 DEF restFile, T!vars
<1> QED BY <1>1, <1>2

\* Every result follows the call it answers and every call has its result, the model
\* hears what became of its last action as long as cutting older messages can make room
\* for it, and every request ends with the state block of its turn and has no other
\* (compact, append_action_result_to_history).
THEOREM ModelIsToldHolds == TurnsSpec => []ModelIsTold
<1> DEFINE here == part = "transcript"
<1> DEFINE told == T!Linked /\ T!Heard /\ T!StateIsFresh
<1>1. TurnsInit => ~here \/ T!Init
  BY DEF TurnsInit
<1>2. [TurnsNext]_<<part, vars, restFile>> /\ ~here => ~here'
  BY PartStays
<1>3. [TurnsNext]_<<part, vars, restFile>> /\ here => [T!Next]_(T!vars) /\ here'
  BY PartStays, TranscriptPart
<1>4. ~here \/ told => ModelIsTold
  BY DEF ModelIsTold
<1>5. T!Spec => []told
  BY TranscriptHolds
<1> HIDE DEF here, told
<1> QED BY <1>1, <1>2, <1>3, <1>4, <1>5, PTL DEF TurnsSpec, T!Spec

\* The theorems of SkillJournal, of the journal of a program that never recovers one.
Journal == INSTANCE SkillJournal_proofs WITH Recovers <- FALSE

\* The journal of MCTurns starts and goes on as SkillJournal does.
LEMMA JournalPart ==
  /\ TurnsInit /\ part = "journal" => Journal!Init
  /\ [TurnsNext]_<<part, vars, restFile>> /\ part = "journal" => [Journal!Next]_(Journal!vars)
<1>1. ASSUME TurnsInit, part = "journal" PROVE Journal!Init
  BY <1>1 DEF TurnsInit, J!Init, Journal!Init, J!File, Journal!File, J!Proc, Journal!Proc,
           J!NoFile, Journal!NoFile
<1>2. ASSUME TurnsNext, part = "journal" PROVE Journal!Next
  <2>1. J!Next
    BY <1>2 DEF TurnsNext
  <2>2. J!Next = Journal!Next
    BY DEF J!diskVars, Journal!diskVars, J!taskVars, Journal!taskVars,
           J!logVars, Journal!logVars, J!File, Journal!File,
           J!Proc, Journal!Proc, J!Content, Journal!Content,
           J!Starting, Journal!Starting, J!Applying, Journal!Applying,
           J!Cleaning, Journal!Cleaning, J!NoFile, Journal!NoFile,
           J!Drop, Journal!Drop, J!Put, Journal!Put,
           J!Goto, Journal!Goto, J!Advance, Journal!Advance,
           J!Return, Journal!Return, J!Fail, Journal!Fail,
           J!Begin, Journal!Begin, J!Read, Journal!Read,
           J!OpenPending, Journal!OpenPending, J!Stage, Journal!Stage,
           J!WriteManifest, Journal!WriteManifest, J!CreateMarker, Journal!CreateMarker,
           J!Rename, Journal!Rename, J!Removed, Journal!Removed,
           J!RemoveMarker, Journal!RemoveMarker, J!RemoveManifest, Journal!RemoveManifest,
           J!RemovePending, Journal!RemovePending, J!RmDir, Journal!RmDir,
           J!RemoveTxDir, Journal!RemoveTxDir, J!Crash, Journal!Crash,
           J!Start, Journal!Start, J!RecoverCommitted, Journal!RecoverCommitted,
           J!RecoverUncommitted, Journal!RecoverUncommitted, J!Command, Journal!Command,
           J!Landing, Journal!Landing, J!Booting, Journal!Booting,
           J!Next, Journal!Next
  <2> QED BY <2>1, <2>2
<1>3. ASSUME UNCHANGED <<part, vars, restFile>> PROVE UNCHANGED Journal!vars
  BY <1>3 DEF restFile, Journal!vars, Journal!diskVars, Journal!taskVars, Journal!logVars
<1> QED BY <1>1, <1>2, <1>3

\* The commands on a skill run one after the other; nothing in the code keeps two apart.
OneWriter == \A v, w \in Writer : v = w

\* Even of a skill that no start recovers, no command lands files it computed from a torn
\* one (write_atomic_multi_file), as long as the commands run one after the other.
THEOREM TornIsLeftAloneHolds == ASSUME OneWriter PROVE TurnsSpec => []TornIsLeftAlone
<1> DEFINE here == part = "journal"
<1>1. TurnsInit => ~here \/ Journal!Init
  BY JournalPart
<1>2. [TurnsNext]_<<part, vars, restFile>> /\ ~here => ~here'
  BY PartStays
<1>3. [TurnsNext]_<<part, vars, restFile>> /\ here => [Journal!Next]_(Journal!vars) /\ here'
  BY PartStays, JournalPart
<1>4. ~here \/ Journal!TornIsLeftAlone => TornIsLeftAlone
  BY DEF TornIsLeftAlone, J!TornIsLeftAlone, Journal!TornIsLeftAlone,
         J!Applying, Journal!Applying, J!Cleaning, Journal!Cleaning, J!File, Journal!File
<1>5. Journal!Spec => []Journal!TornIsLeftAlone
  BY PatchesAssumption, Journal!TornIsLeftAloneHolds DEF OneWriter, Journal!Unrecovered
<1> HIDE DEF here
<1> QED BY <1>1, <1>2, <1>3, <1>4, <1>5, PTL DEF TurnsSpec, Journal!Spec
=============================================================================
