----------------------------- MODULE MCCdpTabs -----------------------------
(***************************************************************************)
(* The tabs a recording goes back to (CdpTabs) with two browsers and three *)
(* addresses, and what is checked of them: the second of the parts that    *)
(* MCCalls explores, of which "part" says which one a behaviour is of.     *)
(***************************************************************************)
EXTENDS Naturals, Sequences

CONSTANTS
    Apps, Url, Home, QuitPolls, Tries, EmptyPolls, Browsed, MaxTabs, MaxMoves, MaxClicks,
    chrome, slack

VARIABLES
    part,
    proc, tabs, conn, fresh, acts, pc, turn, tries, injected, page, cancel, known, told,
    requests, job, answers, hover, late, crossed

C == INSTANCE CdpTabs

\* A recording is set up for a browser at least.
ASSUME AppsAssumption == Apps \in Seq(C!App) /\ Apps # <<>>

-----------------------------------------------------------------------------
(* Two browsers, and two pages with one path.                              *)

Page(origin, path, query) == [origin |-> origin, path |-> path, query |-> query]
Mail == Page("mail", "inbox", "new")

MCApps == <<chrome, slack>>
MCUrl == {Mail, Page("mail", "inbox", "old"), Page("mail", "sent", "")}

-----------------------------------------------------------------------------
(* The properties of the part.                                             *)

\* With one connection for all apps and disconnects that fail unseen, no script
\* runs in another app than its own and no click is answered from another app,
\* unless the drain has given up a search for a click and one of the two tasks has
\* taken the connection of the other; and a tab that has kept its address is the
\* tab that is asked.
TabsAreRight == [][part = "tabs" => C!RunsInItsApp' /\ C!KeepsItsTab]_(C!vars)

\* The set-up of the apps, with an outcome for each, the search for every click and
\* the end of the recording come to an end, however slowly the apps quit and whatever
\* is done to them meanwhile.
SetUpEnds == part = "tabs" => C!EndsWithOutcome
=============================================================================
