----------------------------- MODULE NoProgress -----------------------------
(***************************************************************************)
(* How the agent loop notices that it is going round in circles            *)
(* (agent/runner/progress.rs; track_repeat_action and                      *)
(* track_post_text_submit_search in turn_runtime.rs; the resets in         *)
(* loop_control.rs).  The nudge it finds due replaces the result the model *)
(* is shown.                                                               *)
(*                                                                         *)
(* A call stands for a tool with its arguments.  Of the world model the    *)
(* module has what the signature of the context is made of.                *)
(***************************************************************************)
EXTENDS Integers, Sequences, FiniteSets, SequencesExt

CONSTANTS
    Acts,            \* calls of tools that are no observations
    Composes,        \* of them, cdp_fill and cdp_type_text
    Peeks,           \* read-only calls that OBSERVATION_TOOLS does not list
    Contexts,        \* states of the world: [url, print, surface]
    RepeatThreshold, \* REPEAT_ACTION_THRESHOLD
    SearchThreshold, \* TEXT_SUBMIT_SEARCH_THRESHOLD
    MaxPattern,      \* ACTION_CYCLE_MAX_PATTERN_LEN
    MaxCount,        \* bound: a repeat counted
    MaxSearches,     \* bound: searches after a text was composed
    MaxBefore        \* bound: actions in the history when a search is made

Window == 2 * MaxPattern  \* ACTION_CYCLE_WINDOW

VARIABLES
    context,     \* what the turn observed
    lastAction,  \* LastActionProgress, as a set of at most one
    recent,      \* recent_actions
    pending,     \* pending_text_submit_search, as a set of at most one
    shown,       \* the nudge in the result the model is shown next
    trail,       \* history: the last actions since something else happened
    searched     \* history: the searches since a text was composed, if nothing was done since

vars == <<context, lastAction, recent, pending, shown, trail, searched>>

-----------------------------------------------------------------------------

\* stable_no_progress_context_signature: where there are elements, they stand
\* for the page, whatever its fingerprint.
Signature(c) ==
    IF c.surface # {} THEN [url |-> c.url, of |-> c.surface] ELSE [url |-> c.url, of |-> {c.print}]

\* detect_repeated_action_cycle.
Cycle(seq) ==
    \E len \in 2..MaxPattern :
        LET n == Len(seq) IN
        /\ n >= 2 * len
        /\ \E i \in 1..(len - 1) : seq[n - 2 * len + 1 + i] # seq[n - 2 * len + 1]
        /\ \A i \in 1..len : seq[n - 2 * len + i] = seq[n - len + i]

\* What track_repeat_action keeps of a context it has left.
KeptIn_Always(sig) == TRUE
KeptIn(sig) == \A last \in lastAction : last.sig = sig
PushBack(seq, x) == Append(IF Len(seq) = Window THEN Tail(seq) ELSE seq, x)

\* track_repeat_action, of a call that is no observation.
TrackRepeat(a, sig, otherwise) ==
    LET kept == KeptIn(sig)
        pushed == PushBack(IF kept THEN recent ELSE <<>>, <<a, sig>>)
        count == IF kept /\ \E last \in lastAction : last.call = a
                 THEN (CHOOSE last \in lastAction : TRUE).count + 1 ELSE 1
    IN /\ count <= MaxCount
       /\ recent' = pushed
       /\ lastAction' = {[call |-> a, sig |-> sig, count |-> count]}
       /\ shown' = IF count >= RepeatThreshold THEN "repeat"
                   ELSE IF Cycle(pushed) THEN "cycle" ELSE otherwise
       /\ trail' = PushBack(trail, <<a, sig>>)

-----------------------------------------------------------------------------

Init ==
    /\ context \in Contexts
    /\ lastAction = {} /\ recent = <<>> /\ pending = {}
    /\ shown = "none" /\ trail = <<>> /\ searched = {}

\* The page changes and the next turn observes it.
Observe ==
    /\ context' \in Contexts \ {context}
    /\ UNCHANGED <<lastAction, recent, pending, shown, trail, searched>>

\* handle_tool_success_outcome: a text is composed, or something else is done.
Act ==
    \E a \in Acts :
        /\ pending' = IF a \in Composes THEN {[sig |-> Signature(context), count |-> 0]} ELSE {}
        /\ searched' = IF a \in Composes THEN {[sig |-> Signature(context), found |-> <<>>]} ELSE {}
        /\ TrackRepeat(a, Signature(context), "none")
        /\ UNCHANGED context

\* A focus_window or launch_app the harness answers itself: finish_synthetic_success.
ActSynthetic ==
    \E a \in Acts \ Composes :
        /\ TrackRepeat(a, Signature(context), "none")
        /\ UNCHANGED <<context, pending, searched>>

\* A read-only tool that is not in the list forgets the text but is no action.
Read ==
    /\ Peeks # {}
    /\ pending' = {} /\ searched' = {} /\ shown' = "none"
    /\ UNCHANGED <<context, lastAction, recent, trail>>

\* Deviation: a search that found something does not start the count again.
AfterHit_Kept(p) == p
AfterHit(p) == [p EXCEPT !.count = 0]

\* cdp_find_elements for send or submit; an answer that cannot be parsed counts
\* as one that found something.
Search ==
    \E found \in {"none", "some"} :
        /\ Len(trail) <= MaxBefore
        /\ \A s \in searched : Len(s.found) < MaxSearches
        /\ searched' = {[s EXCEPT !.found = Append(@, <<found, Signature(context)>>)] : s \in searched}
        /\ \/ pending = {} /\ UNCHANGED <<pending>> /\ shown' = "none"
           \/ \E p \in pending :
                IF p.sig # Signature(context) THEN pending' = {} /\ shown' = "none"
                ELSE IF found # "none" THEN pending' = {AfterHit(p)} /\ shown' = "none"
                ELSE /\ pending' = {[p EXCEPT !.count = @ + 1]}
                     /\ shown' = IF p.count + 1 >= SearchThreshold THEN "submit" ELSE "none"
        /\ UNCHANGED <<context, lastAction, recent, trail>>

\* Any other observation of the list.
Look ==
    /\ shown' = "none"
    /\ UNCHANGED <<context, lastAction, recent, pending, trail, searched>>

\* A call that fails, is blocked or refused, a replan: reset_no_progress_tracking.
\* The search for a button is not reset.
Reset ==
    /\ lastAction' = {} /\ recent' = <<>> /\ trail' = <<>> /\ shown' = "none"
    /\ UNCHANGED <<context, pending, searched>>

\* A subgoal is completed by the turn, in front of its action.
Complete ==
    /\ lastAction' = {} /\ recent' = <<>> /\ trail' = <<>>
    /\ UNCHANGED <<context, pending, shown, searched>>

Next ==
    Observe \/ Act \/ ActSynthetic \/ Read \/ Search \/ Look \/ Reset \/ Complete
Spec == Init /\ [][Next]_vars

-----------------------------------------------------------------------------
(* Properties: what a step may do.                                          *)

\* The end of a sequence says one and the same thing n times.
SameAtEnd(seq, n) ==
    /\ Len(seq) >= n
    /\ \A i \in 0..(n - 1) : seq[Len(seq) - i] = Last(seq)
Circling(seq) ==
    \/ SameAtEnd(seq, RepeatThreshold)
    \/ \E len \in 2..MaxPattern :
         /\ Len(seq) >= 2 * len
         /\ \A i \in 0..(len - 1) : seq[Len(seq) - i] = seq[Len(seq) - i - len]
         /\ ~SameAtEnd(seq, len)
         /\ \A i \in 0..(2 * len - 1) : seq[Len(seq) - i][2] = Last(seq)[2]

\* After an action the model is told that it makes no progress exactly when,
\* of the actions since the last failure, replan or completed subgoal, the
\* last ones are one action as often as the threshold says, or a cycle of
\* different ones gone through twice, all in one context; what was observed in
\* between changes nothing, an action in another context does (track_repeat_action, detect_repeated_action_cycle).
NudgedWhenCircling ==
    trail' # trail /\ trail' # <<>> => (shown' \in {"repeat", "cycle"} <=> Circling(trail'))

\* A search for the button that sends a text is answered with the advice to
\* press Enter exactly when the text was composed in this very context, nothing
\* else was done since, every search since was made in it, and the last ones
\* found nothing as often as the threshold says (track_post_text_submit_search).
Fruitless(s) ==
    /\ Len(s.found) >= SearchThreshold
    /\ \A i \in DOMAIN s.found : s.found[i][2] = s.sig
    /\ \A i \in 0..(SearchThreshold - 1) : s.found[Len(s.found) - i][1] = "none"
NudgedWhenSearching ==
    searched' # searched => (shown' = "submit" <=> \E s \in searched' : Fruitless(s))
=============================================================================
