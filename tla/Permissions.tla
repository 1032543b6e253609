---------------------------- MODULE Permissions ----------------------------
(***************************************************************************)
(* Whether a tool call of the agent runs: the policy the settings become   *)
(* (src-tauri/commands/agent/mod.rs), its evaluation                       *)
(* (agent/permissions.rs), what counts as an observation                   *)
(* (agent/runner/tool_classification.rs) and the gate in front of every    *)
(* dispatch (handle_permission_gate, request_approval).                    *)
(*                                                                         *)
(* A name is a sequence of characters; a pattern may hold "*" and "?".     *)
(***************************************************************************)
EXTENDS Integers, Sequences, FiniteSets, SequencesExt

CONSTANTS
    Tools,      \* [name, listed, confirmable, top, inner]: the hints of a block are a set of records
    Rules,      \* pattern rules [pattern, needle, action]
    PerTool,    \* overrides of the settings: functions from names to actions
    MaxRules,   \* bound: pattern rules of a policy
    Gates       \* whether an approval gate is configured

VARIABLES
    wire,       \* PermissionPolicyWire
    gate,
    call,       \* the call proposed: [tool, found], found: the needle is in its arguments
    stage       \* what has become of it

vars == <<wire, gate, call, stage>>

-----------------------------------------------------------------------------
(* Reading the tools.                                                      *)

\* from_tool_json: a block on the tool hides the one under its function.
Hints(tool) == IF tool.top # {} THEN tool.top ELSE tool.inner
Hinted(tool, hint) == \E block \in Hints(tool) : block[hint] = "true"
Destructive(tool) == Hinted(tool, "destructive")
ReadOnly(tool) == Hinted(tool, "readOnly")

\* is_observation_tool.
IsObservation(tool) == ~tool.confirmable /\ (tool.listed \/ ReadOnly(tool))

-----------------------------------------------------------------------------
(* The policy.                                                             *)

\* Overrides are appended as rules without a needle.
RulesOf(w) == w.rules \o
    [i \in DOMAIN SetToSeq(DOMAIN w.perTool) |->
        LET name == SetToSeq(DOMAIN w.perTool)[i]
        IN [pattern |-> name, needle |-> FALSE, action |-> w.perTool[name]]]

\* glob_match: a star takes nothing or one more character.
GlobMatch_NonEmpty(pattern, text) ==
    LET g[at \in (1..(Len(pattern) + 1)) \X (1..(Len(text) + 1))] ==
        LET p == at[1]  t == at[2]
        IN  \/ p > Len(pattern) /\ t > Len(text)
            \/ /\ p <= Len(pattern) /\ t <= Len(text)
               /\ \/ pattern[p] = "*" /\ (g[<<p + 1, t + 1>>] \/ g[<<p, t + 1>>])
                  \/ /\ pattern[p] # "*" /\ pattern[p] \in {"?", text[t]}
                     /\ g[<<p + 1, t + 1>>]
    IN g[<<1, 1>>]
GlobMatch(pattern, text) ==
    LET g[at \in (1..(Len(pattern) + 1)) \X (1..(Len(text) + 1))] ==
        LET p == at[1]  t == at[2]
        IN  \/ p > Len(pattern) /\ t > Len(text)
            \/ /\ p <= Len(pattern) /\ pattern[p] = "*"
               /\ g[<<p + 1, t>>] \/ (t <= Len(text) /\ g[<<p, t + 1>>])
            \/ /\ p <= Len(pattern) /\ pattern[p] # "*"
               /\ t <= Len(text) /\ pattern[p] \in {"?", text[t]} /\ g[<<p + 1, t + 1>>]
    IN g[<<1, 1>>]

RuleMatches(rule, c) ==
    GlobMatch(rule.pattern, c.tool.name) /\ (rule.needle => c.found)

\* combine_actions, of one more action.
Combine_Last(out, action) == action
Combine(out, action) ==
    CASE out = "none" -> action
      [] "deny" \in {out, action} -> "deny"
      [] out # "none" /\ "deny" \notin {out, action} /\ "ask" \in {out, action} -> "ask"
      [] OTHER -> "allow"

\* The actions of the rules that match, combined.
Combined(w, c) ==
    FoldLeft(LAMBDA out, rule : IF RuleMatches(rule, c) THEN Combine(out, rule.action) ELSE out,
             "none", RulesOf(w))

Evaluate(w, c) ==
    LET combined == Combined(w, c)
        base == IF combined # "none" THEN combined
                ELSE IF ReadOnly(c.tool) THEN "allow" ELSE "ask"
        guardrail == w.confirm /\ Destructive(c.tool)
    IN IF w.allowAll THEN (IF guardrail THEN "ask" ELSE "allow")
       ELSE IF base = "allow" /\ guardrail THEN "ask" ELSE base

-----------------------------------------------------------------------------
(* The gate.                                                               *)

NoCall == <<>>
Init ==
    /\ wire \in [rules : BoundedSeq(Rules, MaxRules), perTool : PerTool,
                 allowAll : BOOLEAN, confirm : BOOLEAN]
    /\ gate \in Gates
    /\ call = NoCall /\ stage = "idle"

\* handle_permission_gate: an observation is dispatched before the policy is
\* looked at, and without a gate nobody is asked.
Propose ==
    /\ stage = "idle"
    /\ \E tool \in Tools, found \in BOOLEAN :
         LET c == [tool |-> tool, found |-> found]
         IN /\ call' = c
            /\ stage' = IF IsObservation(tool) THEN "run"
                        ELSE CASE Evaluate(wire, c) = "deny" -> "denied"
                               [] Evaluate(wire, c) = "allow" -> "run"
                               [] Evaluate(wire, c) = "ask" -> IF gate THEN "asking" ELSE "unasked"
    /\ UNCHANGED <<wire, gate>>

\* request_approval; the channel may be closed.
Answer ==
    /\ stage = "asking"
    /\ stage' \in {"approved", "rejected", "unavailable"}
    /\ UNCHANGED <<wire, gate, call>>

Next == Propose \/ Answer
Spec == Init /\ [][Next]_vars

-----------------------------------------------------------------------------
(* Properties.                                                             *)

\* The text is the pattern with a character for each "?" and any characters
\* for each "*": there are places where its parts begin and end.
Like(pattern, text) ==
    \E cut \in [0..Len(pattern) -> 0..Len(text)] :
        /\ cut[0] = 0 /\ cut[Len(pattern)] = Len(text)
        /\ \A i \in 1..Len(pattern) :
             \/ pattern[i] = "*" /\ cut[i] >= cut[i - 1]
             \/ pattern[i] = "?" /\ cut[i] = cut[i - 1] + 1
             \/ /\ pattern[i] \notin {"*", "?"} /\ cut[i] = cut[i - 1] + 1
                /\ text[cut[i]] = pattern[i]
Says(action) ==
    \/ \E i \in DOMAIN wire.rules :
         /\ wire.rules[i].action = action
         /\ Like(wire.rules[i].pattern, call.tool.name)
         /\ wire.rules[i].needle => call.found
    \/ call.tool.name \in DOMAIN wire.perTool /\ wire.perTool[call.tool.name] = action
Denied == ~wire.allowAll /\ Says("deny")
MustAsk ==
    \/ wire.confirm /\ Destructive(call.tool)
    \/ /\ ~wire.allowAll
       /\ Says("ask") \/ (~Says("allow") /\ ~Says("deny") /\ ~ReadOnly(call.tool))

\* A call that is no observation is refused exactly when some rule or override
\* that matches it says deny and "allow all" is off, and otherwise the operator
\* is asked exactly when one says ask, when none matches and the tool is not
\* read-only, or when the guardrail is on and the tool is destructive: in
\* whatever order the rules stand and whatever else they allow (evaluate,
\* combine_actions, glob_match, handle_permission_gate).
PolicyDecides ==
    stage # "idle" /\ ~IsObservation(call.tool) =>
        /\ stage = "denied" <=> Denied
        /\ stage # "denied" => (stage = "run" <=> ~MustAsk)
        /\ stage = "unasked" => ~gate
=============================================================================
