---------------------------- MODULE MCAgentLoop ----------------------------
(* Instances of AgentLoop for TLC. *)
EXTENDS AgentLoop

CONSTANTS read, write, launch, raw, text1, text2

Errors == {text1, text2}

\* Gates: an observation, an ask, a deny and a managed call.
GateCalls  == {read, write, launch, raw}
GatePolicy == [c \in GateCalls |-> CASE c = write -> "Ask" [] c = launch -> "Deny"
                                     [] OTHER -> "Allow"]
=============================================================================
