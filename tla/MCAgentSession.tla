--------------------------- MODULE MCAgentSession ---------------------------
EXTENDS AgentSession, TLC

CONSTANTS r1, r2, r3

\* Runs only differ by name.
Interchangeable == Permutations(Run)
=============================================================================
