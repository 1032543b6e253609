------------------------- MODULE MCExecutorSession -------------------------
EXTENDS ExecutorSession, TLC

CONSTANT c1
=============================================================================
