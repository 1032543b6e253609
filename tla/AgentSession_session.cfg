\* Three runs one after the other, with every command of the operator.
SPECIFICATION FairSpec
CONSTANTS
  r1 = r1  r2 = r2  r3 = r3
  Run = {r1, r2, r3}
  SerialStart = TRUE
INVARIANTS OneRunAlive Stoppable AnswersKept
PROPERTY SessionReopens
CHECK_DEADLOCK FALSE
