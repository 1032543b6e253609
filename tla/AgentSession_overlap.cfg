\* Other commands overlap with the start of a run.
SPECIFICATION Spec
CONSTANTS
  r1 = r1  r2 = r2  r3 = r3
  Run = {r1, r2}
  SerialStart = FALSE
SYMMETRY Interchangeable
INVARIANT OneRunAlive
CHECK_DEADLOCK FALSE
