\* Three skill runs, requested one after the other, with stops at every moment.
SPECIFICATION FairSpec
CONSTANTS
  c1 = c1
  Command = {c1}
  MaxRuns = 3
INVARIANTS OneRunWanted UiSettles
PROPERTY StopEnds
CHECK_DEADLOCK FALSE
