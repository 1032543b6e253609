\* One command at a time, killed anywhere, recovered on every start.
SPECIFICATION Spec
CONSTANTS
  p1 = p1  p2 = p2  p3 = p3  w1 = w1  w2 = w2  boot = boot
  Patch = {p1, p2, p3}
  Writer = {w1}
  N = 2
  Recovers = TRUE
  Faults = {}
  MaxCrash = 3
INVARIANT QuietIsWhole
PROPERTY ImplementsAtomic
SYMMETRY Interchangeable
CHECK_DEADLOCK FALSE
