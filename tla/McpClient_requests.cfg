\* Three requests, a limit of one stray answer and one line that does not parse.
SPECIFICATION Spec
CONSTANTS
  Call = {1, 2, 3}
  MaxMismatched = 1
  MaxSkipped = 1
  Pipe = 2
  MaxNoise = 1
INVARIANT OwnAnswer
PROPERTIES OnlyStraysDropped RequestsEnd
CHECK_DEADLOCK FALSE
