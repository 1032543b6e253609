SPECIFICATION Spec
CONSTANTS
    RecentN = 2
    MaxTokens = 14
    LogTokens = 4
    Sizes = {1, 5}
    StateSizes = {2, 4}
    Runs <- MCRuns
    MaxTurns = 4
INVARIANT NeverPanics
CHECK_DEADLOCK FALSE
