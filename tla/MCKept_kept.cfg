\* The parts with the bounds of MCKept; of the memory, two runs and three
\* recoveries, a queue of one and a store of one row.
SPECIFICATION KeptSpec
CONSTANTS
    p1 = p1  p2 = p2  s1 = s1  a1 = a1  a2 = a2
    Projects <- MCProjects
    Signatures <- MCSignatures
    Actions <- MCActions
    MaxRuns = 2
    MaxRecoveries = 3
    MaxSeconds = 2
    CHANNEL_CAP = 1
    max_per_scope = 1
    Tool = {click}
    Id = {base, other}
    Base = base
    MaxWork = 3
    MaxDepth = 3
    MaxVersion = 3
    MaxOutside = 1
    Backlog = 1
    Settings = {0, 1, 15}
    MaxRetention = 3
    Width = 4
    Episodes = {e1}
    MaxDay = 2
    MaxStarts = 2
    MaxClears = 1
    Phases = {exploring, executing}
    FirstPhase = exploring
    MaxEvents = 2
    ChannelCap = 2
SYMMETRY Symmetry
INVARIANTS FlushedIsStored PromotedIsEarned ExtractsItsWork IndexIsDisk FilesAreWanted OneAccount
CHECK_DEADLOCK FALSE
