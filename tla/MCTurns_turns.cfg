\* Files of up to two blocks of lines; short runs and a window of two pairs; a native app
\* and two Electron apps, with the AX toolset; two actions and three states of a page;
\* calls into the file system may fail.
SPECIFICATION TurnsSpec
CONSTANTS
    Texts <- MCTexts
    Proses <- MCProses
    Variables <- MCVariables
    Steps <- MCSteps
    Sketches <- MCSketches
    Blocks <- MCBlocks
    MaxBlocks = 2
    MaxEdits = 1
    RecentN = 2  MaxTokens = 14  LogTokens = 4  Sizes = {1, 5}  StateSizes = {2, 4}
    Runs <- MCRuns
    MaxTurns = 4
    ToolList <- MCTools
    Rules <- MCRules
    PerTool <- MCPerTool
    MaxRules = 2  Gates = {TRUE, FALSE}
    App = {notes, code, chat}  Electron = {code, chat}  AxTools = TRUE
    Ttl = 2  MaxSteps = 4
    Acts = {"fill", "click"}  Composes = {"fill"}  Peeks = {"peek"}
    Contexts <- MCContexts
    RepeatThreshold = 3  SearchThreshold = 3  MaxPattern = 3
    MaxCount = 4  MaxSearches = 4  MaxBefore = 1
    Patch = {p1, p2, p3}  Writer = {w1}  boot = boot  N = 2
    Faults = {"rename", "remove"}  MaxCrash = 3
SYMMETRY Interchangeable
INVARIANTS RoundTrips TornIsLeftAlone ModelIsTold PolicyDecides
PROPERTIES PatchesLand FocusIsTrue ToldWhenStuck
CHECK_DEADLOCK FALSE
