SPECIFICATION CallsSpec
CONSTANTS
    chrome = chrome  slack = slack
    Apps <- MCApps  Url <- MCUrl  Home <- Mail
    QuitPolls = 1  Tries = 1  EmptyPolls = 1  Browsed = {chrome}
    MaxTabs = 2  MaxMoves = 1  MaxClicks = 1
    Calls = {}
    Known <- MCKnown
    ReadOnlyHints <- MCReadOnly
    Screens = {}
    Uids <- MCUids
    MaxCalls = 3
INVARIANTS PathOfTheRun ReplaysAsRecorded
PROPERTIES TabsAreRight SetUpEnds
CHECK_DEADLOCK FALSE
