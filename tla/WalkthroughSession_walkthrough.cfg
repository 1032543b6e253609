\* Two recordings and four commands, two of them in flight at any moment.
SPECIFICATION Spec
CONSTANTS
  MaxSessions = 2
  MaxCalls = 2
  MaxAsked = 4
  MaxMail = 1
INVARIANTS ReviewIsStopped CancelledIsGone
PROPERTY CommandsReturn
CHECK_DEADLOCK FALSE
