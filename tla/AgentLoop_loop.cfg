\* An observation, a destructive call that needs approval, a denied call the
\* harness may answer itself and a managed call; failures, rejections, skips,
\* replans, subgoals and recoveries in every order over four turns.
SPECIFICATION FairSpec
CONSTANTS
  write = write  launch = launch  raw = raw  read = read
  text1 = text1  text2 = text2
  Call <- GateCalls
  Observation = {read}
  Destructive = {write}
  SideEffect = {write}
  Managed = {raw}
  Coordinate = {launch}
  Skippable = {launch}
  Policy <- GatePolicy
  ErrorText <- Errors
  Mutation = {"none", "push", "complete"}
  ApprovalGate = TRUE
  MaxSteps = 4
  MaxErrors = 3
  Cap = 2
INVARIANTS ErrorBudget RepeatHalts RecoveryTold
PROPERTIES OnlyPermittedRun HeldOnlyByOperator
