CONSTANTS
  orders = orders
  Relations = {orders}
  Plans <- MCPlans
  RowCounts <- MCRowCounts
  Configs <- MCConfigs
  MaxTimeout = 2
  MaxCalls = 1
  NoRows = NoRows
  Invocations <- MCInvocations
  DefaultConfig <- MCDefault
  Summaries <- MCSummaries
SPECIFICATION CliFairSpec
INVARIANTS CliTypeOK ContactJustified FailureAttribution FailureKindHonest ExitHonest
PROPERTIES CliContract LeavesNothing
\* The process ends.
CHECK_DEADLOCK FALSE
