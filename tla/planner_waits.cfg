CONSTANTS
  r1 = r1
  r2 = r2
  Relations = {r1, r2}
  Plans <- MCPlans
  RowCounts <- MCRowCounts
  Configs <- MCAnyConfigs
  MaxTimeout = 2
  MaxCalls = 2
  NoRows = NoRows
SPECIFICATION FairSpec
PROPERTY WaitsBounded
\* The number of calls is bounded and the session may just stay idle.
CHECK_DEADLOCK FALSE
