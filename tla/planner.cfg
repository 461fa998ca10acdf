CONSTANTS
  r1 = r1
  r2 = r2
  Relations = {r1, r2}
  Plans <- MCPlans
  RowCounts <- MCRowCounts
  Configs <- MCConfigs
  MaxTimeout = 2
  MaxCalls = 3
  NoRows = NoRows
SPECIFICATION FairSpec
INVARIANTS TypeOK SafeModeInForce BeginFindsIdleSession SettledOutcome
  EvidenceComplete NoLeakedTransaction IInv
PROPERTIES ContractSafety CallReturns TransactionEnds
\* The number of calls is bounded and the session may just stay idle.
CHECK_DEADLOCK FALSE
