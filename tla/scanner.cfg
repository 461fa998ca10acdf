CONSTANTS
  Inputs <- MCInputs
  MaxDepth = 2
SPECIFICATION FairSpec
INVARIANTS TypeOK OnBoundary EmptyExact
PROPERTY Terminates
\* The scan ends.
CHECK_DEADLOCK FALSE
