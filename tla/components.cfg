CONSTANT Graphs <- MCGraphs
SPECIFICATION FairSpec
INVARIANTS TypeOK EachOnce ComponentsCorrect ComponentsOrdered
PROPERTY Terminates
\* The search ends.
CHECK_DEADLOCK FALSE
