CONSTANTS
  Idents <- MCIdents
  SearchPath <- MCSearchPath
  Statements <- MCStatements
  Predicates <- MCPredicates
  Joins <- MCJoins
SPECIFICATION Spec
INVARIANTS TypeOK NoFalseProduct NoMissedProduct
\* The builder ends.
CHECK_DEADLOCK FALSE
