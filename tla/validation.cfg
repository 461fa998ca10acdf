CONSTANTS
  Idents <- MCIdents
  Parsed <- MCParsed
SPECIFICATION Spec
INVARIANTS TypeOK AdmittedReadsOnly ErrorsJustified
\* The validation ends.
CHECK_DEADLOCK FALSE
