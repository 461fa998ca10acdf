CONSTANTS
  Absent = Absent
  Malformed = Malformed
  NaN = NaN
  Cases <- MCCases
  Configs <- MCConfigs
SPECIFICATION Spec
INVARIANTS TypeOK RulesIndependent MissingEvidenceSilent ThresholdsMonotone
  ThresholdsInclusive CartesianExact OrderDeterministic MissingWhereReported
\* A check ends with its report.
CHECK_DEADLOCK FALSE
