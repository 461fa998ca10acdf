CONSTANTS
  Absent = Absent
  Malformed = Malformed
  NaN = NaN
  Cases <- MCCases
  Configs <- MCConfigs
SPECIFICATION Spec
INVARIANT ResultRowsMeetThreshold
\* A check ends with its report.
CHECK_DEADLOCK FALSE
