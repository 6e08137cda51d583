SPECIFICATION Spec
CONSTANTS
  Run = {r1, r2}
  Key = {k1}
  Stage = {tests}
  MergeField = {commit_before}
  MaxAttempt = 2
  None = None
  Absent = Absent
  Removed = Removed
  Requested <- ClassStatus
  CompactAt = 2
SYMMETRY RunSymmetry
INVARIANT TypeOK AttemptsDistinct LineageIncreases
PROPERTY TerminalIsFinal CreationOnlyOverStale ImplementsRunView
CONSTRAINT FewWhenTwo
CHECK_DEADLOCK FALSE
