SPECIFICATION Spec
CONSTANTS
  Run = {r1, r2}
  Key = {k1}
  Stage = {}
  MergeField = {}
  MaxAttempt = 2
  None = None
  Absent = Absent
  Removed = Removed
  Requested <- ReviewStatus
  CompactAt = 2
PROPERTY RejectionRequeues
CHECK_DEADLOCK FALSE
