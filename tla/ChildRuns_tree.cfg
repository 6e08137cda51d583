SPECIFICATION Spec
CONSTANTS
  Run <- TreeRuns
  Parent <- TreeParent
  Planned <- TreePlanned
  DependsOn <- TreeDependsOn
  Task = {1, 2, 3, 4}
  None = None
  Absent = Absent
  MaxSpawnDepth = 1
  MaxConcurrent = 2
  Events = {"create", "queue", "auto_run", "cancel", "handover", "spawn", "pause", "restart"}
  Outcomes = {"fail", "held", "escalate", "subdivide", "reject"}
INVARIANT TypeOK
INVARIANT AwaitingIsExact
CHECK_DEADLOCK FALSE
