SPECIFICATION Spec
CONSTANTS
  Run <- ChainRuns
  Parent <- ChainParent
  Planned <- ChainPlanned
  DependsOn <- ChainDependsOn
  Task = {1, 2, 3}
  None = None
  Absent = Absent
  MaxSpawnDepth = 2
  MaxConcurrent = 2
  Events = {"queue", "restart"}
  Outcomes = {"fail"}
INVARIANT NoOrphanExecutes
CHECK_DEADLOCK FALSE
