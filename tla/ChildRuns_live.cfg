SPECIFICATION FairSpec
CONSTANTS
  Run <- FamilyRuns
  Parent <- FamilyParent
  Planned <- FamilyPlanned
  DependsOn <- FamilyDependsOn
  Task = {1, 2, 3, 4}
  None = None
  Absent = Absent
  MaxSpawnDepth = 2
  MaxConcurrent = 2
  Events = {"create", "queue"}
  Outcomes = {"fail", "escalate", "reject"}
INVARIANT ExecutionsAreOwned
INVARIANT NoOrphanExecutes
INVARIANT PausedParentIsWoken
PROPERTY ImplementsForkJoin
PROPERTY EveryRunEnds
CHECK_DEADLOCK FALSE
