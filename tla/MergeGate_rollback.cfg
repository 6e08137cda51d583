SPECIFICATION MCSpec
CONSTANTS
  r1 = r1
  r2 = r2
  main = main
  dev = dev
  fix1 = fix1
  fix2 = fix2
  c0 = c0
  c1 = c1
  c2 = c2
  p1 = p1
  None = None
  Absent = Absent
  Run = {r1, r2}
  Repo = {p1}
  Branch = {main, dev, fix1, fix2}
  Change = {c0, c1, c2}
  RepoOf <- MCRepoOf
  Source <- MCSource
  Target <- MCTarget
  RootOn = dev
  Tip0 <- MCTip0
  ByRouter = {r1}
  Events = {"cancel"}
  Failures = {"record"}
  DocPath = "docs"
  TestPath = "tests"
  SecurityPath = "security"
  CorePath = "core"
  Draft = {d1}
  Entry = {a1, a2}
  DraftRun = {r1}
  Text = {t1, t2}
  Request <- MCRequests
  EditedContext <- MCEdits
  GeneratedContext <- MCGenerated
  Policy <- MCPolicies
CHECK_DEADLOCK FALSE
INVARIANT RollbackKeepsTheBranch
