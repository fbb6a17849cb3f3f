SPECIFICATION Spec
CONSTANTS
  Workers = {w1, w2}
  Platforms = {gh}
  Scopes = {s1}
  ScopesOf <- OneScope
  Repos = {r1}
  Libraries = {l1}
  Listings <- OneRepoListed
  RunIds = {id1, id2, id3, id4}
  ContentSteps <- OneStep
  MinInterval = 0
  MaxClock = 1
  MaxTasks = 2
  TaskLevel = TaskLevel
  None = None
  Disturbances = {"api", "db", "close", "kill", "force", "backfill"}
  w1 = w1
  w2 = w2
  r1 = r1
  r2 = r2
  r3 = r3
  s1 = s1
  s2 = s2
  gh = gh
  az = az
INVARIANTS
  RunInvariant
  RunsHaveOneWriter
  StampHasExtraction
  SkipsAreBacked
  PendingRescanHonoured
  DigestsCountTheirRuns
  BackfillLosesNothing
PROPERTIES
  EndedRunsAreFinal
CHECK_DEADLOCK FALSE
SYMMETRY RunIdSymmetry
