SPECIFICATION Spec
CONSTANTS
  Workers = {w1}
  Platforms = {gh, az}
  Scopes = {s1, s2}
  ScopesOf <- TwoPlatforms
  Repos = {r1, r2, r3}
  Libraries = {}
  Listings <- TwoAndOneListed
  RunIds = {id1, id2, id3, id4}
  ContentSteps <- OneStep
  MinInterval = 1
  MaxClock = 2
  MaxTasks = 2
  TaskLevel = TaskLevel
  None = None
  Disturbances = {"api", "kill"}
  w1 = w1
  w2 = w2
  r1 = r1
  r2 = r2
  r3 = r3
  s1 = s1
  s2 = s2
  gh = gh
  az = az
INVARIANTS
  ScansRespectInterval
  EveryListedRepoIsRecorded
  RetiredWithinScope
CHECK_DEADLOCK FALSE
SYMMETRY RunIdSymmetry
