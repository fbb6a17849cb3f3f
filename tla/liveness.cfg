SPECIFICATION FairSpec
CONSTANTS
  Workers = {w1, w2}
  Platforms = {gh}
  Scopes = {s1, s2}
  ScopesOf <- TwoScopes
  Repos = {r1, r2, r3}
  Libraries = {}
  Listings <- TwoAndOneListed
  RunIds = {id1, id2, id3}
  ContentSteps <- OneStep
  MinInterval = 1
  MaxClock = 0
  MaxTasks = 1
  TaskLevel = TaskLevel
  None = None
  Disturbances = {"api", "db"}
  w1 = w1
  w2 = w2
  r1 = r1
  r2 = r2
  r3 = r3
  s1 = s1
  s2 = s2
  gh = gh
  az = az
INVARIANTS
  CompletedRunsAreWhole
PROPERTIES
  ImplementsLifecycle
  TasksEnd
  RunsEnd
CHECK_DEADLOCK FALSE
