SPECIFICATION Spec
CONSTANTS
  Runners = {m1, m2}
  MaxFiles = 3
  FirstFiles = 2
  SchemaSize = 2
  Origins = {"new", "old"}
  Disturbances = {"query", "sql", "kill"}
  MaxStarts = 4
INVARIANT BackfilledAreReflected
SYMMETRY RunnerSymmetry
CHECK_DEADLOCK FALSE
