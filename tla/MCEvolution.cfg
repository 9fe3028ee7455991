SPECIFICATION Spec
CONSTANTS
  Tools = {"a"}
  Bases = {500}
  Scores = {1000, 999}
  MaxHistory = 2
  Cycles = {k1, k2}
  Grades = {75, 100}
  BaseAtStart = 500
  MaxBuild = 2
  MaxVersions = 2
  MaxRefusals <- Refusals
  MaxStarts = 2
INVARIANTS
  PublishedIsCurrent
  CardInStep
PROPERTY
  OneCardPerBuild
SYMMETRY Alike
CHECK_DEADLOCK FALSE
