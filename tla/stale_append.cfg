CONSTANTS
  Node = {n1, n2, n3}
  Nobody = Nobody
  MaxInflight = 2
  MaxEntries = 2
  MaxElections = 1
  MaxLog = 2
  MaxBeats = 0
  MaxCrashes = 0
  MaxBatch = 2
  Duplicates = FALSE
  TornWrites = {}
  MaxMisread = 0
  MisreadTerm = {}
  Unreachables = FALSE
SPECIFICATION Spec
SYMMETRY NodeSymmetry
ACTION_CONSTRAINT OneAtATime
CHECK_DEADLOCK FALSE
INVARIANT MatchIsDurable
