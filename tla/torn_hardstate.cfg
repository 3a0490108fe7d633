CONSTANTS
  Node = {n1, n2, n3}
  Nobody = Nobody
  MaxInflight = 2
  MaxEntries = 2
  MaxElections = 2
  MaxLog = 0
  MaxBeats = 0
  MaxCrashes = 1
  MaxBatch = 1
  Duplicates = FALSE
  TornWrites = {"hardstate"}
  MaxMisread = 0
  MisreadTerm = {}
  Unreachables = FALSE
SPECIFICATION Spec
SYMMETRY NodeSymmetry
ACTION_CONSTRAINT OneAtATime
CHECK_DEADLOCK FALSE
INVARIANT ElectionSafety
