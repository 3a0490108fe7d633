CONSTANTS
  Node = {n1, n2, n3}
  Nobody = Nobody
  MaxInflight = 2
  MaxEntries = 2
  MaxElections = 2
  MaxLog = 1
  MaxBeats = 1
  MaxCrashes = 0
  MaxBatch = 1
  Duplicates = FALSE
  TornWrites = {}
  MaxMisread = 0
  MisreadTerm = {}
  Unreachables = FALSE
SPECIFICATION Spec
SYMMETRY NodeSymmetry
ACTION_CONSTRAINT OneAtATime
CHECK_DEADLOCK FALSE
INVARIANT StateMachineSafety
