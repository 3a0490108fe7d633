CONSTANTS
  Node = {n1, n2}
  Nobody = Nobody
  MaxInflight = 2
  MaxEntries = 2
  MaxElections = 2
  MaxLog = 1
  MaxBeats = 1
  MaxCrashes = 2
  MaxBatch = 1
  Duplicates = FALSE
  TornWrites = {"log", "hardstate"}
  MaxMisread = 2
  MisreadTerm = {0, 2}
  Unreachables = TRUE
SPECIFICATION Spec
SYMMETRY NodeSymmetry
ACTION_CONSTRAINTS OneAtATime Effective AppliedBounded KillsAfterTorn
CHECK_DEADLOCK FALSE
INVARIANTS TypeOK AppliedInOrder
