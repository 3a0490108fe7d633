CONSTANTS
  Node = {n1, n2, n3}
  Nobody = Nobody
  Lead = n1
  Behind = n2
  MaxInflight = 2
  MaxEntries = 1
  MaxElections = 0
  MaxLog = 2
  MaxBeats = 0
  MaxCrashes = 2
  MaxBatch = 1
  MaxLost = 2
  Duplicates = FALSE
  TornWrites = {}
  MaxMisread = 0
  MisreadTerm = {}
  Unreachables = FALSE
SPECIFICATION LinkSpec
INVARIANTS PauseEnds WindowKept
PROPERTIES CatchesUp LeaderAppendOnly
