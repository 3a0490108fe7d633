CONSTANTS
  Node = {n1, n2, n3}
  Nobody = Nobody
  MaxInflight = 2
  MaxEntries = 1
  MaxElections = 2
  MaxLog = 1
  MaxBeats = 0
  MaxCrashes = 0
  MaxBatch = 1
  Duplicates = FALSE
  TornWrites = {}
  MaxMisread = 0
  MisreadTerm = {}
  Unreachables = FALSE
SPECIFICATION SpecAny
SYMMETRY NodeSymmetry
ACTION_CONSTRAINTS OneAtATime Effective
CHECK_DEADLOCK FALSE
INVARIANTS StateMachineSafety LeaderCompleteness MatchIsDurable LogMatching CommitWithinLog ElectionSafety LeaderHint
PROPERTIES VoteKept
