CONSTANTS
  Replica = {r1, r2}
  Key = {k1}
  Value = {v1}
  NoValue = NoValue
  MaxCommitted = 3
  MaxRestarts = 1
SPECIFICATION KVFair
CHECK_DEADLOCK FALSE
PROPERTIES EveryCommandApplied
