CONSTANTS
  Id = {i1, i2, i3}
  Price = {1, 2, 3}
  Quantity = {0, 1, 2}
  MaxCommands = 4
  First = First
  Null = Null
  MaxLevel = 1
  Replica = {r1, r2}
  Key = {k1, k2}
  Value = {v1, v2}
  NoValue = NoValue
  MaxCommitted = 3
  MaxRestarts = 1
  Byte = {1}
  MaxIndex = 2
  MaxTerm = 2
  MaxKills = 2
SPECIFICATION SpecParts
SYMMETRY IdSymmetry
CHECK_DEADLOCK FALSE
INVARIANTS TypeOK IndexAgrees TimeOrdered SnapshotRestores EnginesAgree TowersSound TakerServed RepliesLastWrite InPlace
PROPERTIES PriceTimePriority MakersConserved ImplementsStore
