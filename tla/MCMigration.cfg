CONSTANTS
  u1 = u1
  u2 = u2
  x1 = x1
  Users = {u1, u2}
  Txns = {x1}
  NoAmount = NoAmount
  OldAmounts = {0, 14, 15, 16}
  MaxRuns = 3
  MaxServed = 1
SYMMETRY Symmetry
SPECIFICATION MigrationSpec
INVARIANTS
  ConvertedOnce
  UnbackedExplained
  OpeningsExplained
