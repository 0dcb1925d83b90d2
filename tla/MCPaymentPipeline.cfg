CONSTANTS
  c1 = c1
  c2 = c2
  c3 = c3
  p1 = p1
  p2 = p2
  k1 = k1
  Earlier = c3
  Requests = {c1, c2, c3}
  Processes = {p1, p2}
  IdempotencyKeys = {k1}
  NoKey = NoKey
  NoEntry = NoEntry
  Balance = Balance
  Answer = Answer
  MaxPaise = 3
  MaxUncapped = 1
  PerTransactionPaise = 2
  DailyPaise = 3
  MonthlyPaise = 4
  DailyCount = 2
  MaxEvents = 2
SYMMETRY Symmetry
SPECIFICATION Spec
INVARIANTS
  OnlyOverlapsExceedCaps
  OnlyOverlapsPostTwice
  StaleBalanceExplained
