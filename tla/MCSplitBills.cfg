CONSTANTS
  u0 = u0
  u1 = u1
  u2 = u2
  u3 = u3
  c1 = c1
  c2 = c2
  c3 = c3
  Users = {u0, u1, u2, u3}
  Creator = u0
  Settlers = {c1, c2, c3}
  NoSettler = NoSettler
  MaxPaise = 5
SYMMETRY Symmetry
SPECIFICATION BillSpec
INVARIANTS
  SharesSumToTotal
  SettledMeansPaid
  LeftOpenOnlyByRace
  SettledShareIsNotPayable
