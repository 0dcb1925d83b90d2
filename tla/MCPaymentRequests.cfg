CONSTANTS
  r1 = r1
  r2 = r2
  c1 = c1
  c2 = c2
  c3 = c3
  NoCall = NoCall
  Requests = {r1}
  Calls = {c1, c2, c3}
SPECIFICATION FairSpec
INVARIANTS
  PaidIsNotPayable
PROPERTIES
  OnlyLateWritersOverwrite
  OverdueExpires
