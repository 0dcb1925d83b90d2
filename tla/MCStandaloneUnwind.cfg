CONSTANTS
  u1 = u1
  u2 = u2
  c1 = c1
  c2 = c2
  c3 = c3
  Users = {u1, u2}
  NoUser = NoUser
  Calls = {c1, c2, c3}
  NoTxn = NoTxn
  MaxPaise = 2
  Opening <- MCOpening
  Faults = {"write"}
SYMMETRY Symmetry
SPECIFICATION Spec
INVARIANTS
  DriftExplained
PROPERTIES
  OnlyUndoneCreditsOverdraw
