CONSTANTS
  m1 = m1
  m2 = m2
  t1 = t1
  t2 = t2
  e1 = e1
  e2 = e2
  NoMandate = NoMandate
  Mandates = {m1}
  Ticks = {t1, t2}
  Edits = {e1, e2}
  MaxFailures = 2
  Horizon = 1
  Faults = {"save", "crash"}
  MaxFaults = 1
SPECIFICATION FairSpec
INVARIANTS
  ChargedOncePerPeriod
  RunsWereCharged
PROPERTIES
  OnlyLateWritersRevive
  DueIsHandled
  OnlyFailedSavesSkip
