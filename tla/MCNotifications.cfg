CONSTANTS
  t1 = t1
  t2 = t2
  Txns = {t1, t2}
  Attempts = 2
  Concurrency = 2
  MaxFaults = 1
  FailureThreshold = 2
  SuccessThreshold = 1
SPECIFICATION FairNotifySpec
INVARIANTS
  DuplicatesExplained
  OutcomesAreHonest
PROPERTIES
  QueuedIsSettled
