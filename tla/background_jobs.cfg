SPECIFICATION FairSpec
CONSTANTS
  Types = {t1}
  Workers = {w1, w2}
  Nobody = Nobody
  Interval = 2  LockTimeout = 1
  MaxAttempts = 2
  BatchSize = 2
  Base = 1  MaxBackoff = 2
  Deadline = 1  LastFault = 1
  MaxTime = 4  MaxFaults = 2  MaxArrivals = 1
INVARIANTS TypeOK ExclusiveUnlessStale
PROPERTIES LifecycleSpec OutcomeOfThisAttempt NoLockForever DueWorkDone
CHECK_DEADLOCK FALSE
