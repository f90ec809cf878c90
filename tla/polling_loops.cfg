SPECIFICATION FairSpec
CONSTANTS
  jobs = jobs  outbox = outbox
  Loops = {jobs, outbox}
  Kind <- MCKind
  RunIds = {i1, i2}  NoRun = NoRun
  Signals = {sigterm, sigint}
  MaxTriggers = 2
INVARIANTS TypeOK NoOverlappingRuns QuietAfterDisconnect
PROPERTIES ShutdownCompletes IntervalKeepsPolling
CHECK_DEADLOCK FALSE
