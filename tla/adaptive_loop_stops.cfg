SPECIFICATION FairSpec
CONSTANTS
  jobs = jobs  outbox = outbox
  Loops = {jobs, outbox}
  Kind <- MCKind
  RunIds = {i1, i2}  NoRun = NoRun
  Signals = {sigterm, sigint}
  MaxTriggers = 0
PROPERTIES AdaptiveKeepsPolling
CHECK_DEADLOCK FALSE
