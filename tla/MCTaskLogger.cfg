\* Four samples run, one reused; all faults
CONSTANTS
  s1 = s1
  s2 = s2
  s3 = s3
  s4 = s4
  s5 = s5
  Samples <- MCSamples
  Reused <- MCReused
  FlushBuffer = 2
  Faults = {"cancel", "cancel_finish", "storage", "crash"}
SPECIFICATION FairSpec
INVARIANTS
  ListsAgree
  BetweenFlushes
  EndedComplete
  SummariesLackOneFlush
PROPERTIES
  LoggedEventually
CHECK_DEADLOCK FALSE
