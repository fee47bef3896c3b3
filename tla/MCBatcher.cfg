\* Three requests in batches of two; checks, results and whole batches may fail, exceptions
\* may end the worker outside an eval, or results lack ids; or two requests, whose callers may give up
CONSTANTS
  r1 = r1
  r2 = r2
  r3 = r3
  Requests <- MCRequests
  Size <- MCSize
  MinCount = 2
  MaxCount = 2
  MaxBatches = 2
  MaxCheckFailures = 2
  Situations <- MCSituations
SPECIFICATION FairSpec
INVARIANTS
  RequestsAccounted
  NeverStuck
  WorkerKept
  WithinLimits
PROPERTIES
  EveryCallEnds
  KeepsPromises
CHECK_DEADLOCK FALSE
