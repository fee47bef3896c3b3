\* Two concurrent calls, two commands of the first and one of the second may fail
CONSTANTS
  c1 = c1
  c2 = c2
  Calls <- MCCalls
  MaxFailures <- MCMaxFailures
SPECIFICATION FairServiceSpec
INVARIANTS
  ResultRunsOnce
  FilesAsNeeded
PROPERTIES
  ImplementsRemoteCall
  EveryCallServed
CHECK_DEADLOCK FALSE
