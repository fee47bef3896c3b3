\* Two agents on one connection, four seconds, one retry, a limit of one second of work
CONSTANTS
  a1 = a1
  a2 = a2
  Sample = Sample
  Other = Other
  Agents <- MCAgents
  Scoped <- MCScoped
  Nested <- MCNested
  TokenLimit <- MCTokenLimit
  Slots = 1
  WorkLimit = 1
  MaxNow = 4
  MaxAttempts = 2
  MaxReplayed = 1
SPECIFICATION Spec
INVARIANTS
  WaitingAccounted
  OverrunBounded
  SampleLimitNotHidden
  SharedConsistent
CHECK_DEADLOCK FALSE
