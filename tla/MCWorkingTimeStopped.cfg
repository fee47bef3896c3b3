\* An agent that waits for a connection while the sample's working limit passes
CONSTANTS
  a1 = a1
  a2 = a2
  Sample = Sample
  Other = Other
  Agents <- MCAgents
  Scoped <- MCScoped
  Nested <- MCNested
  TokenLimit <- MCTokenLimit
  Slots = 1
  WorkLimit = 1
  MaxNow = 3
  MaxAttempts = 2
  MaxReplayed = 0
SPECIFICATION Spec
INVARIANTS
  StoppedOnlyForWork
CHECK_DEADLOCK FALSE
