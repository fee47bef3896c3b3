\* Five tasks of two models on three workers; the run may be cancelled
CONSTANTS
  m1 = m1
  m2 = m2
  None = None
  NumTasks = 5
  Parallel = 3
  FinalWriteMayFail = FALSE
  Models <- MCModels
  ModelOf <- MCModelOfEven
SPECIFICATION FairSpec
INVARIANTS
  TypeOK
  TasksAccounted
  Bookkeeping
  Balanced
  InFlightBounded
PROPERTIES
  Returns
CHECK_DEADLOCK FALSE
