\* A finished log may fail to be written
CONSTANTS
  m1 = m1
  m2 = m2
  None = None
  NumTasks = 4
  Parallel = 2
  FinalWriteMayFail = TRUE
  Models <- MCModels
  ModelOf <- MCModelOfEven
SPECIFICATION Spec
INVARIANTS
  NoStrandedWorker
CHECK_DEADLOCK FALSE
