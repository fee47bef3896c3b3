\* Two samples, one slot; two passes of each of two invocations
CONSTANTS
  s1 = s1
  s2 = s2
  Samples <- MCSamples
  Earlier <- MCEarlier
  Configs <- MCConfigs
  Dataset = 2
  MaxSamples = 1
  EarlyStopping = TRUE
  LoggerFails = TRUE
  MaxAttempts = 2
  MaxInvocations = 2
SPECIFICATION SetSpec
INVARIANTS
  PassConsistent
  SamplesLogged
  ErrorsCounted
  DirectoryTrue
  NotRunAgain
PROPERTIES
  SetEnds
CHECK_DEADLOCK FALSE
