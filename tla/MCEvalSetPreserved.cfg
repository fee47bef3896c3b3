\* The default tolerance: is a completed sample ever lost?
CONSTANTS
  s1 = s1
  s2 = s2
  Samples <- MCSamples
  Earlier <- MCEarlier
  Configs <- PlainConfigs
  Dataset = 2
  MaxSamples = 1
  EarlyStopping = FALSE
  LoggerFails = FALSE
  MaxAttempts = 3
  MaxInvocations = 1
SPECIFICATION SetSpec
INVARIANTS
  SamplesPreserved
CHECK_DEADLOCK FALSE
