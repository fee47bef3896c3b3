\* Four samples run, flushes of two: the buffer forgets a sample that is not in the log file
CONSTANTS
  s1 = s1
  s2 = s2
  s3 = s3
  s4 = s4
  s5 = s5
  Samples <- MCSamples
  Reused <- MCReused
  FlushBuffer = 2
  Faults = {}
SPECIFICATION Spec
INVARIANTS
  QuietServed
CHECK_DEADLOCK FALSE
