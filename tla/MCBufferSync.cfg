\* One sample with two attachments, retried once; two samples of which one flushes; the write of a
\* segment or manifest may fail
CONSTANTS
  A = A
  B = B
  e1 = e1
  e2 = e2
  Samples <- MCSamples
  Watched = A
  Events <- MCEvents
  Hashes = {1, 2}
  MaxRows = 2
  MaxSegments = 2
  Retries = 1
  WritesFail = TRUE
  Situations <- MCSituations
SPECIFICATION FairSpec
INVARIANTS
  StoreConsistent
  NoGap
  Resolved
PROPERTIES
  ManifestIsCurrent
  
CHECK_DEADLOCK FALSE
