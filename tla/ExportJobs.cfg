SPECIFICATION FairSpec
CONSTANTS
  w1 = w1
  w2 = w2
  Workers <- TwoWorkers
  NumJobs = 3
  MaxChunks = 2
  MaxDbFaults = 1
  MaxPutFaults = 1
  MaxMergeFaults = 1
  MaxCrashes = 1
INVARIANTS
  TypeOK
  SucceededHasFile
  OneRunner
PROPERTIES
  FinalStatusStays
  EveryJobEnds
CHECK_DEADLOCK FALSE
