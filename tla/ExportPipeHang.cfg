SPECIFICATION FairSpec
CONSTANTS
  w1 = w1
  w2 = w2
  Workers <- OneWorker
  NumJobs = 2
  MaxChunks = 1
  MaxDbFaults = 0
  MaxPutFaults = 1
  MaxMergeFaults = 0
  MaxCrashes = 0
PROPERTY ClaimsEveryQueuedJob
CHECK_DEADLOCK FALSE
