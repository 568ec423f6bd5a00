CONSTANTS
  None = None
  NumWorkers = 2  loopErrReopenAfter = 2
  loopErrBackoffMin = 2  loopErrBackoffMax = 3
  MaxSockets = 4  MaxDrops = 1
SPECIFICATION FairSpec
INVARIANTS NoMisuse NoLeak
PROPERTIES ImplementsDropTally StopReachesAll WorkerReadsAgain
