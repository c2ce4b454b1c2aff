CONSTANTS
  j1 = j1  j2 = j2  j3 = j3  j4 = j4  w1 = w1  w2 = w2
  Jobs <- FourJobs
  Workers <- TwoWorkers
SPECIFICATION PSpec
INVARIANTS EachJobInOnePlace AllReportedWhenLoopEnds NoSendOnClosed ExitIffAJobFailed
PROPERTIES PoolEnds
