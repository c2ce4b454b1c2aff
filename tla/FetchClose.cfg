CONSTANTS
  j1 = j1  j2 = j2  o1 = o1  f1 = f1  f2 = f2  work = work  stage = stage
  NoFile = NoFile
  Jobs <- OneJob
  MaxRetries = 0
  Retries <- Never
  Objects <- OneObject
  Object <- SameObject
  HasSha <- FirstHasSha
  Fuzz <- TwoFuzz
  Dirs <- TwoDirs
  Staging = stage
  FinalDir <- NoOverride
  NumChunks = 1
  FuzzCollides = FALSE
  CloseMayFail = TRUE
SPECIFICATION FSafety
INVARIANT VisibleIsVerified
CHECK_DEADLOCK FALSE
