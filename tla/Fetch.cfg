CONSTANTS
  j1 = j1  j2 = j2  o1 = o1  f1 = f1  f2 = f2  work = work  stage = stage
  NoFile = NoFile
  Jobs <- TwoJobs
  MaxRetries = 1
  Retries <- OnceAndNever
  Objects <- OneObject
  Object <- SameObject
  HasSha <- FirstHasSha
  Fuzz <- TwoFuzz
  Dirs <- TwoDirs
  Staging = stage
  FinalDir <- NoOverride
  NumChunks = 1
  FuzzCollides = FALSE
  CloseMayFail = FALSE
SPECIFICATION FSpec
INVARIANTS TypeOK VisibleIsVerified OneWriterPerFile RenameFindsOwnFile TimedOutNeverPublished
PROPERTIES PublishedIsLeftAlone EveryFetchReturns ImplementsContract
CHECK_DEADLOCK FALSE
