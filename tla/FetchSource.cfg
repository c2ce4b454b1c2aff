CONSTANTS
  m = m  a = a  j1 = j1  j2 = j2  j3 = j3
  om = om  oa = oa  o1 = o1  o2 = o2  o3 = o3
  f1 = f1  work = work  stage = stage  w1 = w1  w2 = w2
  NoFile = NoFile
  Jobs <- FiveJobs
  Files <- ThreeFiles
  Manifest = m
  Archive = a
  Listings <- OneOrTwoFiles
  Workers <- TwoWorkers
  MaxRetries = 1
  Retries <- FirstFileRetries
  Objects <- FiveObjects
  Object <- OwnObject
  HasSha <- ThreeFiles
  Fuzz <- OneFuzz
  Dirs <- TwoDirs
  Staging = stage
  FinalDir <- InStaging
  NumChunks = 1
  FuzzCollides = FALSE
  CloseMayFail = FALSE
  Places <- ThreePlaces
  Original <- SomeArchives
  Newer <- OtherArchive
  MaxOverwrites = 1
  SourceTypes <- EveryType
  Workspaces <- SomeWorkspaces
SPECIFICATION ASpec
INVARIANTS
  ExitZeroMeansAllThere ExitOneHasAReason OnlyVerifiedFiles CreatedDirsIsTrue
  ExitZeroMeansExtracted BlocksKeepTheirPlace
PROPERTIES StagingStaysGone FetcherExits
CHECK_DEADLOCK FALSE
