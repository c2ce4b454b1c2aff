CONSTANTS
  b1 = b1  b2 = b2
  Builds <- TwoBuilds
  Plans <- AllPlans
  Sources <- Configurations
  Paths <- AllPaths
  CustomKeys = {"app", "tier"}
  Digests = {"sha1", "sha2"}
  MaxPushes = 1
  GcloudInPath = TRUE
  Failures = TRUE
SPECIFICATION PSpec
INVARIANTS HandedOverIsPrepared ImagesArePinned PreparedAgainIsTheSame LabelsKeepSelectors NamespacesAgree
CHECK_DEADLOCK FALSE
