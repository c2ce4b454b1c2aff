SPECIFICATION ASpec
CONSTANTS
  Calls <- TwoCalls
  Existing <- NothingExists
  Keys <- TwoKeys
  Kind <- KindOf
  KindOrder <- AlphabeticalKinds
  NameOrder <- AlphabeticalNames
  CRD <- CRDKey
  Addresses = {"ip"}
  Failures = FALSE
  Others = {}
  Replicas <- SomeReplicas
  MaxGen = 2
INVARIANT SummaryShowsAll
CHECK_DEADLOCK FALSE
