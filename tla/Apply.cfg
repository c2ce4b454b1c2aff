SPECIFICATION ASpec
CONSTANTS
  Calls <- AllCalls
  Existing <- AllExisting
  Keys <- AllKeys
  Kind <- KindOf
  KindOrder <- AlphabeticalKinds
  NameOrder <- AlphabeticalNames
  CRD <- CRDKey
  Addresses = {"ip", "host"}
  Failures = TRUE
  Others = {"create", "delete"}
  Replicas <- SomeReplicas
  MaxGen = 2
INVARIANTS SuccessMeansDeployed ResultTellsReadiness NoNeedlessError NamedClusterIsUsed
PROPERTIES DryRunChangesNothing NamespacesAreLeftAlone ApplyReturns
CHECK_DEADLOCK FALSE
