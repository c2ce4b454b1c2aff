CONSTANTS
  KubectlEnvs <- SomeEnvs
  Configs <- SomeConfigs
  Contexts <- SomeContexts
  Versions <- OneVersion
  Roots <- SomeRoots
  Comments <- SomeComments
  Sources <- SomeSources
  WorkspaceName = "workspace"
  MaxSteps = 4
SPECIFICATION BSpec
INVARIANTS KubectlTalksToItsCluster GoFindsItsSource
CHECK_DEADLOCK FALSE
