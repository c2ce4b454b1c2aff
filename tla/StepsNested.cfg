CONSTANTS
  KubectlEnvs <- SomeEnvs
  Configs <- SomeConfigs
  Contexts <- SomeContexts
  Versions <- OneVersion
  Roots <- SomeRoots
  Comments <- SomeComments
  Sources <- NoDirectories
  WorkspaceName = "workspace"
  MaxSteps = 2
SPECIFICATION BSpec
INVARIANT ShadowIsTheSource
CHECK_DEADLOCK FALSE
