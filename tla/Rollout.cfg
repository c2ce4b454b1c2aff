SPECIFICATION CSpec
CONSTANTS
  deployment = deployment
  statefulSet = statefulSet
  daemonSet = daemonSet
  replicaSet = replicaSet
  service = service
  claim = claim
  pod = pod
  budget = budget
  controller = controller
  other = other
  Keys = {deployment, statefulSet, daemonSet, replicaSet, service, claim, pod, budget, controller, other}
  Kind <- KindOf
  Replicas <- SomeReplicas
  MaxGen = 4
INVARIANT ReadyMeansRolledOut
PROPERTY EventuallyReady
CHECK_DEADLOCK FALSE
