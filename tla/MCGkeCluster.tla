---------------------------- MODULE MCGkeCluster ----------------------------
(* Small instances of GkeCluster: one object of each kind.                  *)
EXTENDS GkeCluster

CONSTANTS deployment, statefulSet, daemonSet, replicaSet, service, claim, pod,
          budget, controller, other

KindOf == [k \in Keys |->
  CASE k = deployment -> "Deployment"
    [] k = statefulSet -> "StatefulSet"
    [] k = daemonSet -> "DaemonSet"
    [] k = replicaSet -> "ReplicaSet"
    [] k = service -> "Service"
    [] k = claim -> "PersistentVolumeClaim"
    [] k = pod -> "Pod"
    [] k = budget -> "PodDisruptionBudget"
    [] k = controller -> "ReplicationController"
    [] OTHER -> "ConfigMap"]

\* None is the hard case of a Deployment, whose other numbers are larger.
SomeReplicas == [k \in Keys |-> IF k = deployment THEN {0, 2, 3} ELSE {1, 2}]
=============================================================================
