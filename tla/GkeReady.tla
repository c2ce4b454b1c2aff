------------------------------ MODULE GkeReady ------------------------------
(***************************************************************************)
(* gke-deploy/core/resource/ready.go: when a deployed object is ready.      *)
(*                                                                          *)
(* An object is what `kubectl get --output=yaml` prints of it, a function   *)
(* from field names to values whose domain holds the fields that are there. *)
(* Names are those of the Kubernetes API without their path, except that    *)
(* spec.replicas is "replicas" and status.replicas "statusReplicas";        *)
(* conditions are a set of records and ingress is the set of the "ip"s of   *)
(* status.loadBalancer.ingress, "" for an entry without one.  The fields of *)
(* the API's own kinds have the types ready.go expects, so that its errors  *)
(* about types do not arise.                                                *)
(***************************************************************************)
EXTENDS Integers

Has(o, f) == f \in DOMAIN o

Same(o, f, g) == Has(o, f) /\ Has(o, g) /\ o[f] = o[g]

Is(o, f, v) == Has(o, f) /\ o[f] = v

\* Mutated form of Observed: the status may be about an earlier generation.
ObservedOnce(o) == Has(o, "generation") /\ Has(o, "observedGeneration")

\* The status is about the specification that was applied last.
Observed(o) == Same(o, "observedGeneration", "generation")

\* Mutated form of Number: a missing one equals nothing.
NumberOrNone(o, f) == IF Has(o, f) THEN o[f] ELSE -1

\* A number that counts as 0 where it is missing.
Number(o, f) == IF Has(o, f) THEN o[f] ELSE 0

ConditionOK(c) ==
  \/ c.type = "Available" /\ c.status = "True"
  \/ c.type = "Progressing" /\ c.status = "True" /\ c.reason = "NewReplicaSetAvailable"
  \/ c.type = "ReplicaFailure" /\ c.status # "True"

daemonSetIsReady(o) ==
  /\ Observed(o)
  /\ Same(o, "numberAvailable", "desiredNumberScheduled")
  /\ Same(o, "numberReady", "desiredNumberScheduled")

deploymentIsReady(o) ==
  /\ Observed(o)
  /\ Has(o, "replicas")
  /\ \A f \in {"statusReplicas", "readyReplicas", "availableReplicas"} :
       Number(o, f) = o["replicas"]
  /\ Has(o, "conditions") /\ o["conditions"] # {}
  /\ \A c \in o["conditions"] : ConditionOK(c)

replicationControllerIsReady(o) ==
  /\ Observed(o)
  /\ \A f \in {"statusReplicas", "readyReplicas", "availableReplicas"} :
       Same(o, f, "replicas")

replicaSetIsReady(o) ==
  /\ replicationControllerIsReady(o)
  /\ Has(o, "conditions") =>
       \A c \in o["conditions"] : c.type = "ReplicaFailure" => c.status # "True"

statefulSetIsReady(o) ==
  /\ Observed(o)
  /\ \A f \in {"statusReplicas", "readyReplicas", "currentReplicas"} :
       Same(o, f, "replicas")

persistentVolumeClaimIsReady(o) == Is(o, "phase", "Bound")

podIsReady(o) ==
  /\ Has(o, "conditions")
  /\ \E c \in o["conditions"] :
       c.type = "Ready" /\ (c.status = "True" \/ c.reason = "PodCompleted")

podDisruptionBudgetIsReady(o) ==
  /\ Observed(o)
  /\ Has(o, "currentHealthy")
  /\ o["currentHealthy"] >= Number(o, "desiredHealthy")

serviceIsReady(o) ==
  /\ Has(o, "type") /\ o["type"] # ""
  /\ \/ o["type"] \in {"ClusterIP", "NodePort", "ExternalName"}
     \/ /\ Has(o, "clusterIP") /\ o["clusterIP"] # ""
        /\ Has(o, "ingress") /\ o["ingress"] # {} /\ "" \notin o["ingress"]

\* IsReady: kinds it does not know are ready as soon as they exist.
IsReady(kind, o) ==
  CASE kind = "DaemonSet" -> daemonSetIsReady(o)
    [] kind = "Deployment" -> deploymentIsReady(o)
    [] kind = "PersistentVolumeClaim" -> persistentVolumeClaimIsReady(o)
    [] kind = "Pod" -> podIsReady(o)
    [] kind = "PodDisruptionBudget" -> podDisruptionBudgetIsReady(o)
    [] kind = "ReplicaSet" -> replicaSetIsReady(o)
    [] kind = "ReplicationController" -> replicationControllerIsReady(o)
    [] kind = "Service" -> serviceIsReady(o)
    [] kind = "StatefulSet" -> statefulSetIsReady(o)
    [] OTHER -> TRUE
=============================================================================
