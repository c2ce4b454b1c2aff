----------------------------- MODULE GkeCluster -----------------------------
(***************************************************************************)
(* The Kubernetes cluster that gke-deploy talks to, as far as IsReady and   *)
(* Apply look at it: objects, and the controllers that carry them out.      *)
(*                                                                          *)
(* A workload has pods of its present template (new: not yet available, up: *)
(* available) and available pods of earlier templates (old).  Its           *)
(* controller publishes a status from time to time; what kubectl prints is  *)
(* the last one published.  A PodDisruptionBudget stands for the pods it    *)
(* selects, and a DaemonSet runs one pod on each of `replicas` nodes.  A    *)
(* Service, a claim or a bare Pod is bound once: it gets its address,       *)
(* volume or node.  All this is Kubernetes, not this repository.            *)
(***************************************************************************)
EXTENDS GkeReady, FiniteSets, Functions

CONSTANTS
  Keys,      \* objects, named by kind, name and namespace
  Kind,      \* Kind[k]
  Replicas,  \* Replicas[k]: numbers of replicas k's specification may ask for
  MaxGen     \* bound: an object is changed while its generation is below it

ASSUME ClusterAssumption ==
  /\ Kind \in [Keys -> STRING]
  /\ Replicas \in [Keys -> SUBSET Nat]
  /\ MaxGen \in Nat

VARIABLE cluster   \* cluster[k]: the object k, or NoObject

\* The generations of objects begin at 1.
NoObject == [gen |-> 0]

Bounds == {"no", "ip", "host"}

\* An object as the API server creates it: nobody has looked at it yet.
Fresh(r) ==
  [gen |-> 1, replicas |-> r, old |-> 0, new |-> 0, up |-> 0,
   obs |-> 0, want |-> 0, total |-> 0, avail |-> 0, current |-> 0,
   complete |-> FALSE, bound |-> "no"]

\* A new template makes old pods of those that run; scaling does not.
Updated(w, r) ==
  [w EXCEPT !.gen = @ + 1, !.replicas = r, !.old = @ + w.up, !.new = 0, !.up = 0]
Scaled(w, r) == [w EXCEPT !.gen = @ + 1, !.replicas = r]

-----------------------------------------------------------------------------
(* What kubectl prints.                                                     *)

\* Fields that are left out when they are 0.
OmitEmpty(kind) ==
  {"observedGeneration", "readyReplicas", "availableReplicas",
   "currentReplicas", "numberAvailable"}
    \cup IF kind = "Deployment" THEN {"statusReplicas"} ELSE {}

Conditions(kind, w) ==
  IF kind = "Deployment" /\ w.obs > 0
    THEN {[type |-> "Available", reason |-> "",
           status |-> IF w.avail >= w.want THEN "True" ELSE "False"],
          [type |-> "Progressing", status |-> "True",
           reason |-> IF w.complete THEN "NewReplicaSetAvailable"
                      ELSE "ReplicaSetUpdated"]}
  ELSE IF kind = "Pod" /\ w.bound # "no"
    THEN {[type |-> "Ready", status |-> "True", reason |-> ""]}
  ELSE {}

Fields(kind, w) ==
  [generation |-> w.gen, observedGeneration |-> w.obs, replicas |-> w.replicas,
   statusReplicas |-> w.total, readyReplicas |-> w.avail,
   availableReplicas |-> w.avail, currentReplicas |-> w.current,
   desiredNumberScheduled |-> w.want, numberReady |-> w.avail,
   numberAvailable |-> w.avail,
   desiredHealthy |-> w.want, currentHealthy |-> w.avail,
   phase |-> IF w.bound = "no" THEN "Pending" ELSE "Bound",
   type |-> "LoadBalancer", clusterIP |-> "ip",
   ingress |-> IF w.bound = "no" THEN {}
               ELSE IF w.bound = "ip" THEN {"ip"} ELSE {""},
   conditions |-> Conditions(kind, w)]

Printed(kind, w) ==
  LET full == Fields(kind, w)
  IN  Restrict(full, {f \in DOMAIN full : f \in OmitEmpty(kind) => full[f] # 0})

Ready(k) ==
  /\ cluster[k] # NoObject
  /\ \E o \in {Printed(Kind[k], cluster[k])} : IsReady(Kind[k], o)

-----------------------------------------------------------------------------
(* Controllers and kubelets.                                                *)

Pods(w) == w.old + w.new + w.up

\* The whole rollout is done, as far as the pods tell.
RolledOut(w) == w.old = 0 /\ w.new = 0 /\ w.up = w.replicas

\* A Deployment's progress is complete when its rollout is, and stays so until
\* another template makes old pods.
Published(w) ==
  [w EXCEPT !.obs = w.gen, !.want = w.replicas,
            !.total = Pods(w), !.avail = w.old + w.up,
            !.current = IF RolledOut(w) THEN w.up ELSE w.old,
            !.complete = w.old = 0 /\ (@ \/ RolledOut(w))]

\* A StatefulSet's controller replaces a pod only when all are available, and
\* counts the pod as gone in the status it publishes with that.
Sync(k) ==
  LET w == cluster[k]
      next == IF Kind[k] = "StatefulSet" /\ w.old > 0 /\ w.old + w.up = w.replicas
                THEN [Published(w) EXCEPT !.current = @ - 1,
                                          !.old = @ - 1, !.new = @ + 1]
                ELSE Published(w)
  IN  /\ w # NoObject
      /\ next # w
      /\ cluster' = [cluster EXCEPT ![k] = next]

\* A Deployment may have one pod more than it wants, the others may not.
Surge(k) == IF Kind[k] = "Deployment" THEN 1 ELSE 0

CreatePod(k) ==
  LET w == cluster[k]
  IN  /\ w # NoObject
      /\ w.new + w.up < w.replicas
      /\ Pods(w) < w.replicas + Surge(k)
      /\ cluster' = [cluster EXCEPT ![k].new = @ + 1]

\* An old pod goes when there are pods enough without it; a DaemonSet's goes
\* when all are available.
RetirePod(k) ==
  LET w == cluster[k]
  IN  /\ w # NoObject
      /\ w.old > 0
      /\ \/ w.old + w.up > w.replicas
         \/ Kind[k] = "DaemonSet" /\ w.old + w.up = w.replicas
      /\ cluster' = [cluster EXCEPT ![k].old = @ - 1]

\* Too many pods of the present template: the specification was scaled down.
DeletePod(k) ==
  LET w == cluster[k]
  IN  /\ w # NoObject
      /\ w.new + w.up > w.replicas
      /\ cluster' = [cluster EXCEPT ![k] =
           IF w.new > 0 THEN [w EXCEPT !.new = @ - 1] ELSE [w EXCEPT !.up = @ - 1]]

PodStarts(k) ==
  /\ cluster[k] # NoObject
  /\ cluster[k].new > 0
  /\ cluster' = [cluster EXCEPT ![k].new = @ - 1, ![k].up = @ + 1]

\* A Service gets an address, a claim its volume, a Pod runs.
Bind(k, b) ==
  /\ Kind[k] \in {"Service", "PersistentVolumeClaim", "Pod"}
  /\ cluster[k] # NoObject
  /\ cluster[k].bound = "no"
  /\ cluster' = [cluster EXCEPT ![k].bound = b]

Controller(k) ==
  Sync(k) \/ CreatePod(k) \/ RetirePod(k) \/ DeletePod(k) \/ PodStarts(k)

\* A user changes the specification of the object.
Change(k) ==
  /\ cluster[k] # NoObject
  /\ cluster[k].gen < MaxGen
  /\ \E r \in Replicas[k] :
       cluster' \in {[cluster EXCEPT ![k] = Updated(@, r)],
                     [cluster EXCEPT ![k] = Scaled(@, r)]}

\* The cluster of one object, of any of the kinds.
OneObject ==
  \E k \in Keys : \E r \in Replicas[k] :
    cluster = [[x \in Keys |-> NoObject] EXCEPT ![k] = Fresh(r)]

CNext == \E k \in Keys : Controller(k) \/ Bind(k, "ip") \/ Change(k)

\* Controllers and kubelets work on; users need not.
CSpec == /\ OneObject /\ [][CNext]_cluster
         /\ \A k \in Keys : WF_cluster(Controller(k)) /\ WF_cluster(Bind(k, "ip"))

-----------------------------------------------------------------------------
(* Properties of IsReady on such a cluster.                                 *)

\* A workload is not called ready while pods of an earlier template run: the
\* status IsReady looked at may be an old one, and all of its numbers may be
\* right half way through a rollout, or before it has begun.
ReadyMeansRolledOut ==
  \A k \in Keys : Kind[k] \in {"Deployment", "StatefulSet"} /\ Ready(k) =>
    cluster[k].old = 0

\* Whatever its users did before, an object is called ready in the end, when
\* they leave it alone: the wait for it does not have to time out.
EventuallyReady == <>[](\A k \in Keys : cluster[k] # NoObject => Ready(k))
=============================================================================
