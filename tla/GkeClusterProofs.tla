-------------------------- MODULE GkeClusterProofs --------------------------
(***************************************************************************)
(* Theorems about GkeCluster and IsReady, for every set of objects, of any  *)
(* kinds and numbers of replicas.                                           *)
(***************************************************************************)
EXTENDS GkeCluster, TLAPS

\* The shape of an object: a record with these fields, ...
FieldNames ==
  {"gen", "replicas", "old", "new", "up", "obs", "want", "total", "avail",
   "current", "complete", "bound"}
IsRecord(w) == w = [f \in FieldNames |-> w[f]]

\* ... and the types of those that IsReady and the controllers compare.
HasNumbers(w) ==
  /\ w.gen \in Nat /\ w.replicas \in Nat
  /\ w.old \in Nat /\ w.new \in Nat /\ w.up \in Nat
  /\ w.obs \in Nat /\ w.avail \in Nat /\ w.current \in Nat
  /\ w.complete \in BOOLEAN

IsObject(w) == IsRecord(w) /\ HasNumbers(w)

\* A status that is about the present specification and tells of a complete
\* rollout was published when no old pods were left, and none came since: only
\* a change of the specification makes them, and it makes the status outdated.
StatusTells(kind, w) ==
  /\ w.obs <= w.gen
  /\ w.obs = w.gen /\ kind = "Deployment" /\ w.complete => w.old = 0
  /\ w.obs = w.gen /\ kind = "StatefulSet"
       /\ w.current = w.replicas /\ w.avail = w.replicas => w.old = 0

ClusterInv ==
  /\ cluster = [k \in Keys |-> cluster[k]]
  /\ \A k \in Keys : cluster[k] # NoObject =>
       IsObject(cluster[k]) /\ StatusTells(Kind[k], cluster[k])

-----------------------------------------------------------------------------
(* The steps, on the object they change.                                    *)

\* The fields, for the provers to see them one by one.
LEMMA Names ==
  /\ "gen" \in FieldNames /\ "replicas" \in FieldNames /\ "old" \in FieldNames
  /\ "new" \in FieldNames /\ "up" \in FieldNames /\ "obs" \in FieldNames
  /\ "want" \in FieldNames /\ "total" \in FieldNames /\ "avail" \in FieldNames
  /\ "current" \in FieldNames /\ "complete" \in FieldNames
  /\ "bound" \in FieldNames
BY DEF FieldNames

\* A new object has no status yet.
LEMMA FreshTells ==
  ASSUME NEW r \in Nat, NEW kind
  PROVE  IsObject(Fresh(r)) /\ StatusTells(kind, Fresh(r))
<1>1. IsRecord(Fresh(r))
  BY DEF Fresh, IsRecord, FieldNames
<1>2. HasNumbers(Fresh(r)) /\ StatusTells(kind, Fresh(r))
  BY DEF Fresh, HasNumbers, StatusTells
<1> QED
  BY <1>1, <1>2 DEF IsObject

\* A change outdates the status.
LEMMA ChangedTells ==
  ASSUME NEW w, IsObject(w), NEW r \in Nat, NEW kind, StatusTells(kind, w)
  PROVE  /\ IsObject(Updated(w, r)) /\ StatusTells(kind, Updated(w, r))
         /\ IsObject(Scaled(w, r)) /\ StatusTells(kind, Scaled(w, r))
<1>1. IsRecord(Updated(w, r)) /\ IsRecord(Scaled(w, r))
  BY Names DEF Updated, Scaled, IsRecord, IsObject
<1>2. HasNumbers(Updated(w, r)) /\ HasNumbers(Scaled(w, r))
  BY Names DEF Updated, Scaled, IsRecord, HasNumbers, IsObject
<1>3. /\ Updated(w, r).obs = w.obs /\ Updated(w, r).gen = w.gen + 1
      /\ Scaled(w, r).obs = w.obs /\ Scaled(w, r).gen = w.gen + 1
  BY Names DEF Updated, Scaled, IsRecord, IsObject
<1>4. StatusTells(kind, Updated(w, r)) /\ StatusTells(kind, Scaled(w, r))
  BY <1>3 DEF StatusTells, IsObject, HasNumbers
<1> QED
  BY <1>1, <1>2, <1>4 DEF IsObject

\* Steps of the pods leave the status and make no old pods.
PodsOnly(w, v) ==
  /\ v.gen = w.gen /\ v.obs = w.obs /\ v.replicas = w.replicas
  /\ v.complete = w.complete /\ v.current = w.current /\ v.avail = w.avail
  /\ v.old <= w.old

LEMMA PodsTell ==
  ASSUME NEW w, NEW v, NEW kind, HasNumbers(w), HasNumbers(v),
         StatusTells(kind, w), PodsOnly(w, v)
  PROVE  StatusTells(kind, v)
BY DEF HasNumbers, StatusTells, PodsOnly

\* What Published sets.
LEMMA PublishedFields ==
  ASSUME NEW w, IsObject(w)
  PROVE  /\ IsObject(Published(w))
         /\ Published(w).obs = w.gen /\ Published(w).gen = w.gen
         /\ Published(w).old = w.old /\ Published(w).new = w.new
         /\ Published(w).replicas = w.replicas
         /\ Published(w).bound = w.bound
         /\ Published(w).avail = w.old + w.up
         /\ Published(w).current = IF RolledOut(w) THEN w.up ELSE w.old
         /\ Published(w).complete => w.old = 0
<1>1. IsRecord(Published(w))
  BY Names DEF Published, IsRecord, IsObject
<1>2. HasNumbers(Published(w))
  BY Names DEF Published, IsRecord, IsObject, HasNumbers, RolledOut
<1>3. /\ Published(w).obs = w.gen /\ Published(w).gen = w.gen
      /\ Published(w).old = w.old /\ Published(w).new = w.new
      /\ Published(w).replicas = w.replicas
      /\ Published(w).bound = w.bound
      /\ Published(w).avail = w.old + w.up
  BY Names DEF Published, IsRecord, IsObject
<1>4. Published(w).current = IF RolledOut(w) THEN w.up ELSE w.old
  BY Names DEF Published, IsRecord, IsObject
<1>5. Published(w).complete => w.old = 0
  BY Names DEF Published, IsRecord, IsObject
<1> QED
  BY <1>1, <1>2, <1>3, <1>4, <1>5 DEF IsObject

\* The status that is published tells, and so does the one of a StatefulSet
\* with which the next of its pods is replaced.
LEMMA PublishedTells ==
  ASSUME NEW w, IsObject(w), NEW kind,
         kind = "StatefulSet" => w.old = 0 \/ w.old + w.up # w.replicas
  PROVE  StatusTells(kind, Published(w))
BY PublishedFields DEF StatusTells, IsObject, HasNumbers, RolledOut

\* A StatefulSet of whose pods the next is replaced.
Replaced(w) ==
  [Published(w) EXCEPT !.current = @ - 1, !.old = @ - 1, !.new = @ + 1]

LEMMA ReplacedTells ==
  ASSUME NEW w, IsObject(w), NEW kind, w.old > 0, w.old + w.up = w.replicas,
         kind = "StatefulSet"
  PROVE  /\ IsObject(Replaced(w)) /\ StatusTells(kind, Replaced(w))
         /\ Replaced(w).old <= w.old /\ Replaced(w).bound = w.bound
<1> DEFINE p == Published(w)
<1>1. /\ IsObject(p) /\ p.current = w.old /\ p.old = w.old
      /\ p.gen = w.gen /\ p.obs = w.gen /\ p.replicas = w.replicas
      /\ p.bound = w.bound /\ HasNumbers(w)
  BY PublishedFields DEF RolledOut, IsObject, HasNumbers
<1> HIDE DEF p
<1>2. IsRecord([p EXCEPT !.current = @ - 1, !.old = @ - 1, !.new = @ + 1])
  BY <1>1, Names DEF IsRecord, IsObject
<1>3. HasNumbers([p EXCEPT !.current = @ - 1, !.old = @ - 1, !.new = @ + 1])
  BY <1>1, Names DEF IsRecord, IsObject, HasNumbers
<1>4. LET v == [p EXCEPT !.current = @ - 1, !.old = @ - 1, !.new = @ + 1]
      IN  /\ v.current = w.old - 1 /\ v.replicas = w.replicas
          /\ v.gen = w.gen /\ v.obs = w.gen
          /\ v.old = w.old - 1 /\ v.bound = w.bound
  BY <1>1, Names DEF IsRecord, IsObject
<1>5. Replaced(w) = [p EXCEPT !.current = @ - 1, !.old = @ - 1, !.new = @ + 1]
  BY DEF Replaced, p
<1>6. StatusTells(kind, Replaced(w))
  BY <1>1, <1>4, <1>5 DEF StatusTells, HasNumbers
<1>7. Replaced(w).old <= w.old /\ Replaced(w).bound = w.bound
  BY <1>1, <1>4, <1>5 DEF HasNumbers
<1> QED
  BY <1>2, <1>3, <1>5, <1>6, <1>7 DEF IsObject

-----------------------------------------------------------------------------
(* The invariant.                                                           *)

\* One object is replaced by another that is right.
LEMMA OneChanges ==
  ASSUME ClusterInv, NEW k \in Keys, NEW v, IsObject(v),
         StatusTells(Kind[k], v), cluster' = [cluster EXCEPT ![k] = v]
  PROVE  ClusterInv'
<1>1. cluster'[k] = v /\ \A j \in Keys : j # k => cluster'[j] = cluster[j]
  BY DEF ClusterInv
<1>2. cluster' = [j \in Keys |-> cluster'[j]]
  BY DEF ClusterInv
<1> QED
  BY <1>1, <1>2 DEF ClusterInv

\* What the cluster makes of object k by itself: an object that is right, with
\* no more old pods and the same address, if it has one.
Works(k, v) ==
  /\ cluster[k] # NoObject
  /\ cluster' = [cluster EXCEPT ![k] = v]
  /\ IsObject(v) /\ StatusTells(Kind[k], v)
  /\ v.old <= cluster[k].old
  /\ cluster[k].bound # "no" => v.bound = cluster[k].bound

\* In particular one whose pods alone are different.
LEMMA PodsChange ==
  ASSUME ClusterInv, NEW k \in Keys, cluster[k] # NoObject, NEW v, IsObject(v),
         PodsOnly(cluster[k], v), cluster' = [cluster EXCEPT ![k] = v],
         cluster[k].bound # "no" => v.bound = cluster[k].bound
  PROVE  Works(k, v)
<1>1. IsObject(cluster[k]) /\ StatusTells(Kind[k], cluster[k])
  BY DEF ClusterInv
<1>2. StatusTells(Kind[k], v) /\ v.old <= cluster[k].old
  BY <1>1, PodsTell DEF IsObject, PodsOnly
<1> QED
  BY <1>2 DEF Works

\* Every step of a controller, of a kubelet or of what binds objects is one.
LEMMA ClusterStep ==
  ASSUME ClusterInv, NEW k \in Keys, NEW b, Controller(k) \/ Bind(k, b)
  PROVE  \E v : Works(k, v)
<1> DEFINE w == cluster[k]
<1>1. w # NoObject /\ IsObject(w) /\ StatusTells(Kind[k], w)
  BY DEF ClusterInv, Controller, Sync, CreatePod, RetirePod, DeletePod,
         PodStarts, Bind
<1>a. w # NoObject /\ IsRecord(w) /\ HasNumbers(w)
  BY <1>1 DEF IsObject
<1>2. CASE Sync(k)
  <2>1. CASE Kind[k] = "StatefulSet" /\ w.old > 0 /\ w.old + w.up = w.replicas
    <3>1. cluster' = [cluster EXCEPT ![k] = Replaced(w)]
      BY <1>2, <2>1 DEF Sync, Replaced
    <3> QED
      BY <1>1, <2>1, <3>1, ReplacedTells DEF Works
  <2>2. CASE ~(Kind[k] = "StatefulSet" /\ w.old > 0 /\ w.old + w.up = w.replicas)
    <3>1. cluster' = [cluster EXCEPT ![k] = Published(w)]
      BY <1>2, <2>2 DEF Sync
    <3>2. IsObject(Published(w))
      BY <1>1, PublishedFields
    <3>3. Kind[k] = "StatefulSet" => w.old = 0 \/ w.old + w.up # w.replicas
      BY <1>a, <2>2 DEF HasNumbers
    <3>4. StatusTells(Kind[k], Published(w))
      BY <1>1, <3>3, PublishedTells
    <3>5. Published(w).old = w.old /\ Published(w).bound = w.bound
      BY <1>1, PublishedFields
    <3>6. Works(k, Published(w))
      BY <1>1, <1>a, <3>1, <3>2, <3>4, <3>5 DEF Works, HasNumbers
    <3> QED
      BY <3>6
  <2> QED
    BY <2>1, <2>2
<1>3. CASE CreatePod(k)
  <2> DEFINE v == [w EXCEPT !.new = @ + 1]
  <2>1. cluster' = [cluster EXCEPT ![k] = v]
    BY <1>3 DEF CreatePod
  <2>2. IsRecord(v)
    BY <1>a, Names DEF IsRecord
  <2>3. HasNumbers(v) /\ PodsOnly(w, v) /\ (w.bound # "no" => v.bound = w.bound)
    BY <1>a, Names DEF IsRecord, HasNumbers, PodsOnly
  <2> QED
    BY <1>1, <2>1, <2>2, <2>3, PodsChange DEF IsObject
<1>4. CASE RetirePod(k)
  <2> DEFINE v == [w EXCEPT !.old = @ - 1]
  <2>1. cluster' = [cluster EXCEPT ![k] = v] /\ w.old > 0
    BY <1>4 DEF RetirePod
  <2>2. IsRecord(v)
    BY <1>a, Names DEF IsRecord
  <2>3. HasNumbers(v) /\ PodsOnly(w, v) /\ (w.bound # "no" => v.bound = w.bound)
    BY <1>a, <2>1, Names DEF IsRecord, HasNumbers, PodsOnly
  <2> QED
    BY <1>1, <2>1, <2>2, <2>3, PodsChange DEF IsObject
<1>5. CASE DeletePod(k)
  <2>1. CASE w.new > 0
    <3> DEFINE v == [w EXCEPT !.new = @ - 1]
    <3>1. cluster' = [cluster EXCEPT ![k] = v]
      BY <1>5, <2>1 DEF DeletePod
    <3>2. IsRecord(v)
      BY <1>a, Names DEF IsRecord
    <3>3. HasNumbers(v) /\ PodsOnly(w, v) /\ (w.bound # "no" => v.bound = w.bound)
      BY <1>a, <2>1, Names DEF IsRecord, HasNumbers, PodsOnly
    <3> QED
      BY <1>1, <3>1, <3>2, <3>3, PodsChange DEF IsObject
  <2>2. CASE ~(w.new > 0)
    <3> DEFINE v == [w EXCEPT !.up = @ - 1]
    <3>1. cluster' = [cluster EXCEPT ![k] = v] /\ w.new + w.up > w.replicas
      BY <1>5, <2>2 DEF DeletePod
    <3>2. IsRecord(v)
      BY <1>a, Names DEF IsRecord
    <3>3. w.up > 0
      BY <1>a, <2>2, <3>1 DEF HasNumbers
    <3>4. HasNumbers(v) /\ PodsOnly(w, v) /\ (w.bound # "no" => v.bound = w.bound)
      BY <1>a, <3>3, Names DEF IsRecord, HasNumbers, PodsOnly
    <3> QED
      BY <1>1, <3>1, <3>2, <3>4, PodsChange DEF IsObject
  <2> QED
    BY <2>1, <2>2
<1>6. CASE PodStarts(k)
  <2> DEFINE v == [w EXCEPT !.new = @ - 1, !.up = @ + 1]
  <2>1. cluster' = [cluster EXCEPT ![k] = v] /\ w.new > 0
    BY <1>6 DEF PodStarts, ClusterInv
  <2>2. IsRecord(v)
    BY <1>a, Names DEF IsRecord
  <2>3. HasNumbers(v) /\ PodsOnly(w, v) /\ (w.bound # "no" => v.bound = w.bound)
    BY <1>a, <2>1, Names DEF IsRecord, HasNumbers, PodsOnly
  <2> QED
    BY <1>1, <2>1, <2>2, <2>3, PodsChange DEF IsObject
<1>7. CASE Bind(k, b)
  <2> DEFINE v == [w EXCEPT !.bound = b]
  <2>1. cluster' = [cluster EXCEPT ![k] = v]
    BY <1>7 DEF Bind
  <2>2. IsRecord(v)
    BY <1>a, Names DEF IsRecord
  <2>3. HasNumbers(v) /\ PodsOnly(w, v) /\ (w.bound # "no" => v.bound = w.bound)
    BY <1>7, <1>a, Names DEF IsRecord, HasNumbers, PodsOnly, Bind
  <2> QED
    BY <1>1, <2>1, <2>2, <2>3, PodsChange DEF IsObject
<1> QED
  BY <1>2, <1>3, <1>4, <1>5, <1>6, <1>7 DEF Controller

\* A step of the cluster or of a user keeps the invariant.
LEMMA ClusterInvStep ==
  ASSUME ClusterInv, NEW k \in Keys, Controller(k) \/ Bind(k, "ip") \/ Change(k)
  PROVE  ClusterInv'
<1>1. CASE Controller(k) \/ Bind(k, "ip")
  BY <1>1, ClusterStep, OneChanges DEF Works
<1>2. CASE Change(k)
  <2> DEFINE w == cluster[k]
  <2>1. IsObject(w) /\ StatusTells(Kind[k], w)
    BY <1>2 DEF ClusterInv, Change
  <2>2. PICK r \in Replicas[k] :
          cluster' \in {[cluster EXCEPT ![k] = Updated(w, r)],
                        [cluster EXCEPT ![k] = Scaled(w, r)]}
    BY <1>2 DEF Change
  <2>3. r \in Nat
    BY ClusterAssumption
  <2>4. /\ IsObject(Updated(w, r)) /\ StatusTells(Kind[k], Updated(w, r))
        /\ IsObject(Scaled(w, r)) /\ StatusTells(Kind[k], Scaled(w, r))
    BY <2>1, <2>3, ChangedTells
  <2> QED
    BY <2>2, <2>4, OneChanges
<1> QED
  BY <1>1, <1>2

\* The inductive invariant holds.
THEOREM ClusterInvariant == OneObject /\ [][CNext]_cluster => []ClusterInv
<1>1. OneObject => ClusterInv
  <2> SUFFICES ASSUME OneObject PROVE ClusterInv
    OBVIOUS
  <2>1. PICK k \in Keys : \E r \in Replicas[k] :
          cluster = [[x \in Keys |-> NoObject] EXCEPT ![k] = Fresh(r)]
    BY DEF OneObject
  <2>a. PICK r \in Replicas[k] :
          cluster = [[x \in Keys |-> NoObject] EXCEPT ![k] = Fresh(r)]
    BY <2>1
  <2>2. r \in Nat
    BY ClusterAssumption
  <2> QED
    BY <2>a, <2>2, FreshTells DEF ClusterInv
<1>2. ClusterInv /\ [CNext]_cluster => ClusterInv'
  BY ClusterInvStep DEF CNext, ClusterInv
<1> QED
  BY <1>1, <1>2, PTL

-----------------------------------------------------------------------------
(* IsReady on what kubectl prints.                                          *)

\* A Deployment that is ready has a status about its present specification,
\* which says that the rollout is complete.
LEMMA DeploymentReady ==
  ASSUME NEW w, HasNumbers(w), deploymentIsReady(Printed("Deployment", w))
  PROVE  w.obs = w.gen /\ w.complete
<1> DEFINE o == Printed("Deployment", w)
<1>1. \A f \in DOMAIN o : o[f] = Fields("Deployment", w)[f]
  BY DEF Printed, Restrict
<1>2. o.observedGeneration = o.generation
      /\ "observedGeneration" \in DOMAIN o /\ "generation" \in DOMAIN o
  BY DEF deploymentIsReady, Observed, Same, Has
<1>3. w.obs = w.gen /\ w.obs # 0
  BY <1>1, <1>2 DEF Printed, Restrict, Fields, OmitEmpty
<1>4. /\ "conditions" \in DOMAIN o /\ \A c \in o.conditions : ConditionOK(c)
      /\ o.conditions = Conditions("Deployment", w)
  BY <1>1 DEF deploymentIsReady, Has, Fields
<1>5. w.obs > 0
  BY <1>3 DEF HasNumbers
<1>6. [type |-> "Progressing", status |-> "True",
       reason |-> IF w.complete THEN "NewReplicaSetAvailable"
                  ELSE "ReplicaSetUpdated"] \in o.conditions
  BY <1>4, <1>5 DEF Conditions
<1>7. w.complete
  BY <1>4, <1>6 DEF ConditionOK, HasNumbers
<1> QED
  BY <1>3, <1>7

\* A StatefulSet that is ready has one that counts as many current and as many
\* available pods as it wants.
LEMMA StatefulSetReady ==
  ASSUME NEW w, statefulSetIsReady(Printed("StatefulSet", w))
  PROVE  w.obs = w.gen /\ w.current = w.replicas /\ w.avail = w.replicas
<1> DEFINE o == Printed("StatefulSet", w)
<1>1. \A f \in DOMAIN o : o[f] = Fields("StatefulSet", w)[f]
  BY DEF Printed, Restrict
<1>2. /\ {"observedGeneration", "generation", "readyReplicas",
          "currentReplicas", "replicas"} \subseteq DOMAIN o
      /\ o["observedGeneration"] = o["generation"]
      /\ o["readyReplicas"] = o["replicas"]
      /\ o["currentReplicas"] = o["replicas"]
  BY DEF statefulSetIsReady, Observed, Same, Has
<1> QED
  BY <1>1, <1>2 DEF Fields

\* What is ready has rolled out.
LEMMA ReadyTells ==
  ASSUME ClusterInv, NEW k \in Keys, Kind[k] \in {"Deployment", "StatefulSet"}, Ready(k)
  PROVE  cluster[k].old = 0
<1>1. /\ HasNumbers(cluster[k]) /\ StatusTells(Kind[k], cluster[k])
      /\ IsReady(Kind[k], Printed(Kind[k], cluster[k]))
  BY DEF ClusterInv, Ready, IsObject
<1>2. CASE Kind[k] = "Deployment"
  BY <1>1, <1>2, DeploymentReady DEF IsReady, StatusTells
<1>3. CASE Kind[k] = "StatefulSet"
  BY <1>1, <1>3, StatefulSetReady DEF IsReady, StatusTells
<1> QED
  BY <1>2, <1>3

\* IsReady does not call a Deployment or a StatefulSet ready while pods of an
\* earlier template run, whichever status it happens to see: neither the one of
\* an earlier specification nor one published half way through a rollout.
THEOREM ClusterReadyMeansRolledOut == CSpec => []ReadyMeansRolledOut
<1>1. ClusterInv => ReadyMeansRolledOut
  BY ReadyTells DEF ReadyMeansRolledOut
<1> QED
  BY <1>1, ClusterInvariant, PTL DEF CSpec
=============================================================================
