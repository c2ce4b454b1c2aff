------------------------------ MODULE GkeApply ------------------------------
(***************************************************************************)
(* gke-deploy/deployer/deployer.go: Apply, with the command that calls it   *)
(* and the packages it calls (cluster, crd, gcp, services), on a cluster    *)
(* that works on while it runs.                                             *)
(*                                                                          *)
(* Every command Apply runs (kubectl, gcloud, gsutil) is a step, and the    *)
(* controllers of the cluster take theirs in between.  A configuration is a *)
(* sequence of documents; a document asks for an object, in a version of    *)
(* its template and with a number of replicas.                              *)
(***************************************************************************)
EXTENDS GkeCluster, Sequences, SequencesExt

CONSTANTS
  Calls,      \* the calls of Apply: flags and configuration
  Existing,   \* sets of documents that may have been applied long ago
  KindOrder,  \* kinds in alphabetical order
  NameOrder,  \* names in alphabetical order
  Addresses,  \* what a load balancer may get: "ip", "host"
  CRD,        \* the key of the Application CRD
  Failures,   \* TRUE: any command may fail
  Others      \* what other users may do meanwhile: "create", "delete"

VARIABLES
  call,      \* the call of Apply
  pc,        \* where Apply stands
  context,   \* the cluster kubectl talks to: the "current" one or the "given"
  todo,      \* what the loop that runs has still to visit
  objs,      \* the documents after that loop
  ensured,   \* ensuredInstallApplicationCRD
  deployed,  \* deployedObjs: what was seen last, by kind and name
  late,      \* the end of the timeout is past
  timedOut,  \* timedOut
  result,    \* what Apply returns: "ok", "timeout" (the last error) or "error"
  spec,      \* spec[k]: the document object k was made from
  used,      \* contexts in which kubectl was run
  disturbed, \* a command failed, or another user deleted an object
  readied    \* objects that Apply saw ready

deployerVars == <<pc, context, todo, objs, ensured, deployed, timedOut, result,
                  used, readied>>
avars == <<call, cluster, spec, late, disturbed, deployerVars>>

Documents ==
  [kind : Range(KindOrder), name : Range(NameOrder), ns : STRING,
   ver : Nat \ {0}, replicas : Nat]
NoDoc == [kind |-> "none"]

\* kubectl -n wins over the document; neither means the default namespace.
\* Namespaces and CRDs are in none.
KeyIn(namespace, d) ==
  <<d.kind, d.name,
    IF d.kind \in {"Namespace", "CustomResourceDefinition"} THEN ""
    ELSE IF namespace # "" THEN namespace
    ELSE IF d.ns # "" THEN d.ns ELSE "default">>
Key(d) == KeyIn(call.namespace, d)

ASSUME ApplyAssumption ==
  /\ KindOrder \in Seq(STRING) /\ NameOrder \in Seq(STRING)
  /\ \A c \in Calls :
       /\ c.config \in Seq(Documents)
       /\ \A d \in Range(c.config) : KeyIn(c.namespace, d) \in Keys
  /\ UNION Existing \subseteq Documents
  /\ \A k \in Keys : Kind[k] = k[1]
  /\ CRD \in Keys /\ CRD[1] = "CustomResourceDefinition"

Rank(s, x) == CHOOSE i \in DOMAIN s : s[i] = x

\* sortObjectsByKindAndName.
Before(d, e) ==
  \/ Rank(KindOrder, d.kind) < Rank(KindOrder, e.kind)
  \/ d.kind = e.kind /\ Rank(NameOrder, d.name) < Rank(NameOrder, e.name)

IsNamespace(d) == d.kind = "Namespace"
NotNamespace(d) == d.kind # "Namespace"

\* The i-th document visited is the p[i]-th of the files: first the namespaces,
\* m of them, then the others, both sorted, by a sort that is stable.
InOrder(p, m) ==
  LET doc(i) == call.config[p[i]]
  IN  /\ \A i \in DOMAIN p : IsNamespace(doc(i)) <=> i <= m
      /\ \A i, j \in DOMAIN p : i < j /\ (j <= m \/ m < i) =>
           ~Before(doc(j), doc(i)) /\ (Before(doc(i), doc(j)) \/ p[i] < p[j])

\* An object that was applied long ago: all is done.
Settled(d) ==
  [Published([Fresh(d.replicas) EXCEPT !.up = d.replicas]) EXCEPT !.bound = "ip"]

AInit ==
  /\ call \in Calls
  /\ \E old \in Existing :
       /\ spec = [k \in Keys |-> IF \E d \in old : Key(d) = k
                                 THEN CHOOSE d \in old : Key(d) = k ELSE NoDoc]
       /\ cluster = [k \in Keys |-> IF spec[k] = NoDoc THEN NoObject
                                    ELSE Settled(spec[k])]
  /\ pc = "flags" /\ context = "current"
  /\ todo = <<>> /\ objs = <<>>
  /\ ensured = FALSE
  /\ deployed = [x \in {<<k[1], k[2]>> : k \in Keys} |-> NoObject]
  /\ late = FALSE /\ timedOut = FALSE
  /\ result = "none"
  /\ used = {} /\ disturbed = FALSE /\ readied = {}

-----------------------------------------------------------------------------
(* Before the cluster is touched.                                           *)

Return(r) == pc' = "done" /\ result' = r
Goto(p) == pc' = p /\ UNCHANGED result

\* Mutated form of FlagsOK: the command does not ask for gcloud.
FlagsOKWithoutGcloud == call.cluster = call.location

\* The command and Apply both want a cluster with its location; the command
\* wants gcloud for them.
FlagsOK == call.cluster = call.location /\ (call.cluster => call.gcloud)

CheckFlags ==
  /\ pc = "flags"
  /\ IF FlagsOK THEN Goto("authorize") ELSE Return("error")
  /\ UNCHANGED <<call, disturbed, cluster, spec, late, context, todo, objs, ensured,
                 deployed, timedOut, used, readied>>

\* GetProject, which may only fail, and AuthorizeAccess.
Authorize ==
  /\ pc = "authorize"
  /\ context' = IF call.cluster /\ call.gcloud THEN "given" ELSE context
  /\ Goto("parse")
  /\ UNCHANGED <<call, disturbed, cluster, spec, late, todo, objs, ensured,
                 deployed, timedOut, used, readied>>

\* Download, if it is a gs:// path, and ParseConfigs; the list is sorted when
\* it is printed.  Namespaces come first.
Parse ==
  /\ pc = "parse"
  /\ IF call.config = <<>> THEN Return("error") ELSE Goto("namespaces")
  /\ \E p \in Bijection(DOMAIN call.config, DOMAIN call.config), m \in 0..Len(call.config) :
       LET sorted == [i \in DOMAIN call.config |-> call.config[p[i]]]
       IN  /\ InOrder(p, m)
           /\ todo' = SubSeq(sorted, 1, m)
           /\ objs' = SubSeq(sorted, m + 1, Len(sorted))
  /\ UNCHANGED <<call, disturbed, cluster, spec, late, context, ensured,
                 deployed, timedOut, used, readied>>

\* gcloud, gsutil or the reading of the files fails.
CommandFails ==
  /\ Failures
  /\ \/ pc = "authorize" /\ call.gcloud
     \/ pc = "parse"
  /\ Return("error")
  /\ disturbed' = TRUE
  /\ UNCHANGED <<call, cluster, spec, late, context, todo, objs, ensured,
                 deployed, timedOut, used, readied>>

-----------------------------------------------------------------------------
(* kubectl and the API server.                                              *)

Kubectl == used' = used \cup {context}
Exists(k) == cluster[k] # NoObject

\* The API server takes a document whose namespace is there and is not
\* another one than kubectl's, and whose kind it knows.
Accepts(d) ==
  /\ Key(d)[3] \notin {"", "default"} => Exists(<<"Namespace", Key(d)[3], "">>)
  /\ call.namespace # "" => d.ns \in {"", call.namespace}
  /\ d.kind = "Application" => Exists(CRD)

\* The API server makes object k from document d, or changes it.
Persist(k, d) ==
  /\ spec' = [spec EXCEPT ![k] = d]
  /\ cluster' = [cluster EXCEPT ![k] =
       IF @ = NoObject THEN Fresh(d.replicas)
       ELSE IF spec[k].ver # d.ver THEN Updated(@, d.replicas)
       ELSE IF spec[k].replicas # d.replicas THEN Scaled(@, d.replicas)
       ELSE @]

\* Mutated form of KubectlApply: a dry run is a run.
KubectlApplies(k, d) == Kubectl /\ Persist(k, d)

\* kubectl apply, with --dry-run=server in a dry run.
KubectlApply(k, d) ==
  /\ Kubectl
  /\ IF call.dryRun THEN UNCHANGED <<cluster, spec>> ELSE Persist(k, d)

\* What the URI of the Application CRD holds.
CRDDoc == [kind |-> CRD[1], name |-> CRD[2], ns |-> "", ver |-> 1, replicas |-> 0]

\* kubectl fails, or prints what cannot be decoded; an apply that fails may
\* have been carried out.
KubectlFails ==
  /\ Failures
  /\ \/ pc \in {"installCRD", "applyNamespace"}
     \/ pc \in {"namespaces", "apply", "get"} /\ todo # <<>>
  /\ \/ Kubectl /\ UNCHANGED <<cluster, spec>>
     \/ /\ pc \in {"applyNamespace", "apply"} /\ Accepts(Head(todo))
        /\ KubectlApply(Key(Head(todo)), Head(todo))
     \/ pc = "installCRD" /\ KubectlApply(CRD, CRDDoc)
  /\ Return("error")
  /\ disturbed' = TRUE
  /\ UNCHANGED <<call, late, context, todo, objs, ensured, deployed, timedOut,
                 readied>>

-----------------------------------------------------------------------------
(* Namespaces, then the other documents.                                    *)

\* Mutated form of Missing: what exists is applied, too.
MissingOrNot(k) == TRUE

Missing(k) == ~Exists(k)

\* DeployedObjectExists for the next namespace.
CheckNamespace ==
  /\ pc = "namespaces" /\ todo # <<>>
  /\ Kubectl
  /\ IF Missing(Key(Head(todo)))
       THEN Goto("applyNamespace") /\ UNCHANGED todo
       ELSE UNCHANGED <<pc, result>> /\ todo' = Tail(todo)
  /\ UNCHANGED <<call, disturbed, cluster, spec, late, context, objs, ensured,
                 deployed, timedOut, readied>>

ApplyNamespace ==
  /\ pc = "applyNamespace"
  /\ KubectlApply(Key(Head(todo)), Head(todo))
  /\ todo' = Tail(todo)
  /\ Goto("namespaces")
  /\ UNCHANGED <<call, disturbed, late, context, objs, ensured,
                 deployed, timedOut, readied>>

NamespacesDone ==
  /\ pc = "namespaces" /\ todo = <<>>
  /\ todo' = objs
  /\ Goto("apply")
  /\ UNCHANGED <<call, disturbed, cluster, spec, late, context, objs, ensured,
                 deployed, timedOut, used, readied>>

\* Mutated form of NeedsCRD: the cluster is taken to know the kind.
NeedsNoCRD(d) == FALSE

NeedsCRD(d) == d.kind = "Application" /\ ~ensured

\* EnsureInstallApplicationCRD, once: look, and install it from its URI.
EnsureCRD ==
  /\ pc = "apply" /\ todo # <<>> /\ NeedsCRD(Head(todo))
  /\ Kubectl
  /\ ensured' = TRUE
  /\ Goto(IF Exists(CRD) THEN "apply" ELSE "installCRD")
  /\ UNCHANGED <<call, disturbed, cluster, spec, late, context, todo, objs,
                 deployed, timedOut, readied>>

InstallCRD ==
  /\ pc = "installCRD"
  /\ KubectlApply(CRD, CRDDoc)
  /\ Goto("apply")
  /\ UNCHANGED <<call, disturbed, late, context, todo, objs, ensured,
                 deployed, timedOut, readied>>

ApplyObject ==
  /\ pc = "apply" /\ todo # <<>> /\ ~NeedsCRD(Head(todo))
  /\ IF Accepts(Head(todo))
       THEN /\ KubectlApply(Key(Head(todo)), Head(todo))
            /\ todo' = Tail(todo)
            /\ UNCHANGED <<pc, result>>
       ELSE /\ Kubectl
            /\ Return("error")
            /\ UNCHANGED <<todo, cluster, spec>>
  /\ UNCHANGED <<call, disturbed, late, context, objs, ensured,
                 deployed, timedOut, readied>>

\* A dry run ends here; else objs are waited for, round by round.
ApplyDone ==
  /\ pc = "apply" /\ todo = <<>>
  /\ IF call.dryRun THEN Return("ok")
     ELSE Goto(IF objs = <<>> THEN "summary" ELSE "get")
  /\ todo' = objs
  /\ objs' = <<>>
  /\ UNCHANGED <<call, disturbed, cluster, spec, late, context, ensured,
                 deployed, timedOut, used, readied>>

-----------------------------------------------------------------------------
(* The wait; objs are the filteredObjs of the round.                        *)

GetObject ==
  /\ pc = "get" /\ todo # <<>>
  /\ Kubectl
  /\ LET d == Head(todo)
         k == Key(d)
     IN  \/ /\ ~Exists(k)
            /\ Return("error")
            /\ UNCHANGED <<todo, objs, deployed, readied>>
         \/ /\ Exists(k)
            /\ deployed' = [deployed EXCEPT ![<<d.kind, d.name>>] =
                              [key |-> k, obj |-> cluster[k]]]
            /\ todo' = Tail(todo)
            /\ \E ready \in {Ready(k)} :
                 /\ objs' = IF ready THEN objs ELSE Append(objs, d)
                 /\ readied' = IF ready THEN readied \cup {k} ELSE readied
            /\ UNCHANGED <<pc, result>>
  /\ UNCHANGED <<call, disturbed, cluster, spec, late, context, ensured, timedOut>>

\* Mutated form of TimeIsUp: the deadline is not looked at.
TimeIsNeverUp == FALSE

TimeIsUp == late

\* All are ready, or it is too late, or the ticker starts another round.
EndRound ==
  /\ pc = "get" /\ todo = <<>>
  /\ IF objs = <<>>
       THEN Goto("summary") /\ UNCHANGED <<todo, objs, timedOut>>
     ELSE IF TimeIsUp
       THEN Goto("summary") /\ timedOut' = TRUE /\ UNCHANGED <<todo, objs>>
       ELSE todo' = objs /\ objs' = <<>> /\ UNCHANGED <<pc, result, timedOut>>
  /\ UNCHANGED <<call, disturbed, cluster, spec, late, context, ensured,
                 deployed, used, readied>>

\* serviceIPs wants an ip in every entry of a load balancer.
SummaryOK ==
  \A x \in DOMAIN deployed :
    deployed[x] # NoObject /\ x[1] = "Service" => deployed[x].obj.bound # "host"

\* Mutated form of Verdict: the timeout is forgotten.
VerdictOk == "ok"

Verdict == IF timedOut THEN "timeout" ELSE "ok"

\* DeploySummary of what was seen last, then the verdict.
Summary ==
  /\ pc = "summary"
  /\ Return(IF SummaryOK THEN Verdict ELSE "error")
  /\ UNCHANGED <<call, disturbed, cluster, spec, late, context, todo, objs, ensured,
                 deployed, timedOut, used, readied>>

Apply ==
  \/ CheckFlags \/ Authorize \/ Parse
  \/ CheckNamespace \/ ApplyNamespace \/ NamespacesDone
  \/ EnsureCRD \/ InstallCRD \/ ApplyObject \/ ApplyDone
  \/ GetObject \/ EndRound \/ Summary

-----------------------------------------------------------------------------
(* The rest of the world, of interest until Apply returns.                  *)

Deadline ==
  /\ pc = "get" /\ ~late
  /\ late' = TRUE
  /\ UNCHANGED <<call, disturbed, cluster, spec, deployerVars>>

ClusterWorks ==
  /\ pc # "done"
  /\ \E k \in Keys : Controller(k) \/ (\E a \in Addresses : Bind(k, a))
  /\ UNCHANGED <<call, disturbed, spec, late, deployerVars>>

\* With a namespace goes what is in it, with the CRD every Application.
GoneWith(k) ==
  {k} \cup {j \in Keys : \/ Kind[k] = "Namespace" /\ j[3] = k[2]
                         \/ k = CRD /\ Kind[j] = "Application"}

Delete(k) ==
  /\ "delete" \in Others /\ pc # "done"
  /\ Exists(k)
  /\ cluster' = [j \in Keys |-> IF j \in GoneWith(k) THEN NoObject ELSE cluster[j]]
  /\ spec' = [j \in Keys |-> IF j \in GoneWith(k) THEN NoDoc ELSE spec[j]]
  /\ disturbed' = TRUE
  /\ UNCHANGED <<call, late, deployerVars>>

\* Another user's namespace is of version 0.
CreateNamespace(k) ==
  /\ "create" \in Others /\ pc # "done"
  /\ Kind[k] = "Namespace" /\ ~Exists(k)
  /\ Persist(k, [kind |-> k[1], name |-> k[2], ns |-> "", ver |-> 0, replicas |-> 0])
  /\ UNCHANGED <<call, disturbed, late, deployerVars>>

ANext ==
  \/ Apply \/ CommandFails \/ KubectlFails
  \/ Deadline \/ ClusterWorks
  \/ \E k \in Keys : Delete(k) \/ CreateNamespace(k)

\* Commands end, one way or the other, and time passes; the cluster need do
\* nothing.
ASpec == AInit /\ [][ANext]_avars /\ WF_avars(Apply) /\ WF_avars(Deadline)

-----------------------------------------------------------------------------
(* Properties.                                                              *)

\* The last document for key k, in the order of the files.
LastDoc(k) ==
  LET last == CHOOSE i \in DOMAIN call.config :
                /\ Key(call.config[i]) = k
                /\ \A j \in DOMAIN call.config : Key(call.config[j]) = k => j <= i
  IN  call.config[last]

Wanted == {Key(call.config[i]) :
             i \in {j \in DOMAIN call.config : NotNamespace(call.config[j])}}

\* When Apply returns without an error and nobody deleted anything, every
\* object is the one its last document asks for, and no pod of an earlier
\* template of a Deployment or a StatefulSet runs: though what Apply saw ready
\* was a status, published at some time, and it never looked again.
SuccessMeansDeployed ==
  result = "ok" /\ ~call.dryRun /\ ~disturbed =>
    \A k \in Wanted :
      /\ spec[k] = LastDoc(k)
      /\ Kind[k] \in {"Deployment", "StatefulSet"} => cluster[k].old = 0

OneDocumentEach ==
  \A i, j \in DOMAIN call.config :
    Key(call.config[i]) = Key(call.config[j]) => i = j

\* Success means that Apply saw every object ready, a timeout that the time
\* was over and that one of them it did not.  (An object with two documents is
\* looked at for each of them, and may get ready in between.)
ResultTellsReadiness ==
  /\ result = "ok" /\ ~call.dryRun => Wanted \subseteq readied
  /\ result = "timeout" => late /\ (OneDocumentEach => ~(Wanted \subseteq readied))

\* A call that can be carried out: its flags fit together, there are documents,
\* and the namespace of each is there or is one of them, and no other than -n.
Valid ==
  /\ FlagsOK
  /\ call.config # <<>>
  /\ \A d \in Range(call.config) :
       LET namespace == <<"Namespace", Key(d)[3], "">>
       IN  /\ \/ Key(d)[3] \in {"", "default"}
              \/ Exists(namespace) /\ spec[namespace] \in UNION Existing
              \/ namespace \in {Key(e) : e \in Range(call.config)}
           /\ call.namespace # "" => d.ns \in {"", call.namespace}

\* Apply returns an error for a reason only: a call that is not valid, a command
\* that failed, an object that was deleted, a Service with a host name for an
\* address.  Namespaces and the Application CRD are there before anything that
\* needs them is applied, in whatever order the files list them.
NoNeedlessError ==
  result = "error" /\ ~call.dryRun =>
    disturbed \/ ~Valid \/ \E k \in Wanted : Exists(k) /\ cluster[k].bound = "host"

\* A cluster that is named is the one that is used: kubectl is not run before
\* it has the credentials.
NamedClusterIsUsed == call.cluster => "current" \notin used

\* A dry run changes nothing in the cluster, neither by the documents nor by
\* the CRD that an Application makes it install.
DryRunChangesNothing ==
  [][call.dryRun /\ deployerVars' # deployerVars => UNCHANGED <<cluster, spec>>]_avars

\* A namespace that was there when Apply began is not changed by it, whatever
\* the files say of it, though other users may delete it and make it anew.  (One
\* that they make between Apply's look and its apply, Apply does change.)
NamespacesAreLeftAlone ==
  [][\A k \in Keys : Kind[k] = "Namespace" /\ spec[k] \in UNION Existing =>
       spec'[k] \in {spec[k], NoDoc}]_avars

\* Apply returns, also when objects never get ready.
ApplyReturns == <>(pc = "done")

-----------------------------------------------------------------------------
(* What the documentation says, and the code does not do.                   *)

\* "print a table displaying deployed resources": all of them.
SummaryShowsAll ==
  pc = "done" /\ result = "ok" /\ ~call.dryRun =>
    \A k \in Wanted : \E x \in DOMAIN deployed :
      deployed[x] # NoObject /\ deployed[x].key = k
=============================================================================
