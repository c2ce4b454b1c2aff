----------------------------- MODULE MCGkeApply -----------------------------
(* Small instances of GkeApply.                                             *)
EXTENDS GkeApply

Doc(kind, name, ns, ver, replicas) ==
  [kind |-> kind, name |-> name, ns |-> ns, ver |-> ver, replicas |-> replicas]

prod == Doc("Namespace", "prod", "", 1, 0)
prod2 == Doc("Namespace", "prod", "", 2, 0)
web1 == Doc("Deployment", "web", "prod", 1, 1)
web2 == Doc("Deployment", "web", "prod", 2, 1)
web3 == Doc("Deployment", "web", "prod", 3, 1)
webDefault == Doc("Deployment", "web", "", 2, 0)
db1 == Doc("StatefulSet", "db", "", 1, 2)
db2 == Doc("StatefulSet", "db", "", 2, 2)
svc == Doc("Service", "web", "", 1, 0)
app == Doc("Application", "web", "", 1, 0)
crd == Doc("CustomResourceDefinition", "applications", "", 1, 0)

Flags(cluster_, location_, gcloud_, dryRun_, namespace_, config_) ==
  [cluster |-> cluster_, location |-> location_, gcloud |-> gcloud_,
   dryRun |-> dryRun_, namespace |-> namespace_, config |-> config_]
Plain(config_) == Flags(TRUE, TRUE, TRUE, FALSE, "", config_)
DryRun(config_) == Flags(TRUE, TRUE, TRUE, TRUE, "", config_)

KindOf == [k \in Keys |-> k[1]]
CRDKey == <<"CustomResourceDefinition", "applications", "">>
ProdKey == <<"Namespace", "prod", "">>

AlphabeticalKinds ==
  <<"Application", "ConfigMap", "CustomResourceDefinition", "Deployment",
    "Namespace", "Service", "StatefulSet">>
AlphabeticalNames == <<"api", "applications", "db", "prod", "web">>

-----------------------------------------------------------------------------
(* Calls over a cluster that others use and that may fail.  The files list    *)
(* things in an inconvenient order.                                          *)

AllKeys ==
  {ProdKey, CRDKey, <<"Deployment", "web", "prod">>, <<"StatefulSet", "db", "default">>,
   <<"Application", "web", "default">>, <<"Service", "web", "default">>}
AllCalls ==
  {Plain(<<web2, prod2>>), Plain(<<web3, web2>>), Plain(<<db2>>),
   Plain(<<svc, app>>), Plain(<<>>), DryRun(<<web2>>), DryRun(<<app>>),
   Flags(TRUE, TRUE, FALSE, FALSE, "", <<svc>>),
   Flags(TRUE, FALSE, TRUE, FALSE, "", <<svc>>),
   Flags(FALSE, FALSE, FALSE, FALSE, "default", <<svc>>)}
AllExisting == {{}, {prod, web1, db1}, {prod, crd}}

-----------------------------------------------------------------------------
(* One name in two namespaces.                                               *)

TwoKeys ==
  {ProdKey, CRDKey, <<"Deployment", "web", "prod">>, <<"Deployment", "web", "default">>}
TwoCalls == {Plain(<<prod, web2, webDefault>>)}
NothingExists == {{}}

SomeReplicas == [k \in Keys |-> {0, 1, 2}]
=============================================================================
