----------------------------- MODULE GkeObjects -----------------------------
(***************************************************************************)
(* gke-deploy/core/resource and core/image, as deployer.Prepare uses them:  *)
(* what is done to a list of configuration documents between reading them   *)
(* and saving the suggested ones (Suggest), and between those and the       *)
(* expanded ones (Expand).  Nothing here has state.                         *)
(*                                                                          *)
(* A document is a record: its kind, name and namespace, its labels, the    *)
(* labels of its pod template, its selector (a set of <<key, value>>), the  *)
(* images of its containers, and of an Application its links and the kinds  *)
(* it groups.  "" stands for what is not set.  An image is its name and a   *)
(* reference: "" for none, a tag, or a digest; its name is short, the last  *)
(* part of itself.  Left out are annotations, which are added as custom     *)
(* labels are, comments, and the version an Application describes.          *)
(***************************************************************************)
EXTENDS Naturals, Sequences, FiniteSets

CONSTANTS CustomKeys   \* label keys other than the three of Prepare

NameKey == "app.kubernetes.io/name"
VersionKey == "app.kubernetes.io/version"
ManagedByKey == "app.kubernetes.io/managed-by"
Reserved == {NameKey, VersionKey, ManagedByKey}
LabelKeys == CustomKeys \cup Reserved
ManagedBy == "gcp-cloud-build-deploy"

\* "app" is the key of the Deployments Prepare makes.  (That a literal is a
\* string the provers are told here.)
ASSUME ObjectsAssumption ==
  /\ "app" \in CustomKeys
  /\ LabelKeys \cup {"", "default", ManagedBy, "Deployment", "HorizontalPodAutoscaler",
                    "Service", "Application", "Namespace"} \subseteq STRING

Map(Op(_), s) == [i \in DOMAIN s |-> Op(s[i])]

NoLabels == [k \in LabelKeys |-> ""]
Templated == {"CronJob", "DaemonSet", "Deployment", "Job", "ReplicaSet",
              "ReplicationController", "StatefulSet"}
WithContainers == Templated \cup {"Pod"}

\* What a document may be: a selector asks for a value, and what has no
\* containers has no images.
Document ==
  {o \in [kind : STRING, name : STRING, ns : STRING,
          labels : [LabelKeys -> STRING], template : [LabelKeys -> STRING],
          selector : SUBSET (LabelKeys \X STRING),
          images : Seq([name : STRING, ref : STRING]),
          links : Seq(STRING), kinds : SUBSET STRING] :
     /\ o.kind \notin WithContainers => o.images = <<>>
     /\ \A s \in o.selector : s[2] # ""}

\* A workload selects the pods it makes.
SelectsItsPods(o) ==
  o.kind \in Templated => \A s \in o.selector : o.template[s[1]] = s[2]

Object(kind, name) ==
  [kind |-> kind, name |-> name, ns |-> "", labels |-> NoLabels,
   template |-> NoLabels, selector |-> {}, images |-> <<>>,
   links |-> <<>>, kinds |-> {}]

\* Mutated form of HasObject: nothing is found.
HasNoObject(objs, kind, name) == FALSE

HasObject(objs, kind, name) ==
  \E i \in DOMAIN objs : objs[i].kind = kind /\ objs[i].name = name

-----------------------------------------------------------------------------
(* The objects Prepare makes up.                                            *)

CreateDeployment(image) ==
  [Object("Deployment", image) EXCEPT
     !.template["app"] = image, !.selector = {<<"app", image>>},
     !.images = <<[name |-> image, ref |-> ""]>>]

CreateHorizontalPodAutoscaler(image) ==
  Object("HorizontalPodAutoscaler", image \o "-hpa")

CreateNamespace(name) == Object("Namespace", name)

ServiceName(app) == app \o "-service"
CreateService(app) ==
  [Object("Service", ServiceName(app)) EXCEPT !.selector = {<<NameKey, app>>}]

CreateApplication(app, objs) ==
  [Object("Application", app) EXCEPT
     !.selector = {<<NameKey, app>>},
     !.kinds = {objs[i].kind : i \in DOMAIN objs} \ {"Namespace", "Application"}]

-----------------------------------------------------------------------------
(* What is done to one document.                                            *)

\* Mutated form of AddToMap: a label that is set already is overridden.
AddToMapAlways(m, key, value, override) == [m EXCEPT ![key] = value]

AddToMap(m, key, value, override) ==
  IF m[key] # "" /\ ~override THEN m ELSE [m EXCEPT ![key] = value]

\* The pod template of a workload gets the label too.
AddLabel(obj, key, value, override) ==
  [obj EXCEPT
     !.labels = AddToMap(@, key, value, override),
     !.template = IF obj.kind \in Templated
                  THEN AddToMap(@, key, value, override) ELSE @]

\* Mutated form of WithImage: only the first container is looked at.
FirstWithImage(obj, name, ref) ==
  [obj EXCEPT !.images =
     [i \in DOMAIN @ |-> IF i = 1 /\ @[i].name = name
                         THEN [name |-> name, ref |-> ref] ELSE @[i]]]

WithImage(obj, name, ref) ==
  [obj EXCEPT !.images =
     [i \in DOMAIN @ |-> IF @[i].name = name
                         THEN [name |-> name, ref |-> ref] ELSE @[i]]]

UpdateMatchingContainerImage(objs, name, ref) ==
  Map(LAMBDA o : IF o.kind \in WithContainers THEN WithImage(o, name, ref) ELSE o,
      objs)

\* Mutated form of UpdateNamespace: a namespace that is set is left alone.
UpdateNamespaceIfMissing(objs, ns) ==
  Map(LAMBDA o : IF o.ns = "" THEN [o EXCEPT !.ns = ns] ELSE o, objs)

UpdateNamespace(objs, ns) == Map(LAMBDA o : [o EXCEPT !.ns = ns], objs)

AddNamespaceIfMissing(objs, ns) ==
  Map(LAMBDA o : IF o.ns = "" THEN [o EXCEPT !.ns = ns] ELSE o, objs)

SetApplicationLinks(obj, links) ==
  IF obj.kind = "Application" THEN [obj EXCEPT !.links = links] ELSE obj

-----------------------------------------------------------------------------
(* Prepare, up to the suggested documents.  f holds the flags of a command. *)

\* Without configuration files the image is deployed by documents of our own.
BaseObjects(f, objs) ==
  IF f.image = "" THEN objs
  ELSE UpdateMatchingContainerImage(
         IF f.file # <<>> THEN objs
         ELSE objs \o <<CreateDeployment(f.image),
                        CreateHorizontalPodAutoscaler(f.image)>>,
         f.image, "")

AddService(f, objs) ==
  IF f.app # "" /\ f.expose /\ ~HasObject(objs, "Service", ServiceName(f.app))
  THEN Append(objs, CreateService(f.app)) ELSE objs

AddApplication(f, objs) ==
  IF f.app # "" /\ f.cr /\ ~HasObject(objs, "Application", f.app)
  THEN Append(objs, CreateApplication(f.app, objs)) ELSE objs

AddNamespace(f, objs) ==
  IF f.namespace \notin {"", "default"} /\ ~HasObject(objs, "Namespace", f.namespace)
  THEN Append(objs, CreateNamespace(f.namespace)) ELSE objs

LabelName(f, obj) ==
  IF obj.kind = "Namespace" \/ f.app = "" THEN obj
  ELSE AddLabel(obj, NameKey, f.app, FALSE)

Suggest(f, objs) ==
  Map(LAMBDA o : LabelName(f, o),
      AddNamespace(f, AddApplication(f, AddService(f, BaseObjects(f, objs)))))

-----------------------------------------------------------------------------
(* Prepare, from there to the expanded documents.                           *)

LabelVersion(f, obj) ==
  IF obj.kind = "Namespace" \/ f.version = "" THEN obj
  ELSE AddLabel(obj, VersionKey, f.version, FALSE)

\* The --label flags, <<key, value>> each, as a map: the last one of a key wins.
CreateMap(labels) ==
  [k \in {labels[i][1] : i \in DOMAIN labels} |->
     labels[CHOOSE i \in DOMAIN labels :
              labels[i][1] = k /\ \A j \in DOMAIN labels : labels[j][1] = k => j <= i][2]]

LabelCustom(f, obj) ==
  LET custom == CreateMap(f.labels)
      Put(m) == [k \in LabelKeys |-> IF k \in DOMAIN custom THEN custom[k] ELSE m[k]]
  IN  [obj EXCEPT !.labels = Put(@),
                  !.template = IF obj.kind \in Templated THEN Put(@) ELSE @]

ExpandObject(f, obj) ==
  SetApplicationLinks(
    LabelCustom(f, AddLabel(LabelVersion(f, obj), ManagedByKey, ManagedBy, TRUE)),
    f.links)

ExpandNamespace(f, objs) ==
  IF f.namespace # "" THEN UpdateNamespace(objs, f.namespace)
  ELSE AddNamespaceIfMissing(objs, "default")

ExpandImage(f, objs, digest) ==
  IF f.image = "" THEN objs
  ELSE UpdateMatchingContainerImage(objs, f.image, digest)

Expand(f, objs, digest) ==
  Map(LAMBDA o : ExpandObject(f, o), ExpandNamespace(f, ExpandImage(f, objs, digest)))

\* The three labels of Prepare have flags of their own, or none.
LabelsAllowed(f) == DOMAIN CreateMap(f.labels) \cap Reserved = {}
=============================================================================
