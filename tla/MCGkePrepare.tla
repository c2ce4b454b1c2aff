---------------------------- MODULE MCGkePrepare ----------------------------
(* Instances of GkePrepare for TLC. *)
EXTENDS GkePrepare, TLC

CONSTANTS b1, b2

TwoBuilds == {b1, b2}
OutputPaths(root) == <<Append(root, "expanded"), Append(root, "suggested")>>
Out == <<"output">>
Out2 == <<"output2">>
GsOut == <<"gs://", "output">>
AllPaths == <<Configs>> \o OutputPaths(Out) \o OutputPaths(Out2) \o OutputPaths(GsOut)

Web(r) == <<[name |-> "web", ref |-> r]>>
Side(r) == <<[name |-> "side", ref |-> r]>>
Own(kind, name, sel) ==
  [Object(kind, name) EXCEPT
     !.selector = {<<k, sel[k]>> : k \in DOMAIN sel},
     !.template = [k \in LabelKeys |-> IF k \in DOMAIN sel THEN sel[k] ELSE ""]]

\* A plain configuration; one whose labels and names stand in the way of
\* Prepare's; one with a Namespace and an Application of its own.
Plain == <<[Own("Deployment", "web", "app" :> "web")
             EXCEPT !.images = Side("1.0") \o Web("1.0")],
           [Own("CronJob", "sweep", <<>>) EXCEPT !.images = Web("1.0") \o Web("")]>>
Labelled == <<[Own("StatefulSet", "web", (NameKey :> "old") @@ (VersionKey :> "v0")
                                           @@ (ManagedByKey :> "helm")) EXCEPT
                 !.images = Web("latest"), !.ns = "other"],
              [Object("Service", "shop-service") EXCEPT !.selector = {<<NameKey, "old">>}]>>
Grouped == <<[Object("Application", "shop") EXCEPT !.links = <<"wiki">>],
             Object("Namespace", "team"),
             [Object("Pod", "web") EXCEPT !.images = Web("sha0")]>>
Configurations == {Plain, Labelled, Grouped}

Run == [cmd |-> "run", image |-> "web", app |-> "shop", version |-> "v1",
        file |-> Configs, output |-> Out, namespace |-> "",
        labels |-> <<>>, cluster |-> FALSE, location |-> FALSE,
        expose |-> TRUE, cr |-> FALSE, links |-> <<>>, recursive |-> FALSE]
PrepareTo(o) == [Run EXCEPT !.cmd = "prepare", !.output = o]
ApplyOf(p) == [Run EXCEPT !.cmd = "apply", !.file = p]
One(s) == [b \in Builds |-> IF b = b1 THEN s ELSE <<>>]

\* One command with most combinations of its flags.
Alone ==
  {One(<<[Run EXCEPT !.image = im, !.app = a, !.version = v, !.file = f, !.namespace = ns,
                     !.labels = l, !.expose = x, !.cr = x, !.links = ln]>>) :
     im \in {"", "web"}, a \in {"", "shop"}, v \in {"", "v1"}, f \in {<<>>, Configs},
     ns \in {"", "default", "team"}, x \in BOOLEAN, ln \in {<<>>, <<"docs">>},
     l \in {<<>>, <<<<"tier", "back">>, <<"app", "mine">>, <<"tier", "front">>>>,
            <<<<VersionKey, "v9">>>>}}

\* Commands that go on from the output of one before, in one workspace.
Chained ==
  {One(<<PrepareTo(Out), c>>) :
     c \in {[Run EXCEPT !.file = Suggested(PrepareTo(Out)), !.output = Out2],
            [Run EXCEPT !.file = Out, !.recursive = TRUE, !.output = Out2],
            Run, [Run EXCEPT !.cluster = TRUE],
            ApplyOf(Expanded(PrepareTo(Out))), [ApplyOf(Out) EXCEPT !.recursive = TRUE]}}

\* Two builds with outputs in Cloud Storage, in one place or in two, and one
\* whose configuration is what the other has suggested.
Shared ==
  {b1 :> <<[Run EXCEPT !.output = GsOut]>> @@
   b2 :> <<[Run EXCEPT !.output = o, !.namespace = "team", !.file = f, !.recursive = r]>> :
     o \in {GsOut, Out}, f \in {<<>>, Append(Suggested([output |-> GsOut]), "*"), GsOut},
     r \in BOOLEAN}

AllPlans == Alone \cup Chained \cup Shared
=============================================================================
