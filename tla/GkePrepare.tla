----------------------------- MODULE GkePrepare -----------------------------
(***************************************************************************)
(* gke-deploy's commands prepare and run (cmd/prepare, cmd/run, cmd/common) *)
(* with deployer.Prepare and the start of Apply, up to the documents that   *)
(* are handed to kubectl; from there on GkeApply goes on.                   *)
(*                                                                          *)
(* A build runs its commands one after the other in a workspace of its own  *)
(* and ends with the first that fails.  Builds share Cloud Storage, and the *)
(* registry, in which a tag may be moved at any time.  A path is a sequence *)
(* of names, "gs://" the first of them when it is in Cloud Storage; a       *)
(* directory holds one configuration file or none.                          *)
(***************************************************************************)
EXTENDS GkeObjects, SequencesExt

CONSTANTS
  Builds,
  Plans,       \* what builds may run: [Builds -> sequences of commands]
  Sources,     \* configurations a build may find in the directory configs
  Paths,       \* directories, in the order a walk visits them: a sequence
  Digests,     \* what the tag of the image may stand for
  MaxPushes,   \* bound on how often the tag is moved
  GcloudInPath,
  Failures     \* TRUE: files, gsutil and the registry may fail

VARIABLES
  plan,        \* the commands of each build
  at,          \* at[b]: the one that runs
  pc,          \* pc[b]: where it stands
  objs,        \* objs[b]: its documents
  digest,      \* digest[b]: the digest it resolved the image to
  handed,      \* handed[b]: the documents it handed to kubectl
  tree,        \* tree[b]: the configuration in each directory of the workspace
  bucket,      \* the same for Cloud Storage
  made,        \* what was saved as expanded: <<directory, documents>>
  tag, pushes, \* the digest the tag stands for; how often it was moved
  stood        \* history: what it stood for since the command of b began

commandVars == <<at, pc, objs, digest, handed>>
registryVars == <<tag, pushes, stood>>
worldVars == <<tree, bucket, made, registryVars>>
pvars == <<plan, at, pc, objs, digest, handed,
           tree, bucket, made, tag, pushes, stood>>

Command(b) == plan[b][at[b]]
Dirs == {Paths[i] : i \in DOMAIN Paths}
Configs == <<"configs">>
NoDocs == <<>>

IsGcs(p) == p # <<>> /\ p[1] = "gs://"

Suggested(f) == Append(f.output, "suggested")

Expanded(f) == Append(f.output, "expanded")

\* A command and its flags.
Commands ==
  [cmd : {"apply", "prepare", "run"}, image : STRING, app : STRING, version : STRING,
   file : Seq(STRING), output : Seq(STRING), namespace : STRING,
   labels : Seq(STRING \X STRING), links : Seq(STRING), expose : BOOLEAN, cr : BOOLEAN,
   cluster : BOOLEAN, location : BOOLEAN, recursive : BOOLEAN]

\* No output in Cloud Storage is within the expanded documents of another.
ASSUME PrepareAssumption ==
  /\ \A s \in Sources : s \in Seq(Document) /\ \A i \in DOMAIN s : SelectsItsPods(s[i])
  /\ Paths \in Seq(Seq(STRING)) /\ IsInjective(Paths)
  /\ Digests \subseteq STRING
  /\ \A p \in Plans : p \in [Builds -> Seq(Commands)]
  /\ \A p \in Plans, b \in Builds : \A f \in Range(p[b]) :
       /\ Suggested(f) \in Dirs /\ Expanded(f) \in Dirs
       /\ \A d \in Dirs :
            IsGcs(f.output) /\ IsPrefix(Expanded(f), d) => d = Expanded(f)
       /\ f.image \o "-hpa" \in STRING /\ ServiceName(f.app) \in STRING

PInit ==
  /\ plan \in Plans
  /\ at = [b \in Builds |-> 1]
  /\ pc = [b \in Builds |-> IF plan[b] = <<>> THEN "idle" ELSE "start"]
  /\ objs = [b \in Builds |-> NoDocs]
  /\ digest = [b \in Builds |-> ""]
  /\ handed = [b \in Builds |-> NoDocs]
  /\ \E s \in Sources :
       tree = [b \in Builds |-> [d \in Dirs |-> IF d = Configs THEN s ELSE NoDocs]]
  /\ bucket = [d \in Dirs |-> NoDocs]
  /\ made = {}
  /\ tag \in Digests
  /\ pushes = 0
  /\ stood = [b \in Builds |-> {tag}]

-----------------------------------------------------------------------------
(* Files.                                                                   *)

\* Mutated form of ApplyConfig: all of the output.
ApplyConfigAll(f) == IF IsGcs(f.output) THEN Append(f.output, "*") ELSE f.output

\* What `run` gives to Apply.
ApplyConfig(f) == IF IsGcs(f.output) THEN Append(Append(f.output, "expanded"), "*")
                  ELSE Append(f.output, "expanded")

\* The directories whose files a path stands for.  gsutil copies a directory
\* as a whole, and only with -r; "*" stands for the files in it.
Reads(p, recursive, d) ==
  \/ Last(p) = "*" /\ d = Front(p)
  \/ Last(p) = "*" /\ recursive /\ IsPrefix(Front(p), d)
  \/ ~IsGcs(p) /\ d = p
  \/ recursive /\ IsPrefix(p, d)

\* The documents of the file in directory d, if there is one.
Documents(b, d) == IF IsGcs(d) THEN bucket[d] ELSE tree[b][d]

\* Download, for a path in Cloud Storage, and ParseConfigs.
Parse(b, p, recursive) ==
  FlattenSeq([i \in DOMAIN Paths |->
    IF Reads(p, recursive, Paths[i]) THEN Documents(b, Paths[i]) ELSE NoDocs])

\* SaveAsConfigs wants a directory with nothing in it, except that what goes
\* to Cloud Storage goes through a new temporary directory.
MaySave(b, d) ==
  IsGcs(d) \/ \A e \in Dirs : IsPrefix(d, e) => tree[b][e] = NoDocs

Save(b, d, docs) ==
  IF IsGcs(d)
  THEN bucket' = [bucket EXCEPT ![d] = docs] /\ UNCHANGED tree
  ELSE tree' = [tree EXCEPT ![b][d] = docs] /\ UNCHANGED bucket

-----------------------------------------------------------------------------
(* One command.                                                             *)

Goto(b, p) == pc' = [pc EXCEPT ![b] = p]

\* The checks of prepare, and those that run adds; apply's are in GkeApply.
PrepareFlagsOK(f) ==
  /\ f.file # <<>> \/ f.image # ""
  /\ f.expose => f.app # ""
  /\ f.cr => f.app # ""
RunFlagsOK(f) ==
  /\ PrepareFlagsOK(f)
  /\ f.cluster = f.location
  /\ f.cluster => GcloudInPath

CheckFlags(b) ==
  /\ pc[b] = "start"
  /\ LET f == Command(b)
     IN  \/ f.cmd = "apply" /\ Goto(b, "apply")
         \/ /\ f.cmd = "prepare"
            /\ Goto(b, IF PrepareFlagsOK(f) THEN "read" ELSE "failed")
         \/ /\ f.cmd = "run"
            /\ Goto(b, IF RunFlagsOK(f) THEN "read" ELSE "failed")
  /\ UNCHANGED <<plan, at, objs, digest, handed, worldVars>>

\* Prepare begins.  Files that hold no document are an error.
ReadConfig(b) ==
  /\ pc[b] = "read"
  /\ LET f == Command(b)
         docs == IF f.file = <<>> THEN NoDocs ELSE Parse(b, f.file, f.recursive)
     IN  /\ objs' = [objs EXCEPT ![b] = docs]
         /\ Goto(b, IF f.file # <<>> /\ docs = NoDocs THEN "failed" ELSE "suggest")
  /\ UNCHANGED <<plan, at, digest, handed, worldVars>>

SaveSuggested(b) ==
  /\ pc[b] = "suggest"
  /\ LET f == Command(b)
         docs == Suggest(f, objs[b])
     IN  /\ objs' = [objs EXCEPT ![b] = docs]
         /\ IF MaySave(b, Suggested(f))
            THEN Save(b, Suggested(f), docs) /\ Goto(b, "resolve")
            ELSE Goto(b, "failed") /\ UNCHANGED <<tree, bucket>>
  /\ UNCHANGED <<plan, at, digest, handed, made, registryVars>>

ResolveDigest(b) ==
  /\ pc[b] = "resolve"
  /\ digest' = [digest EXCEPT ![b] = IF Command(b).image = "" THEN "" ELSE tag]
  /\ Goto(b, "expand")
  /\ UNCHANGED <<plan, at, objs, handed, worldVars>>

SaveExpanded(b) ==
  /\ pc[b] = "expand"
  /\ LET f == Command(b)
         docs == Expand(f, objs[b], digest[b])
     IN  IF LabelsAllowed(f) /\ MaySave(b, Expanded(f))
         THEN /\ Save(b, Expanded(f), docs)
              /\ objs' = [objs EXCEPT ![b] = docs]
              /\ made' = made \cup {<<Expanded(f), docs>>}
              /\ Goto(b, IF f.cmd = "run" THEN "apply" ELSE "exited")
         ELSE Goto(b, "failed") /\ UNCHANGED <<objs, tree, bucket, made>>
  /\ UNCHANGED <<plan, at, digest, handed, registryVars>>

\* Apply reads the configuration it is given and hands it to kubectl.
HandOver(b) ==
  /\ pc[b] = "apply"
  /\ LET f == Command(b)
         docs == Parse(b, IF f.cmd = "run" THEN ApplyConfig(f) ELSE f.file, f.recursive)
     IN  /\ handed' = [handed EXCEPT ![b] = docs]
         /\ Goto(b, IF docs = NoDocs THEN "failed" ELSE "exited")
  /\ UNCHANGED <<plan, at, objs, digest, worldVars>>

\* The next command of the build.
NextCommand(b) ==
  /\ pc[b] = "exited"
  /\ at[b] < Len(plan[b])
  /\ at' = [at EXCEPT ![b] = @ + 1]
  /\ Goto(b, "start")
  /\ objs' = [objs EXCEPT ![b] = NoDocs]
  /\ digest' = [digest EXCEPT ![b] = ""]
  /\ handed' = [handed EXCEPT ![b] = NoDocs]
  /\ stood' = [stood EXCEPT ![b] = {tag}]
  /\ UNCHANGED <<plan, tree, bucket, made, tag, pushes>>

\* A tool is not in PATH, a file cannot be read or written, gsutil fails, or
\* the registry does.  Each is tried once: Prepare and Apply leave
\* gcs.GCS.Retries at 0.
CallFails(b) ==
  /\ Failures
  /\ pc[b] \in {"start", "read", "suggest", "resolve", "expand", "apply"}
  /\ Goto(b, "failed")
  /\ UNCHANGED <<plan, at, objs, digest, handed, worldVars>>

\* gsutil has copied the file when its time is over: copyWithTimeout looks at
\* the deadline and not at what Copy returned.
UploadTooLate(b) ==
  /\ Failures
  /\ pc[b] \in {"suggest", "expand"}
  /\ LET f == Command(b)
         docs == IF pc[b] = "suggest" THEN Suggest(f, objs[b])
                 ELSE Expand(f, objs[b], digest[b])
         d == IF pc[b] = "suggest" THEN Suggested(f) ELSE Expanded(f)
     IN  /\ IsGcs(d)
         /\ pc[b] = "expand" => LabelsAllowed(f)
         /\ Save(b, d, docs)
         /\ made' = IF pc[b] = "expand" THEN made \cup {<<d, docs>>} ELSE made
  /\ Goto(b, "failed")
  /\ UNCHANGED <<plan, at, objs, digest, handed, registryVars>>

\* Somebody pushes another image with the tag.
Push ==
  /\ pushes < MaxPushes
  /\ \E d \in Digests \ {tag} : tag' = d
  /\ pushes' = pushes + 1
  /\ stood' = [b \in Builds |-> stood[b] \cup {tag'}]
  /\ UNCHANGED <<plan, commandVars, tree, bucket, made>>

Prepare(b) ==
  \/ ReadConfig(b) \/ SaveSuggested(b) \/ ResolveDigest(b) \/ SaveExpanded(b)

PNext ==
  \/ \E b \in Builds : CheckFlags(b) \/ Prepare(b) \/ HandOver(b) \/ NextCommand(b)
                       \/ CallFails(b) \/ UploadTooLate(b)
  \/ Push

PSpec == PInit /\ [][PNext]_pvars

-----------------------------------------------------------------------------
(* Properties.                                                              *)

\* objs[b] are the expanded documents of a command.
IsExpanded(b) == pc[b] \in {"apply", "exited"} /\ Command(b).cmd # "apply"

\* Some other build, now or later, writes where this command does.
SharesOutput(b) ==
  \E c \in Builds \ {b} : \E i \in DOMAIN plan[c] :
    IsGcs(Command(b).output) /\ plan[c][i].output = Command(b).output

\* What `run` hands to kubectl is what it has prepared, document for document,
\* whichever way it took.  Only another build with the same gs:// output can
\* come in between, and then it is what that one has prepared: never a mixture,
\* and never the suggested documents.
HandedOverIsPrepared ==
  \A b \in Builds :
    pc[b] = "exited" /\ Command(b).cmd = "run" =>
      \/ handed[b] = objs[b]
      \/ SharesOutput(b) /\ <<Expanded(Command(b)), handed[b]>> \in made

\* All containers of the image that is deployed use one digest, and it is one
\* the tag stood for while this command ran: not that of an earlier command of
\* the build, nor the one in the documents it started from, although the tag may
\* move at any time.  The suggested documents in the workspace name the image
\* without any reference.
ImagesArePinned ==
  \A b \in Builds : IsExpanded(b) =>
    LET f == Command(b)
        Uses(docs, r) == \A i \in DOMAIN docs : \A c \in DOMAIN docs[i].images :
                           docs[i].images[c].name = f.image => docs[i].images[c].ref = r
    IN  f.image # "" =>
          /\ digest[b] \in stood[b]
          /\ Uses(objs[b], digest[b])
          /\ ~IsGcs(f.output) => Uses(tree[b][Suggested(f)], "")

Times(docs, d) == Cardinality({i \in DOMAIN docs : docs[i] = d})
SameDocs(s, t) == \A d \in {s[i] : i \in DOMAIN s} \cup {t[i] : i \in DOMAIN t} :
                    Times(s, d) = Times(t, d)

\* Output is good input: what was expanded, prepared once more with the same
\* flags, gives the same documents, and no Service, Application or Namespace
\* twice.
PreparedAgainIsTheSame ==
  \A b \in Builds : IsExpanded(b) =>
    LET f == [Command(b) EXCEPT !.file = Expanded(Command(b))]
    IN  SameDocs(Expand(f, Suggest(f, objs[b]), digest[b]), objs[b])

\* A --label flag of some command names key k.
GivenAsLabel(k) ==
  \E b \in Builds : \E i \in DOMAIN plan[b] : k \in DOMAIN CreateMap(plan[b][i].labels)

\* Prepare does not part a workload from its own selector, which the API server
\* would refuse, however often its output is prepared again.  Two labels can:
\* one given as --label with a key of the selector, and the one that says who
\* manages the object, which replaces what is there.
LabelsKeepSelectors ==
  \A b \in Builds : IsExpanded(b) =>
    \A i \in DOMAIN objs[b] : objs[b][i].kind \in Templated =>
      \A s \in objs[b][i].selector :
        \/ objs[b][i].template[s[1]] = s[2]
        \/ s[1] = ManagedByKey \/ GivenAsLabel(s[1])

\* Documents for kubectl -n ns: each is in ns, as kubectl demands, and one
\* creates it unless it is the default one.  Without -n every document names
\* the namespace it is in.
GoesWith(docs, ns) ==
  /\ \A i \in DOMAIN docs : IF ns # "" THEN docs[i].ns = ns ELSE docs[i].ns # ""
  /\ ns \notin {"", "default"} => HasObject(docs, "Namespace", ns)

\* What `run` hands over goes with the namespace it calls kubectl with.  Only
\* with an output in Cloud Storage that another build writes to may it be made
\* for the namespace of a command of that build, and then all of it is.
NamespacesAgree ==
  \A b \in Builds : pc[b] = "exited" /\ Command(b).cmd = "run" =>
    \/ GoesWith(handed[b], Command(b).namespace)
    \/ \E c \in Builds \ {b} : \E i \in DOMAIN plan[c] :
         /\ IsGcs(Command(b).output) /\ plan[c][i].output = Command(b).output
         /\ GoesWith(handed[b], plan[c][i].namespace)
=============================================================================
