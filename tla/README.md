# Verification of cloud-builders

This directory holds TLA+ models of the programs in this repository that have
logic of their own, the TLC configurations that check them, and theorems about
them that the TLAPS proof system checks.

## The system

The repository is a collection of container images used as steps of Cloud
Build.  Most of its directories (`docker/`, `gcloud/`, `git/`, `mvn/`, ...) are a
Dockerfile around someone else's program.  Three parts are programs:

* `gcs-fetcher/` fetches the source of a build from Cloud Storage (GCS), and
  `gcs-uploader` in the same module uploads it;
* `gke-deploy/` prepares Kubernetes configuration files and applies them to a
  cluster, waiting until what it deployed is ready;
* a few shell scripts (`kubectl/kubectl.bash`, `go/prepare_workspace.inc`,
  `bazel/bazel.sh`) choose a cluster or lay out a workspace before they call the
  tool they wrap.

The programs meet where steps of builds do.  `gcs-fetcher` reads a manifest and
the objects that `gcs-uploader` wrote, perhaps years ago; the commands of
`gke-deploy` read what others of them saved, in the workspace or in GCS; and the
steps of a build share the workspace directory and the configurations of
`gcloud` and `kubectl`, in which an earlier step may have left its own.

### Inventory

| Component | State | Operations | What is hard about it |
|---|---|---|---|
| Fetch of one object (`fetcher.go`: `fetchObject`, `fetchObjectOnceWithTimeout`, `fetchObjectOnce`, `ensureFolders`, `recordFailure`, `recordSuccess`) | a `jobReport` and a loop counter for each job; temporary files, final files, directories; `CreatedDirs`, a cache of the directories | a retry loop; each round starts a goroutine and waits for its answer or a timeout | a goroutine that timed out is not waited for and goes on writing; the timeout races the answer; steps fail after others succeeded |
| Worker pool (`processJobs`, `doWork`) | two bounded channels, a counter, a wait group, `failed` | start, queue, take, report, consume, close, wait, exit | closing channels under running goroutines; everyone waiting on everyone; losing a job |
| Manifest fetch (`fetchFromManifest`, `main.go`) | where it stands; all of the two above | fetch the manifest, decode it, fetch its files, remove the staging directory, exit | orphaned goroutines while the staging directory is removed; the exit code must tell what is in the workspace |
| Archives (`Fetch`, `fetchFromZip`, `fetchFromTarGz`, `unzip`) | the entry at hand; the files and folders of the workspace | fetch one archive, extract it entry by entry, clean up | extraction over files that exist, stopped anywhere; entries in any order; the object is overwritten before it is fetched |
| `gcs-uploader` (`uploader.go`, `main.go`) | files, `manifest`, `totalBytes`, `bytesSkipped`; the bucket | walk, hash, copy, store in the manifest, close, write the manifest | several builds share one bucket; a file is read twice; errors are dropped; a build may be killed |
| gke-deploy readiness (`ready.go`) | none: it reads one object | `IsReady` for each kind | the status it reads is old, perhaps of an earlier specification |
| gke-deploy apply (`Apply`, `cluster.go`, `crd.go`, `gcp.go`) | the documents, the current cluster of `kubectl`, what was seen of each object, a deadline | authorize, parse, apply namespaces, install a CRD, apply objects, wait in rounds, summarize | any command may fail, before or after it took effect; other users change the cluster; the cluster works on its own |
| gke-deploy prepare (`Prepare`, `prepare.go`, `run.go`) | documents, two output directories, what `run` hands to `Apply` | parse, save suggested, resolve the image, save expanded, hand over | the output is read back; builds share outputs in GCS; a tag moves; a command that failed half way is run again |
| gke-deploy resources (`resource.go`, `application.go`, `templates.go`) | documents | make up what is missing, label, set namespaces and images, sort, save, summarize | labels against selectors; its own output as input; keys that are not unique |
| gke-deploy copies (`gcs.go`, `gsutil.go`) | a timer | copy, with a timeout | a timeout that races success |
| gke-deploy image digest (`image.go`, `remote.go`) | none | one lookup in a registry | the tag may be moved meanwhile |
| gke-deploy services and flags (`services/`, `cmd/common`) | none | run a command, read and write files, parse flags | - |
| kubectl builder (`kubectl.bash`) | the configurations of `gcloud` and `kubectl` | choose a cluster, a zone or region, a version; get credentials | precedence of sources; what an earlier step left behind |
| go builder (`prepare_workspace.inc`, `go_workspace.go`) | directories and links in the workspace | choose or lay out a `GOPATH`, enter it | a workspace an earlier step laid out, with links to itself |
| bazel builder, `Preview/` scripts | none | insert a flag; set up builds by hand | - |
| other builders | - | Dockerfiles around other programs | - |

What makes each of them correct:

* *one object*: nothing stands under a final name but a whole and verified
  file; concurrent and orphaned downloads never share a temporary file; a
  published file is never touched again; a job is tried `Retries + 1` times and
  reported;
* *pool*: every job is reported exactly once; nobody sends on a closed channel;
  the process exits exactly when a job failed; the pool ends;
* *manifest fetch*: exit code 0 means every file is there, the error exit has a
  reason; no orphan brings the staging directory back; the process ends though
  GCS may not answer;
* *archives*: exit code 0 means that the last entry of each name is there from
  its first block to its last; what was in the workspace before is overwritten
  in place and never mixed with something else;
* *uploader*: an object holds what its name says; objects never change; the
  manifest of an upload that met no error can be fetched;
* *readiness*: an object is called ready only when its rollout is over, and in
  the end always;
* *apply*: success means that what was asked for is deployed, an error has a
  reason, the cluster given on the command line is the one used, a dry run
  changes nothing, and Apply returns;
* *prepare*: what `run` hands to kubectl is what it has prepared; all containers
  of the image use one digest; its output is good input for it; its labels do
  not part a workload from its selector; namespaces fit together;
* *kubectl*, *go*: kubectl talks to the cluster of its own step, and go runs in
  the source, whatever the steps before have left.

## Modules

| Module | Models | Notes |
|---|---|---|
| `FetchContract` | what fetching an object promises | the abstract specification: waiting, running, published, tried, reported |
| `FetchObject` | `fetchObject` and all it calls, for several jobs at once | implements `FetchContract` |
| `FetchObjectProofs` | - | theorems about `FetchObject` |
| `FetchPool` | `processJobs`, `doWork` | what a worker does with a job is one step, `Work` |
| `FetchPoolProofs` | - | theorems about `FetchPool` |
| `FetchManifest` | `fetchFromManifest` to the end of the process | EXTENDS `FetchObject`, INSTANCEs `FetchPool` |
| `FetchArchive` | `Fetch` for every `--type`, with `main` around it | EXTENDS `FetchManifest` |
| `FetchSourceProofs` | - | theorems about `FetchManifest` and `FetchArchive`, by those about what they compose |
| `Uploader` | `gcs-uploader`, several builds and one bucket | |
| `UploaderProofs` | - | theorems about `Uploader` |
| `GkeReady` | `IsReady` | operators only |
| `GkeCluster` | a Kubernetes cluster as far as `IsReady` and `Apply` see it | EXTENDS `GkeReady`; Kubernetes is external code |
| `GkeClusterProofs` | - | theorems about `GkeCluster` |
| `GkeApply` | `Apply` from its flags to its result | EXTENDS `GkeCluster` |
| `GkeApplyProofs` | - | theorems about `GkeApply` |
| `GkeObjects` | what `Prepare` does to documents | operators only |
| `GkePrepare` | the commands `prepare` and `run` up to what is handed to kubectl, several builds | EXTENDS `GkeObjects` |
| `GkePrepareProofs` | - | theorems about `GkePrepare` |
| `KubectlBash` | `kubectl.bash` | |
| `GoWorkspace` | `prepare_workspace.inc`, `go_workspace.go` | |
| `BuildSteps` | builds with steps of the two, in any order | EXTENDS both |
| `BuildStepsProofs` | - | theorems about `BuildSteps` |
| `MC...` | instances of the above for TLC | |

A definition that starts with the comment *Mutated form of X* is what `X` would
be with a plausible bug.  It is used by nothing: put in the place of `X` it
makes TLC report a property, which shows that the property depends on the code.
`PROJECT.json` says which source lines each definition models and which mutated
form violates which property.

### FetchObject

A process for the caller of each job (`pc`, the retry loop) and one for the
goroutine of each attempt (`go`, the download).  An attempt is a pair of a job
and a round.  Both share a file system of inodes: `tmp` and `final` map names to
inodes, `data` maps an inode to its content, chunk by chunk, each a hole, good
or bad.  So a rename moves a name and a writer goes on writing to its inode
whatever its name has become, as on a POSIX file system.

`StartDownload` makes the staging directory and starts the goroutine.  `Receive`
and `Timeout` are the two sides of the `select`, both possible when both are
ready.  `Timeout` closes `breakerSig`, which the goroutine reads in `Open` and
`Verify` and nowhere else.  `EnsureFinal`, `Rename` and `Finish` (with the
`Chmod`) end a successful round, and each has its failure, which is `Fail`:
`recordFailure` with the `continue` behind it.  The mutex of `ensureFolders`
makes it one step.  Backoff and the length of a timeout are abstracted: a timeout
may fire at any moment of the wait.  Sizes, durations and the printed statistics
are left out; the number of tries in the report is kept.

A SHA-1 is compared with what GCS sent; a stream is the one the manifest names
or another one.  Objects without a SHA-1 (the manifest itself) are accepted
whatever they are.  Two constants switch on what the code does not guard
against: `FuzzCollides`, two jobs of one object drawing the same of 999999
random numbers, and `CloseMayFail`, a `close` that reports lost data.

### FetchPool

The main goroutine (`main`, with one point for each place `processJobs` can
stand at), the queuer (`Queue`) and the workers (`wstate`).  Channels are sets
with a capacity: the jobs come from an iteration over a Go map, so that any order
is possible.  Closed channels are modelled, and sending on one is what
`NoSendOnClosed` excludes.

### FetchManifest

Composes the two.  `FetchObject` gets one more job, the manifest, which is fetched
alone before the pool starts.  `Work` of the pool is taken when the caller of the
worker's job is done, with its result (`FetchReturned`); until then the caller
takes its own steps (`FetchFile`).  `RemoveEntries` and `RemoveDirectory` are
the two halves of `os.RemoveAll`, with room for a goroutine between them.  The
process ends with 0 or 1, and then nothing moves any more: orphans die with it.

### FetchArchive

Adds one more job, the archive, which `fetchObject` fetches to the staging
directory like a manifest (`destDirOverride`), and the extraction.  A file is a
sequence of blocks, each named by its path, the entry it comes from and its
number; `Write` overlays the file that stands there, since neither extraction
opens it with `O_TRUNC`.  The two formats differ where the code does: `unzip`
makes the folder of a file and writes a symbolic link as a file,
`fetchFromTarGz` relies on the directory's entry, passes over links and does not
look at the error of a close.  Extraction may fail at any point
(`ExtractFails`).  Others may overwrite the object in GCS before it is opened
(`Overwrite`); what is read is the generation that is the newest then.  A
location that names a generation is asked for as an object with the `#` in its
name, and fails like any other attempt.  The module also has what `main` refuses,
and with a `--type` of `Manifest` the steps of `FetchManifest`.

### Uploader

Each build has files, walks them in any order and calls `Do` for each.  `Hash` is
the first reading, `Copy` the second, with the manifest entry stored at its end,
`Close` what GCS answers.  GCS is modelled by what `storage.Conditions` asks of
it: an object is created only if it does not exist.  A long object is refused at
its first chunk, a short one when it is closed, which are different paths in the
code (`RefusedEarly`, `AlreadyExists`).  SHA-1 is injective; sizes are one per
object.  A path may lead to a directory through a link: `Do` passes over it
without an entry in the manifest (`PassOverDirectory`), and a complete upload
lists all other paths.  A failing call may have had its effect; a build may be
killed at any point; files may be edited under some of the builds.

### GkeReady, GkeCluster

`GkeReady` transcribes each `...IsReady` on an object given as a function from
fields to values, with absent fields absent, since what the code does about
them differs from kind to kind.  `GkeCluster` makes such objects: a workload has
old, new and available pods, its controller publishes a status from time to time
(`Sync`) and creates and removes pods as the kind's rolling update does.
`Printed` is what `kubectl get` prints, with zero fields left out where the API
does so.  This module is the environment, not this repository.

### GkeApply

One action for every command `Apply` runs and every decision between them:
flags, `gcloud` credentials, reading of files (the list is sorted when it is
printed, and the sorted one is used from then on), the namespaces, the
Application CRD, the other documents, the rounds of `kubectl get` and the
summary.  Between any two of them the cluster's controllers, its users and the
deadline may move, and any command may fail before or after it took effect.
A document is a kind, a name, a namespace, a version (which stands for the rest
of its template) and a number of replicas.

### GkeObjects, GkePrepare

`GkeObjects` has one operator for each thing `Prepare` does to its documents, in
two compositions: `Suggest` for what is saved as suggested and `Expand` for what
is saved as expanded.  A document is a record of its labels, its template's
labels, its selector and the images of its containers, as far as these functions
read or write them; an image is a name and a reference.

`GkePrepare` runs commands: a build has a sequence of them and ends with the
first that fails.  Directories are paths in the build's own workspace or in GCS,
which all builds share; each holds one file or none.  `SaveSuggested` and
`SaveExpanded` refuse a local directory that is not empty and go through a
temporary one for GCS.  `ResolveDigest` reads a tag that `Push` may move.
`stood` is a history variable: what the tag stood for since a build's command
began.  `CallFails` and `UploadTooLate` end a command where a call fails or a copy
outlives its timeout though it was made.  `HandOver` is where `Apply` reads the
configuration it is given; `GkeApply` goes on from there.

`LabelsKeepSelectors` has two exceptions.  Labels are added without replacing
what is there, except those of `--label` and `app.kubernetes.io/managed-by`: a
workload whose selector asks for one of these keys with a value of its own is
parted from its pods (`deployer.go:244-259`).  `NamespacesAgree` and
`HandedOverIsPrepared` have one: of two builds with one `gs://` output either may
hand over what the other has made, and then for the other's namespace.

### KubectlBash, GoWorkspace, BuildSteps

`KubectlBash` has the settings of a step's environment and of gcloud's
configuration (project, cluster, region, zone), and the cluster kubectl is
configured for, which survives the step.  `GoWorkspace` has directories and symbolic links under the workspace;
`Resolve` follows a path name by name; links all lead to the workspace itself.  A
shadow workspace is made by `MakeLinkDir`, `Link` (with the `stat` that accepts
what is there) and `EnterShadow`, and each of these may fail (`ShadowFails`).
`GoFindsItsSource` has two conditions, since `stat` accepts any directory: no root
lies inside another (`Unnested`), and the source, which may have a `gopath`
directory of its own, has nothing in the place of a shadow workspace
(`Unoccupied`).  `BuildSteps` runs steps of both, and of other builders
which may leave another configuration behind, in any order.

## Runs

Each run is a configuration of an instance `MC...`; `PROJECT.json` names the
pair, for example `tlc -config Fetch.cfg MCFetchObject`.  `CHECK_DEADLOCK FALSE`
stands in the configurations of programs that end; `FetchPool` keeps deadlock
checked, since everyone waiting on everyone is the question there, and has an
explicit `Rest` after the end.

| Configuration | Instance | Properties | What it shows |
|---|---|---|---|
| `Fetch` | 2 jobs of one object, one with a retry, one with a SHA-1 | `TypeOK`, `VisibleIsVerified`, `OneWriterPerFile`, `RenameFindsOwnFile`, `TimedOutNeverPublished`, `PublishedIsLeftAlone`, `EveryFetchReturns`, `ImplementsContract` | in every order of two callers, three goroutines and their timeouts no download gets in the way of another, and the contract is kept, fairness included |
| `FetchPool` | any of up to 4 jobs, any of up to 2 workers | `EachJobInOnePlace`, `AllReportedWhenLoopEnds`, `NoSendOnClosed`, `ExitIffAJobFailed`, `PoolEnds` | channels smaller than the number of jobs fill up on both sides, and nobody waits for ever |
| `FetchSource` | every `--type`; a manifest of one file that is retried or of two; 3 archives, 2 workspaces | `ExitZeroMeansAllThere`, `ExitOneHasAReason`, `OnlyVerifiedFiles`, `CreatedDirsIsTrue`, `ExitZeroMeansExtracted`, `BlocksKeepTheirPlace`, `StagingStaysGone`, `FetcherExits` | the exit code tells what is in the workspace; goroutines left behind race the removal of the staging directory and lose; the process ends |
| `Upload` | 2 builds, 2 paths each that lead to short and long contents or to a directory, failures, edits in one build | `BlobsAreTheirDigest`, `CleanUploadIsComplete`, `ObjectsNeverChange` | builds that share a bucket help and do not hurt each other |
| `Rollout` | one object of each of ten kinds; up to 3 replicas, 4 generations | `ReadyMeansRolledOut`, `EventuallyReady` | no rollout is called ready half way, each is in the end |
| `Apply` | 10 calls over 3 clusters, failures, other users | `SuccessMeansDeployed`, `ResultTellsReadiness`, `NoNeedlessError`, `NamedClusterIsUsed`, `DryRunChangesNothing`, `NamespacesAreLeftAlone`, `ApplyReturns` | what Apply returns tells what is in the cluster |
| `Prepare` | one command with most combinations of flags; six chains of two commands; two builds with outputs in GCS; 3 configurations | `HandedOverIsPrepared`, `ImagesArePinned`, `PreparedAgainIsTheSame`, `LabelsKeepSelectors`, `NamespacesAgree` | what reaches kubectl is what was prepared, and it fits together |
| `Steps` | builds of up to 4 steps; 4 environments, 3 project roots, 4 sources | `KubectlTalksToItsCluster`, `GoFindsItsSource` | no step is misled by what another left |
| `FetchClose` | 1 job, a close that fails | `VisibleIsVerified` is violated | see below |
| `UploadCloseFails` | 2 builds, 1 file | `ListedObjectsExist` is violated | see below |
| `ApplySummary` | 2 Deployments of one name | `SummaryShowsAll` is violated | see below |
| `StepsNested` | builds of up to 2 steps, a source without directories | `ShadowIsTheSource` is violated | see below |

### Bounds

* *Attempts.*  An interference needs an orphan and the attempt that replaced it,
  or two jobs with one object; `Fetch` has two jobs of one object and an orphan.
  One chunk is enough for a file to be looked at before anything was written to
  it.  `MaxRetries` is that of the run; the program's defaults are larger, and
  the proofs hold for any number of retries and chunks.
* *Jobs and workers.*  Four jobs for two workers fill both channels and keep a
  job with the queuer; `FetchPool` also starts with no job, no worker to spare
  and fewer jobs than workers.
* *Sources.*  `Listings` are the manifests: one of a file with a retry, so that
  an orphan is there at the end, and one of two files for two workers.  The
  archives have a folder before its file and after it, a link, and a name that
  comes twice, shorter the second time; `MaxOverwrites` is 1, for one newer
  archive.  The workspaces hold a longer file of a name in the archive, or a file
  where the archive has a folder.
* *Contents.*  Two contents, one of them empty and one long, and two files that
  may hold the same, so that whoever comes second finds the object; a path may
  lead to a directory instead.
* *Generations.*  With four generations of an object a user changes its template
  and scales it while two earlier changes are still being carried out.  Two
  or three replicas make a rollout that is half done: one that has some pods of
  each template and the right number of them altogether.
* *Calls.*  Every flag that changes what `Apply` does is in one of the ten calls,
  and so are a namespace listed after what is in it, two documents for one
  object, an Application, nothing at all, a dry run of each of the interesting
  ones and flags that do not fit together.  Keeping the calls a list and not a
  product of all flags keeps the run at some hundred thousand states.
* *Plans.*  The chains run on from the suggested and the expanded output, read
  both at once, and repeat a command.  The configurations hold an image with a
  tag, without one, pinned already and next to another; labels and selectors with
  the keys of Prepare; a Namespace and an Application of their own.  `MaxPushes`
  is 1: a tag that moves between any two steps.
* *Steps.*  `MaxSteps` is 4: a shadow workspace is made, found, and found by
  another root, with a failing step at the end.  The roots are two names and one
  inside another; the source may have a directory called `src` or like a root, or
  a `gopath/src` of its own with one that is called like a root.

### Fairness

* `FSpec`: weak fairness of the caller of each job.  The Go scheduler runs a
  goroutine that can run, and `time.After` fires.  Nothing is assumed of a
  download: `CopyChunk`, `Open` and the others need never happen, since GCS may
  never answer.
* `PSpec`, `MSpec`: weak fairness of the main goroutine, the queuer and each
  worker, for the same reason.  `Work` is fair in `FetchPool` because
  `EveryFetchReturns` holds; in `FetchManifest` the steps of `fetchObject` take
  its place and nothing more is assumed.  `FetchArchive`'s `ASpec` adds the main
  goroutine at work on an archive, and the refusal of a type it does not know.
* `GkeApply`'s `ASpec`: weak fairness of `Apply` (a command ends, well or not)
  and of `Deadline` (time passes).  A `kubectl` that never ends is not cut off by
  the code, and then `Apply` does not return.  Nothing is assumed of the cluster.
* `CSpec`: weak fairness of controllers and kubelets.  This is Kubernetes'
  promise and not this repository's; `EventuallyReady` says what `IsReady` makes of
  it.  Users need do nothing, and can only do a bounded number of things, so
  that they leave an object alone in the end.
* `Uploader`, `GkePrepare` and `BuildSteps` have no liveness property and no
  fairness: they are sequences of commands that wait for nobody.

## Proofs

The theorems are checked by TLAPS for every value of the constants: any set of
jobs that may share objects, any number of retries and chunks; any finite sets
of jobs, workers and files; any archives, workspaces, builds, objects, calls,
configurations, chains of commands and project roots.  TLC evaluates the
assumptions on constants in the runs.  `FetchAssumption`, `PoolAssumption`,
`ManifestAssumption`, `ArchiveAssumption`, `UploaderAssumption`,
`ClusterAssumption` and `GoAssumption` (project roots are sequences of names, and
import comments name roots) say what the constants are.  So do the others, which also say something of the input:

* `ApplyAssumption`: the keys of all documents, with the namespace of the call,
  are objects of the cluster, and the CRD is one of them.
* `ObjectsAssumption`: the words the code writes into documents are strings like
  those it reads.
* `PrepareAssumption`: the workloads of the sources select their own pods, as the
  API server demands, and no output in GCS lies inside another one's expanded
  directory, of which `gsutil cp -r` would read both.


**FetchObject.**  All theorems assume `~FuzzCollides` and `~CloseMayFail`; without
the first two jobs may share a temporary file, without the second
`VisibleIsVerified` is false, as `FetchClose` shows.  The properties are not
inductive.  That a published file is never written to depends on who may still
write to what: that a goroutine writes to the inode of its own attempt, which has
its temporary name until its own caller renames it, and that happens only once
the goroutine has sent its answer.  That nobody else has that name depends on
names: equal names mean equal job and round, since jobs of one object drew
different numbers (`DistinctFuzz`, `PathsDiffer`).  And that the caller renames
only what ended well depends on what it was told (`CallerKnows`) and on what a
goroutine copied before it answered (`CopiedIsStreamed`).  `FilesInv` is the
conjunction of these, and its proof has one lemma for each step of a caller or a
goroutine.  From it follow

* `FetchTypeCorrect`, `FetchVisibleIsVerified`, `FetchTimedOutNeverPublished`,
  `FetchOneWriterPerFile`, `FetchRenameFindsOwnFile`;
* `FetchPublishedIsLeftAlone`, an action property, from the invariant before
  each step;
* `FetchImplementsContract`, the safety part of the refinement: under the mapping
  `StatusOf`, `FileOf` and the number of tries each step is a step of
  `FetchContract` or a stutter.  It needs one more invariant, `RoundsCounted`: a
  report has as many tries as the loop has ended rounds.

**FetchPool.**  `PoolInv` adds to the properties where the counter and the sums of
the consuming loop stand (`Counted`).  The loop counts turns and knows nothing of
jobs, so that its end says that all were reported only by an argument on
cardinalities: `reported` is a subset of `jobs` with as many elements.  From there
`AllReportedWhenLoopEnds`, and from that `NoSendOnClosed`: after the loop no
worker has a job, so none sends on the channels that are closed in the "wrong"
order.

**FetchSource: manifests.**  All theorems but the last assume `~FuzzCollides` and
`~CloseMayFail`.  `MInv` puts the two invariants together and says what links
them.  `PoolInv` is taken from `FetchPoolProofs` through an instance, since each
step is a step of the pool or leaves it alone; `FilesInv` and `RoundsCounted` hold
as long as callers are at work.  Then the staging directory is removed, and
`FilesInv` with it: `OnDisk` is what is left of it, what final names and orphans
still share.  `HandledIsDone` says that a job the pool has handled is one whose
caller has returned, with the same result, and `DoneIsThere` that a success
stays in the workspace; so `ManifestExitZeroMeansAllThere` and
`ManifestExitOneHasAReason` follow from the pool's own end.
`ManifestStagingStaysGone` needs no invariant: it holds because an orphan opens
its file without making the directory.  The specification is `MSafety`, which
`FetchArchive` runs for a `--type` of `Manifest`.

**FetchSource: archives.**  Two invariants.  `Shapes` says that every file is a sequence of
blocks in their places, which the lemma `OverlayIs` on one write and `CutIs` on a
lost one preserve; it holds whatever closes do, and gives
`ArchiveBlocksKeepTheirPlace`.  `Extracted` says what was made of the entries
before `next`.  Of entries with one name only the last so far is in its file, so
`Handled` speaks of the last that was opened (`LastYet`): the entry at work takes
a file from an earlier one at its first block, not at its end.  At the end of the
archive this is `AllThere`, which the clean-up keeps.
`ArchiveExitZeroMeansExtracted` assumes `~CloseMayFail`, since `fetchFromTarGz`
does not look at the error of a close.

**Uploader.**  `UInv` follows each build through the file it is at; what the
others do to it is to add objects, which they never change.  `ReadTwiceAlike`
says that the content copied is the one hashed, but in builds under which files
are edited, and gives `UploaderBlobsAreTheirDigest`.  `VisitedIsListed` says that
a path the walk has left behind is listed and its object exists, with an
exception for the file `Do` is at work on: a second path may lead to it, whose
entry is written anew before the object is known to exist.  With `EndedWell` it
gives `UploaderCleanUploadIsComplete`.

**GkeCluster.**  `ReadyMeansRolledOut` speaks of the pods, `IsReady` of a status
that may be old.  `StatusTells` connects them: a status that is about the present
generation and tells of completion was published when there were no old pods, and
only a change by a user, which makes a new generation, makes a pod old.

**GkeApply.**  `ApplyNamedClusterIsUsed` follows from `ContextIsGiven`: once
credentials may be used at all they are those of the cluster that was named.
`ApplyDryRunChangesNothing` and `ApplyLeavesNamespacesAlone` go through the steps
of `Apply`, failing ones included.  The others need `Inv`, which follows every
document from the files to the summary:

* `Shape` and `Agenda`: the lists that loops work on hold documents of the files;
  `namespaces` has only Namespaces before it, `apply` none, and of the documents
  of one object the last in the files comes last.
* `StillMissing`: the namespace or the CRD that was seen missing still is, or
  another user made it.
* `Applied`: if no command failed, no other user deleted anything (`disturbed`
  says so) and it is no dry run, an object whose documents
  are not left to apply is there as its last document says.  At the end of the
  loop none is left: `ApplySuccessMeansDeployed`.
* `StillSeen`: what was seen ready has no old pods, since a new generation takes
  a user, and what has a host name for an address still has it.
* `Waiting`: each object is ready or is looked at in this round or in the next
  (`InRound`), and a timeout means that the deadline has passed.  With `StillSeen`
  this gives `ApplyResultTellsReadiness`.  That a timeout has an object that was
  not ready holds only if no two documents are of one object: the second one's
  answer may be "not ready" when the first one's was "ready".

`ApplyMakesNoNeedlessError` looks at each way to an error while nothing was
disturbed: the flags, an empty configuration, a namespace that is neither there
nor in the files, a wait for an address.  Of the sorting and filtering of `Parse`
the proofs need that its result is a stable permutation with the namespaces
first, which is how `InOrder` states it.

**GkePrepare.**  `PInv` has three parts.

* `PTypeOK`: every list of documents anywhere, in a workspace, in GCS or in a
  build, is one of documents whose workloads select their own pods, but for the
  two exceptions (`LooseKeys`).  Every operator of `GkeObjects` keeps this, and so
  `PrepareKeepsSelectors` holds for any chain of commands.
* `OnItsOwn` follows one build: what is complete when suggested documents are
  saved (`Between`), that expanded ones are `Settled` (they have the label of the
  application, images with the digest, their namespace and the mark), that the
  digest is one the tag stood for since this command began (`Resolved`, over
  `stood`, which only grows until the next command), that the suggested output has
  no digest (`Unpinned`), and what is in the directory that `run` has saved to
  (`SavedHere`).  `PreparePinsImages` is read off it.
* `Uploaded` and `HandedOver` speak of the builds that share GCS: what is under
  the output of a build was prepared by it, or by another one with that output and
  for a namespace of that one (`PreparedBy`).  Other steps keep them since an
  upload touches its own directory only.  `PrepareHandsOverWhatIsPrepared` is this;
  with what `Settled` documents have (`SettledGoesWith`) it is
  `PrepareNamespacesAgree`.

`PreparePreparedAgainIsTheSame` is about the operators alone: a `Settled` document
is a fixed point of `Suggest` and of `Expand`, a complete list gets nothing made
up, and reading it back puts it in no other order than it is compared in.

**BuildSteps.**  `StepsKubectlTalksToItsCluster` follows from
`CredentialsAreFetched`: whatever configuration a step finds, it reaches kubectl
only by fetching the credentials of its own cluster and place.
`StepsGoFindsItsSource` needs to know what the steps before have laid out
(`AsLaidOut`): every link is a shadow workspace that was asked for, and every
directory lies on the way to one.  No link lies on the way, for its root would be
the beginning of another (`BeginningsAreNoShadows`, `Unnested`); so a path leads
where it says (`LeadsThere`), the link goes where it was meant to, or is found
there (`LinkIsThere`), and a `src` that is found is the source's own
(`SrcIsTheSources`).  What is found is the link, and no directory, since the
source has none there (`Unoccupied`).  Once two roots are nested, or the source
has a directory in the place of one, nothing is claimed, then or later.

**What is only model-checked**: liveness (`EveryFetchReturns`, `PoolEnds`,
`FetcherExits`, `EventuallyReady`, `ApplyReturns` and the fairness of
`FetchContract`), which is out of reach of the prover.  Every invariant and every
action property of the passing runs is a theorem.

Induction theorems that take an operator as a parameter cannot be used.  Where a
proof needs an induction over numbers (the last place in a sequence, a path name
by name, a sequence of sequences put together) it is made over sets of numbers,
from the theorem that every set of numbers has a least one (`WFMin`); see
`NatSetInduction` and `CountingUp`.

## Where the code does not do what is said of it

Shown by a run:

* `FetchClose`: the deferred functions of `fetchObjectOnce` assign the error of
  `Close` to a variable that is not the function's result any more
  (`fetcher.go:387-391`).  A file whose last write was lost is renamed and
  reported as fetched.
* `UploadCloseFails`: a file is listed in the manifest before its object is known
  to exist (`uploader.go:128`), and `main.go:79` drops the error.
* `ApplySummary`: `deployedObjs` is keyed by kind and name (`deployer.go:491`); of
  two objects in two namespaces the table shows one.
* `StepsNested`: a shadow workspace is said to be as good as the original directory
  (`prepare_workspace.inc:88-90`), but `stat` accepts whatever is in its place
  (line 82).  After a step with `PROJECT_ROOT=a/b` the directory `gopath/src/a` is
  there, and a step with `PROJECT_ROOT=a` runs go in it, where the source is not.

Met while modelling, without a run of their own.  In gcs-fetcher and gcs-uploader:

* `recordFailure` says "will no longer retry" after `gf.Retries` tries
  (`fetcher.go:197`), and the loop makes one more (`fetcher.go:245`).
* Two jobs of one object that draw the same random number share a temporary
  file (`fetcher.go:243`); set `FuzzCollides` to see it.
* `--location` is documented as `gs://bucket/path/to/object#generation`
  (`main.go:42`), but `ParseBucketObject` leaves the generation where it is
  (`common.go:45`, "TODO: Parse generation"): an object of the name `object#123` is
  asked for, and not found.
* `gcs-fetcher/README.md:133` still plans to verify SHA-1, which is done.
* The comment at `fetcher.go:353` speaks of exiting at once when access is
  denied; the attempt fails and is retried like any other.
* A long file that exists in the bucket makes `io.Copy` fail with the
  precondition's error before the file is listed (`uploader.go:124`), so that it
  is missing from the manifest (`RefusedEarly`; this is why
  `CleanUploadIsComplete` speaks of builds that met no error).
* A manifest location can be written once only (`main.go:95`); a second upload to
  it does all its work and then fails.
* `fetchFromTarGz` ignores the error of a close, makes no folder that the
  archive does not list before its files, and passes over links; `unzip` writes a
  symbolic link as a file that holds its target.  Both open a file without
  `O_TRUNC`, so that a longer one keeps its end (this is why
  `ExitZeroMeansExtracted` speaks of a prefix).

In gke-deploy:

* A DaemonSet is ready while old pods run, since `updatedNumberScheduled` is not
  looked at (`ready.go:43`): `ReadyMeansRolledOut` leaves it out.
* A StatefulSet, ReplicaSet or ReplicationController of 0 replicas is never
  ready (`ready.go:543`): a missing `readyReplicas` is not taken for 0.
* "Duplicate objects will be overridden" (`deployer.go:384`) is printed also for
  objects in different namespaces, which are not.
* A server dry run refuses an object in a namespace of the same files
  (`deployer.go:444`), since the namespace is not created.
* The example of `prepare -o expanded` and then `apply -f expanded`
  (`prepare.go:30-33`) finds no file: `prepare` saves to `expanded/suggested` and
  `expanded/expanded`, and `apply` without `-R` does not look there.
* `gke-deploy run -i nginx -x 80`, the "one simple command" of its
  `README.md:84`, is refused: `--expose` requires `--app` (`run.go:136`).
* A Service or an Application that `Prepare` makes up lands in `default` when
  the documents name their own namespace and there is no `-n`.
* An Application given by `-f` loses its links when there is no `--links`
  (`SetApplicationLinks`); `initContainers` are never pinned to a digest; and a
  custom label with a key of a workload's selector parts it from its pods, the
  exception in `LabelsKeepSelectors`.
* Labels are validated only when the suggested configuration was saved
  (`deployer.go:248`): a second try after an error finds a directory that is not
  empty, and is refused.  With a `gs://` output the second try overwrites the
  first, as two builds with one output do to each other.
* An upload that succeeded just when its time was over is reported as a timeout
  (`gcs.go:74`).
* `toGcs` and `gcsPath` keep what the suggested output made of them
  (`deployer.go:173-299`).  From the commands this does no harm, since both
  outputs have one prefix.
* The texts of two errors about `--cluster` and `--location` are swapped
  (`run.go:121-126`).

In the scripts:

* `kubectl.bash` prefers a region of gcloud's configuration to a zone given in
  the step's environment.
* A `gopath/src/$PROJECT_ROOT` directory that the source has itself is taken for
  the shadow workspace (`prepare_workspace.inc:82`), as in `StepsNested`; the case is
  in `Steps` and is excluded by `Unoccupied`.
* A failed `prepare_project_root` is passed over when `PROJECT_ROOT` was given, by
  the `return 0` after it (`prepare_workspace.inc:39-40`), and go runs all the same.

## Not modelled

* `bazel.sh`, which edits a command line; the scripts under `Preview/`, which set
  up builds by hand; the builders that are Dockerfiles only; vendored code,
  generated documentation and tests.
* Text: messages, tables, YAML, comments in it, templates, the syntax of flags and
  image names.  Annotations, which are added as labels are and read by nobody.
* Modes of files and directories, durations, sizes and statistics, except the
  counters that properties speak of.
* Retries and timeouts of `gcs.GCS` that no command sets; git's settings
  (`GIT_CONFIG_VAL`) in the go builder.
* Negative `--retries` and `--workers=0`, which make the fetcher panic or wait
  for ever: the flags are taken as they are documented.
* The API server beyond what `Accepts` says; when a CRD is served after it was
  created; custom resources other than Application; SHA-1 collisions.

## Plan

Done, in this order: `FetchObject` with its contract, `FetchPool`, the proofs of
both, `FetchManifest`, `Uploader`, `GkeReady` and `GkeCluster`, `GkeApply`;
`FetchArchive`, `GkeObjects` and `GkePrepare`
with the copies and the lookup of an image, `KubectlBash`, `GoWorkspace` and
`BuildSteps`; the proofs of `FetchManifest`, `FetchArchive`, `Uploader`,
`GkeCluster`, `GkeApply`, `GkePrepare` and `BuildSteps`, with which every safety
property of the passing runs is proved.

What is left, most important first:

1. `BuildCache`: `Uploader` followed by `FetchManifest` through one bucket: what a
   clean upload stored, a fetch that exits with 0 has put in place.
2. What `IsReady` says of each kind as a lemma, for any status.
3. Other custom resources and their definitions, and the order they are applied
   in.
