--------------------------- MODULE FetchManifest ---------------------------
(***************************************************************************)
(* gcs-fetcher/pkg/fetcher/fetcher.go: fetchFromManifest, the whole of a    *)
(* run with --type=Manifest up to the end of the process.  It composes      *)
(* FetchObject, extended here with one more job for the manifest itself,    *)
(* and FetchPool, whose step Work becomes a call of fetchObject.            *)
(*                                                                          *)
(* The staging directory holds the manifest and the temporary files.  It is *)
(* removed while goroutines that timed out may still be about to create a   *)
(* file in it: RemoveAll is two steps, with room for them in between.       *)
(***************************************************************************)
EXTENDS FetchObject, FiniteSets

CONSTANTS Manifest,  \* the job that fetches the manifest
          Files,     \* the jobs of files a manifest may name
          Listings,  \* the sets of them that manifests name
          Workers

ASSUME ManifestAssumption ==
  /\ Manifest \in Jobs
  /\ FinalDir[Manifest] = Staging      \* destDirOverride
  /\ Manifest \notin HasSha
  /\ Files \subseteq Jobs
  /\ \A j \in Files : FinalDir[j] # Staging
  /\ Listings \subseteq SUBSET Files
  /\ IsFiniteSet(Files) /\ IsFiniteSet(Workers)

VARIABLES
  phase,     \* where fetchFromManifest stands
  jobs, pool, main, unqueued, todo, results, reported, n, failed, errs,
  wstate, wjob, ok, closed             \* those of FetchPool

Pool == INSTANCE FetchPool WITH Jobs <- Files

poolVars == <<jobs, pool, main, unqueued, todo, results, reported, n, failed,
              errs, wstate, wjob, ok, closed>>
mvars == <<fvars, phase, poolVars>>

Exited == phase \in {"exit0", "exit1"}

MInit == FInit /\ Pool!PInit /\ phase = "manifest"

\* The manifest (an archive: see FetchArchive) is fetched first, alone.
FetchFirst(j) ==
  /\ phase = "manifest"
  /\ CallerStep(j)
  /\ UNCHANGED <<phase, poolVars>>
FetchManifestFile == FetchFirst(Manifest)

\* It cannot be fetched: os.Exit(1) here when access is denied, or an error
\* that main turns into the same exit.
FirstFetched(j) ==
  /\ phase = "manifest"
  /\ pc[j] = "done"
  /\ phase' = IF report[j].success THEN "decode" ELSE "exit1"
  /\ UNCHANGED <<fvars, poolVars>>
ManifestFetched == FirstFetched(Manifest)

\* The file is opened and decoded; a job is made of each file it names, and
\* processJobs is called.
Decode ==
  /\ phase = "decode"
  /\ final[Manifest] # NoFile
  /\ \E S \in Listings : Pool!Start(S)
  /\ phase' = "jobs"
  /\ UNCHANGED fvars

\* It cannot be opened, it is not JSON, or one of its URLs does not parse.
DecodeFails ==
  /\ phase = "decode"
  /\ phase' = "exit1"
  /\ UNCHANGED <<fvars, poolVars>>

\* A worker fetches its job.
FetchFile(w) ==
  /\ phase = "jobs"
  /\ wstate[w] = "busy"
  /\ CallerStep(wjob[w])
  /\ UNCHANGED <<phase, poolVars>>

FetchDone(j) == pc[j] = "done"

\* fetchObject has returned to doWork.
FetchReturned(w) ==
  /\ phase = "jobs"
  /\ wstate[w] = "busy"
  /\ FetchDone(wjob[w])
  /\ Pool!Work(w, report[wjob[w]].success)
  /\ UNCHANGED <<fvars, phase>>

PassJobs ==
  /\ phase = "jobs"
  /\ \/ \E j \in Files : Pool!Queue(j)
     \/ \E w \in Workers, j \in Files : Pool!Take(w, j)
     \/ \E w \in Workers : Pool!SendReport(w) \/ Pool!WorkerEnds(w)
     \/ Pool!MainStep
  /\ UNCHANGED <<fvars, phase>>

\* processJobs has returned, or has stopped the process.
JobsDone ==
  /\ phase = "jobs"
  /\ Pool!Ended
  /\ phase' = IF main = "returned" THEN "clean" ELSE "exit1"
  /\ UNCHANGED <<fvars, poolVars>>

\* RemoveAll removes what it finds in the staging directory ...
RemoveEntries ==
  /\ phase = "clean"
  /\ tmp' = [p \in Paths |-> NoFile]
  /\ final' = [j \in Jobs |-> IF FinalDir[j] = Staging THEN NoFile ELSE final[j]]
  /\ phase' = "rmdir"
  /\ UNCHANGED <<callerVars, goVars, data, dirs, created, poolVars>>

\* ... and then the directory, if it is still empty.
RemoveDirectory ==
  /\ phase = "rmdir"
  /\ \A p \in Paths : tmp[p] = NoFile
  /\ dirs' = dirs \ {Staging}
  /\ phase' = "stats"
  /\ UNCHANGED <<callerVars, goVars, tmp, final, data, created, poolVars>>

\* An error of RemoveAll is logged, and the fetch has succeeded all the same.
RemoveFails ==
  /\ phase \in {"clean", "rmdir"}
  /\ phase' = "stats"
  /\ UNCHANGED <<fvars, poolVars>>

\* The final statistics are emitted and the manifest is closed: if the close
\* fails Fetch returns its error, else nil, and main returns.
EmitStats ==
  /\ phase = "stats"
  /\ phase' \in {"exit0", "exit1"}
  /\ UNCHANGED <<fvars, poolVars>>

\* Goroutines run, those that timed out included, until the process ends.
GoroutineStep(a) ==
  /\ ~Exited
  /\ GoStep(a)
  /\ UNCHANGED <<phase, poolVars>>

MainThread ==
  \/ ManifestFetched \/ Decode \/ DecodeFails
  \/ JobsDone \/ RemoveEntries \/ RemoveDirectory \/ RemoveFails \/ EmitStats

MNext ==
  \/ FetchManifestFile
  \/ MainThread
  \/ PassJobs
  \/ \E w \in Workers : FetchFile(w) \/ FetchReturned(w)
  \/ \E a \in Attempts : GoroutineStep(a)

MSafety == MInit /\ [][MNext]_mvars

\* The scheduler runs the main goroutine, the queuer and the workers; nothing
\* is assumed of the downloads.
MSpec ==
  /\ MSafety
  /\ WF_mvars(FetchManifestFile)
  /\ WF_mvars(MainThread)
  /\ WF_mvars(PassJobs)
  /\ \A w \in Workers : WF_mvars(FetchFile(w)) /\ WF_mvars(FetchReturned(w))

-----------------------------------------------------------------------------
(* Properties.                                                              *)

\* When the process exits with 0, every file the manifest names is under its
\* final name, whole and verified: the report, the pool's account of it and
\* the file system agree, whatever the goroutines left behind still do.
ExitZeroMeansAllThere ==
  phase = "exit0" =>
    \A j \in jobs : final[j] # NoFile /\ Intact(j, final[j])

\* processJobs stops the process only if the fetch of some job really ended
\* without success, and not before all its tries were spent.
ExitOneHasAReason ==
  main = "exited" =>
    \E j \in jobs : ~report[j].success /\ report[j].attempts = Retries[j] + 1

\* Whatever the exit, no file that was not verified stands in the workspace.
OnlyVerifiedFiles ==
  \A j \in Files : final[j] # NoFile => Intact(j, final[j])

\* CreatedDirs is believed without a look at the disk: as long as a caller may
\* consult it, the directories it holds exist.
CreatedDirsIsTrue ==
  phase \in {"manifest", "decode", "jobs"} => created \subseteq dirs

\* Once RemoveAll has removed the staging directory, no orphan brings it back
\* or leaves a file in it.
StagingStaysGone ==
  [][phase = "stats" /\ Staging \notin dirs =>
       Staging \notin dirs' /\ tmp' = tmp]_mvars

\* The process ends, though GCS may leave any download hanging for ever.
FetcherExits == <>Exited
=============================================================================
