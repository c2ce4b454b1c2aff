------------------------- MODULE FetchSourceProofs --------------------------
(***************************************************************************)
(* Theorems about the fetch of a whole source: of the files of a manifest,  *)
(* for every finite set of files and workers, number of retries and size of *)
(* object, and of an archive, for every archive and workspace, whatever the *)
(* number of entries, the length of files and how often names come.         *)
(* Those about FetchManifest rest on the theorems about the two modules it  *)
(* composes: a step of MNext is one of FetchObject, one of FetchPool or     *)
(* both at once, until the staging directory is removed.                    *)
(***************************************************************************)
EXTENDS FetchArchive, FetchObjectProofs, SequenceTheorems

\* The theorems about processJobs, for its jobs here.
PP == INSTANCE FetchPoolProofs WITH Jobs <- Files

-----------------------------------------------------------------------------
(* Manifests: the inductive invariant, in parts.                            *)

\* While callers may run: the staging directory is not removed yet.
Fetching == phase \in {"manifest", "decode", "jobs"}

\* What is left of FilesInv when the staging directory is being removed, and
\* goroutines may still create files in it.
BegunApart ==
  \A a, b \in Attempts :
    go[a] # "none" /\ go[b] # "none" /\ Path(a) = Path(b) => a = b
NamesLeadToOwn ==
  \A p \in Paths, a \in Attempts :
    tmp[p] = a => p = Path(a) /\ go[a] \in {"copy", "close", "sent"}
PublishedWhole ==
  \A j \in Files : final[j] # NoFile =>
    go[final[j]] = "sent" /\ Intact(j, final[j])
OnDisk ==
  TypeOK /\ BegunApart /\ OwnInodes /\ NamesLeadToOwn /\ PublishedWhole

\* fetchObject and processJobs agree: a job in the pool's account has been
\* fetched, with the success that the pool noted.
HandledIsDone ==
  /\ \A j \in ok : pc[j] = "done" /\ report[j].success
  /\ \A j \in results \cup reported :
       pc[j] = "done" /\ (report[j].success => j \in ok)
  /\ \A w \in Workers : wstate[w] = "send" =>
       pc[wjob[w]] = "done" /\ (report[wjob[w]].success => wjob[w] \in ok)

\* A fetch that has ended left the file, or was tried as often as it may be.
DoneIsThere ==
  \A j \in Files : pc[j] = "done" =>
    IF report[j].success THEN final[j] # NoFile
                         ELSE report[j].attempts = Retries[j] + 1

\* fetchFromManifest calls processJobs once, and goes on when it returned.
PhaseFollowsPool ==
  /\ phase \in {"manifest", "decode"} => main = "start"
  /\ phase \in {"clean", "rmdir", "stats", "exit0"} => main = "returned"

MInv ==
  /\ PP!PoolInv
  /\ OnDisk
  /\ Fetching => FilesInv /\ RoundsCounted
  /\ CreatedDirsIsTrue
  /\ HandledIsDone /\ DoneIsThere /\ PhaseFollowsPool

-----------------------------------------------------------------------------
(* The steps of the pool.                                                   *)

\* The assumption of FetchPool holds of its instance.
LEMMA PoolIsFinite == PP!IsFiniteSet(Files) /\ PP!IsFiniteSet(Workers)
BY ManifestAssumption DEF PP!IsFiniteSet, IsFiniteSet

\* A step of the pool in FetchManifest is one of the module the theorems
\* about it are for.
PoolStep ==
  \/ \E S \in Listings : Pool!Start(S)
  \/ \E w \in Workers : Pool!Work(w, report[wjob[w]].success)
  \/ \E j \in Files : Pool!Queue(j)
  \/ \E w \in Workers, j \in Files : Pool!Take(w, j)
  \/ \E w \in Workers : Pool!SendReport(w) \/ Pool!WorkerEnds(w)
  \/ Pool!MainStep

LEMMA PoolStepIsStep ==
  ASSUME TypeOK, \A w \in Workers : wstate[w] = "busy" => wjob[w] \in Jobs,
         PoolStep
  PROVE  PP!PNext
<1>a. \A S : Pool!Cardinality(S) = PP!Cardinality(S)
  BY DEF Pool!Cardinality, PP!Cardinality
<1>b. Pool!Capacity = PP!Capacity /\ Pool!NoJob = PP!NoJob
  BY <1>a DEF Pool!Capacity, PP!Capacity, Pool!NoJob, PP!NoJob
<1>1. ASSUME NEW S \in Listings, Pool!Start(S) PROVE PP!PNext
  <2>1. PP!Start(S)
    BY <1>a, <1>1 DEF Pool!Start, PP!Start
  <2> QED
    BY <2>1, ManifestAssumption DEF PP!PNext
<1>2. ASSUME NEW w \in Workers, Pool!Work(w, report[wjob[w]].success)
      PROVE  PP!PNext
  <2>1. wjob[w] \in Jobs
    BY <1>2 DEF Pool!Work
  <2>2. report[wjob[w]].success \in BOOLEAN
    BY <2>1 DEF TypeOK, Reports
  <2>3. PP!Work(w, report[wjob[w]].success)
    BY <1>2 DEF Pool!Work, PP!Work
  <2> QED
    BY <2>2, <2>3 DEF PP!PNext, PP!WorkerStep
<1>3. ASSUME NEW j \in Files, Pool!Queue(j) PROVE PP!PNext
  BY <1>a, <1>b, <1>3 DEF Pool!Queue, PP!Queue, PP!PNext
<1>4. ASSUME NEW w \in Workers, NEW j \in Files, Pool!Take(w, j) PROVE PP!PNext
  BY <1>a, <1>b, <1>4 DEF Pool!Take, PP!Take, PP!PNext, PP!WorkerStep
<1>5. ASSUME NEW w \in Workers, Pool!SendReport(w) PROVE PP!PNext
  BY <1>a, <1>b, <1>5 DEF Pool!SendReport, PP!SendReport, PP!PNext, PP!WorkerStep
<1>6. ASSUME NEW w \in Workers, Pool!WorkerEnds(w) PROVE PP!PNext
  BY <1>a, <1>b, <1>6 DEF Pool!WorkerEnds, PP!WorkerEnds, PP!PNext, PP!WorkerStep
<1>7. ASSUME Pool!MainStep PROVE PP!PNext
  <2>1. PP!MainStep
    BY <1>a, <1>7 DEF Pool!MainStep, PP!MainStep, Pool!Consume, PP!Consume,
                Pool!EndConsume, PP!EndConsume, Pool!QueuerDone, PP!QueuerDone,
                Pool!CloseResults, PP!CloseResults, Pool!CloseTodo, PP!CloseTodo,
                Pool!WorkersDone, PP!WorkersDone, Pool!LoopOver, PP!LoopOver,
                Pool!AnyFailed, PP!AnyFailed, Pool!Outcome, PP!Outcome
  <2> QED
    BY <2>1 DEF PP!PNext
<1> QED
  BY <1>1, <1>2, <1>3, <1>4, <1>5, <1>6, <1>7 DEF PoolStep

LEMMA PoolInvStep ==
  ASSUME TypeOK, PP!PoolInv, PoolStep \/ UNCHANGED poolVars
  PROVE  PP!PoolInv'
<1>1. \A w \in Workers : wstate[w] = "busy" => wjob[w] \in Jobs
  BY ManifestAssumption DEF PP!PoolInv, PP!WorkersHaveJobs
<1>2. [PP!PNext]_(PP!pvars)
  BY <1>1, PoolStepIsStep DEF poolVars, PP!pvars
<1> QED
  BY <1>2, PP!PoolInvNext, PoolIsFinite

-----------------------------------------------------------------------------
(* The steps of fetchObject.                                                *)

\* What the invariant of FetchObject says of the disk.
LEMMA FilesInvOnDisk == FilesInv => OnDisk
<1> SUFFICES ASSUME FilesInv PROVE OnDisk
  OBVIOUS
<1> USE DEF FilesInv
<1>1. BegunApart
  BY PathsDiffer DEF BegunApart
<1>2. OwnInodes /\ NamesLeadToOwn
  BY DEF OwnFiles, OwnInodes, NamesLeadToOwn
<1>3. PublishedWhole
  BY FilesInvVisible, ManifestAssumption
     DEF PublishedWhole, FinalIsPast, VisibleIsVerified
<1> QED
  BY <1>1, <1>2, <1>3 DEF OnDisk

\* A goroutine writes to the file of its own attempt, not to one that was
\* published, also when the temporary files are removed around it.
LEMMA GoOnDisk ==
  ASSUME OnDisk, NEW a \in Attempts, GoStep(a), ~CloseMayFail
  PROVE  OnDisk'
<1> USE DEF OnDisk
<1>1. TypeOK'
  BY GoType
<1>2. UNCHANGED <<pc, retrynum, fuzz, report, told, final, dirs, created>>
  BY DEF GoStep, Open, OpenFails, Create, CreateFails, CopyChunk, CopyFails,
         Verify, Close, callerVars, fsVars
<1>3. /\ go[a] \in {"open", "create", "copy", "close"} /\ go'[a] # "none"
      /\ \A b \in Attempts : b # a => go'[b] = go[b]
      /\ go[a] \in {"copy", "close"} => go'[a] \in {"copy", "close", "sent"}
  BY DEF GoStep, Open, OpenFails, Create, CreateFails, CopyChunk, CopyFails,
         Verify, Close, Send, callerVars, fsVars, TypeOK
<1>4. \A b \in Attempts : Path(b)' = Path(b) /\ Path(b) \in Paths
  BY <1>2, PathIsPath DEF Path
<1>5. BegunApart'
  BY <1>3, <1>4 DEF BegunApart
<1>6. CASE Create(a)
  <2>1. go[a] = "create" /\ go'[a] = "copy"
    BY <1>6 DEF Create, TypeOK
  <2>2. tmp[Path(a)] \notin Attempts
    <3>1. SUFFICES ASSUME NEW b \in Attempts, tmp[Path(a)] = b PROVE FALSE
      OBVIOUS
    <3>2. Path(a) = Path(b) /\ go[b] \in {"copy", "close", "sent"}
      BY <1>4, <3>1 DEF NamesLeadToOwn
    <3> QED
      BY <2>1, <3>2 DEF BegunApart
  <2>3. tmp[Path(a)] = NoFile
    BY <1>4, <2>2 DEF TypeOK
  <2>4. /\ fd' = [fd EXCEPT ![a] = a]
        /\ tmp' = [tmp EXCEPT ![Path(a)] = a]
        /\ data' = [data EXCEPT ![a] = Empty]
    BY <1>6, <2>3 DEF Create
  <2>5. OwnInodes'
    BY <1>3, <2>4 DEF OwnInodes, TypeOK
  <2>6. NamesLeadToOwn'
    BY <1>3, <1>4, <2>1, <2>4 DEF NamesLeadToOwn, TypeOK
  <2>7. PublishedWhole'
    BY <1>2, <1>3, <2>1, <2>4, ManifestAssumption
       DEF PublishedWhole, Intact, TypeOK
  <2> QED
    BY <1>1, <1>5, <2>5, <2>6, <2>7
<1>7. CASE ~Create(a)
  <2>1. /\ UNCHANGED <<fd, tmp>>
        /\ go'[a] \in {"copy", "close"} => go[a] \in {"copy", "close"}
    BY <1>7 DEF GoStep, Open, OpenFails, CreateFails, CopyChunk, CopyFails,
                Verify, Close, Send, fsVars, TypeOK
  <2>2. OwnInodes'
    BY <1>3, <2>1 DEF OwnInodes
  <2>3. NamesLeadToOwn'
    BY <1>3, <1>4, <2>1 DEF NamesLeadToOwn
  <2>4. \A b \in Attempts : b # a => data'[b] = data[b]
    BY <1>7 DEF GoStep, Open, OpenFails, CreateFails, CopyChunk, CopyFails,
                Verify, Close, Send, fsVars, TypeOK, OwnInodes
  <2>5. PublishedWhole'
    BY <1>2, <1>3, <2>4, ManifestAssumption DEF PublishedWhole, Intact, TypeOK
  <2> QED
    BY <1>1, <1>5, <2>2, <2>3, <2>5
<1> QED
  BY <1>6, <1>7

\* A caller's step concerns its own job, which was not done; when it ends, it
\* has the file or has spent its tries.
LEMMA CallerEnds ==
  ASSUME TypeOK, RoundsCounted, NEW j \in Jobs, CallerStep(j)
  PROVE  /\ pc[j] # "done"
         /\ \A k \in Jobs : k # j =>
              pc'[k] = pc[k] /\ report'[k] = report[k] /\ final'[k] = final[k]
         /\ pc'[j] = "done" =>
              IF report'[j].success THEN final'[j] # NoFile
                                    ELSE report'[j].attempts = Retries[j] + 1
<1> USE DEF callerVars, goVars, fsVars
<1>1. pc[j] # "done"
  BY DEF CallerStep, Begin, StartDownload, MakeStagingFails, Receive, Timeout,
         EnsureFinal, MakeFinalFails, Rename, RenameFails, Finish, ChmodFails
<1>2. \A k \in Jobs : k # j =>
        pc'[k] = pc[k] /\ report'[k] = report[k] /\ final'[k] = final[k]
  BY DEF CallerStep, Begin, StartDownload, MakeStagingFails, Receive, Timeout,
         EnsureFinal, MakeFinalFails, Rename, RenameFails, Finish, ChmodFails,
         Fail, TypeOK
<1>3. ASSUME NEW e, Fail(j, e), pc'[j] = "done"
      PROVE  ~report'[j].success /\ report'[j].attempts = Retries[j] + 1
  <2>1. /\ retrynum[j] \in Nat /\ Retries[j] \in Nat
        /\ retrynum[j] <= Retries[j] /\ report[j].attempts = retrynum[j]
    BY <1>1, FetchAssumption DEF TypeOK, Rounds, RoundsCounted
  <2>2. LastRound(j)
    BY <1>3 DEF Fail, TypeOK
  <2>3. retrynum[j] = Retries[j]
    BY <2>1, <2>2 DEF LastRound
  <2> QED
    BY <1>3, <2>1, <2>3 DEF Fail, TypeOK
<1>4. CASE Finish(j)
  BY <1>1, <1>2, <1>4 DEF Finish, RoundsCounted, TypeOK
<1>5. CASE \E e : Fail(j, e)
  BY <1>1, <1>2, <1>3, <1>5
<1>6. CASE ~Finish(j) /\ ~\E e : Fail(j, e)
  <2>1. pc'[j] # "done"
    BY <1>6 DEF CallerStep, Begin, StartDownload, MakeStagingFails, Receive,
         Timeout, EnsureFinal, MakeFinalFails, Rename, RenameFails, ChmodFails,
         TypeOK
  <2> QED
    BY <1>1, <1>2, <2>1
<1> QED
  BY <1>4, <1>5, <1>6

\* CreatedDirs takes in a directory when it was made, and directories stay
\* while callers run.
LEMMA CallerMakesDirs ==
  ASSUME NEW j \in Jobs, CallerStep(j), created \subseteq dirs
  PROVE  created' \subseteq dirs'
BY DEF CallerStep, Begin, StartDownload, MakeStagingFails, Receive, Timeout,
       EnsureFinal, MakeFinalFails, Rename, RenameFails, Finish, ChmodFails,
       EnsureFolders, EnsureFoldersFails, fsVars

-----------------------------------------------------------------------------
(* The invariant is kept.                                                   *)

LEMMA FilesInvOnDiskNext ==
  FilesInv' => OnDisk' /\ VisibleIsVerified'
<1>1. FilesInv => OnDisk /\ VisibleIsVerified
  BY FilesInvOnDisk, FilesInvVisible
<1> QED
  BY <1>1, PTL

LEMMA MInvInit ==
  ASSUME MInit
  PROVE  MInv
<1> USE DEF MInit
<1>1. PP!PoolInv
  <2>1. PP!PInit
    BY DEF Pool!PInit, PP!PInit, Pool!NoJob, PP!NoJob
  <2> QED
    BY <2>1, PP!PoolInvInit, PoolIsFinite
<1>2. FilesInv
  BY FilesInvInit
<1>3. RoundsCounted
  <2>1. \A j \in Jobs : 0 <= Retries[j]
    BY FetchAssumption DEF Rounds
  <2> QED
    BY <2>1 DEF FInit, RoundsCounted
<1>4. HandledIsDone
  BY DEF HandledIsDone, Pool!PInit
<1>5. DoneIsThere
  BY ManifestAssumption DEF DoneIsThere, FInit
<1> QED
  BY <1>1, <1>2, <1>3, <1>4, <1>5, FilesInvOnDisk
     DEF MInv, CreatedDirsIsTrue, PhaseFollowsPool, FInit, Pool!PInit

\* A caller's step: the job it fetches has not been handled.
LEMMA CallerKeepsM ==
  ASSUME MInv, NEW j \in Jobs, CallerStep(j), UNCHANGED <<phase, poolVars>>,
         phase \in {"manifest", "jobs"}, ~FuzzCollides, ~CloseMayFail
  PROVE  MInv'
<1> USE DEF MInv, poolVars
<1>1. Fetching /\ FilesInv /\ RoundsCounted
  BY DEF Fetching
<1>2. FilesInv'
  BY <1>1, FilesInvNext DEF FNext
<1>3. OnDisk' /\ VisibleIsVerified'
  BY <1>2, FilesInvOnDiskNext
<1>4. RoundsCounted'
  BY <1>1, <1>3, CallerRefines
<1>5. TypeOK
  BY DEF OnDisk
<1>6. PP!PoolInv'
  BY <1>5, PoolInvStep
<1>7. /\ pc[j] # "done"
      /\ \A k \in Jobs : k # j =>
           pc'[k] = pc[k] /\ report'[k] = report[k] /\ final'[k] = final[k]
      /\ pc'[j] = "done" =>
           IF report'[j].success THEN final'[j] # NoFile
                                 ELSE report'[j].attempts = Retries[j] + 1
  BY <1>1, <1>5, CallerEnds
<1>8. /\ ok \subseteq Jobs /\ results \subseteq Jobs /\ reported \subseteq Jobs
      /\ \A w \in Workers : wstate[w] = "send" => wjob[w] \in Jobs
  BY ManifestAssumption DEF PP!PoolInv, PP!PoolTypeOK, PP!WorkersHaveJobs
<1>9. HandledIsDone'
  BY <1>7, <1>8 DEF HandledIsDone
<1>10. DoneIsThere'
  BY <1>7, ManifestAssumption DEF DoneIsThere
<1>11. CreatedDirsIsTrue'
  BY <1>1, CallerMakesDirs DEF CreatedDirsIsTrue, Fetching
<1>12. PhaseFollowsPool'
  BY DEF PhaseFollowsPool
<1> QED
  BY <1>2, <1>3, <1>4, <1>6, <1>9, <1>10, <1>11, <1>12

\* A goroutine's step, at any time.
LEMMA GoKeepsM ==
  ASSUME MInv, NEW a \in Attempts, GoroutineStep(a), ~FuzzCollides, ~CloseMayFail
  PROVE  MInv'
<1> USE DEF MInv, GoroutineStep, poolVars
<1>1. OnDisk' /\ TypeOK
  BY GoOnDisk DEF OnDisk
<1>2. PP!PoolInv'
  BY <1>1, PoolInvStep
<1>3. UNCHANGED <<pc, report, final, dirs, created>>
  BY DEF GoStep, Open, OpenFails, Create, CreateFails, CopyChunk, CopyFails,
         Verify, Close, callerVars, fsVars
<1>4. Fetching' => FilesInv' /\ RoundsCounted'
  BY FilesInvNext, GoRefines DEF FNext, Fetching
<1> QED
  BY <1>1, <1>2, <1>3, <1>4
     DEF CreatedDirsIsTrue, HandledIsDone, DoneIsThere, PhaseFollowsPool

\* The parts of the invariant that a step of the pool alone, or of the phase
\* alone, does not touch.
LEMMA FilesLeftAlone ==
  ASSUME MInv, UNCHANGED fvars
  PROVE  /\ OnDisk' /\ DoneIsThere'
         /\ Fetching => FilesInv' /\ RoundsCounted'
<1> USE DEF MInv, fvars
<1>1. OnDisk'
  BY DEF OnDisk, TypeOK, BegunApart, OwnInodes, NamesLeadToOwn, PublishedWhole,
         Intact, Path
<1>2. DoneIsThere'
  BY DEF DoneIsThere
<1>3. FilesInv => FilesInv'
  BY DEF FilesInv, TypeOK, AnswerChosen, DistinctFuzz, RoundsInOrder,
         CallerKnows, OwnFiles, CopiedIsStreamed, FinalIsPast, Current, Path
<1>4. RoundsCounted => RoundsCounted'
  BY DEF RoundsCounted
<1> QED
  BY <1>1, <1>2, <1>3, <1>4

\* The pool passes on the jobs that were fetched, and those only.
LEMMA PassKeepsM ==
  ASSUME MInv, PassJobs
  PROVE  MInv'
<1> USE DEF MInv, PassJobs
<1>1. OnDisk' /\ DoneIsThere' /\ FilesInv' /\ RoundsCounted' /\ TypeOK
  BY FilesLeftAlone DEF Fetching, OnDisk
<1>2. PP!PoolInv'
  BY <1>1, PoolInvStep DEF PoolStep
<1>3. HandledIsDone'
  <2>1. UNCHANGED <<pc, report>>
    BY DEF fvars
  <2>2. /\ ok' = ok
        /\ results' \cup reported' \subseteq
             results \cup reported \cup {wjob[w] : w \in {v \in Workers : wstate[v] = "send"}}
        /\ \A w \in Workers : wstate'[w] = "send" =>
             wstate[w] = "send" /\ wjob'[w] = wjob[w]
    BY DEF Pool!Queue, Pool!Take, Pool!SendReport, Pool!WorkerEnds,
           Pool!MainStep, Pool!Consume, Pool!EndConsume, Pool!QueuerDone,
           Pool!CloseResults, Pool!CloseTodo, Pool!WorkersDone,
           PP!PoolInv, PP!PoolTypeOK
  <2> QED
    BY <2>1, <2>2 DEF HandledIsDone
<1>4. CreatedDirsIsTrue' /\ PhaseFollowsPool'
  BY DEF CreatedDirsIsTrue, PhaseFollowsPool, fvars
<1> QED
  BY <1>1, <1>2, <1>3, <1>4

\* A worker takes over the report of the job it fetched.
LEMMA ReturnedKeepsM ==
  ASSUME MInv, NEW w \in Workers, FetchReturned(w)
  PROVE  MInv'
<1> USE DEF MInv, FetchReturned, FetchDone
<1>1. OnDisk' /\ DoneIsThere' /\ FilesInv' /\ RoundsCounted' /\ TypeOK
  BY FilesLeftAlone DEF Fetching, OnDisk
<1>2. PP!PoolInv'
  BY <1>1, PoolInvStep DEF PoolStep
<1>3. HandledIsDone'
  BY DEF HandledIsDone, Pool!Work, fvars, PP!PoolInv, PP!PoolTypeOK
<1>4. CreatedDirsIsTrue' /\ PhaseFollowsPool'
  BY DEF CreatedDirsIsTrue, PhaseFollowsPool, fvars
<1> QED
  BY <1>1, <1>2, <1>3, <1>4

\* The main goroutine decodes the manifest, and cleans up when processJobs
\* has returned.
LEMMA MainKeepsM ==
  ASSUME MInv, MainThread
  PROVE  MInv'
<1> USE DEF MInv
<1>a. TypeOK
  BY DEF OnDisk
<1>1. CASE ManifestFetched \/ DecodeFails \/ JobsDone \/ RemoveFails \/ EmitStats
  <2> USE <1>1 DEF ManifestFetched, FirstFetched, DecodeFails, JobsDone,
                   RemoveFails, EmitStats
  <2>1. UNCHANGED <<fvars, poolVars>> /\ (Fetching' => Fetching)
    BY DEF Fetching
  <2>2. OnDisk' /\ DoneIsThere' /\ (Fetching' => FilesInv' /\ RoundsCounted')
    BY <2>1, FilesLeftAlone
  <2>3. PP!PoolInv'
    BY <1>a, <2>1, PoolInvStep
  <2>4. HandledIsDone' /\ CreatedDirsIsTrue'
    BY <2>1 DEF HandledIsDone, CreatedDirsIsTrue, Fetching, fvars, poolVars
  <2>5. PhaseFollowsPool'
    BY <2>1 DEF PhaseFollowsPool, poolVars, Pool!Ended
  <2> QED
    BY <2>2, <2>3, <2>4, <2>5
<1>2. CASE Decode
  <2> USE <1>2 DEF Decode
  <2>1. OnDisk' /\ DoneIsThere' /\ FilesInv' /\ RoundsCounted'
    BY FilesLeftAlone DEF Fetching
  <2>2. PP!PoolInv'
    BY <1>a, PoolInvStep DEF PoolStep
  <2>3. HandledIsDone'
    BY DEF HandledIsDone, Pool!Start, fvars
  <2>4. CreatedDirsIsTrue' /\ PhaseFollowsPool'
    BY DEF CreatedDirsIsTrue, PhaseFollowsPool, fvars
  <2> QED
    BY <2>1, <2>2, <2>3, <2>4
<1>3. CASE RemoveEntries \/ RemoveDirectory
  <2> USE <1>3 DEF RemoveEntries, RemoveDirectory
  <2>1. /\ UNCHANGED <<callerVars, goVars, data, created, poolVars>>
        /\ phase \in {"clean", "rmdir"} /\ phase' \in {"rmdir", "stats"}
        /\ dirs' \subseteq dirs
        /\ tmp' = tmp \/ tmp' = [p \in Paths |-> NoFile]
        /\ \A j \in Files : final'[j] = final[j]
        /\ final' \in [Jobs -> Attempts \cup {NoFile}]
    BY <1>a, ManifestAssumption DEF TypeOK
  <2>2. PP!PoolInv'
    BY <1>a, <2>1, PoolInvStep
  <2>3. TypeOK'
    BY <1>a, <2>1 DEF TypeOK, callerVars, goVars
  <2>4. BegunApart' /\ OwnInodes'
    BY <2>1 DEF OnDisk, BegunApart, OwnInodes, Path, callerVars, goVars
  <2>5. NamesLeadToOwn'
    BY <2>1, FetchAssumption DEF OnDisk, NamesLeadToOwn, Path, callerVars, goVars
  <2>6. PublishedWhole'
    BY <2>1 DEF OnDisk, PublishedWhole, Intact, goVars
  <2>7. HandledIsDone' /\ DoneIsThere'
    BY <2>1 DEF HandledIsDone, DoneIsThere, callerVars, poolVars
  <2>8. PhaseFollowsPool' /\ CreatedDirsIsTrue' /\ ~Fetching'
    BY <2>1 DEF PhaseFollowsPool, CreatedDirsIsTrue, Fetching, poolVars
  <2> QED
    BY <2>2, <2>3, <2>4, <2>5, <2>6, <2>7, <2>8 DEF OnDisk
<1> QED
  BY <1>1, <1>2, <1>3 DEF MainThread

LEMMA MInvNext ==
  ASSUME MInv, [MNext]_mvars, ~FuzzCollides, ~CloseMayFail
  PROVE  MInv'
<1>1. CASE UNCHANGED mvars
  <2>1. UNCHANGED <<fvars, phase, poolVars>> /\ TypeOK
    BY <1>1 DEF mvars, MInv, OnDisk
  <2>2. PP!PoolInv'
    BY <2>1, PoolInvStep DEF MInv
  <2>3. OnDisk' /\ DoneIsThere' /\ (Fetching' => FilesInv' /\ RoundsCounted')
    BY <2>1, FilesLeftAlone DEF Fetching
  <2>4. HandledIsDone' /\ CreatedDirsIsTrue' /\ PhaseFollowsPool'
    BY <2>1 DEF MInv, HandledIsDone, CreatedDirsIsTrue, PhaseFollowsPool,
                fvars, poolVars
  <2> QED
    BY <2>2, <2>3, <2>4 DEF MInv
<1>2. CASE FetchManifestFile
  BY <1>2, CallerKeepsM, ManifestAssumption DEF FetchManifestFile, FetchFirst
<1>3. CASE MainThread
  BY <1>3, MainKeepsM
<1>4. CASE PassJobs
  BY <1>4, PassKeepsM
<1>5. ASSUME NEW w \in Workers, FetchFile(w) PROVE MInv'
  <2>1. wjob[w] \in Jobs
    BY <1>5, ManifestAssumption DEF FetchFile, MInv, PP!PoolInv, PP!WorkersHaveJobs
  <2> QED
    BY <1>5, <2>1, CallerKeepsM DEF FetchFile
<1>6. ASSUME NEW w \in Workers, FetchReturned(w) PROVE MInv'
  BY <1>6, ReturnedKeepsM
<1>7. ASSUME NEW a \in Attempts, GoroutineStep(a) PROVE MInv'
  BY <1>7, GoKeepsM
<1> QED
  BY <1>1, <1>2, <1>3, <1>4, <1>5, <1>6, <1>7 DEF MNext

-----------------------------------------------------------------------------
(* The theorems.                                                            *)

\* The inductive invariant holds.
THEOREM ManifestInvariant ==
  ASSUME ~FuzzCollides, ~CloseMayFail
  PROVE  MSafety => []MInv
<1>1. MInit => MInv
  BY MInvInit
<1>2. MInv /\ [MNext]_mvars => MInv'
  BY MInvNext
<1> QED
  BY <1>1, <1>2, PTL DEF MSafety

\* When gcs-fetcher exits with 0, every file of the manifest stands under its
\* final name, whole and verified, though orphaned downloads may still run.
THEOREM ManifestExitZeroMeansAllThere ==
  ASSUME ~FuzzCollides, ~CloseMayFail
  PROVE  MSafety => []ExitZeroMeansAllThere
<1>1. MInv => ExitZeroMeansAllThere
  <2> SUFFICES ASSUME MInv, phase = "exit0", NEW j \in jobs
               PROVE  final[j] # NoFile /\ Intact(j, final[j])
    BY DEF ExitZeroMeansAllThere
  <2>1. main = "returned" /\ j \in Files
    BY DEF MInv, PhaseFollowsPool, PP!PoolInv, PP!PoolTypeOK
  <2>2. jobs \subseteq ok
    BY <2>1 DEF MInv, PP!PoolInv, PP!OutcomeIsFailed, PP!Counted, PP!LoopEnded
  <2>3. pc[j] = "done" /\ report[j].success
    BY <2>2 DEF MInv, HandledIsDone
  <2>4. final[j] # NoFile
    BY <2>1, <2>3 DEF MInv, DoneIsThere
  <2> QED
    BY <2>1, <2>4 DEF MInv, OnDisk, PublishedWhole
<1> QED
  BY <1>1, ManifestInvariant, PTL

\* processJobs stops the process only for a job whose fetch ended without
\* success, after as many tries as gf.Retries allows.
THEOREM ManifestExitOneHasAReason ==
  ASSUME ~FuzzCollides, ~CloseMayFail
  PROVE  MSafety => []ExitOneHasAReason
<1>1. MInv => ExitOneHasAReason
  <2> SUFFICES ASSUME MInv, main = "exited"
               PROVE  \E j \in jobs :
                        ~report[j].success /\ report[j].attempts = Retries[j] + 1
    BY DEF ExitOneHasAReason
  <2>1. PICK j \in reported : j \notin ok
    BY DEF MInv, PP!PoolInv, PP!OutcomeIsFailed, PP!Counted
  <2>2. j \in jobs /\ j \in Files
    BY DEF MInv, PP!PoolInv, PP!LoopEnded, PP!PoolTypeOK
  <2>3. pc[j] = "done" /\ ~report[j].success
    BY <2>1 DEF MInv, HandledIsDone
  <2> QED
    BY <2>2, <2>3 DEF MInv, DoneIsThere
<1> QED
  BY <1>1, ManifestInvariant, PTL

\* No file that was not verified ever stands in the workspace, before, during
\* and after the removal of the staging directory.
THEOREM ManifestOnlyVerifiedFiles ==
  ASSUME ~FuzzCollides, ~CloseMayFail
  PROVE  MSafety => []OnlyVerifiedFiles
<1>1. MInv => OnlyVerifiedFiles
  BY DEF MInv, OnDisk, PublishedWhole, OnlyVerifiedFiles
<1> QED
  BY <1>1, ManifestInvariant, PTL

\* CreatedDirs holds no directory that does not exist while a caller reads it.
THEOREM ManifestCreatedDirsIsTrue ==
  ASSUME ~FuzzCollides, ~CloseMayFail
  PROVE  MSafety => []CreatedDirsIsTrue
<1>1. MInv => CreatedDirsIsTrue
  BY DEF MInv
<1> QED
  BY <1>1, ManifestInvariant, PTL

\* When RemoveAll has removed the staging directory, no orphan brings it back
\* or puts a file in it.
THEOREM ManifestStagingStaysGone == MSafety => StagingStaysGone
<1>1. [MNext]_mvars =>
        [phase = "stats" /\ Staging \notin dirs =>
           Staging \notin dirs' /\ tmp' = tmp]_mvars
  <2> SUFFICES ASSUME MNext, phase = "stats", Staging \notin dirs
               PROVE  Staging \notin dirs' /\ tmp' = tmp
    OBVIOUS
  <2>1. ASSUME NEW a \in Attempts, GoStep(a)
        PROVE  Staging \notin dirs' /\ tmp' = tmp
    BY <2>1 DEF GoStep, Open, OpenFails, Create, FolderIsThere, CreateFails,
                CopyChunk, CopyFails, Verify, Close, fsVars
  <2>2. CASE MainThread
    BY <2>2 DEF MainThread, ManifestFetched, FirstFetched, Decode, DecodeFails,
                JobsDone, RemoveEntries, RemoveDirectory, RemoveFails, EmitStats,
                fvars
  <2> QED
    BY <2>1, <2>2 DEF MNext, FetchManifestFile, FetchFirst, PassJobs, FetchFile,
                      FetchReturned, GoroutineStep
<1> QED
  BY <1>1, PTL DEF MSafety, StagingStaysGone

-----------------------------------------------------------------------------
(* Archives: sequences of blocks.                                           *)

LEMMA SequenceIn ==
  ASSUME NEW S, NEW s \in Seq(S)
  PROVE  IsSequence(s)
BY SeqOfRange DEF IsSequence

LEMMA SequenceHas ==
  ASSUME NEW s, IsSequence(s)
  PROVE  Len(s) \in Nat /\ DOMAIN s = 1 .. Len(s)
BY LenProperties DEF IsSequence

LEMMA BlocksAre ==
  ASSUME NEW e, NEW k \in Nat
  PROVE  /\ IsSequence(Blocks(e, k)) /\ Len(Blocks(e, k)) = k
         /\ \A i \in 1 .. k : Blocks(e, k)[i] = <<e.name, e.id, i>>
<1> DEFINE S == {<<e.name, e.id, i>> : i \in 1 .. k}
<1>1. Blocks(e, k) \in [1 .. k -> S]
  BY DEF Blocks
<1>2. Blocks(e, k) \in Seq(S)
  BY <1>1, SeqDef
<1>3. DOMAIN Blocks(e, k) = 1 .. k
  BY DEF Blocks
<1>4. Len(Blocks(e, k)) = k
  BY <1>2, <1>3, LenProperties
<1> QED
  BY <1>2, <1>4, SequenceIn DEF Blocks

\* Two files that agree in the blocks of the first.
LEMMA AgreeIsPrefix ==
  ASSUME NEW s, IsSequence(s), NEW t, IsSequence(t), Len(s) <= Len(t),
         \A i \in 1 .. Len(s) : s[i] = t[i]
  PROVE  IsPrefix(s, t)
<1> DEFINE S == Range(s) \cup Range(t)
           u == SubSeq(t, 1, Len(s))
<1>1. s \in Seq(S) /\ t \in Seq(S)
  BY SeqMonotonic DEF IsSequence
<1>2. Len(s) \in Nat /\ Len(t) \in Nat
  BY SequenceHas
<1>3. \A i \in 1 .. Len(s) : t[i] \in S
  BY <1>1, <1>2, ElementOfSeq
<1>4. u \in Seq(S) /\ Len(u) = Len(s) /\ \A i \in 1 .. Len(s) : u[i] = t[i]
  BY <1>2, <1>3, SubSeqProperties
<1>5. s = u
  BY <1>1, <1>4, SeqEqual
<1>6. SubSeq(s, 1, Len(s)) = s
  BY <1>1, SubSeqFull
<1> QED
  BY <1>5, <1>6 DEF IsPrefix

\* What Overlay makes of two files: the new one, and the end of the old one
\* where that is longer.
LEMMA OverlayIs ==
  ASSUME NEW old, IsSequence(old), NEW new, IsSequence(new)
  PROVE  LET f == Overlay(old, new)
         IN  /\ IsSequence(f)
             /\ Len(f) = IF Len(old) > Len(new) THEN Len(old) ELSE Len(new)
             /\ \A i \in 1 .. Len(f) :
                  f[i] = IF i <= Len(new) THEN new[i] ELSE old[i]
<1> DEFINE S == Range(old) \cup Range(new)
           m == Len(new) + 1
           l == Len(old)
           end == SubSeq(old, m, l)
<1>1. old \in Seq(S) /\ new \in Seq(S)
  BY SeqMonotonic DEF IsSequence
<1>2. m \in Nat \ {0} /\ l \in Nat /\ Len(new) \in Nat /\ m = Len(new) + 1
  BY SequenceHas
<1>3. \A i \in m .. l : old[i] \in S
  BY <1>1, <1>2, ElementOfSeq
<1>4. /\ end \in Seq(S)
      /\ Len(end) = IF m <= l THEN l - m + 1 ELSE 0
      /\ \A i \in 1 .. l - m + 1 : end[i] = old[m + i - 1]
  BY <1>2, <1>3, SubSeqProperties
<1>5. /\ new \o end \in Seq(S)
      /\ Len(new \o end) = Len(new) + Len(end)
      /\ \A i \in 1 .. Len(new) + Len(end) :
           (new \o end)[i] = IF i <= Len(new) THEN new[i] ELSE end[i - Len(new)]
  BY <1>1, <1>4, ConcatProperties
<1>6. Overlay(old, new) = new \o end
  BY DEF Overlay
<1>7. Len(new \o end) = IF l > Len(new) THEN l ELSE Len(new)
  BY <1>2, <1>4, <1>5
<1>8. ASSUME NEW i \in 1 .. Len(new \o end)
      PROVE  (new \o end)[i] = IF i <= Len(new) THEN new[i] ELSE old[i]
  <2>1. CASE i <= Len(new)
    BY <1>2, <1>5, <1>8, <2>1
  <2>2. CASE ~(i <= Len(new))
    <3>1. i - Len(new) \in 1 .. l - m + 1 /\ m + (i - Len(new)) - 1 = i
      BY <1>2, <1>7, <2>2
    <3>2. end[i - Len(new)] = old[i]
      BY <1>4, <3>1
    <3> QED
      BY <1>2, <1>5, <2>2, <3>2
  <2> QED
    BY <2>1, <2>2
<1> QED
  BY <1>5, <1>6, <1>7, <1>8, SequenceIn

-----------------------------------------------------------------------------
(* The inductive invariants, in parts.                                      *)

\* The entries of an archive.
ArchiveShape ==
  /\ IsSequence(archive)
  /\ \A i \in DOMAIN archive :
       /\ archive[i].kind \in {"dir", "file", "link"}
       /\ IsSequence(archive[i].name)
       /\ archive[i].kind # "dir" =>
            archive[i].name \in Places /\ archive[i].len \in Nat \ {0}
  /\ next \in Nat \ {0} /\ written \in Nat

\* The entry at work: a file has the blocks that were counted.
EntryShape ==
  /\ phase \in {"manifest", "decode"} => next = 1 /\ written = 0
  /\ written > 0 =>
       next \in DOMAIN archive /\ Entry.kind # "dir" /\ written <= Len(dest[Entry.name])

\* What is in the workspace.
PlacesShape ==
  dest = [p \in Places |-> dest[p]] /\ \A p \in Places : InPlace(p, dest[p])

\* The file of entry e holds its first k blocks.
Holds(e, k) ==
  /\ k <= Len(dest[e.name])
  /\ \A i \in 1 .. k : dest[e.name][i] = <<e.name, e.id, i>>

FileThere(i) ==
  Holds(archive[i], archive[i].len) /\ Front(archive[i].name) \in folders
FolderThere(i) ==
  LET e == archive[i]
  IN  e.name \in folders \/ (IsZip /\ e.name \in Places /\ dest[e.name] # NoBlocks)

\* The last entry of its name, of those that were opened.
Opened == IF written > 0 THEN next ELSE next - 1
LastYet(i) ==
  \A k \in FileEntries :
    k <= Opened /\ archive[k].name = archive[i].name => k <= i

\* What was made of entry i.
Handled(i) ==
  /\ IsFile(archive[i]) /\ LastYet(i) => FileThere(i)
  /\ archive[i].kind = "dir" => FolderThere(i)

\* In the middle of the archive.
SoFar ==
  /\ next <= Len(archive) + 1
  /\ \A i \in 1 .. next - 1 : Handled(i)
  /\ written > 0 =>
       /\ IsFile(Entry)
       /\ written <= Entry.len /\ Holds(Entry, written)
       /\ Front(Entry.name) \in folders

\* At its end.
AllThere ==
  \A i \in DOMAIN archive :
    /\ IsFile(archive[i]) /\ LastOf(i) => FileThere(i)
    /\ archive[i].kind = "dir" => FolderThere(i)

Extracted ==
  InArchive =>
    /\ phase = "extract" => SoFar
    /\ phase \in {"clean", "rmdir", "stats", "exit0"} => AllThere

Shapes == ArchiveShape /\ EntryShape /\ PlacesShape

-----------------------------------------------------------------------------
(* Shapes.                                                                  *)

\* A file whose first blocks are written holds them, keeps its old end, and
\* no other file changes.
LEMMA WriteIs ==
  ASSUME Shapes, Entry.name \in Places, NEW k \in Nat \ {0}, Write(k)
  PROVE  /\ PlacesShape'
         /\ k <= Len(dest'[Entry.name]) /\ dest'[Entry.name] # NoBlocks
         /\ \A i \in 1 .. k : dest'[Entry.name][i] = <<Entry.name, Entry.id, i>>
         /\ \A p \in Places : p # Entry.name => dest'[p] = dest[p]
<1> DEFINE q == Entry.name
           old == dest[q]
           new == Blocks(Entry, k)
           f == Overlay(old, new)
<1>1. /\ dest' = [dest EXCEPT ![q] = f]
      /\ dest = [p \in Places |-> dest[p]] /\ q \in Places
      /\ \A p \in Places : InPlace(p, dest[p])
  BY DEF Write, Shapes, PlacesShape
<1>2. /\ IsSequence(old) /\ \A i \in DOMAIN old : old[i][1] = q /\ old[i][3] = i
  BY <1>1 DEF InPlace
<1>3. /\ IsSequence(new) /\ Len(new) = k
      /\ \A i \in 1 .. k : new[i] = <<q, Entry.id, i>>
  BY BlocksAre
<1>4. /\ IsSequence(f)
      /\ Len(f) = IF Len(old) > Len(new) THEN Len(old) ELSE Len(new)
      /\ \A i \in 1 .. Len(f) : f[i] = IF i <= Len(new) THEN new[i] ELSE old[i]
  BY <1>2, <1>3, OverlayIs
<1> HIDE DEF f, new, old, q
<1>5. /\ Len(old) \in Nat /\ DOMAIN old = 1 .. Len(old)
      /\ Len(f) \in Nat /\ DOMAIN f = 1 .. Len(f)
  BY <1>2, <1>4, SequenceHas
<1>6. k <= Len(f) /\ \A i \in 1 .. k : f[i] = <<q, Entry.id, i>>
  BY <1>3, <1>4, <1>5
<1>7. \A i \in 1 .. Len(f) : f[i][1] = q /\ f[i][3] = i
  BY <1>2, <1>3, <1>4, <1>5
<1>8. f # NoBlocks
  BY <1>5, <1>6 DEF NoBlocks
<1>9. InPlace(q, f)
  BY <1>4, <1>5, <1>7 DEF InPlace
<1>10. dest'[q] = f /\ \A p \in Places : p # q => dest'[p] = dest[p]
  BY <1>1
<1>11. dest' = [p \in Places |-> dest'[p]]
  BY <1>1
<1>12. PlacesShape'
  BY <1>1, <1>9, <1>10, <1>11 DEF PlacesShape
<1> QED
  BY <1>6, <1>8, <1>10, <1>12 DEF q

\* A lost write leaves the blocks before it.
LEMMA CutIs ==
  ASSUME NEW p, NEW f, InPlace(p, f), NEW k \in Nat \ {0}, k <= Len(f)
  PROVE  InPlace(p, SubSeq(f, 1, k - 1))
<1>1. f \in Seq(Range(f)) /\ Len(f) \in Nat /\ DOMAIN f = 1 .. Len(f)
  BY SequenceHas DEF InPlace, IsSequence
<1>2. \A i \in 1 .. k - 1 : f[i] \in Range(f)
  BY <1>1, ElementOfSeq
<1> DEFINE g == SubSeq(f, 1, k - 1)
<1>3. /\ g \in Seq(Range(f))
      /\ Len(g) = k - 1
      /\ \A i \in 1 .. k - 1 : g[i] = f[i]
  BY <1>2, SubSeqProperties
<1>4. IsSequence(g) /\ DOMAIN g = 1 .. k - 1
  BY <1>3, SequenceIn, SequenceHas
<1> QED
  BY <1>1, <1>3, <1>4 DEF InPlace

LEMMA ShapesInit == AInit => Shapes
<1> SUFFICES ASSUME AInit PROVE Shapes
  OBVIOUS
<1>1. /\ archive = <<>> /\ next = 1 /\ written = 0 /\ dest \in Workspaces
  BY DEF AInit
<1>2. archive \in Seq({}) /\ Len(archive) = 0
  BY <1>1, EmptySeq
<1>3. IsSequence(archive)
  BY <1>2, SequenceIn
<1>31. DOMAIN archive = 1 .. 0
  BY <1>2, <1>3, SequenceHas
<1>32. DOMAIN archive = {}
  BY <1>31
<1>4. ArchiveShape
  BY <1>1, <1>3, <1>32 DEF ArchiveShape
<1>5. EntryShape
  BY <1>1 DEF EntryShape
<1>6. PlacesShape
  BY <1>1, ArchiveAssumption DEF PlacesShape
<1> QED
  BY <1>4, <1>5, <1>6 DEF Shapes

\* What leaves the extraction alone, and does not go back before it.
Still ==
  /\ UNCHANGED extractVars
  /\ phase' \in {"manifest", "decode"} => phase \in {"manifest", "decode"}

LEMMA StillShapes == Shapes /\ Still => Shapes'
<1> SUFFICES ASSUME Shapes, Still PROVE Shapes'
  OBVIOUS
<1>1. /\ archive' = archive /\ next' = next /\ written' = written
      /\ dest' = dest /\ Entry' = Entry
  BY DEF Still, extractVars, Entry
<1>2. ArchiveShape'
  BY <1>1 DEF Shapes, ArchiveShape
<1>3. EntryShape'
  BY <1>1 DEF Shapes, EntryShape, Still
<1>4. PlacesShape'
  BY <1>1 DEF Shapes, PlacesShape
<1> QED
  BY <1>2, <1>3, <1>4 DEF Shapes

\* The steps that do so: all but those on an opened archive.
LEMMA StillSteps ==
  /\ InManifest(MNext) => Still
  /\ FetchArchiveFile => Still
  /\ ArchiveFetched => Still
  /\ ExtractFails => Still
  /\ ExtractDone => Still
  /\ CleanUp => Still
  /\ \A a \in Attempts : ArchiveGoroutine(a) => Still
  /\ Overwrite => Still
  /\ Refuse => Still
  /\ UNCHANGED avars => Still
<1>1. MNext => (phase' \in {"manifest", "decode"} => phase \in {"manifest", "decode"})
  BY DEF MNext, FetchManifestFile, FetchFirst, MainThread, ManifestFetched,
     FirstFetched, Decode, DecodeFails, JobsDone, RemoveEntries, RemoveDirectory,
     RemoveFails, EmitStats, PassJobs, FetchFile, FetchReturned, GoroutineStep
<1>2. InManifest(MNext) => Still
  BY <1>1 DEF InManifest, Still
<1>3. FetchArchiveFile => Still
  BY DEF FetchArchiveFile, FetchFirst, Still
<1>4. ArchiveFetched => Still
  BY DEF ArchiveFetched, FirstFetched, Still
<1>5. (ExtractFails => Still) /\ (ExtractDone => Still)
  BY DEF ExtractFails, ExtractDone, Still
<1>6. CleanUp => Still
  BY DEF CleanUp, RemoveEntries, RemoveDirectory, RemoveFails, EmitStats, Still
<1>7. \A a \in Attempts : ArchiveGoroutine(a) => Still
  BY DEF ArchiveGoroutine, GoroutineStep, Still
<1>8. (Overwrite => Still) /\ (Refuse => Still)
  BY DEF Overwrite, Refuse, Still, mvars
<1>9. UNCHANGED avars => Still
  BY DEF avars, mvars, Still
<1> QED
  BY <1>2, <1>3, <1>4, <1>5, <1>6, <1>7, <1>8, <1>9

\* Opening, and each step on an entry.
LEMMA OpenShapes == Shapes /\ OpenArchive => Shapes'
<1> SUFFICES ASSUME Shapes, OpenArchive PROVE Shapes'
  OBVIOUS
<1>1. archive' \in Original \cup Newer /\ next' = next /\ written' = written
      /\ dest' = dest /\ phase = "decode" /\ phase' = "extract"
  BY DEF OpenArchive
<1>2. ArchiveShape'
  BY <1>1, ArchiveAssumption DEF Shapes, ArchiveShape
<1>3. written = 0
  BY <1>1 DEF Shapes, EntryShape
<1>4. EntryShape'
  BY <1>1, <1>3 DEF EntryShape
<1>5. PlacesShape'
  BY <1>1 DEF Shapes, PlacesShape
<1> QED
  BY <1>2, <1>4, <1>5 DEF Shapes

LEMMA WriteShapes ==
  Shapes /\ InEntry({"file", "link"}) /\ (\E k \in Nat \ {0} : Write(k)) => Shapes'
<1> SUFFICES ASSUME Shapes, InEntry({"file", "link"}),
                    NEW k \in Nat \ {0}, Write(k)
             PROVE  Shapes'
  OBVIOUS
<1>1. /\ archive' = archive /\ next' = next /\ written' = k
      /\ Entry' = Entry /\ phase' = phase
  BY DEF Write, mvars, Entry
<1>2. next \in DOMAIN archive /\ Entry.kind # "dir" /\ phase = "extract"
  <2>1. next \in 1 .. Len(archive)
    BY SequenceHas DEF Shapes, ArchiveShape, InEntry
  <2> QED
    BY <2>1, SequenceHas DEF Shapes, ArchiveShape, InEntry
<1>3. Entry.name \in Places
  BY <1>2 DEF Shapes, ArchiveShape, Entry
<1>4. PlacesShape' /\ k <= Len(dest'[Entry.name])
  BY <1>3, WriteIs
<1>5. ArchiveShape'
  BY <1>1 DEF Shapes, ArchiveShape
<1>6. EntryShape'
  BY <1>1, <1>2, <1>4 DEF EntryShape
<1> QED
  BY <1>4, <1>5, <1>6 DEF Shapes

LEMMA EntryShapes ==
  /\ Shapes /\ ExtractFolder => Shapes'
  /\ Shapes /\ OpenTarget => Shapes'
  /\ Shapes /\ CopyBlock => Shapes'
  /\ Shapes /\ CloseTarget => Shapes'
  /\ Shapes /\ PassOver => Shapes'
<1>1. ASSUME Shapes, NextEntry, PlacesShape', phase = "extract" PROVE Shapes'
  <2>1. /\ archive' = archive /\ next' = next + 1 /\ written' = 0
        /\ phase' = "extract"
    BY <1>1 DEF NextEntry, mvars
  <2>2. ArchiveShape'
    BY <1>1, <2>1 DEF Shapes, ArchiveShape
  <2>3. EntryShape'
    BY <2>1 DEF EntryShape
  <2> QED
    BY <1>1, <2>2, <2>3 DEF Shapes
<1>2. ASSUME Shapes, dest' = dest PROVE PlacesShape'
  BY <1>2 DEF Shapes, PlacesShape
<1>3. Shapes /\ ExtractFolder => Shapes'
  BY <1>1, <1>2 DEF ExtractFolder, InEntry
<1>4. Shapes /\ PassOver => Shapes'
  BY <1>1, <1>2 DEF PassOver, InEntry
<1>5. Shapes /\ OpenTarget => Shapes'
  BY WriteShapes DEF OpenTarget
<1>6. ASSUME Shapes, CopyBlock PROVE Shapes'
  <2>1. written + 1 \in Nat \ {0}
    BY <1>6 DEF Shapes, ArchiveShape
  <2> QED
    BY <1>6, <2>1, WriteShapes DEF CopyBlock
<1>7. ASSUME Shapes, CloseTarget PROVE Shapes'
  <2>1. NextEntry /\ phase = "extract" /\ written = Entry.len /\ Entry.kind # "dir"
        /\ next <= Len(archive)
    BY <1>7 DEF CloseTarget, InEntry
  <2>2. next \in DOMAIN archive
    <3>1. next \in 1 .. Len(archive)
      BY <1>7, <2>1, SequenceHas DEF Shapes, ArchiveShape
    <3> QED
      BY <1>7, <3>1, SequenceHas DEF Shapes, ArchiveShape
  <2>3. Entry.name \in Places /\ written \in Nat \ {0}
    BY <1>7, <2>1, <2>2 DEF Shapes, ArchiveShape, Entry
  <2>4. written <= Len(dest[Entry.name])
    BY <1>7, <2>3 DEF Shapes, EntryShape
  <2>5. CASE dest' = dest
    BY <1>1, <1>2, <1>7, <2>1, <2>5
  <2>6. CASE dest' = [dest EXCEPT ![Entry.name] = SubSeq(@, 1, written - 1)]
    <3> DEFINE cut == SubSeq(dest[Entry.name], 1, written - 1)
    <3>1. dest = [p \in Places |-> dest[p]] /\ \A p \in Places : InPlace(p, dest[p])
      BY <1>7 DEF Shapes, PlacesShape
    <3>2. InPlace(Entry.name, cut)
      BY <2>3, <2>4, <3>1, CutIs
    <3>3. dest' = [dest EXCEPT ![Entry.name] = cut]
      BY <2>6
    <3> HIDE DEF cut
    <3>4. /\ dest'[Entry.name] = cut
          /\ \A p \in Places : p # Entry.name => dest'[p] = dest[p]
          /\ dest' = [p \in Places |-> dest'[p]]
      BY <2>3, <3>1, <3>3
    <3>5. PlacesShape'
      BY <3>1, <3>2, <3>4 DEF PlacesShape
    <3> QED
      BY <1>1, <1>7, <2>1, <3>5
  <2> QED
    BY <1>7, <2>5, <2>6 DEF CloseTarget
<1> QED
  BY <1>3, <1>4, <1>5, <1>6, <1>7

LEMMA ShapesNext == Shapes /\ [ANext]_avars => Shapes'
<1>1. Shapes /\ ArchiveThread => Shapes'
  BY StillShapes, StillSteps, OpenShapes, EntryShapes DEF ArchiveThread
<1> QED
  BY <1>1, StillShapes, StillSteps DEF ANext

LEMMA ShapesHold == ASafety => []Shapes
BY ShapesInit, ShapesNext, PTL DEF ASafety

\* Every block of every file stands in its place, whatever closes fail and
\* whatever was in the workspace before (unzip and fetchFromTarGz: os.OpenFile
\* without O_TRUNC, io.Copy).
THEOREM ArchiveBlocksKeepTheirPlace == ASafety => []BlocksKeepTheirPlace
<1>1. Shapes => BlocksKeepTheirPlace
  BY DEF Shapes, PlacesShape, InPlace, BlocksKeepTheirPlace
<1> QED
  BY <1>1, ShapesHold, PTL

-----------------------------------------------------------------------------
(* What was extracted.                                                      *)

LEMMA ExtractedInit == AInit => Extracted
BY DEF AInit, MInit, Extracted

\* A path is among its own prefixes.
LEMMA PathIsPrefix ==
  ASSUME NEW p, IsSequence(p)
  PROVE  p \in Prefixes(p) /\ IsSequence(Front(p))
<1>1. p \in Seq(Range(p)) /\ Len(p) \in Nat
  BY SequenceHas DEF IsSequence
<1>2. p = SubSeq(p, 1, Len(p))
  BY <1>1, SubSeqFull
<1>3. p \in Prefixes(p)
  <2>1. Len(p) \in 0 .. Len(p)
    BY <1>1
  <2>2. SubSeq(p, 1, Len(p)) \in Prefixes(p)
    BY <2>1, Zenon DEF Prefixes
  <2> QED
    BY <1>2, <2>2
<1>4. \A i \in 1 .. Len(p) - 1 : p[i] \in Range(p)
  BY <1>1, ElementOfSeq
<1>5. SubSeq(p, 1, Len(p) - 1) \in Seq(Range(p))
  BY <1>1, <1>4, SubSeqProperties
<1> QED
  BY <1>3, <1>5, SequenceIn DEF Front

\* The steps outside an opened archive.
LEMMA StillExtracted ==
  ASSUME Extracted, UNCHANGED <<sourceType, extractVars>>,
         InArchive /\ phase' = "extract" => phase = "extract",
         InArchive /\ phase' \in {"clean", "rmdir", "stats", "exit0"} =>
           phase \in {"clean", "rmdir", "stats", "exit0"}
  PROVE  Extracted'
<1>1. /\ archive' = archive /\ next' = next /\ written' = written
      /\ dest' = dest /\ folders' = folders /\ sourceType' = sourceType
  BY DEF extractVars
<1>2. InArchive' = InArchive
  BY <1>1 DEF InArchive, IsZip, IsTar
<1>3. SoFar => SoFar'
  BY <1>1 DEF SoFar, Handled, LastYet, FileEntries, Opened, FileThere, FolderThere,
     Holds, Entry, IsFile, IsZip
<1>4. AllThere => AllThere'
  BY <1>1 DEF AllThere, LastOf, FileEntries, FileThere, FolderThere, Holds, IsFile,
     IsZip
<1> QED
  BY <1>2, <1>3, <1>4 DEF Extracted

LEMMA StillStepsExtracted ==
  ASSUME Extracted
  PROVE  /\ InManifest(MNext) => Extracted'
         /\ FetchArchiveFile => Extracted'
         /\ ArchiveFetched => Extracted'
         /\ ExtractFails => Extracted'
         /\ CleanUp => Extracted'
         /\ \A a \in Attempts : ArchiveGoroutine(a) => Extracted'
         /\ Overwrite => Extracted'
         /\ Refuse => Extracted'
         /\ UNCHANGED avars => Extracted'
<1>1. InManifest(MNext) => Extracted'
  BY DEF InManifest, Extracted, InArchive, IsZip, IsTar
<1>2. FetchArchiveFile => Extracted'
  BY StillExtracted DEF FetchArchiveFile, FetchFirst
<1>3. ArchiveFetched => Extracted'
  BY StillExtracted DEF ArchiveFetched, FirstFetched
<1>4. ExtractFails => Extracted'
  BY StillExtracted DEF ExtractFails
<1>5. CleanUp => Extracted'
  BY StillExtracted
     DEF CleanUp, RemoveEntries, RemoveDirectory, RemoveFails, EmitStats
<1>6. \A a \in Attempts : ArchiveGoroutine(a) => Extracted'
  BY StillExtracted DEF ArchiveGoroutine, GoroutineStep
<1>7. (Overwrite => Extracted') /\ (Refuse => Extracted')
  BY StillExtracted DEF Overwrite, Refuse, mvars
<1>8. UNCHANGED avars => Extracted'
  BY StillExtracted DEF avars, mvars
<1> QED
  BY <1>1, <1>2, <1>3, <1>4, <1>5, <1>6, <1>7, <1>8

\* An entry that was handled stays so while a later one is written: where the
\* later one has its name, it is not the last any more.
LEMMA HandledStays ==
  ASSUME NEW i \in 1 .. next - 1, i \in DOMAIN archive, Shapes, Handled(i),
         archive' = archive, sourceType' = sourceType, folders \subseteq folders',
         next \in Nat, Opened \in Nat, Opened' \in Nat, Opened <= Opened',
         \/ dest' = dest
         \/ /\ next \in FileEntries /\ next <= Opened' /\ dest'[Entry.name] # NoBlocks
            /\ \A p \in Places : p # Entry.name => dest'[p] = dest[p]
  PROVE  Handled(i)'
<1> DEFINE e == archive[i]
<1>1. IsFile(e)' = IsFile(e) /\ FileEntries' = FileEntries
  BY DEF IsFile, IsZip, FileEntries
<1>2. ASSUME LastYet(i)' PROVE LastYet(i)
  <2>1. FileEntries \subseteq Nat
    BY SequenceHas DEF FileEntries, Shapes, ArchiveShape
  <2>2. ASSUME NEW k \in FileEntries, k <= Opened, archive[k].name = archive[i].name
        PROVE  k <= i
    <3>1. k \in Nat /\ k <= Opened'
      BY <2>1, <2>2
    <3>2. k \in FileEntries' /\ archive'[k].name = archive'[i].name
      BY <1>1, <2>2
    <3> QED
      BY <1>2, <3>1, <3>2 DEF LastYet
  <2> QED
    BY <2>2 DEF LastYet
<1>3. ASSUME IsFile(e), LastYet(i)' PROVE FileThere(i)'
  <2>1. e.name \in Places
    BY <1>3 DEF Shapes, ArchiveShape, IsFile
  <2>2. dest'[e.name] = dest[e.name]
    <3>1. CASE dest' = dest
      BY <3>1
    <3>2. CASE /\ next \in FileEntries /\ next <= Opened'
               /\ \A p \in Places : p # Entry.name => dest'[p] = dest[p]
      <4>1. e.name # Entry.name
        BY <1>1, <1>3, <3>2 DEF LastYet, Entry
      <4> QED
        BY <2>1, <3>2, <4>1
    <3> QED
      BY <3>1, <3>2
  <2>3. FileThere(i)
    BY <1>2, <1>3 DEF Handled
  <2> QED
    BY <2>2, <2>3 DEF FileThere, Holds
<1>4. ASSUME e.kind = "dir" PROVE FolderThere(i)'
  <2>1. FolderThere(i)
    BY <1>4 DEF Handled
  <2>2. e.name \in Places /\ dest[e.name] # NoBlocks => dest'[e.name] # NoBlocks
    OBVIOUS
  <2> QED
    BY <2>1, <2>2 DEF FolderThere, IsZip
<1> QED
  BY <1>1, <1>3, <1>4 DEF Handled

\* What is known where an entry is handled.
LEMMA AtEntry ==
  ASSUME Shapes, SoFar, NEW kinds, InEntry(kinds)
  PROVE  /\ next \in DOMAIN archive /\ next \in Nat \ {0} /\ written \in Nat
         /\ next <= Len(archive) /\ Len(archive) \in Nat
         /\ Entry = archive[next] /\ Entry.kind \in kinds
         /\ DOMAIN archive = 1 .. Len(archive)
         /\ \A i \in 1 .. next - 1 : i \in DOMAIN archive /\ Handled(i)
<1>1. /\ next \in Nat \ {0} /\ written \in Nat
      /\ next <= Len(archive) /\ Entry.kind \in kinds
      /\ \A i \in 1 .. next - 1 : Handled(i)
  BY DEF Shapes, ArchiveShape, InEntry, SoFar
<1>2. Len(archive) \in Nat /\ DOMAIN archive = 1 .. Len(archive)
  BY SequenceHas DEF Shapes, ArchiveShape
<1>3. next \in DOMAIN archive /\ \A i \in 1 .. next - 1 : i \in DOMAIN archive
  BY <1>1, <1>2
<1> QED
  BY <1>1, <1>2, <1>3 DEF Entry

\* An entry is left behind: what was handled stays, and the entry is handled.
LEMMA NextKeeps ==
  ASSUME Shapes, SoFar, NEW kinds, InEntry(kinds), NextEntry, dest' = dest,
         folders \subseteq folders', written > 0 => Opened = next,
         NEW j, j = next,
         IsFile(Entry) => FileThere(j), Entry.kind = "dir" => FolderThere(j)'
  PROVE  SoFar'
<1>1. /\ next \in DOMAIN archive /\ next \in Nat \ {0} /\ written \in Nat
      /\ next <= Len(archive) /\ Len(archive) \in Nat /\ Entry = archive[next]
      /\ \A i \in 1 .. next - 1 : i \in DOMAIN archive /\ Handled(i)
  BY AtEntry
<1>2. /\ archive' = archive /\ sourceType' = sourceType
      /\ next' = next + 1 /\ written' = 0
  BY DEF NextEntry
<1>3. Opened \in Nat /\ Opened' = next /\ Opened' \in Nat /\ Opened <= Opened'
  BY <1>1, <1>2 DEF Opened
<1>4. ASSUME NEW i \in 1 .. next - 1 PROVE Handled(i)'
  BY <1>1, <1>2, <1>3, <1>4, HandledStays
<1>5. Handled(j)'
  <2>1. FileThere(j) => FileThere(j)'
    BY <1>2 DEF FileThere, Holds
  <2>2. archive'[j] = Entry /\ IsFile(archive[j])' = IsFile(Entry)
    BY <1>1, <1>2 DEF IsFile, IsZip
  <2> QED
    BY <2>1, <2>2 DEF Handled
<1>6. ASSUME NEW i \in 1 .. next' - 1 PROVE Handled(i)'
  <2>1. i \in 1 .. next - 1 \/ i = j
    BY <1>1, <1>2
  <2> QED
    BY <1>4, <1>5, <2>1
<1>7. next' <= Len(archive') + 1 /\ ~(written' > 0)
  BY <1>1, <1>2
<1> QED
  BY <1>6, <1>7 DEF SoFar

LEMMA NextEntryKeeps ==
  ASSUME Shapes, SoFar
  PROVE  /\ ExtractFolder => SoFar'
         /\ PassOver => SoFar'
         /\ ~CloseMayFail /\ CloseTarget => SoFar'
<1>1. ASSUME ExtractFolder PROVE SoFar'
  <2>1. InEntry({"dir"}) /\ NextEntry /\ dest' = dest
    BY <1>1 DEF ExtractFolder
  <2>2. Entry.kind = "dir" /\ Entry = archive[next] /\ next \in DOMAIN archive
    BY <2>1, AtEntry
  <2>3. ~IsFile(Entry) /\ ~(written > 0)
    BY <2>2 DEF IsFile, Shapes, EntryShape
  <2>4. IsSequence(Entry.name)
    BY <2>2 DEF Shapes, ArchiveShape
  <2>5. Entry.name \in Prefixes(Entry.name)
    BY <2>4, PathIsPrefix
  <2>6. /\ folders \subseteq folders'
        /\ \/ Entry.name \in folders'
           \/ IsZip /\ Entry.name \in Places /\ dest[Entry.name] # NoBlocks
    BY <1>1, <2>5 DEF ExtractFolder, MakeFolder
  <2>7. ASSUME NEW j, j = next PROVE FolderThere(j)'
    BY <2>1, <2>2, <2>6, <2>7 DEF FolderThere, IsZip, NextEntry
  <2>8. \A j : j = next => SoFar'
    BY <2>1, <2>3, <2>6, <2>7, NextKeeps
  <2> QED
    BY <2>8
<1>2. ASSUME PassOver PROVE SoFar'
  <2>1. InEntry({"link"}) /\ IsTar /\ NextEntry /\ dest' = dest /\ folders' = folders
    BY <1>2 DEF PassOver
  <2>2. Entry.kind = "link"
    BY <2>1, AtEntry
  <2>3. ~IsFile(Entry)
    BY <2>1, <2>2 DEF IsFile, IsZip, IsTar
  <2>4. ~(written > 0)
    BY <2>3 DEF SoFar
  <2>5. \A j : j = next => SoFar'
    BY <2>1, <2>2, <2>3, <2>4, NextKeeps
  <2> QED
    BY <2>5
<1>3. ASSUME ~CloseMayFail, CloseTarget PROVE SoFar'
  <2>1. /\ InEntry({"file", "link"}) /\ NextEntry /\ dest' = dest
        /\ folders' = folders /\ written = Entry.len
    BY <1>3 DEF CloseTarget
  <2>2. /\ next \in DOMAIN archive /\ Entry = archive[next]
        /\ Entry.kind \in {"file", "link"}
    BY <2>1, AtEntry
  <2>3. written \in Nat \ {0}
    BY <2>1, <2>2 DEF Shapes, ArchiveShape
  <2>4. Holds(Entry, written) /\ Front(Entry.name) \in folders /\ Opened = next
    BY <2>3 DEF SoFar, Opened
  <2>5. ASSUME NEW j, j = next PROVE FileThere(j)
    BY <2>1, <2>2, <2>4, <2>5 DEF FileThere
  <2>6. \A j : j = next => SoFar'
    BY <2>1, <2>2, <2>4, <2>5, NextKeeps
  <2> QED
    BY <2>6
<1> QED
  BY <1>1, <1>2, <1>3

\* The first k blocks of a file are written.
LEMMA WriteKeeps ==
  ASSUME Shapes, SoFar, InEntry({"file", "link"}), IsFile(Entry),
         NEW k \in Nat \ {0}, k <= Entry.len, Write(k),
         folders \subseteq folders', Front(Entry.name) \in folders'
  PROVE  SoFar'
<1>1. /\ next \in DOMAIN archive /\ next \in Nat \ {0} /\ written \in Nat
      /\ next <= Len(archive) /\ Len(archive) \in Nat /\ Entry = archive[next]
      /\ Entry.kind \in {"file", "link"}
      /\ \A i \in 1 .. next - 1 : i \in DOMAIN archive /\ Handled(i)
  BY AtEntry
<1>2. /\ archive' = archive /\ sourceType' = sourceType
      /\ next' = next /\ written' = k /\ Entry' = Entry
  BY DEF Write, Entry
<1>3. Opened \in Nat /\ Opened' = next /\ Opened' \in Nat /\ Opened <= Opened'
  BY <1>1, <1>2 DEF Opened
<1>4. Entry.name \in Places
  BY <1>1 DEF Shapes, ArchiveShape
<1>5. /\ k <= Len(dest'[Entry.name]) /\ dest'[Entry.name] # NoBlocks
      /\ \A i \in 1 .. k : dest'[Entry.name][i] = <<Entry.name, Entry.id, i>>
      /\ \A p \in Places : p # Entry.name => dest'[p] = dest[p]
  BY <1>4, WriteIs
<1>6. next \in FileEntries /\ next <= Opened'
  BY <1>1, <1>3 DEF FileEntries
<1>7. ASSUME NEW i \in 1 .. next - 1 PROVE Handled(i)'
  BY <1>1, <1>2, <1>3, <1>5, <1>6, <1>7, HandledStays
<1>8. Holds(Entry, written)' /\ IsFile(Entry)'
  BY <1>2, <1>5 DEF Holds, IsFile, IsZip
<1>9. /\ next' <= Len(archive') + 1 /\ written' <= Entry'.len
      /\ \A i \in 1 .. next' - 1 : Handled(i)'
  BY <1>1, <1>2, <1>7
<1> QED
  BY <1>2, <1>8, <1>9 DEF SoFar

LEMMA WritingKeeps ==
  ASSUME Shapes, SoFar
  PROVE  /\ OpenTarget => SoFar'
         /\ CopyBlock => SoFar'
<1>1. ASSUME InEntry({"file", "link"})
      PROVE  /\ Entry.len \in Nat \ {0} /\ IsSequence(Entry.name)
             /\ IsSequence(Front(Entry.name)) /\ written \in Nat
             /\ Front(Entry.name) \in Prefixes(Front(Entry.name))
  <2>1. next \in DOMAIN archive /\ Entry = archive[next] /\ written \in Nat
        /\ Entry.kind \in {"file", "link"}
    BY <1>1, AtEntry
  <2>2. Entry.len \in Nat \ {0} /\ IsSequence(Entry.name)
    BY <2>1 DEF Shapes, ArchiveShape
  <2>3. IsSequence(Front(Entry.name))
    BY <2>2, PathIsPrefix
  <2>4. Front(Entry.name) \in Prefixes(Front(Entry.name))
    BY <2>3, PathIsPrefix
  <2> QED
    BY <2>1, <2>2, <2>3, <2>4
<1>2. ASSUME OpenTarget PROVE SoFar'
  <2>1. /\ InEntry({"file", "link"}) /\ IsFile(Entry) /\ Write(1)
        /\ NeedsFolder(Front(Entry.name))
    BY <1>2 DEF OpenTarget
  <2>2. folders \subseteq folders' /\ Front(Entry.name) \in folders'
    BY <1>1, <2>1 DEF NeedsFolder, MakeFolder
  <2>3. 1 \in Nat \ {0} /\ 1 <= Entry.len
    BY <1>1, <2>1
  <2> QED
    BY <2>1, <2>2, <2>3, WriteKeeps
<1>3. ASSUME CopyBlock PROVE SoFar'
  <2>1. /\ InEntry({"file", "link"}) /\ written \in 1 .. Entry.len - 1
        /\ Write(written + 1) /\ folders' = folders
    BY <1>3 DEF CopyBlock
  <2>2. IsFile(Entry) /\ Front(Entry.name) \in folders
    BY <1>1, <2>1 DEF SoFar
  <2>3. ASSUME NEW k, k = written + 1 PROVE SoFar'
    <3>1. k \in Nat \ {0} /\ k <= Entry.len /\ Write(k)
      BY <1>1, <2>1, <2>3
    <3> QED
      BY <2>1, <2>2, <3>1, WriteKeeps
  <2> QED
    BY <2>3
<1> QED
  BY <1>2, <1>3

\* Before the first entry, and after the last.
LEMMA OpenExtracted == Shapes /\ OpenArchive => Extracted'
<1> SUFFICES ASSUME Shapes, OpenArchive PROVE Extracted'
  OBVIOUS
<1>1. /\ archive' \in Original \cup Newer /\ phase' = "extract"
      /\ next' = 1 /\ written' = 0
  BY DEF OpenArchive, Shapes, EntryShape
<1>2. IsSequence(archive')
  BY <1>1, ArchiveAssumption
<1>3. Len(archive') \in Nat
  BY <1>2, SequenceHas
<1>4. SoFar'
  BY <1>1, <1>3 DEF SoFar
<1> QED
  BY <1>1, <1>4 DEF Extracted

LEMMA DoneExtracted ==
  ASSUME Shapes, SoFar, ExtractDone
  PROVE  AllThere'
<1>1. /\ archive' = archive /\ sourceType' = sourceType
      /\ dest' = dest /\ folders' = folders /\ ~(next <= Len(archive))
  BY SequenceHas DEF ExtractDone, extractVars, Shapes, ArchiveShape
<1>2. /\ Len(archive) \in Nat /\ DOMAIN archive = 1 .. Len(archive)
      /\ next \in Nat \ {0} /\ written \in Nat /\ next <= Len(archive) + 1
      /\ \A i \in 1 .. next - 1 : Handled(i)
  BY SequenceHas DEF Shapes, ArchiveShape, SoFar
<1>3. ~(written > 0)
  BY <1>1, <1>2 DEF Shapes, EntryShape
<1>4. Opened = Len(archive) /\ DOMAIN archive = 1 .. next - 1
  BY <1>1, <1>2, <1>3 DEF Opened
<1>5. \A i \in DOMAIN archive : LastOf(i) => LastYet(i)
  BY DEF LastOf, LastYet
<1>6. AllThere
  BY <1>2, <1>4, <1>5 DEF AllThere, Handled
<1> QED
  BY <1>1, <1>6 DEF AllThere, LastOf, FileEntries, FileThere, FolderThere, Holds,
     IsFile, IsZip

LEMMA ExtractedNext ==
  ASSUME ~CloseMayFail, Shapes, Extracted, [ANext]_avars
  PROVE  Extracted'
<1>1. ASSUME InArchive, OpenArchive PROVE Extracted'
  BY <1>1, OpenExtracted
<1>2. ASSUME InArchive,
             \/ ExtractFolder \/ PassOver
             \/ OpenTarget \/ CopyBlock \/ CloseTarget
      PROVE  Extracted'
  <2>1. phase = "extract" /\ phase' = "extract"
    BY <1>2 DEF ExtractFolder, OpenTarget, CopyBlock, CloseTarget, PassOver,
       InEntry, NextEntry, Write, mvars
  <2>2. SoFar
    BY <1>2, <2>1 DEF Extracted
  <2>3. SoFar'
    BY <1>2, <2>2, NextEntryKeeps, WritingKeeps
  <2> QED
    BY <2>1, <2>3 DEF Extracted
<1>3. ASSUME InArchive, ExtractDone PROVE Extracted'
  <2>1. phase = "extract" /\ phase' = "clean"
    BY <1>3 DEF ExtractDone
  <2>2. AllThere'
    BY <1>3, <2>1, DoneExtracted DEF Extracted
  <2> QED
    BY <2>1, <2>2 DEF Extracted
<1>4. ArchiveThread => Extracted'
  BY <1>1, <1>2, <1>3, StillStepsExtracted DEF ArchiveThread
<1> QED
  BY <1>4, StillStepsExtracted DEF ANext

\* The inductive step as an implication, for the temporal argument.
LEMMA ExtractedStep ==
  ~CloseMayFail /\ Shapes /\ Extracted /\ [ANext]_avars => Extracted'
BY ExtractedNext

LEMMA ExtractedMeansIt == Shapes /\ Extracted => ExitZeroMeansExtracted
<1> SUFFICES ASSUME Shapes, Extracted, phase = "exit0", InArchive,
                    NEW i \in DOMAIN archive
             PROVE  LET e == archive[i] IN
                    /\ IsFile(e) /\ LastOf(i) =>
                         IsPrefix(Blocks(e, e.len), dest[e.name])
                         /\ Front(e.name) \in folders
                    /\ e.kind = "dir" => FolderThere(i)
  BY DEF ExitZeroMeansExtracted, FolderThere
<1> DEFINE e == archive[i]
<1>1. /\ IsFile(e) /\ LastOf(i) => FileThere(i)
      /\ e.kind = "dir" => FolderThere(i)
  BY DEF Extracted, AllThere
<1>2. ASSUME IsFile(e), FileThere(i)
      PROVE  IsPrefix(Blocks(e, e.len), dest[e.name]) /\ Front(e.name) \in folders
  <2>1. e.name \in Places /\ e.len \in Nat \ {0}
    BY <1>2 DEF Shapes, ArchiveShape, IsFile
  <2>2. IsSequence(dest[e.name])
    BY <2>1 DEF Shapes, PlacesShape, InPlace
  <2>3. /\ e.len <= Len(dest[e.name]) /\ Front(e.name) \in folders
        /\ \A k \in 1 .. e.len : dest[e.name][k] = <<e.name, e.id, k>>
    BY <1>2 DEF FileThere, Holds
  <2>4. /\ IsSequence(Blocks(e, e.len)) /\ Len(Blocks(e, e.len)) = e.len
        /\ \A k \in 1 .. e.len : Blocks(e, e.len)[k] = <<e.name, e.id, k>>
    BY <2>1, BlocksAre
  <2> QED
    BY <2>1, <2>2, <2>3, <2>4, AgreeIsPrefix
<1> QED
  BY <1>1, <1>2

\* A fetch of an archive that ends with exit status 0 has put the last entry of
\* every file name into the workspace whole, if no close fails (unzip,
\* fetchFromTarGz and the end of main).
THEOREM ArchiveExitZeroMeansExtracted ==
  ASSUME ~CloseMayFail PROVE ASafety => []ExitZeroMeansExtracted
<1>1. AInit => Shapes /\ Extracted
  BY ShapesInit, ExtractedInit
<1>2. Shapes /\ Extracted /\ [ANext]_avars => (Shapes /\ Extracted)'
  BY ShapesNext, ExtractedStep
<1>3. Shapes /\ Extracted => ExitZeroMeansExtracted
  BY ExtractedMeansIt
<1> QED
  BY <1>1, <1>2, <1>3, PTL DEF ASafety
=============================================================================
