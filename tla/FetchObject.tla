---------------------------- MODULE FetchObject ----------------------------
(***************************************************************************)
(* gcs-fetcher/pkg/fetcher/fetcher.go: fetchObject and what it calls, for   *)
(* several jobs at once (the workers of processJobs each run one).          *)
(*                                                                          *)
(* Two kinds of process share the file system.  The caller of a job runs    *)
(* the retry loop of fetchObject.  Each round of the loop starts a          *)
(* goroutine that downloads to a temporary file (fetchObjectOnce) and waits *)
(* for its answer or for a timeout; a goroutine that timed out is told to   *)
(* stop through a channel it reads twice, is not waited for, and lives on.  *)
(* Rounds of a job are numbered from 0, an attempt is a pair <<job, round>> *)
(* and a file (an inode) is named by the attempt that created it.           *)
(***************************************************************************)
EXTENDS Naturals

CONSTANTS
  Jobs,          \* the files to fetch, one job each
  MaxRetries,    \* bound on Retries[j]: rounds are numbered 0..MaxRetries
  Retries,       \* Retries[j]: gf.Retries while job j is fetched
  Objects,       \* names "<bucket>-<object>" in GCS
  Object,        \* Object[j]: the one job j fetches; jobs may share it
  HasSha,        \* jobs whose manifest entry has a SHA-1
  Fuzz,          \* what rand.Intn(999999) may return
  Dirs, Staging, \* directories; Staging is gf.StagingDir
  FinalDir,      \* FinalDir[j]: the directory of job j's final name
  NumChunks,     \* writes io.Copy makes for one object
  FuzzCollides,  \* TRUE: two jobs may draw the same random number
  CloseMayFail,  \* TRUE: closing a file may fail and lose its last write
  NoFile

Rounds == 0 .. MaxRetries
Attempts == Jobs \X Rounds
Chunks == 1 .. NumChunks
Paths == Objects \X Fuzz \X Rounds

ASSUME FetchAssumption ==
  /\ MaxRetries \in Nat
  /\ Retries \in [Jobs -> Rounds]
  /\ Object \in [Jobs -> Objects]
  /\ Fuzz # {}
  /\ Staging \in Dirs
  /\ FinalDir \in [Jobs -> Dirs]
  /\ NumChunks \in Nat
  /\ FuzzCollides \in BOOLEAN
  /\ CloseMayFail \in BOOLEAN
  /\ NoFile \notin Attempts

VARIABLES
  \* the callers
  pc,        \* pc[j]: where fetchObject stands for job j
  retrynum,  \* retrynum[j]: its loop variable
  fuzz,      \* fuzz[j]: the random part of its temporary names
  report,    \* report[j]: the jobReport
  told,      \* jobs for which "will no longer retry" was printed
  \* the goroutines, one for each attempt
  go,        \* go[a]: where fetchObjectOnce stands
  breaker,   \* attempts whose breakerSig is closed: they timed out
  outcome,   \* outcome[a]: the err of the fetchOnceResult sent, "ok" if nil
  stream,    \* stream[a]: whether GCS sends the bytes the manifest names
  off,       \* off[a]: chunks copied so far
  fd,        \* fd[a]: the inode of the open file
  \* the file system
  tmp,       \* tmp[p]: the inode of the temporary file p
  final,     \* final[j]: the inode under job j's final name
  data,      \* data[i]: the content of inode i, chunk by chunk
  dirs,      \* directories that exist
  created    \* gf.CreatedDirs: directories believed to exist

callerVars == <<pc, retrynum, fuzz, report, told>>
goVars == <<go, breaker, outcome, stream, off, fd>>
fsVars == <<tmp, final, data, dirs, created>>
fvars == <<pc, retrynum, fuzz, report, told,
           go, breaker, outcome, stream, off, fd,
           tmp, final, data, dirs, created>>

Errors == {"nil", "timeout", "perm", "other"}
Reports == [success : BOOLEAN, err : Errors, attempts : Nat]
Contents == [Chunks -> {"hole", "good", "bad"}]
Empty == [c \in Chunks |-> "hole"]

Current(j) == <<j, retrynum[j]>>

\* Mutated form of Path: no random number.
PathWithoutFuzz(a) == <<Object[a[1]], CHOOSE f \in Fuzz : TRUE, a[2]>>

\* Mutated form of Path: a retry takes the name of the attempt it replaces.
PathWithoutRetry(a) == <<Object[a[1]], fuzz[a[1]], 0>>

\* The temporary name: [StagingDir]/[Bucket]-[Object]-[fuzz]-[retry].
Path(a) == <<Object[a[1]], fuzz[a[1]], a[2]>>

FInit ==
  /\ pc = [j \in Jobs |-> "idle"]
  /\ retrynum = [j \in Jobs |-> 0]
  /\ fuzz = [j \in Jobs |-> CHOOSE f \in Fuzz : TRUE]   \* drawn by Begin
  /\ report = [j \in Jobs |-> [success |-> FALSE, err |-> "nil", attempts |-> 0]]
  /\ told = {}
  /\ go = [a \in Attempts |-> "none"]
  /\ breaker = {}
  /\ outcome = [a \in Attempts |-> "none"]
  /\ stream = [a \in Attempts |-> "good"]
  /\ off = [a \in Attempts |-> 0]
  /\ fd = [a \in Attempts |-> NoFile]
  /\ tmp = [p \in Paths |-> NoFile]
  /\ final = [j \in Jobs |-> NoFile]
  /\ data = [a \in Attempts |-> Empty]
  /\ dirs = {}
  /\ created = {}

-----------------------------------------------------------------------------
(* ensureFolders: MkdirAll, once for each directory that CreatedDirs does   *)
(* not hold.  The whole function runs under gf.mu.                          *)

EnsureFolders(d) ==
  /\ dirs' = IF d \in created THEN dirs ELSE dirs \cup {d}
  /\ created' = created \cup {d}

\* Mutated form of EnsureFoldersFails: the directory is cached before it is made.
EnsureFoldersFailsCached(d) ==
  /\ d \notin created
  /\ created' = created \cup {d}
  /\ UNCHANGED dirs

EnsureFoldersFails(d) ==
  /\ d \notin created
  /\ UNCHANGED <<dirs, created>>

(* recordFailure, and the `continue` every call of it is followed by: the   *)
(* next round sleeps for its backoff and starts, or the loop ends.          *)

\* Mutated forms of LastRound: the loop counts tries; it makes one too many.
LastTry(j) == retrynum[j] + 1 >= Retries[j]
LastRoundMissed(j) == retrynum[j] > Retries[j]

LastRound(j) == retrynum[j] >= Retries[j]

\* err is the latest error; the message of the try that makes as many tries
\* as gf.Retries says that there will be no other.
Fail(j, e) ==
  LET n == report[j].attempts + 1
  IN  /\ report' = [report EXCEPT ![j] =
                      [success |-> FALSE, err |-> e, attempts |-> n]]
      /\ told' = IF n = Retries[j] THEN told \cup {j} ELSE told
      /\ IF LastRound(j)
           THEN /\ pc' = [pc EXCEPT ![j] = "done"]
                /\ UNCHANGED retrynum
           ELSE /\ pc' = [pc EXCEPT ![j] = "mkdir"]
                /\ retrynum' = [retrynum EXCEPT ![j] = @ + 1]

-----------------------------------------------------------------------------
(* The caller: one round of fetchObject.                                    *)

\* The random number in the temporary names is drawn once per job.  Unless
\* FuzzCollides, jobs that fetch the same object draw different ones.
Begin(j) ==
  /\ pc[j] = "idle"
  /\ \E f \in Fuzz :
       /\ FuzzCollides \/ \A k \in Jobs :
            pc[k] # "idle" /\ Object[k] = Object[j] => fuzz[k] # f
       /\ fuzz' = [fuzz EXCEPT ![j] = f]
  /\ pc' = [pc EXCEPT ![j] = "mkdir"]
  /\ UNCHANGED <<retrynum, report, told, goVars, fsVars>>

StartDownload(j) ==
  /\ pc[j] = "mkdir"
  /\ EnsureFolders(Staging)
  /\ go' = [go EXCEPT ![Current(j)] = "open"]
  /\ pc' = [pc EXCEPT ![j] = "wait"]
  /\ UNCHANGED <<retrynum, fuzz, report, told,
                 breaker, outcome, stream, off, fd, tmp, final, data>>

MakeStagingFails(j) ==
  /\ pc[j] = "mkdir"
  /\ EnsureFoldersFails(Staging)
  /\ Fail(j, "other")
  /\ UNCHANGED <<fuzz, goVars, tmp, final, data>>

\* Mutated form of GotFile: the err of the answer is not looked at.
GotAnswer(j) == go[Current(j)] = "sent"

GotFile(j) == outcome[Current(j)] = "ok"

Receive(j) ==
  /\ pc[j] = "wait"
  /\ go[Current(j)] = "sent"
  /\ IF GotFile(j)
       THEN /\ pc' = [pc EXCEPT ![j] = "mkfinal"]
            /\ UNCHANGED <<retrynum, report, told>>
       ELSE Fail(j, outcome[Current(j)])
  /\ UNCHANGED <<fuzz, goVars, fsVars>>

\* Mutated form of Timeout: the answer is waited for after all.
TimeoutAfterAnswer(j) ==
  /\ pc[j] = "wait"
  /\ go[Current(j)] = "sent"
  /\ breaker' = breaker \cup {Current(j)}
  /\ Fail(j, "timeout")
  /\ UNCHANGED <<fuzz, go, outcome, stream, off, fd, fsVars>>

\* time.After wins the select, whether or not the goroutine has answered.
Timeout(j) ==
  /\ pc[j] = "wait"
  /\ breaker' = breaker \cup {Current(j)}
  /\ Fail(j, "timeout")
  /\ UNCHANGED <<fuzz, go, outcome, stream, off, fd, fsVars>>

EnsureFinal(j) ==
  /\ pc[j] = "mkfinal"
  /\ EnsureFolders(FinalDir[j])
  /\ pc' = [pc EXCEPT ![j] = "rename"]
  /\ UNCHANGED <<retrynum, fuzz, report, told, goVars, tmp, final, data>>

MakeFinalFails(j) ==
  /\ pc[j] = "mkfinal"
  /\ EnsureFoldersFails(FinalDir[j])
  /\ Fail(j, "other")
  /\ UNCHANGED <<fuzz, goVars, tmp, final, data>>

\* Rename needs the temporary file and the directory of the final name.
Rename(j) ==
  /\ pc[j] = "rename"
  /\ tmp[Path(Current(j))] # NoFile
  /\ FinalDir[j] \in dirs
  /\ final' = [final EXCEPT ![j] = tmp[Path(Current(j))]]
  /\ tmp' = [tmp EXCEPT ![Path(Current(j))] = NoFile]
  /\ pc' = [pc EXCEPT ![j] = "chmod"]
  /\ UNCHANGED <<retrynum, fuzz, report, told, goVars, data, dirs, created>>

RenameFails(j) ==
  /\ pc[j] = "rename"
  /\ Fail(j, "other")
  /\ UNCHANGED <<fuzz, goVars, fsVars>>

\* Chmod, then recordSuccess.
Finish(j) ==
  /\ pc[j] = "chmod"
  /\ report' = [report EXCEPT ![j] =
                  [success |-> TRUE, err |-> "nil", attempts |-> @.attempts + 1]]
  /\ pc' = [pc EXCEPT ![j] = "done"]
  /\ UNCHANGED <<retrynum, fuzz, told, goVars, fsVars>>

ChmodFails(j) ==
  /\ pc[j] = "chmod"
  /\ Fail(j, "other")
  /\ UNCHANGED <<fuzz, goVars, fsVars>>

CallerStep(j) ==
  \/ Begin(j) \/ StartDownload(j) \/ MakeStagingFails(j)
  \/ Receive(j) \/ Timeout(j)
  \/ EnsureFinal(j) \/ MakeFinalFails(j)
  \/ Rename(j) \/ RenameFails(j)
  \/ Finish(j) \/ ChmodFails(j)

-----------------------------------------------------------------------------
(* The goroutine of an attempt: fetchObjectOnce, then `result <-`.          *)

Send(a, o) ==
  /\ go' = [go EXCEPT ![a] = "sent"]
  /\ outcome' = [outcome EXCEPT ![a] = o]

\* GCS refuses the reader: access denied (403), or any other error.
OpenFails(a) ==
  /\ go[a] = "open"
  /\ \E e \in {"perm", "other"} : Send(a, e)
  /\ UNCHANGED <<callerVars, breaker, stream, off, fd, fsVars>>

\* The reader is there, and breakerSig is looked at for the first time.
Open(a) ==
  /\ go[a] = "open"
  /\ IF a \in breaker
       THEN Send(a, "timeout") /\ UNCHANGED stream
       ELSE /\ go' = [go EXCEPT ![a] = "create"]
            /\ \E c \in {"good", "bad"} : stream' = [stream EXCEPT ![a] = c]
            /\ UNCHANGED outcome
  /\ UNCHANGED <<callerVars, breaker, off, fd, fsVars>>

\* Mutated form of FolderIsThere: Create does without the directory.
FolderNotNeeded == TRUE

FolderIsThere == Staging \in dirs

\* Create truncates the file if the name exists.
Create(a) ==
  /\ go[a] = "create"
  /\ FolderIsThere
  /\ LET i == IF tmp[Path(a)] = NoFile THEN a ELSE tmp[Path(a)]
     IN  /\ fd' = [fd EXCEPT ![a] = i]
         /\ tmp' = [tmp EXCEPT ![Path(a)] = i]
         /\ data' = [data EXCEPT ![i] = Empty]
  /\ go' = [go EXCEPT ![a] = "copy"]
  /\ UNCHANGED <<callerVars, breaker, outcome, stream, off, final, dirs, created>>

CreateFails(a) ==
  /\ go[a] = "create"
  /\ Send(a, "other")
  /\ UNCHANGED <<callerVars, breaker, stream, off, fd, fsVars>>

CopyChunk(a) ==
  /\ go[a] = "copy"
  /\ off[a] < NumChunks
  /\ off' = [off EXCEPT ![a] = @ + 1]
  /\ data' = [data EXCEPT ![fd[a]] = [@ EXCEPT ![off[a] + 1] = stream[a]]]
  /\ UNCHANGED <<callerVars, go, breaker, outcome, stream, fd,
                 tmp, final, dirs, created>>

CopyFails(a) ==
  /\ go[a] = "copy"
  /\ go' = [go EXCEPT ![a] = "close"]
  /\ outcome' = [outcome EXCEPT ![a] = "other"]
  /\ UNCHANGED <<callerVars, breaker, stream, off, fd, fsVars>>

\* Mutated form of ShaDiffers: no checksum.
ShaIgnored(a) == FALSE

\* The SHA-1 of the bytes that were read is not the manifest's.
ShaDiffers(a) == a[1] \in HasSha /\ stream[a] = "bad"

\* io.Copy is over: breakerSig is looked at again, then the SHA-1.
Verify(a) ==
  /\ go[a] = "copy"
  /\ off[a] = NumChunks
  /\ outcome' = [outcome EXCEPT ![a] =
       IF a \in breaker THEN "timeout"
       ELSE IF ShaDiffers(a) THEN "other" ELSE "ok"]
  /\ go' = [go EXCEPT ![a] = "close"]
  /\ UNCHANGED <<callerVars, breaker, stream, off, fd, fsVars>>

\* The deferred closes, then the answer.  Their error is assigned to a
\* variable that is not the function's result any more: the answer is the
\* one already chosen, even when the last write did not reach the file.
Close(a) ==
  /\ go[a] = "close"
  /\ \/ UNCHANGED data
     \/ /\ CloseMayFail /\ off[a] > 0
        /\ data' = [data EXCEPT ![fd[a]] = [@ EXCEPT ![off[a]] = "hole"]]
  /\ go' = [go EXCEPT ![a] = "sent"]
  /\ UNCHANGED <<callerVars, breaker, outcome, stream, off, fd,
                 tmp, final, dirs, created>>

GoStep(a) ==
  \/ Open(a) \/ OpenFails(a) \/ Create(a) \/ CreateFails(a)
  \/ CopyChunk(a) \/ CopyFails(a) \/ Verify(a) \/ Close(a)

FNext == (\E j \in Jobs : CallerStep(j)) \/ (\E a \in Attempts : GoStep(a))

FSafety == FInit /\ [][FNext]_fvars

\* The scheduler runs every caller, and time.After fires; nothing is assumed
\* of GCS or of the goroutines that wait for it.
FSpec == FSafety /\ \A j \in Jobs : WF_fvars(CallerStep(j))

-----------------------------------------------------------------------------
(* Properties.                                                              *)

PCs == {"idle", "mkdir", "wait", "mkfinal", "rename", "chmod", "done"}
GoStates == {"none", "open", "create", "copy", "close", "sent"}

\* The type of every variable of the callers, goroutines and file system.
TypeOK ==
  /\ pc \in [Jobs -> PCs]
  /\ retrynum \in [Jobs -> Rounds]
  /\ fuzz \in [Jobs -> Fuzz]
  /\ report \in [Jobs -> Reports]
  /\ told \in SUBSET Jobs
  /\ go \in [Attempts -> GoStates]
  /\ breaker \in SUBSET Attempts
  /\ outcome \in [Attempts -> {"none", "ok", "timeout", "perm", "other"}]
  /\ stream \in [Attempts -> {"good", "bad"}]
  /\ off \in [Attempts -> 0 .. NumChunks]
  /\ fd \in [Attempts -> Attempts \cup {NoFile}]
  /\ tmp \in [Paths -> Attempts \cup {NoFile}]
  /\ final \in [Jobs -> Attempts \cup {NoFile}]
  /\ data \in [Attempts -> Contents]
  /\ dirs \in SUBSET Dirs
  /\ created \in SUBSET Dirs

\* Inode i holds the whole object, and the one the SHA-1 names if there is one.
Whole(i) == \A c \in Chunks : data[i][c] # "hole"
Intact(j, i) == \A c \in Chunks :
                  data[i][c] # "hole" /\ (j \in HasSha => data[i][c] = "good")

\* What stands under a final name was downloaded for that job, is whole, and
\* is what the manifest's SHA-1 names: fetchObject renames only after the
\* download, and after the checks that fetchObjectOnce makes on it.
VisibleIsVerified ==
  \A j \in Jobs : final[j] # NoFile => final[j][1] = j /\ Intact(j, final[j])

\* A download that timed out is never the one that was published, though its
\* goroutine goes on and may well complete its temporary file.
TimedOutNeverPublished ==
  \A j \in Jobs : final[j] # NoFile => final[j] \notin breaker

\* Two downloads that run at the same time, of one job or of two jobs with the
\* same object, never write to the same file: what the random number and the
\* retry number in the temporary name are there for.
OneWriterPerFile ==
  \A a, b \in Attempts :
    go[a] \in {"copy", "close"} /\ go[b] \in {"copy", "close"} /\ fd[a] = fd[b]
      => a = b

\* When fetchObject comes to rename, its temporary file is still there and is
\* the one its own attempt wrote: no orphan has taken it.
RenameFindsOwnFile ==
  \A j \in Jobs :
    pc[j] \in {"mkfinal", "rename"} => tmp[Path(Current(j))] = Current(j)

\* No step, of an orphan in particular, writes to a file after it was renamed
\* to its final name, and no step takes it away: a final name that exists
\* goes on existing and its content changes only by a rename over it.
PublishedIsLeftAlone ==
  [][\A j \in Jobs : final[j] # NoFile =>
       /\ final'[j] # NoFile
       /\ data'[final[j]] = data[final[j]]]_fvars

\* fetchObject returns for every job it starts, even when GCS never answers
\* and downloads hang for ever: the timeout is enough.
EveryFetchReturns == \A j \in Jobs : pc[j] # "idle" ~> pc[j] = "done"

\* fetchObject seen as the contract sees it.
StatusOf(j) == IF pc[j] = "idle" THEN "waiting"
               ELSE IF pc[j] # "done" THEN "running"
               ELSE IF report[j].success THEN "ok" ELSE "failed"
FileOf(j) == IF final[j] = NoFile THEN "absent"
             ELSE IF Intact(j, final[j]) THEN "verified" ELSE "broken"

Contract == INSTANCE FetchContract WITH
  status <- [j \in Jobs |-> StatusOf(j)],
  file <- [j \in Jobs |-> FileOf(j)],
  tries <- [j \in Jobs |-> report[j].attempts]

\* fetchObject keeps its contract: no file under a final name but a whole and
\* verified one, success only with it, failure only after Retries[j] + 1 tries
\* that failed, and one or the other in the end.
ImplementsContract == Contract!CSpec

=============================================================================
