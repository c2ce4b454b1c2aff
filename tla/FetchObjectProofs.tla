------------------------- MODULE FetchObjectProofs -------------------------
(***************************************************************************)
(* Theorems about FetchObject, for every set of jobs, number of retries and *)
(* size of object.                                                          *)
(***************************************************************************)
EXTENDS FetchObject, TLAPS

-----------------------------------------------------------------------------
(* The inductive invariant, in parts.                                       *)

\* Jobs that have started and fetch the same object drew different numbers.
DistinctFuzz ==
  \A j, k \in Jobs :
    j # k /\ pc[j] # "idle" /\ pc[k] # "idle" /\ Object[j] = Object[k]
      => fuzz[j] # fuzz[k]

\* Goroutines exist for the rounds the caller has come to, and the rounds that
\* timed out are behind it.
RoundsInOrder ==
  /\ \A a \in Attempts : go[a] # "none" =>
       pc[a[1]] # "idle" /\ a[2] <= retrynum[a[1]]
  /\ \A a \in breaker : a[2] < retrynum[a[1]] \/ pc[a[1]] = "done"
  /\ \A a \in breaker : a[2] <= retrynum[a[1]] /\ pc[a[1]] # "idle"

\* What the caller has been told about the attempt of its round.
CallerKnows ==
  \A j \in Jobs :
    /\ pc[j] = "mkdir" => go[Current(j)] = "none"
    /\ pc[j] \in {"mkfinal", "rename"} =>
         go[Current(j)] = "sent" /\ outcome[Current(j)] = "ok"

\* A temporary name leads to the file of the attempt it was made for, and a
\* goroutine writes to its own file, which still has its name.
OwnFiles ==
  /\ \A p \in Paths, a \in Attempts :
       tmp[p] = a => p = Path(a) /\ go[a] \in {"copy", "close", "sent"}
  /\ \A a \in Attempts : go[a] \in {"copy", "close"} =>
       fd[a] = a /\ tmp[Path(a)] = a
  /\ \A j \in Jobs :
       /\ pc[j] \in {"wait", "mkfinal", "rename"}
       /\ go[Current(j)] = "sent" /\ outcome[Current(j)] = "ok"
       => tmp[Path(Current(j))] = Current(j)

\* A goroutine has its answer when it closes its files, and sends that one.
AnswerChosen ==
  \A a \in Attempts : outcome[a] # "none" <=> go[a] \in {"close", "sent"}

\* What has been copied is what GCS sent, and an attempt that ended well has
\* copied all of it.
CopiedIsStreamed ==
  \A a \in Attempts :
    /\ go[a] \in {"none", "open", "create"} => off[a] = 0
    /\ go[a] = "copy" => \A c \in 1 .. off[a] : data[a][c] = stream[a]
    /\ outcome[a] = "ok" =>
         /\ \A c \in Chunks : data[a][c] = stream[a]
         /\ a[1] \in HasSha => stream[a] = "good"

\* A final name leads to a file of a past attempt that ended well in time.
FinalIsPast ==
  \A j \in Jobs : final[j] # NoFile =>
    /\ final[j][1] = j
    /\ go[final[j]] = "sent"
    /\ outcome[final[j]] = "ok"
    /\ final[j] \notin breaker
    /\ final[j][2] = retrynum[j] => pc[j] \in {"chmod", "done"}

FilesInv ==
  /\ TypeOK /\ AnswerChosen /\ DistinctFuzz /\ RoundsInOrder /\ CallerKnows
  /\ OwnFiles /\ CopiedIsStreamed /\ FinalIsPast

-----------------------------------------------------------------------------
(* Attempts and their temporary names.                                      *)

\* An attempt is the pair of its job and its round.
LEMMA AttemptIsPair ==
  /\ \A a \in Attempts : a[1] \in Jobs /\ a[2] \in Rounds /\ a = <<a[1], a[2]>>
  /\ \A j \in Jobs, r \in Rounds :
       <<j, r>> \in Attempts /\ <<j, r>>[1] = j /\ <<j, r>>[2] = r
BY DEF Attempts

\* The attempt of the current round is one, of that job and that round.
LEMMA CurrentIsAttempt ==
  ASSUME TypeOK
  PROVE  \A j \in Jobs : /\ Current(j) \in Attempts
                         /\ Current(j)[1] = j
                         /\ Current(j)[2] = retrynum[j]
BY DEF Attempts, Current, TypeOK

\* Temporary names of attempts are names.
LEMMA PathIsPath ==
  ASSUME TypeOK
  PROVE  \A a \in Attempts : Path(a) \in Paths
BY FetchAssumption DEF Attempts, Path, Paths, TypeOK

\* No two attempts that have begun share a temporary name.
LEMMA PathsDiffer ==
  ASSUME TypeOK, DistinctFuzz, RoundsInOrder
  PROVE  \A a, b \in Attempts :
           go[a] # "none" /\ go[b] # "none" /\ Path(a) = Path(b) => a = b
<1> SUFFICES ASSUME NEW a \in Attempts, NEW b \in Attempts,
                    go[a] # "none", go[b] # "none", Path(a) = Path(b)
             PROVE  a = b
  OBVIOUS
<1>1. Object[a[1]] = Object[b[1]] /\ fuzz[a[1]] = fuzz[b[1]] /\ a[2] = b[2]
  BY DEF Path
<1>2. pc[a[1]] # "idle" /\ pc[b[1]] # "idle"
  BY DEF RoundsInOrder
<1>3. a[1] = b[1]
  BY <1>1, <1>2, AttemptIsPair DEF DistinctFuzz
<1> QED
  BY <1>1, <1>3, AttemptIsPair

-----------------------------------------------------------------------------
(* The type invariant.                                                      *)

\* A failed try leaves the caller's variables well typed.
LEMMA FailType ==
  ASSUME TypeOK, NEW j \in Jobs, NEW e \in Errors, Fail(j, e)
  PROVE  /\ pc' \in [Jobs -> PCs]
         /\ retrynum' \in [Jobs -> Rounds]
         /\ report' \in [Jobs -> Reports]
         /\ told' \in SUBSET Jobs
<1> DEFINE m == report[j].attempts + 1
<1>1. m \in Nat
  BY DEF TypeOK, Reports
<1>2. [success |-> FALSE, err |-> e, attempts |-> m] \in Reports
  BY <1>1 DEF Reports
<1>3. report' \in [Jobs -> Reports] /\ told' \in SUBSET Jobs
  BY <1>2 DEF Fail, LastRound, TypeOK
<1>4. retrynum[j] < Retries[j] => retrynum[j] + 1 \in Rounds
  BY FetchAssumption DEF TypeOK, Rounds
<1> QED
  BY <1>3, <1>4, FetchAssumption DEF Fail, LastRound, TypeOK, PCs, Rounds

\* Steps of a caller.
LEMMA CallerType ==
  ASSUME TypeOK, AnswerChosen, NEW j \in Jobs, CallerStep(j)
  PROVE  TypeOK'
<1> USE DEF TypeOK, callerVars, goVars, fsVars, PCs, GoStates
<1>a. {"nil", "timeout", "perm", "other"} = Errors
  BY DEF Errors
<1>b. Current(j) \in Attempts
  BY CurrentIsAttempt
<1>c. FinalDir[j] \in Dirs /\ Staging \in Dirs
  BY FetchAssumption
<1>d. Path(Current(j)) \in Paths
  BY <1>b, PathIsPath
<1>1. CASE Begin(j)
  BY <1>1 DEF Begin
<1>2. CASE StartDownload(j)
  BY <1>2, <1>b, <1>c DEF StartDownload, EnsureFolders
<1>3. CASE MakeStagingFails(j)
  BY <1>3, <1>a, FailType DEF MakeStagingFails, EnsureFoldersFails
<1>4. CASE Receive(j)
  <2>1. CASE outcome[Current(j)] = "ok"
    BY <1>4, <2>1 DEF Receive, GotFile
  <2>2. CASE outcome[Current(j)] # "ok"
    <3>1. outcome[Current(j)] \in Errors
      BY <1>4, <2>2, <1>a, <1>b DEF Receive, GotFile, AnswerChosen
    <3> QED
      BY <1>4, <2>2, <3>1, FailType DEF Receive, GotFile
  <2> QED
    BY <2>1, <2>2
<1>5. CASE Timeout(j)
  BY <1>5, <1>a, <1>b, FailType DEF Timeout
<1>6. CASE EnsureFinal(j)
  BY <1>6, <1>c DEF EnsureFinal, EnsureFolders
<1>7. CASE MakeFinalFails(j)
  BY <1>7, <1>a, FailType DEF MakeFinalFails, EnsureFoldersFails
<1>8. CASE Rename(j)
  BY <1>8, <1>d DEF Rename
<1>9. CASE RenameFails(j)
  BY <1>9, <1>a, FailType DEF RenameFails
<1>10. CASE Finish(j)
  BY <1>10 DEF Finish, Reports, Errors
<1>11. CASE ChmodFails(j)
  BY <1>11, <1>a, FailType DEF ChmodFails
<1> QED
  BY <1>1, <1>2, <1>3, <1>4, <1>5, <1>6, <1>7, <1>8, <1>9, <1>10, <1>11
     DEF CallerStep

\* Steps of a goroutine, which writes to the inode of its own attempt.
OwnInodes == \A a \in Attempts : go[a] \in {"copy", "close"} => fd[a] = a

LEMMA GoType ==
  ASSUME TypeOK, OwnInodes, NEW a \in Attempts, GoStep(a)
  PROVE  TypeOK'
<1> USE DEF TypeOK, callerVars, goVars, fsVars, GoStates, Send
<1>a. Path(a) \in Paths
  BY PathIsPath
<1>b. Empty \in Contents
  BY DEF Empty, Contents
<1>1. CASE Open(a)
  BY <1>1 DEF Open
<1>2. CASE OpenFails(a)
  BY <1>2 DEF OpenFails
<1>3. CASE Create(a)
  <2> DEFINE i == IF tmp[Path(a)] = NoFile THEN a ELSE tmp[Path(a)]
  <2>1. i \in Attempts
    BY <1>a
  <2> QED
    BY <1>3, <1>a, <1>b, <2>1 DEF Create
<1>4. CASE CreateFails(a)
  BY <1>4 DEF CreateFails
<1>5. CASE CopyChunk(a)
  <2>1. fd[a] = a
    BY <1>5 DEF CopyChunk, OwnInodes
  <2>2. off[a] + 1 \in 0 .. NumChunks
    BY <1>5, FetchAssumption DEF CopyChunk
  <2>3. [data[a] EXCEPT ![off[a] + 1] = stream[a]] \in Contents
    BY DEF Contents
  <2> QED
    BY <1>5, <2>1, <2>2, <2>3 DEF CopyChunk
<1>6. CASE CopyFails(a)
  BY <1>6 DEF CopyFails
<1>7. CASE Verify(a)
  BY <1>7 DEF Verify
<1>8. CASE Close(a)
  <2>1. fd[a] = a
    BY <1>8 DEF Close, OwnInodes
  <2>2. [data[a] EXCEPT ![off[a]] = "hole"] \in Contents
    BY DEF Contents
  <2> QED
    BY <1>8, <2>1, <2>2 DEF Close
<1> QED
  BY <1>1, <1>2, <1>3, <1>4, <1>5, <1>6, <1>7, <1>8 DEF GoStep

-----------------------------------------------------------------------------
(* Each part of the invariant is kept by the steps of a caller.             *)

\* What a failed try does, for the parts of the invariant: on to the next
\* round, or the end.
LEMMA FailStep ==
  ASSUME TypeOK, NEW j \in Jobs, NEW e, Fail(j, e)
  PROVE  \/ /\ pc' = [pc EXCEPT ![j] = "mkdir"]
            /\ retrynum' = [retrynum EXCEPT ![j] = retrynum[j] + 1]
         \/ /\ pc' = [pc EXCEPT ![j] = "done"]
            /\ retrynum' = retrynum
BY DEF Fail, LastRound

\* The parts of the invariant that TypeOK does not cover.
Parts ==
  /\ AnswerChosen /\ DistinctFuzz /\ RoundsInOrder /\ CallerKnows
  /\ OwnFiles /\ CopiedIsStreamed /\ FinalIsPast

\* A failed try keeps them, also when it is the timeout that closes breakerSig.
LEMMA FailKeeps ==
  ASSUME FilesInv, NEW j \in Jobs, NEW e, Fail(j, e),
         pc[j] \notin {"idle", "done"},
         UNCHANGED <<fuzz, go, outcome, stream, off, fd, tmp, final, data>>,
         \/ breaker' = breaker
         \/ pc[j] = "wait" /\ breaker' = breaker \cup {Current(j)}
  PROVE  Parts'
<1> USE DEF FilesInv
<1>1. \/ /\ pc' = [pc EXCEPT ![j] = "mkdir"]
         /\ retrynum' = [retrynum EXCEPT ![j] = retrynum[j] + 1]
      \/ /\ pc' = [pc EXCEPT ![j] = "done"]
         /\ retrynum' = retrynum
  BY FailStep
<1>2. /\ \A k \in Jobs : k # j => pc'[k] = pc[k] /\ retrynum'[k] = retrynum[k]
      /\ \/ pc'[j] = "mkdir" /\ retrynum'[j] = retrynum[j] + 1
         \/ pc'[j] = "done" /\ retrynum'[j] = retrynum[j]
      /\ \A k \in Jobs : retrynum[k] \in Nat /\ retrynum'[k] \in Nat
  <2>1. \A k \in Jobs : retrynum[k] \in Nat
    BY FetchAssumption DEF TypeOK, Rounds
  <2> QED
    BY <1>1, <2>1 DEF TypeOK
<1>3. \A a \in Attempts : a[1] \in Jobs /\ a[2] \in Nat
  BY AttemptIsPair DEF Rounds
<1>4. AnswerChosen' /\ CopiedIsStreamed'
  BY DEF AnswerChosen, CopiedIsStreamed
<1>5. DistinctFuzz'
  BY <1>2 DEF DistinctFuzz
<1>6. \A a \in Attempts : retrynum[a[1]] <= retrynum'[a[1]]
  BY <1>2, <1>3
<1>7. RoundsInOrder'
  <2>1. \A a \in Attempts : go'[a] # "none" =>
          pc'[a[1]] # "idle" /\ a[2] <= retrynum'[a[1]]
    BY <1>2, <1>3, <1>6 DEF RoundsInOrder
  <2>2. \A a \in breaker : (a[2] < retrynum'[a[1]] \/ pc'[a[1]] = "done")
                             /\ a[2] <= retrynum'[a[1]] /\ pc'[a[1]] # "idle"
    BY <1>2, <1>3, <1>6 DEF RoundsInOrder, TypeOK
  <2>3. Current(j)[1] = j /\ Current(j)[2] = retrynum[j]
    BY CurrentIsAttempt
  <2> QED
    BY <1>2, <2>1, <2>2, <2>3 DEF RoundsInOrder
<1>8. \A k \in Jobs : k # j => Current(k)' = Current(k)
  BY <1>2 DEF Current
<1>9. CallerKnows'
  <2>1. pc'[j] = "mkdir" => go'[Current(j)'] = "none"
    <3>1. SUFFICES ASSUME pc'[j] = "mkdir" PROVE go[Current(j)'] = "none"
      OBVIOUS
    <3>2. Current(j)' = <<j, retrynum[j] + 1>>
      BY <1>2, <3>1 DEF Current
    <3>3. retrynum[j] + 1 \in Rounds
      <4>1. retrynum[j] \in Nat /\ Retries[j] \in Nat
        BY FetchAssumption DEF TypeOK, Rounds
      <4>2. pc' = [pc EXCEPT ![j] = "done"] => pc'[j] = "done"
        BY DEF TypeOK
      <4>3. ~LastRound(j)
        BY <3>1, <4>2 DEF Fail
      <4>4. retrynum[j] < Retries[j]
        BY <4>1, <4>3 DEF LastRound
      <4> QED
        BY <4>1, <4>4, FetchAssumption DEF TypeOK, Rounds
    <3> QED
      BY <1>2, <3>2, <3>3, AttemptIsPair DEF RoundsInOrder
  <2> QED
    BY <1>2, <1>8, <2>1 DEF CallerKnows
<1>10. OwnFiles'
  BY <1>2, <1>8 DEF OwnFiles, Path
<1>11. FinalIsPast'
  <2>1. \A k \in Jobs : final[k] # NoFile => final[k] \in Attempts
    BY DEF TypeOK
  <2>2. final[j] # NoFile /\ pc[j] = "wait" => final[j] # Current(j)
    BY CurrentIsAttempt DEF FinalIsPast
  <2>3. \A k \in Jobs : k # j /\ final[k] # NoFile => final[k] # Current(j)
    BY CurrentIsAttempt DEF FinalIsPast
  <2>4. \A k \in Jobs : final[k] # NoFile => final[k] \notin breaker'
    BY <2>2, <2>3 DEF FinalIsPast
  <2>5. final[j] # NoFile => final[j][2] <= retrynum[j] /\ final[j][2] \in Nat
    BY <1>3, <2>1 DEF FinalIsPast, RoundsInOrder
  <2> QED
    BY <1>2, <2>4, <2>5 DEF FinalIsPast
<1> QED
  BY <1>4, <1>5, <1>7, <1>9, <1>10, <1>11 DEF Parts

\* Begin keeps the parts: it draws a number no other started job has.
LEMMA BeginKeeps ==
  ASSUME FilesInv, NEW j \in Jobs, Begin(j), ~FuzzCollides
  PROVE  Parts'
<1> USE DEF FilesInv, Begin, goVars, fsVars
<1>1. AnswerChosen' /\ CopiedIsStreamed'
  BY DEF AnswerChosen, CopiedIsStreamed
<1>2. DistinctFuzz'
  BY DEF DistinctFuzz, TypeOK
<1>3. \A a \in Attempts : a[1] = j => go[a] = "none" /\ a \notin breaker
  BY DEF RoundsInOrder
<1>4. RoundsInOrder'
  BY <1>3, AttemptIsPair DEF RoundsInOrder, TypeOK
<1>5. \A k \in Jobs : Current(k)' = Current(k)
  BY DEF Current
<1>6. CallerKnows'
  BY <1>3, <1>5, CurrentIsAttempt DEF CallerKnows, TypeOK
<1>7. \A a \in Attempts : go[a] # "none" => Path(a)' = Path(a)
  BY <1>3, AttemptIsPair DEF Path, TypeOK
<1>8. OwnFiles'
  BY <1>5, <1>7, CurrentIsAttempt DEF OwnFiles, TypeOK
<1>9. FinalIsPast'
  BY DEF FinalIsPast, TypeOK
<1> QED
  BY <1>1, <1>2, <1>4, <1>6, <1>8, <1>9 DEF Parts

\* So does the start of a download, of a round that had none.
LEMMA StartKeeps ==
  ASSUME FilesInv, NEW j \in Jobs, StartDownload(j)
  PROVE  Parts'
<1> USE DEF FilesInv, StartDownload
<1>1. /\ Current(j) \in Attempts /\ Current(j)[1] = j
      /\ Current(j)[2] = retrynum[j]
      /\ \A k \in Jobs : Current(k) \in Attempts /\ Current(k)' = Current(k)
      /\ \A a \in Attempts : Path(a)' = Path(a)
  BY CurrentIsAttempt DEF Current, Path
<1>2. go[Current(j)] = "none"
  BY DEF CallerKnows
<1>3. /\ go'[Current(j)] = "open"
      /\ \A a \in Attempts : a # Current(j) => go'[a] = go[a]
      /\ pc'[j] = "wait"
      /\ \A k \in Jobs : k # j => pc'[k] = pc[k]
      /\ \A k \in Jobs : k # j => Current(k) # Current(j)
  BY <1>1, CurrentIsAttempt DEF TypeOK
<1>4. AnswerChosen'
  BY <1>2, <1>3 DEF AnswerChosen
<1>5. CopiedIsStreamed'
  BY <1>2, <1>3 DEF CopiedIsStreamed
<1>6. DistinctFuzz'
  BY DEF DistinctFuzz, TypeOK
<1>7. RoundsInOrder'
  <2>1. retrynum[j] <= retrynum[j]
    BY FetchAssumption DEF TypeOK, Rounds
  <2>2. \A a \in Attempts : a[1] \in Jobs
    BY AttemptIsPair
  <2> QED
    BY <1>1, <1>3, <2>1, <2>2 DEF RoundsInOrder, TypeOK
<1>8. CallerKnows'
  BY <1>1, <1>3 DEF CallerKnows
<1>9. OwnFiles'
  BY <1>1, <1>2, <1>3 DEF OwnFiles
<1>10. FinalIsPast'
  BY <1>1, <1>2, <1>3 DEF FinalIsPast, TypeOK
<1> QED
  BY <1>4, <1>5, <1>6, <1>7, <1>8, <1>9, <1>10 DEF Parts

\* The answer that there is a file, and the making of the final directory:
\* the caller comes to "mkfinal", then to "rename".
LEMMA AdvanceKeeps ==
  ASSUME FilesInv, NEW j \in Jobs, NEW next \in {"mkfinal", "rename"},
         pc' = [pc EXCEPT ![j] = next], pc[j] \in {"wait", "mkfinal"},
         go[Current(j)] = "sent", outcome[Current(j)] = "ok",
         UNCHANGED <<retrynum, fuzz, goVars, tmp, final, data>>
  PROVE  Parts'
<1> USE DEF FilesInv, goVars
<1>1. AnswerChosen' /\ CopiedIsStreamed'
  BY DEF AnswerChosen, CopiedIsStreamed
<1>2. DistinctFuzz'
  BY DEF DistinctFuzz, TypeOK
<1>3. RoundsInOrder'
  BY AttemptIsPair DEF RoundsInOrder, TypeOK
<1>4. \A k \in Jobs : Current(k)' = Current(k)
  BY DEF Current
<1>5. CallerKnows'
  BY <1>4 DEF CallerKnows, TypeOK
<1>6. OwnFiles'
  BY <1>4 DEF OwnFiles, TypeOK, Path
<1>7. FinalIsPast'
  BY DEF FinalIsPast, TypeOK
<1> QED
  BY <1>1, <1>2, <1>3, <1>5, <1>6, <1>7 DEF Parts

\* Rename publishes the file of the attempt of this round.
LEMMA RenameKeeps ==
  ASSUME FilesInv, NEW j \in Jobs, Rename(j)
  PROVE  Parts'
<1> USE DEF FilesInv, Rename, goVars
<1>1. /\ Current(j) \in Attempts /\ Current(j)[1] = j
      /\ Current(j)[2] = retrynum[j]
      /\ \A k \in Jobs : Current(k) \in Attempts /\ Current(k)' = Current(k)
      /\ \A k \in Jobs : k # j => Current(k) # Current(j)
      /\ \A a \in Attempts : Path(a)' = Path(a) /\ Path(a) \in Paths
  BY CurrentIsAttempt, PathIsPath DEF Current, Path
<1>2. /\ go[Current(j)] = "sent" /\ outcome[Current(j)] = "ok"
      /\ tmp[Path(Current(j))] = Current(j)
  BY DEF CallerKnows, OwnFiles
<1>3. AnswerChosen' /\ CopiedIsStreamed'
  BY DEF AnswerChosen, CopiedIsStreamed
<1>4. DistinctFuzz'
  BY DEF DistinctFuzz, TypeOK
<1>5. RoundsInOrder'
  BY AttemptIsPair DEF RoundsInOrder, TypeOK
<1>6. CallerKnows'
  BY <1>1 DEF CallerKnows, TypeOK
<1>7. \A a \in Attempts : go[a] # "none" /\ a # Current(j)
        => Path(a) # Path(Current(j))
  BY <1>1, <1>2, PathsDiffer
<1>8. OwnFiles'
  <2>1. \A p \in Paths, a \in Attempts :
          tmp'[p] = a => p = Path(a) /\ go[a] \in {"copy", "close", "sent"}
    BY <1>1, FetchAssumption DEF OwnFiles, TypeOK
  <2>2. \A a \in Attempts : go[a] \in {"copy", "close"} =>
          fd[a] = a /\ tmp'[Path(a)] = a
    BY <1>1, <1>2, <1>7 DEF OwnFiles, TypeOK
  <2>3. \A k \in Jobs :
          /\ pc'[k] \in {"wait", "mkfinal", "rename"}
          /\ go[Current(k)] = "sent" /\ outcome[Current(k)] = "ok"
          => tmp'[Path(Current(k))] = Current(k)
    BY <1>1, <1>2, <1>7 DEF OwnFiles, TypeOK
  <2> QED
    BY <1>1, <2>1, <2>2, <2>3 DEF OwnFiles
<1>9. FinalIsPast'
  <2>1. Current(j) \notin breaker
    <3>1. ~(retrynum[j] < retrynum[j])
      BY FetchAssumption DEF TypeOK, Rounds
    <3> QED
      BY <1>1, <3>1 DEF RoundsInOrder
  <2>2. final'[j] = Current(j) /\ pc'[j] = "chmod"
    BY <1>2 DEF TypeOK
  <2>3. \A k \in Jobs : k # j => final'[k] = final[k] /\ pc'[k] = pc[k]
    BY DEF TypeOK
  <2> QED
    BY <1>1, <1>2, <2>1, <2>2, <2>3 DEF FinalIsPast
<1> QED
  BY <1>3, <1>4, <1>5, <1>6, <1>8, <1>9 DEF Parts

\* Success ends the job.
LEMMA FinishKeeps ==
  ASSUME FilesInv, NEW j \in Jobs, Finish(j)
  PROVE  Parts'
<1> USE DEF FilesInv, Finish, goVars, fsVars
<1>1. AnswerChosen' /\ CopiedIsStreamed'
  BY DEF AnswerChosen, CopiedIsStreamed
<1>2. DistinctFuzz'
  BY DEF DistinctFuzz, TypeOK
<1>3. RoundsInOrder'
  BY AttemptIsPair DEF RoundsInOrder, TypeOK
<1>4. \A k \in Jobs : Current(k)' = Current(k)
  BY DEF Current
<1>5. CallerKnows'
  BY <1>4 DEF CallerKnows, TypeOK
<1>6. OwnFiles'
  BY <1>4 DEF OwnFiles, TypeOK, Path
<1>7. FinalIsPast'
  BY DEF FinalIsPast, TypeOK
<1> QED
  BY <1>1, <1>2, <1>3, <1>5, <1>6, <1>7 DEF Parts

LEMMA CallerKeeps ==
  ASSUME FilesInv, NEW j \in Jobs, CallerStep(j), ~FuzzCollides
  PROVE  Parts'
<1> USE DEF FilesInv, goVars, fsVars, EnsureFoldersFails
<1>1. CASE Begin(j)
  BY <1>1, BeginKeeps
<1>2. CASE StartDownload(j)
  BY <1>2, StartKeeps
<1>3. CASE MakeStagingFails(j)
  BY <1>3, FailKeeps DEF MakeStagingFails
<1>4. CASE Receive(j)
  <2>1. CASE outcome[Current(j)] = "ok"
    BY <1>4, <2>1, AdvanceKeeps DEF Receive, GotFile
  <2>2. CASE outcome[Current(j)] # "ok"
    BY <1>4, <2>2, FailKeeps DEF Receive, GotFile
  <2> QED
    BY <2>1, <2>2
<1>5. CASE Timeout(j)
  BY <1>5, FailKeeps DEF Timeout
<1>6. CASE EnsureFinal(j)
  BY <1>6, AdvanceKeeps DEF EnsureFinal, CallerKnows
<1>7. CASE MakeFinalFails(j)
  BY <1>7, FailKeeps DEF MakeFinalFails
<1>8. CASE Rename(j)
  BY <1>8, RenameKeeps
<1>9. CASE RenameFails(j)
  BY <1>9, FailKeeps DEF RenameFails
<1>10. CASE Finish(j)
  BY <1>10, FinishKeeps
<1>11. CASE ChmodFails(j)
  BY <1>11, FailKeeps DEF ChmodFails
<1> QED
  BY <1>1, <1>2, <1>3, <1>4, <1>5, <1>6, <1>7, <1>8, <1>9, <1>10, <1>11
     DEF CallerStep

-----------------------------------------------------------------------------
(* Each part of the invariant is kept by the steps of a goroutine.          *)

\* Steps that leave the files and the copied data alone: a goroutine opens its
\* reader, or ends; it has an answer exactly when it is to close or has sent.
LEMMA AnswerKeeps ==
  ASSUME FilesInv, NEW a \in Attempts,
         go[a] \in {"open", "create", "copy"},
         \A b \in Attempts : b # a =>
           go'[b] = go[b] /\ outcome'[b] = outcome[b] /\ stream'[b] = stream[b],
         \/ go[a] = "open" /\ go'[a] = "create" /\ outcome'[a] = "none"
         \/ /\ go'[a] = "sent" /\ outcome'[a] \notin {"none", "ok"}
            /\ stream'[a] = stream[a]
         \/ /\ go[a] = "copy" /\ go'[a] = "close" /\ outcome'[a] # "none"
            /\ stream'[a] = stream[a],
         outcome'[a] = "ok" => /\ go[a] = "copy" /\ off[a] = NumChunks
                               /\ a \notin breaker
                               /\ a[1] \in HasSha => stream[a] = "good",
         UNCHANGED <<callerVars, breaker, off, fd, fsVars>>
  PROVE  Parts'
<1> USE DEF FilesInv, callerVars, fsVars
<1>1. \A b \in Attempts : b # a =>
        go'[b] = go[b] /\ outcome'[b] = outcome[b] /\ stream'[b] = stream[b]
  OBVIOUS
<1>2. /\ \A k \in Jobs : Current(k) \in Attempts /\ Current(k)' = Current(k)
      /\ \A b \in Attempts : Path(b)' = Path(b)
  BY CurrentIsAttempt DEF Current, Path
<1>3. AnswerChosen'
  BY <1>1 DEF AnswerChosen
<1>4. DistinctFuzz'
  BY DEF DistinctFuzz
<1>5. RoundsInOrder'
  BY <1>1 DEF RoundsInOrder
<1>6. CallerKnows'
  BY <1>1, <1>2 DEF CallerKnows
<1>7. OwnFiles'
  <2>1. \A p \in Paths, b \in Attempts :
          tmp'[p] = b => p = Path(b) /\ go'[b] \in {"copy", "close", "sent"}
    BY <1>1 DEF OwnFiles
  <2>2. \A b \in Attempts : go'[b] \in {"copy", "close"} =>
          fd'[b] = b /\ tmp'[Path(b)] = b
    BY <1>1 DEF OwnFiles
  <2>3. \A k \in Jobs :
          /\ pc[k] \in {"wait", "mkfinal", "rename"}
          /\ go'[Current(k)] = "sent" /\ outcome'[Current(k)] = "ok"
          => tmp'[Path(Current(k))] = Current(k)
    BY <1>1, <1>2 DEF OwnFiles
  <2> QED
    BY <1>2, <2>1, <2>2, <2>3 DEF OwnFiles
<1>8. CopiedIsStreamed'
  <2>1. go[a] = "open" => off[a] = 0
    BY DEF CopiedIsStreamed
  <2>2. outcome'[a] = "ok" => \A c \in Chunks : data[a][c] = stream[a]
    BY DEF CopiedIsStreamed, Chunks
  <2>3. \A b \in Attempts : b # a =>
          /\ go'[b] \in {"none", "open", "create"} => off'[b] = 0
          /\ go'[b] = "copy" => \A c \in 1 .. off'[b] : data'[b][c] = stream'[b]
          /\ outcome'[b] = "ok" =>
               /\ \A c \in Chunks : data'[b][c] = stream'[b]
               /\ b[1] \in HasSha => stream'[b] = "good"
    BY <1>1 DEF CopiedIsStreamed
  <2>4. /\ go'[a] \in {"none", "open", "create"} => off'[a] = 0
        /\ go'[a] = "copy" => \A c \in 1 .. off'[a] : data'[a][c] = stream'[a]
        /\ outcome'[a] = "ok" =>
             /\ \A c \in Chunks : data'[a][c] = stream'[a]
             /\ a[1] \in HasSha => stream'[a] = "good"
    BY <1>1, <2>1, <2>2
  <2> QED
    BY <2>3, <2>4 DEF CopiedIsStreamed
<1>9. FinalIsPast'
  <2>1. \A k \in Jobs : final[k] # NoFile => final[k] \in Attempts /\ final[k] # a
    BY DEF FinalIsPast, TypeOK
  <2> QED
    BY <1>1, <2>1 DEF FinalIsPast
<1> QED
  BY <1>3, <1>4, <1>5, <1>6, <1>7, <1>8, <1>9 DEF Parts

\* Create makes a new, empty file: its name was free.
LEMMA CreateKeeps ==
  ASSUME FilesInv, NEW a \in Attempts, Create(a)
  PROVE  Parts'
<1> USE DEF FilesInv, Create, callerVars
<1>1. /\ \A k \in Jobs : Current(k) \in Attempts /\ Current(k)' = Current(k)
      /\ \A b \in Attempts : Path(b)' = Path(b) /\ Path(b) \in Paths
  BY CurrentIsAttempt, PathIsPath DEF Current, Path
<1>2. tmp[Path(a)] = NoFile
  <2>1. SUFFICES ASSUME tmp[Path(a)] # NoFile PROVE FALSE
    OBVIOUS
  <2>2. tmp[Path(a)] \in Attempts
    BY <1>1, <2>1 DEF TypeOK
  <2>3. /\ Path(a) = Path(tmp[Path(a)])
        /\ go[tmp[Path(a)]] \in {"copy", "close", "sent"}
    BY <1>1, <2>2 DEF OwnFiles
  <2>4. tmp[Path(a)] = a
    BY <2>2, <2>3, PathsDiffer
  <2> QED
    BY <2>3, <2>4
<1>3. /\ fd' = [fd EXCEPT ![a] = a]
      /\ tmp' = [tmp EXCEPT ![Path(a)] = a]
      /\ data' = [data EXCEPT ![a] = Empty]
  BY <1>2
<1>4. /\ go'[a] = "copy" /\ fd'[a] = a /\ tmp'[Path(a)] = a
      /\ \A b \in Attempts : b # a =>
           go'[b] = go[b] /\ fd'[b] = fd[b] /\ data'[b] = data[b]
      /\ \A p \in Paths : p # Path(a) => tmp'[p] = tmp[p]
  BY <1>1, <1>3 DEF TypeOK
<1>5. AnswerChosen'
  BY <1>4 DEF AnswerChosen
<1>6. DistinctFuzz'
  BY DEF DistinctFuzz
<1>7. RoundsInOrder'
  BY <1>4 DEF RoundsInOrder
<1>8. CallerKnows'
  BY <1>1, <1>4 DEF CallerKnows
<1>9. OwnFiles'
  <2>1. \A p \in Paths, b \in Attempts :
          tmp'[p] = b => p = Path(b) /\ go'[b] \in {"copy", "close", "sent"}
    BY <1>4 DEF OwnFiles
  <2>2. \A b \in Attempts : go'[b] \in {"copy", "close"} =>
          fd'[b] = b /\ tmp'[Path(b)] = b
    BY <1>1, <1>4, PathsDiffer DEF OwnFiles
  <2>3. \A k \in Jobs :
          /\ pc[k] \in {"wait", "mkfinal", "rename"}
          /\ go'[Current(k)] = "sent" /\ outcome[Current(k)] = "ok"
          => tmp'[Path(Current(k))] = Current(k)
    BY <1>1, <1>4, PathsDiffer DEF OwnFiles
  <2> QED
    BY <1>1, <2>1, <2>2, <2>3 DEF OwnFiles
<1>10. CopiedIsStreamed'
  <2>1. off[a] = 0 /\ outcome[a] # "ok"
    BY DEF CopiedIsStreamed, AnswerChosen
  <2> QED
    BY <1>4, <2>1 DEF CopiedIsStreamed
<1>11. FinalIsPast'
  BY <1>4 DEF FinalIsPast, TypeOK
<1> QED
  BY <1>5, <1>6, <1>7, <1>8, <1>9, <1>10, <1>11 DEF Parts

\* A write goes to the writer's own file, at the end of what it has copied.
LEMMA CopyChunkKeeps ==
  ASSUME FilesInv, NEW a \in Attempts, CopyChunk(a)
  PROVE  Parts'
<1> USE DEF FilesInv, CopyChunk, callerVars
<1>1. /\ off[a] \in Nat /\ off'[a] = off[a] + 1
      /\ data'[a] = [data[a] EXCEPT ![off[a] + 1] = stream[a]]
      /\ \A b \in Attempts : b # a => off'[b] = off[b] /\ data'[b] = data[b]
  BY FetchAssumption DEF OwnFiles, TypeOK
<1>2. AnswerChosen'
  BY DEF AnswerChosen
<1>3. DistinctFuzz' /\ RoundsInOrder' /\ FinalIsPast'
  BY DEF DistinctFuzz, RoundsInOrder, FinalIsPast
<1>4. CallerKnows' /\ OwnFiles'
  BY DEF CallerKnows, OwnFiles, Current, Path
<1>5. CopiedIsStreamed'
  <2>1. outcome[a] # "ok"
    BY DEF AnswerChosen
  <2>2. \A c \in 1 .. off'[a] : data'[a][c] = stream[a]
    <3>1. \A c \in 1 .. off'[a] : c \in 1 .. off[a] \/ c = off[a] + 1
      BY <1>1
    <3>2. \A c \in 1 .. off'[a] : c \in Chunks
      BY <1>1, FetchAssumption DEF Chunks
    <3>3. data[a] \in Contents
      BY DEF TypeOK
    <3> QED
      BY <1>1, <3>1, <3>2, <3>3 DEF CopiedIsStreamed, Contents
  <2> QED
    BY <1>1, <2>1, <2>2 DEF CopiedIsStreamed
<1> QED
  BY <1>2, <1>3, <1>4, <1>5 DEF Parts

\* A close that cannot fail changes nothing but the goroutine's place.
LEMMA CloseKeeps ==
  ASSUME FilesInv, NEW a \in Attempts, Close(a), ~CloseMayFail
  PROVE  Parts'
<1> USE DEF FilesInv, Close, callerVars
<1>1. go'[a] = "sent" /\ \A b \in Attempts : b # a => go'[b] = go[b]
  BY DEF TypeOK
<1>2. /\ \A k \in Jobs : Current(k) \in Attempts /\ Current(k)' = Current(k)
      /\ \A b \in Attempts : Path(b)' = Path(b)
  BY CurrentIsAttempt DEF Current, Path
<1>3. AnswerChosen' /\ CopiedIsStreamed'
  BY <1>1 DEF AnswerChosen, CopiedIsStreamed
<1>4. DistinctFuzz' /\ RoundsInOrder'
  BY <1>1 DEF DistinctFuzz, RoundsInOrder
<1>5. CallerKnows'
  BY <1>1, <1>2 DEF CallerKnows
<1>6. OwnFiles'
  BY <1>1, <1>2 DEF OwnFiles
<1>7. FinalIsPast'
  BY <1>1 DEF FinalIsPast, TypeOK
<1> QED
  BY <1>3, <1>4, <1>5, <1>6, <1>7 DEF Parts

LEMMA GoKeeps ==
  ASSUME FilesInv, NEW a \in Attempts, GoStep(a), ~CloseMayFail
  PROVE  Parts'
<1> USE DEF FilesInv, Send
<1>a. go[a] \in {"open", "create", "copy"} => outcome[a] = "none"
  BY DEF AnswerChosen
<1>1. CASE Open(a)
  <2>1. CASE a \in breaker
    BY <1>1, <2>1, AnswerKeeps DEF Open, TypeOK
  <2>2. CASE a \notin breaker
    BY <1>1, <1>a, <2>2, AnswerKeeps DEF Open, TypeOK
  <2> QED
    BY <2>1, <2>2
<1>2. CASE OpenFails(a)
  BY <1>2, AnswerKeeps DEF OpenFails, TypeOK
<1>3. CASE Create(a)
  BY <1>3, CreateKeeps
<1>4. CASE CreateFails(a)
  BY <1>4, AnswerKeeps DEF CreateFails, TypeOK
<1>5. CASE CopyChunk(a)
  BY <1>5, CopyChunkKeeps
<1>6. CASE CopyFails(a)
  BY <1>6, AnswerKeeps DEF CopyFails, TypeOK
<1>7. CASE Verify(a)
  BY <1>7, AnswerKeeps DEF Verify, ShaDiffers, TypeOK
<1>8. CASE Close(a)
  BY <1>8, CloseKeeps
<1> QED
  BY <1>1, <1>2, <1>3, <1>4, <1>5, <1>6, <1>7, <1>8 DEF GoStep

-----------------------------------------------------------------------------
(* The theorems.                                                            *)

LEMMA FilesInvInit == FInit => FilesInv
<1> SUFFICES ASSUME FInit PROVE FilesInv
  OBVIOUS
<1> USE FetchAssumption DEF FInit
<1>1. TypeOK
  <2>1. 0 \in Rounds /\ 0 \in 0 .. NumChunks
    BY DEF Rounds
  <2>2. (CHOOSE f \in Fuzz : TRUE) \in Fuzz
    OBVIOUS
  <2>3. Empty \in Contents
    BY DEF Empty, Contents
  <2> QED
    BY <2>1, <2>2, <2>3 DEF TypeOK, PCs, GoStates, Reports, Errors
<1>2. Parts
  BY <1>1, CurrentIsAttempt, PathIsPath, AttemptIsPair
     DEF Parts, AnswerChosen, DistinctFuzz, RoundsInOrder, CallerKnows,
         OwnFiles, CopiedIsStreamed, FinalIsPast
<1> QED
  BY <1>1, <1>2 DEF FilesInv, Parts

LEMMA FilesInvNext ==
  ASSUME FilesInv, [FNext]_fvars, ~FuzzCollides, ~CloseMayFail
  PROVE  FilesInv'
<1>1. CASE UNCHANGED fvars
  BY <1>1 DEF FilesInv, TypeOK, AnswerChosen, DistinctFuzz, RoundsInOrder,
              CallerKnows, OwnFiles, CopiedIsStreamed, FinalIsPast, fvars,
              Current, Path
<1>2. ASSUME NEW j \in Jobs, CallerStep(j) PROVE FilesInv'
  BY <1>2, CallerType, CallerKeeps DEF FilesInv, Parts
<1>3. ASSUME NEW a \in Attempts, GoStep(a) PROVE FilesInv'
  <2>1. OwnInodes
    BY DEF FilesInv, OwnFiles, OwnInodes
  <2> QED
    BY <1>3, <2>1, GoType, GoKeeps DEF FilesInv, Parts
<1> QED
  BY <1>1, <1>2, <1>3 DEF FNext

\* The inductive invariant holds.
THEOREM FilesInvariant ==
  ASSUME ~FuzzCollides, ~CloseMayFail
  PROVE  FSafety => []FilesInv
<1>1. FInit => FilesInv
  BY FilesInvInit
<1>2. FilesInv /\ [FNext]_fvars => FilesInv'
  BY FilesInvNext
<1> QED
  BY <1>1, <1>2, PTL DEF FSafety

\* Every variable of the callers, the goroutines and the file system keeps its
\* type, whatever the order in which callers, orphans and timeouts run.
THEOREM FetchTypeCorrect ==
  ASSUME ~FuzzCollides, ~CloseMayFail
  PROVE  FSafety => []TypeOK
<1>1. FilesInv => TypeOK
  BY DEF FilesInv
<1> QED
  BY <1>1, FilesInvariant, PTL

\* What the inductive invariant says of published files.
LEMMA FilesInvVisible ==
  ASSUME FilesInv
  PROVE  VisibleIsVerified /\ TimedOutNeverPublished
<1> SUFFICES ASSUME NEW j \in Jobs, final[j] # NoFile
             PROVE  /\ final[j][1] = j /\ Intact(j, final[j])
                    /\ final[j] \notin breaker
  BY DEF VisibleIsVerified, TimedOutNeverPublished
<1> DEFINE i == final[j]
<1>1. /\ i \in Attempts /\ i[1] = j /\ i \notin breaker
      /\ outcome[i] = "ok" /\ stream[i] \in {"good", "bad"}
  BY DEF FilesInv, FinalIsPast, TypeOK
<1>2. /\ \A c \in Chunks : data[i][c] = stream[i]
      /\ j \in HasSha => stream[i] = "good"
  BY <1>1 DEF FilesInv, CopiedIsStreamed
<1> QED
  BY <1>1, <1>2 DEF Intact

\* A file under its final name was downloaded whole for that job and is what
\* its SHA-1 names: fetchObject renames only what fetchObjectOnce has checked.
THEOREM FetchVisibleIsVerified ==
  ASSUME ~FuzzCollides, ~CloseMayFail
  PROVE  FSafety => []VisibleIsVerified
<1>1. FilesInv => VisibleIsVerified
  BY FilesInvVisible
<1> QED
  BY <1>1, FilesInvariant, PTL

\* The file of a download that timed out is never the published one.
THEOREM FetchTimedOutNeverPublished ==
  ASSUME ~FuzzCollides, ~CloseMayFail
  PROVE  FSafety => []TimedOutNeverPublished
<1>1. FilesInv => TimedOutNeverPublished
  BY FilesInvVisible
<1> QED
  BY <1>1, FilesInvariant, PTL

\* Concurrent downloads write to different files, thanks to the random number
\* and the retry number in the temporary name.
THEOREM FetchOneWriterPerFile ==
  ASSUME ~FuzzCollides, ~CloseMayFail
  PROVE  FSafety => []OneWriterPerFile
<1>1. FilesInv => OneWriterPerFile
  BY DEF FilesInv, OwnFiles, OneWriterPerFile
<1> QED
  BY <1>1, FilesInvariant, PTL

\* The temporary file of the attempt that ended well is there when fetchObject
\* comes to rename it.
THEOREM FetchRenameFindsOwnFile ==
  ASSUME ~FuzzCollides, ~CloseMayFail
  PROVE  FSafety => []RenameFindsOwnFile
<1>1. FilesInv => RenameFindsOwnFile
  BY DEF FilesInv, OwnFiles, CallerKnows, RenameFindsOwnFile
<1> QED
  BY <1>1, FilesInvariant, PTL

\* The steps that write are those of goroutines that have not answered yet:
\* none of them is the one whose file was published.
LEMMA PublishedStep ==
  ASSUME FilesInv, [FNext]_fvars, ~CloseMayFail,
         NEW k \in Jobs, final[k] # NoFile
  PROVE  final'[k] # NoFile /\ data'[final[k]] = data[final[k]]
<1> DEFINE i == final[k]
<1>1. /\ i \in Attempts /\ go[i] = "sent"
      /\ \A j \in Jobs : Path(Current(j)) \in Paths
  BY CurrentIsAttempt, PathIsPath DEF FilesInv, FinalIsPast, TypeOK
<1>2. CASE UNCHANGED fvars
  BY <1>2 DEF fvars
<1>3. ASSUME NEW j \in Jobs, CallerStep(j)
      PROVE  final'[k] # NoFile /\ data'[i] = data[i]
  <2>1. data' = data /\ (final' = final \/ Rename(j))
    BY <1>3 DEF CallerStep, Begin, StartDownload, MakeStagingFails, Receive,
                Timeout, EnsureFinal, MakeFinalFails, Rename, RenameFails,
                Finish, ChmodFails, fsVars
  <2>2. CASE Rename(j)
    BY <2>1, <2>2 DEF Rename, FilesInv, TypeOK
  <2> QED
    BY <2>1, <2>2
<1>4. ASSUME NEW a \in Attempts, GoStep(a)
      PROVE  final'[k] # NoFile /\ data'[i] = data[i]
  <2> USE DEF FilesInv, TypeOK, fsVars
  <2>1. CASE Create(a)
    <3>1. Path(a) \in Paths
      BY PathIsPath
    <3>2. tmp[Path(a)] # i
      <4>1. SUFFICES ASSUME tmp[Path(a)] = i PROVE FALSE
        OBVIOUS
      <4>2. Path(a) = Path(i)
        BY <1>1, <3>1, <4>1 DEF OwnFiles
      <4> QED
        BY <1>1, <2>1, <4>2, PathsDiffer DEF Create
    <3> QED
      BY <1>1, <2>1, <3>2 DEF Create
  <2>2. CASE CopyChunk(a)
    BY <1>1, <2>2 DEF CopyChunk, OwnFiles
  <2>3. CASE Close(a)
    BY <2>3 DEF Close
  <2>4. CASE Open(a) \/ OpenFails(a) \/ CreateFails(a) \/ CopyFails(a) \/ Verify(a)
    BY <2>4 DEF Open, OpenFails, CreateFails, CopyFails, Verify
  <2> QED
    BY <1>4, <2>1, <2>2, <2>3, <2>4 DEF GoStep
<1> QED
  BY <1>2, <1>3, <1>4 DEF FNext

\* No step writes to a file after it was published, or takes it away.
THEOREM FetchPublishedIsLeftAlone ==
  ASSUME ~FuzzCollides, ~CloseMayFail
  PROVE  FSafety => PublishedIsLeftAlone
<1>1. FilesInv /\ [FNext]_fvars =>
        [\A j \in Jobs : final[j] # NoFile =>
           /\ final'[j] # NoFile
           /\ data'[final[j]] = data[final[j]]]_fvars
  BY PublishedStep
<1> QED
  BY <1>1, FilesInvariant, PTL DEF FSafety, PublishedIsLeftAlone

-----------------------------------------------------------------------------
(* fetchObject implements its contract.                                     *)

\* The report counts the rounds, and the caller goes past the rename only with
\* the file in place.
RoundsCounted ==
  \A j \in Jobs :
    /\ retrynum[j] <= Retries[j]
    /\ pc[j] # "done" => report[j].attempts = retrynum[j]
    /\ pc[j] = "idle" => retrynum[j] = 0 /\ final[j] = NoFile
    /\ pc[j] = "chmod" => final[j] # NoFile

\* A failed try, for a started job, is a failed try of the contract.
LEMMA FailIsCFail ==
  ASSUME TypeOK, RoundsCounted, NEW j \in Jobs, NEW e \in Errors, Fail(j, e),
         pc[j] \notin {"idle", "done"}, UNCHANGED <<final, data>>
  PROVE  RoundsCounted' /\ Contract!CFail(j)
<1>1. /\ retrynum[j] \in Nat /\ Retries[j] \in Nat
      /\ report[j].attempts = retrynum[j] /\ retrynum[j] <= Retries[j]
  BY FetchAssumption DEF TypeOK, Rounds, RoundsCounted
<1>2. /\ report'[j].attempts = retrynum[j] + 1 /\ report'[j].success = FALSE
      /\ \A k \in Jobs : k # j => report'[k] = report[k]
  BY <1>1 DEF Fail, LastRound, TypeOK
<1>3. /\ \A k \in Jobs : k # j => pc'[k] = pc[k] /\ retrynum'[k] = retrynum[k]
      /\ retrynum[j] < Retries[j] => pc'[j] = "mkdir" /\ retrynum'[j] = retrynum[j] + 1
      /\ retrynum[j] = Retries[j] => pc'[j] = "done" /\ retrynum'[j] = retrynum[j]
  BY <1>1 DEF Fail, LastRound, TypeOK
<1>4. retrynum[j] < Retries[j] \/ retrynum[j] = Retries[j]
  BY <1>1
<1>5. RoundsCounted'
  <2>1. \A k \in Jobs : k # j =>
          /\ retrynum'[k] <= Retries[k]
          /\ pc'[k] # "done" => report'[k].attempts = retrynum'[k]
          /\ pc'[k] = "idle" => retrynum'[k] = 0 /\ final'[k] = NoFile
          /\ pc'[k] = "chmod" => final'[k] # NoFile
    BY <1>2, <1>3 DEF RoundsCounted
  <2>2. /\ retrynum'[j] <= Retries[j]
        /\ pc'[j] # "done" => report'[j].attempts = retrynum'[j]
        /\ pc'[j] \in {"mkdir", "done"}
    BY <1>1, <1>2, <1>3, <1>4
  <2> QED
    BY <2>1, <2>2 DEF RoundsCounted
<1>6. \A k \in Jobs : FileOf(k)' = FileOf(k)
  BY DEF FileOf, Intact
<1>7. \A k \in Jobs : k # j => StatusOf(k)' = StatusOf(k)
  BY <1>2, <1>3 DEF StatusOf
<1>8. /\ StatusOf(j) = "running"
      /\ StatusOf(j)' = IF retrynum[j] = Retries[j] THEN "failed" ELSE "running"
  BY <1>1, <1>2, <1>3, <1>4 DEF StatusOf
<1>9. Contract!CFail(j)
  BY <1>1, <1>2, <1>6, <1>7, <1>8 DEF Contract!CFail
<1> QED
  BY <1>5, <1>9

\* A step that changes no report and leaves the status of every job is, when
\* it leaves the files, a stuttering step of the contract.
LEMMA QuietStep ==
  ASSUME UNCHANGED <<report, final>>,
         \A k \in Jobs : StatusOf(k)' = StatusOf(k),
         \A k \in Jobs : final[k] # NoFile => data'[final[k]] = data[final[k]]
  PROVE  UNCHANGED Contract!cvars
<1>1. \A k \in Jobs : FileOf(k)' = FileOf(k)
  BY DEF FileOf, Intact
<1> QED
  BY <1>1 DEF Contract!cvars

LEMMA CallerRefines ==
  ASSUME FilesInv, VisibleIsVerified', RoundsCounted, NEW j \in Jobs, CallerStep(j)
  PROVE  RoundsCounted' /\ [Contract!CNext]_(Contract!cvars)
<1> USE DEF FilesInv, goVars, fsVars
<1>a. {"nil", "timeout", "perm", "other"} = Errors
  BY DEF Errors
<1>b. Current(j) \in Attempts
  BY CurrentIsAttempt
<1>f. ASSUME NEW e \in Errors, Fail(j, e), pc[j] \notin {"idle", "done"},
             UNCHANGED <<final, data>>
      PROVE  RoundsCounted' /\ [Contract!CNext]_(Contract!cvars)
  BY <1>f, FailIsCFail DEF Contract!CNext
<1>q. ASSUME NEW p, pc[j] \notin {"idle", "done", "chmod"},
             p \notin {"idle", "done", "chmod"},
             pc' = [pc EXCEPT ![j] = p],
             UNCHANGED <<retrynum, report, final, data>>
      PROVE  RoundsCounted' /\ [Contract!CNext]_(Contract!cvars)
  <2>1. \A k \in Jobs : StatusOf(k)' = StatusOf(k)
    BY <1>q DEF StatusOf, TypeOK
  <2>2. RoundsCounted'
    BY <1>q DEF RoundsCounted, TypeOK
  <2> QED
    BY <1>q, <2>1, <2>2, QuietStep
<1>1. CASE Begin(j)
  <2>1. RoundsCounted'
    BY <1>1 DEF Begin, RoundsCounted, TypeOK
  <2>2. /\ StatusOf(j) = "waiting" /\ StatusOf(j)' = "running"
        /\ \A k \in Jobs : k # j => StatusOf(k)' = StatusOf(k)
        /\ \A k \in Jobs : FileOf(k)' = FileOf(k)
    BY <1>1 DEF Begin, StatusOf, FileOf, Intact, TypeOK
  <2>3. Contract!CStart(j)
    BY <1>1, <2>2 DEF Begin, Contract!CStart
  <2> QED
    BY <2>1, <2>3 DEF Contract!CNext
<1>2. CASE StartDownload(j)
  BY <1>2, <1>q DEF StartDownload
<1>3. CASE MakeStagingFails(j)
  BY <1>3, <1>a, <1>f DEF MakeStagingFails
<1>4. CASE Receive(j)
  <2>1. CASE outcome[Current(j)] = "ok"
    BY <1>4, <2>1, <1>q DEF Receive, GotFile
  <2>2. CASE outcome[Current(j)] # "ok"
    <3>1. outcome[Current(j)] \in Errors
      BY <1>4, <2>2, <1>a, <1>b DEF Receive, GotFile, AnswerChosen, TypeOK
    <3> QED
      BY <1>4, <2>2, <3>1, <1>f DEF Receive, GotFile
  <2> QED
    BY <2>1, <2>2
<1>5. CASE Timeout(j)
  BY <1>5, <1>a, <1>f DEF Timeout
<1>6. CASE EnsureFinal(j)
  BY <1>6, <1>q DEF EnsureFinal
<1>7. CASE MakeFinalFails(j)
  BY <1>7, <1>a, <1>f DEF MakeFinalFails
<1>8. CASE Rename(j)
  <2>1. /\ pc' = [pc EXCEPT ![j] = "chmod"] /\ pc[j] = "rename"
        /\ final' = [final EXCEPT ![j] = final'[j]] /\ final'[j] # NoFile
        /\ UNCHANGED <<retrynum, report, data>>
    BY <1>8 DEF Rename, TypeOK
  <2>2. RoundsCounted'
    BY <2>1 DEF RoundsCounted, TypeOK
  <2>3. \A k \in Jobs : StatusOf(k)' = StatusOf(k)
    BY <2>1 DEF StatusOf, TypeOK
  <2>4. StatusOf(j) = "running"
    BY <2>1 DEF StatusOf
  <2>5. \A k \in Jobs : k # j => FileOf(k)' = FileOf(k)
    BY <2>1 DEF FileOf, Intact, TypeOK
  <2>6. FileOf(j)' = "verified" /\ FileOf(j) \in {"absent", "verified"}
    BY <2>1, FilesInvVisible DEF FileOf, VisibleIsVerified, Intact
  <2>7. CASE FileOf(j) = "absent"
    <3>1. Contract!CPublish(j)
      BY <2>1, <2>3, <2>4, <2>5, <2>6, <2>7 DEF Contract!CPublish
    <3> QED
      BY <2>2, <3>1 DEF Contract!CNext
  <2>8. CASE FileOf(j) = "verified"
    BY <2>1, <2>2, <2>3, <2>5, <2>6, <2>8 DEF Contract!cvars
  <2> QED
    BY <2>6, <2>7, <2>8
<1>9. CASE RenameFails(j)
  BY <1>9, <1>a, <1>f DEF RenameFails
<1>10. CASE Finish(j)
  <2>1. /\ pc[j] = "chmod" /\ pc' = [pc EXCEPT ![j] = "done"]
        /\ report'[j].attempts = report[j].attempts + 1 /\ report'[j].success
        /\ \A k \in Jobs : k # j => report'[k] = report[k]
        /\ UNCHANGED <<retrynum, final, data>>
    BY <1>10 DEF Finish, TypeOK
  <2>2. RoundsCounted'
    BY <2>1 DEF RoundsCounted, TypeOK
  <2>3. /\ StatusOf(j) = "running" /\ StatusOf(j)' = "ok"
        /\ \A k \in Jobs : k # j => StatusOf(k)' = StatusOf(k)
    BY <2>1 DEF StatusOf, TypeOK
  <2>4. \A k \in Jobs : FileOf(k)' = FileOf(k)
    BY <2>1 DEF FileOf, Intact
  <2>5. FileOf(j) = "verified"
    BY <2>1, FilesInvVisible DEF FileOf, VisibleIsVerified, RoundsCounted
  <2>6. report[j].attempts <= Retries[j]
    BY <2>1 DEF RoundsCounted
  <2>7. Contract!CSucceed(j)
    BY <2>1, <2>3, <2>4, <2>5, <2>6 DEF Contract!CSucceed
  <2> QED
    BY <2>2, <2>7 DEF Contract!CNext
<1>11. CASE ChmodFails(j)
  BY <1>11, <1>a, <1>f DEF ChmodFails
<1> QED
  BY <1>1, <1>2, <1>3, <1>4, <1>5, <1>6, <1>7, <1>8, <1>9, <1>10, <1>11
     DEF CallerStep

\* Goroutines are invisible to the contract.
LEMMA GoRefines ==
  ASSUME FilesInv, RoundsCounted, NEW a \in Attempts, GoStep(a), ~CloseMayFail
  PROVE  RoundsCounted' /\ UNCHANGED Contract!cvars
<1>1. UNCHANGED <<pc, retrynum, report, final>>
  BY DEF GoStep, Open, OpenFails, Create, CreateFails, CopyChunk, CopyFails,
         Verify, Close, callerVars, fsVars
<1>2. \A k \in Jobs : final[k] # NoFile => data'[final[k]] = data[final[k]]
  BY PublishedStep DEF FNext
<1>3. \A k \in Jobs : StatusOf(k)' = StatusOf(k)
  BY <1>1 DEF StatusOf
<1> QED
  BY <1>1, <1>2, <1>3, QuietStep DEF RoundsCounted

\* Every behaviour of fetchObject is one of its contract: a file appears under
\* its final name whole and verified, success is reported only with it, and
\* failure only after Retries[j] + 1 failed tries.
THEOREM FetchImplementsContract ==
  ASSUME ~FuzzCollides, ~CloseMayFail
  PROVE  FSafety => Contract!CSafety
<1>1. FInit => RoundsCounted /\ Contract!CInit
  <2> SUFFICES ASSUME FInit PROVE RoundsCounted /\ Contract!CInit
    OBVIOUS
  <2>1. \A j \in Jobs : 0 <= Retries[j]
    BY FetchAssumption DEF Rounds
  <2> QED
    BY <2>1 DEF FInit, RoundsCounted, Contract!CInit, StatusOf, FileOf
<1>2. FilesInv /\ VisibleIsVerified' /\ RoundsCounted /\ [FNext]_fvars =>
        RoundsCounted' /\ [Contract!CNext]_(Contract!cvars)
  <2> SUFFICES ASSUME FilesInv, VisibleIsVerified', RoundsCounted, [FNext]_fvars
               PROVE  RoundsCounted' /\ [Contract!CNext]_(Contract!cvars)
    OBVIOUS
  <2>1. CASE UNCHANGED fvars
    BY <2>1 DEF fvars, RoundsCounted, Contract!cvars, StatusOf, FileOf, Intact
  <2>2. ASSUME NEW j \in Jobs, CallerStep(j)
        PROVE  RoundsCounted' /\ [Contract!CNext]_(Contract!cvars)
    BY <2>2, CallerRefines
  <2>3. ASSUME NEW a \in Attempts, GoStep(a)
        PROVE  RoundsCounted' /\ [Contract!CNext]_(Contract!cvars)
    BY <2>3, GoRefines
  <2> QED
    BY <2>1, <2>2, <2>3 DEF FNext
<1> QED
  BY <1>1, <1>2, FilesInvariant, FetchVisibleIsVerified, PTL
     DEF FSafety, Contract!CSafety
=============================================================================
