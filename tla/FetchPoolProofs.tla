-------------------------- MODULE FetchPoolProofs --------------------------
(***************************************************************************)
(* Theorems about FetchPool, for every finite set of jobs and of workers.   *)
(***************************************************************************)
EXTENDS FetchPool, FiniteSetTheorems, TLAPS

-----------------------------------------------------------------------------
(* The inductive invariant, in parts.                                       *)

\* Before processJobs is called there is nothing.
NothingYet ==
  main = "start" =>
    /\ jobs = {} /\ unqueued = {} /\ todo = {} /\ results = {} /\ reported = {}
    /\ \A w \in Workers : wstate[w] = "off"

\* A worker past the receive has a job.
WorkersHaveJobs ==
  \A w \in Workers : wstate[w] \in {"busy", "send"} => wjob[w] \in Jobs

\* The loop's counter counts the jobs reported, its variables sum up their
\* reports, and the report of a job does not change once it was consumed.
Counted ==
  /\ n = Cardinality(reported)
  /\ errs = reported \ ok
  /\ failed = (errs # {})

\* The loop ended with every job reported, and the outcome follows failed.
LoopEnded == main \notin {"start", "consume"} => reported = jobs
OutcomeIsFailed ==
  /\ main = "returned" => ~failed
  /\ main = "exited" => failed

\* Channels are closed only after the loop.
ClosedAfterLoop == closed # {} => main \notin {"start", "consume"}

PoolInv ==
  /\ PoolTypeOK /\ NothingYet /\ WorkersHaveJobs /\ EachJobInOnePlace
  /\ Counted /\ LoopEnded /\ OutcomeIsFailed /\ ClosedAfterLoop

-----------------------------------------------------------------------------
(* The initial state, and the steps: where the jobs are.                    *)

LEMMA PoolInvInit == PInit => PoolInv
<1> SUFFICES ASSUME PInit PROVE PoolInv
  OBVIOUS
<1>1. PoolTypeOK
  BY DEF PInit, PoolTypeOK, MainStates, WorkerStates
<1>2. EachJobInOnePlace
  BY DEF PInit, EachJobInOnePlace, Held
<1>3. Counted
  BY FS_EmptySet DEF PInit, Counted
<1> QED
  BY <1>1, <1>2, <1>3
     DEF PInit, PoolInv, NothingYet, WorkersHaveJobs, LoopEnded,
         OutcomeIsFailed, ClosedAfterLoop

\* The two things a step does to a channel: the call of processJobs hands all
\* jobs to the queuer; the others carry one job a place further.
LEMMA StartKeeps ==
  ASSUME PoolInv, NEW S \in SUBSET Jobs, Start(S)
  PROVE  PoolInv'
<1> USE DEF PoolInv, Start
<1>1. jobs = {} /\ todo = {} /\ results = {} /\ reported = {}
      /\ \A w \in Workers : Held(w) = {} /\ Held(w)' = {}
  BY DEF NothingYet, Held, PoolTypeOK
<1>2. PoolTypeOK'
  BY DEF PoolTypeOK, MainStates, WorkerStates
<1>3. EachJobInOnePlace'
  BY <1>1 DEF EachJobInOnePlace
<1>4. WorkersHaveJobs'
  BY DEF WorkersHaveJobs, PoolTypeOK
<1> QED
  BY <1>1, <1>2, <1>3, <1>4
     DEF NothingYet, Counted, LoopEnded, OutcomeIsFailed, ClosedAfterLoop

LEMMA QueueKeeps ==
  ASSUME PoolInv, NEW j \in Jobs, Queue(j)
  PROVE  PoolInv'
<1> USE DEF PoolInv, Queue
<1>1. \A w \in Workers : Held(w)' = Held(w)
  BY DEF Held
<1>2. EachJobInOnePlace'
  BY <1>1 DEF EachJobInOnePlace
<1>3. PoolTypeOK' /\ WorkersHaveJobs'
  BY DEF PoolTypeOK, WorkersHaveJobs
<1>4. main # "start"
  BY DEF NothingYet
<1> QED
  BY <1>2, <1>3, <1>4
     DEF NothingYet, Counted, LoopEnded, OutcomeIsFailed, ClosedAfterLoop

\* The jobs of the other workers stay with them.
LEMMA TakeKeeps ==
  ASSUME PoolInv, NEW w \in Workers, NEW j \in Jobs, Take(w, j)
  PROVE  PoolInv'
<1> USE DEF PoolInv, Take
<1>1. /\ Held(w) = {} /\ Held(w)' = {j}
      /\ \A v \in Workers : v # w => Held(v)' = Held(v)
  BY DEF Held, PoolTypeOK
<1>2. EachJobInOnePlace'
  BY <1>1 DEF EachJobInOnePlace
<1>3. PoolTypeOK'
  BY DEF PoolTypeOK, WorkerStates
<1>4. WorkersHaveJobs'
  BY DEF WorkersHaveJobs, PoolTypeOK
<1>5. main # "start"
  BY DEF NothingYet
<1> QED
  BY <1>2, <1>3, <1>4, <1>5
     DEF NothingYet, Counted, LoopEnded, OutcomeIsFailed, ClosedAfterLoop

\* The report of a job is made before it is consumed: errs does not change
\* its meaning.
LEMMA WorkKeeps ==
  ASSUME PoolInv, NEW w \in Workers, NEW good \in BOOLEAN, Work(w, good)
  PROVE  PoolInv'
<1> USE DEF PoolInv, Work
<1>1. /\ Held(w) = {wjob[w]} /\ wjob[w] \in Jobs
      /\ \A v \in Workers : Held(v)' = Held(v)
  BY DEF Held, PoolTypeOK, WorkersHaveJobs
<1>2. EachJobInOnePlace'
  BY <1>1 DEF EachJobInOnePlace
<1>3. PoolTypeOK'
  BY <1>1 DEF PoolTypeOK, WorkerStates
<1>4. WorkersHaveJobs'
  BY DEF WorkersHaveJobs, PoolTypeOK
<1>5. reported \ ok' = reported \ ok
  BY <1>1 DEF EachJobInOnePlace
<1>6. Counted'
  BY <1>5 DEF Counted
<1>7. main # "start"
  BY DEF NothingYet
<1> QED
  BY <1>2, <1>3, <1>4, <1>6, <1>7
     DEF NothingYet, LoopEnded, OutcomeIsFailed, ClosedAfterLoop

LEMMA SendReportKeeps ==
  ASSUME PoolInv, NEW w \in Workers, SendReport(w)
  PROVE  PoolInv'
<1> USE DEF PoolInv, SendReport
<1>1. /\ Held(w) = {wjob[w]} /\ Held(w)' = {} /\ wjob[w] \in Jobs
      /\ \A v \in Workers : v # w => Held(v)' = Held(v)
  BY DEF Held, PoolTypeOK, WorkersHaveJobs
<1>2. EachJobInOnePlace'
  BY <1>1 DEF EachJobInOnePlace
<1>3. PoolTypeOK'
  BY <1>1 DEF PoolTypeOK, WorkerStates
<1>4. WorkersHaveJobs'
  BY DEF WorkersHaveJobs, PoolTypeOK
<1>5. main # "start"
  BY DEF NothingYet
<1> QED
  BY <1>2, <1>3, <1>4, <1>5
     DEF NothingYet, Counted, LoopEnded, OutcomeIsFailed, ClosedAfterLoop

LEMMA WorkerEndsKeeps ==
  ASSUME PoolInv, NEW w \in Workers, WorkerEnds(w)
  PROVE  PoolInv'
<1> USE DEF PoolInv, WorkerEnds
<1>1. \A v \in Workers : Held(v)' = Held(v)
  BY DEF Held, PoolTypeOK
<1>2. EachJobInOnePlace'
  BY <1>1 DEF EachJobInOnePlace
<1>3. PoolTypeOK'
  BY DEF PoolTypeOK, WorkerStates
<1>4. WorkersHaveJobs'
  BY DEF WorkersHaveJobs, PoolTypeOK
<1>5. main # "start"
  BY DEF NothingYet
<1> QED
  BY <1>2, <1>3, <1>4, <1>5
     DEF NothingYet, Counted, LoopEnded, OutcomeIsFailed, ClosedAfterLoop

\* The counter goes up by one, and reported by a job that was not in it.
LEMMA ConsumeKeeps ==
  ASSUME PoolInv, NEW j \in Jobs, Consume(j)
  PROVE  PoolInv'
<1> USE DEF PoolInv, Consume, AnyFailed
<1>1. \A v \in Workers : Held(v)' = Held(v)
  BY DEF Held
<1>2. EachJobInOnePlace'
  BY <1>1 DEF EachJobInOnePlace
<1>3. IsFiniteSet(reported) /\ j \notin reported
  BY PoolAssumption, FS_Subset DEF PoolTypeOK, EachJobInOnePlace
<1>4. Cardinality(reported') = Cardinality(reported) + 1
  BY <1>3, FS_AddElement
<1>5. Counted'
  BY <1>4 DEF Counted
<1>6. PoolTypeOK' /\ WorkersHaveJobs'
  BY DEF PoolTypeOK, WorkersHaveJobs
<1> QED
  BY <1>2, <1>5, <1>6
     DEF NothingYet, LoopEnded, OutcomeIsFailed, ClosedAfterLoop

\* As many jobs were reported as there are: all of them.
LEMMA EndConsumeKeeps ==
  ASSUME PoolInv, EndConsume
  PROVE  PoolInv'
<1> USE DEF PoolInv, EndConsume, LoopOver
<1>1. reported \subseteq jobs
  BY DEF EachJobInOnePlace
<1>2. IsFiniteSet(jobs)
  BY PoolAssumption, FS_Subset DEF PoolTypeOK
<1>3. reported = jobs
  BY <1>1, <1>2, FS_Subset DEF Counted
<1>4. EachJobInOnePlace'
  BY DEF EachJobInOnePlace, Held
<1>5. PoolTypeOK' /\ WorkersHaveJobs'
  BY DEF PoolTypeOK, WorkersHaveJobs, MainStates
<1> QED
  BY <1>3, <1>4, <1>5
     DEF NothingYet, Counted, LoopEnded, OutcomeIsFailed, ClosedAfterLoop

\* The last steps of processJobs move no job.
LEMMA EndKeeps ==
  ASSUME PoolInv, QueuerDone \/ CloseResults \/ CloseTodo \/ WorkersDone
  PROVE  PoolInv'
<1> USE DEF PoolInv, QueuerDone, CloseResults, CloseTodo, WorkersDone, Outcome
<1>1. UNCHANGED <<jobs, unqueued, todo, results, reported, n, failed, errs,
                  wstate, wjob, ok>>
      /\ main \notin {"start", "consume"} /\ main' \notin {"start", "consume"}
  OBVIOUS
<1>2. EachJobInOnePlace'
  BY <1>1 DEF EachJobInOnePlace, Held
<1>3. PoolTypeOK' /\ WorkersHaveJobs'
  BY DEF PoolTypeOK, WorkersHaveJobs, MainStates
<1>4. OutcomeIsFailed'
  BY DEF OutcomeIsFailed, PoolTypeOK
<1> QED
  BY <1>1, <1>2, <1>3, <1>4 DEF NothingYet, Counted, LoopEnded, ClosedAfterLoop

LEMMA PoolInvNext == PoolInv /\ [PNext]_pvars => PoolInv'
<1> SUFFICES ASSUME PoolInv, [PNext]_pvars PROVE PoolInv'
  OBVIOUS
<1>1. CASE UNCHANGED pvars
  BY <1>1 DEF PoolInv, PoolTypeOK, NothingYet, WorkersHaveJobs, pvars,
              EachJobInOnePlace, Held, Counted, LoopEnded, OutcomeIsFailed,
              ClosedAfterLoop
<1>2. CASE \E S \in SUBSET Jobs : Start(S)
  BY <1>2, StartKeeps
<1>3. CASE \E j \in Jobs : Queue(j)
  BY <1>3, QueueKeeps
<1>4. ASSUME NEW w \in Workers, WorkerStep(w) PROVE PoolInv'
  BY <1>4, TakeKeeps, WorkKeeps, SendReportKeeps, WorkerEndsKeeps DEF WorkerStep
<1>5. CASE MainStep
  BY <1>5, ConsumeKeeps, EndConsumeKeeps, EndKeeps DEF MainStep
<1> QED
  BY <1>1, <1>2, <1>3, <1>4, <1>5 DEF PNext, Rest

-----------------------------------------------------------------------------
(* The theorems.                                                            *)

\* The inductive invariant holds.
THEOREM PoolInvariant == PSafety => []PoolInv
BY PoolInvInit, PoolInvNext, PTL DEF PSafety

\* Every variable of processJobs, its channels and its workers keeps its type.
THEOREM PoolTypeCorrect == PSafety => []PoolTypeOK
<1>1. PoolInv => PoolTypeOK
  BY DEF PoolInv
<1> QED
  BY <1>1, PoolInvariant, PTL

\* The channels and the workers neither lose a job nor handle it twice.
THEOREM PoolEachJobInOnePlace == PSafety => []EachJobInOnePlace
<1>1. PoolInv => EachJobInOnePlace
  BY DEF PoolInv
<1> QED
  BY <1>1, PoolInvariant, PTL

\* The invariant after the loop: no job is anywhere but reported.
LEMMA AfterLoop == PoolInv => AllReportedWhenLoopEnds
<1> SUFFICES ASSUME PoolInv, main \notin {"start", "consume"}
             PROVE  /\ reported = jobs
                    /\ unqueued = {} /\ todo = {} /\ results = {}
                    /\ \A w \in Workers : wstate[w] \in {"off", "recv", "gone"}
  BY DEF AllReportedWhenLoopEnds
<1> USE DEF PoolInv
<1>1. reported = jobs
  BY DEF LoopEnded
<1>2. unqueued = {} /\ todo = {} /\ results = {}
  BY <1>1 DEF EachJobInOnePlace
<1>3. \A w \in Workers : Held(w) = {}
  BY <1>1 DEF EachJobInOnePlace
<1> QED
  BY <1>1, <1>2, <1>3 DEF Held, PoolTypeOK, WorkerStates

\* The consuming loop of processJobs, which counts, ends when and only when
\* every job has been reported, and nothing is left in a channel or a worker.
THEOREM PoolAllReportedWhenLoopEnds == PSafety => []AllReportedWhenLoopEnds
BY AfterLoop, PoolInvariant, PTL

\* processJobs closes its channels only when nobody will send on them.
THEOREM PoolNoSendOnClosed == PSafety => []NoSendOnClosed
<1>1. PoolInv => NoSendOnClosed
  <2> SUFFICES ASSUME PoolInv, closed # {} PROVE NoSendOnClosed
    BY DEF NoSendOnClosed
  <2>1. main \notin {"start", "consume"}
    BY DEF PoolInv, ClosedAfterLoop
  <2> QED
    BY <2>1, AfterLoop DEF AllReportedWhenLoopEnds, NoSendOnClosed
<1> QED
  BY <1>1, PoolInvariant, PTL

\* The process exits exactly when a job failed, so that a caller to whom
\* processJobs returns has all its files and no error to look at.
THEOREM PoolExitIffAJobFailed == PSafety => [](ExitIffAJobFailed /\ NeverReturnsErrors)
<1>1. PoolInv => ExitIffAJobFailed /\ NeverReturnsErrors
  <2> SUFFICES ASSUME PoolInv PROVE ExitIffAJobFailed /\ NeverReturnsErrors
    OBVIOUS
  <2>1. main \in {"returned", "exited"} => reported = jobs
    BY DEF PoolInv, LoopEnded
  <2> QED
    BY <2>1 DEF PoolInv, Counted, OutcomeIsFailed, ExitIffAJobFailed,
                NeverReturnsErrors
<1> QED
  BY <1>1, PoolInvariant, PTL
=============================================================================
