----------------------------- MODULE FetchPool -----------------------------
(***************************************************************************)
(* gcs-fetcher/pkg/fetcher/fetcher.go: processJobs and doWork.  The main    *)
(* goroutine starts workers and a queuer, joined by two bounded channels,   *)
(* consumes one report for each job, closes both channels, waits for the    *)
(* workers and ends: it returns the statistics, or the process exits.       *)
(*                                                                          *)
(* What a worker does with a job (fetchObject) is one step here, Work: it   *)
(* takes as long as it takes and ends well or not; FetchManifest puts       *)
(* FetchObject in its place.  The channels are sets, as the jobs come from  *)
(* an iteration over a Go map: every order of them is possible.             *)
(***************************************************************************)
EXTENDS Integers, FiniteSets

CONSTANTS Jobs,     \* every job a manifest may name
          Workers   \* gf.WorkerCount is the number of them

ASSUME PoolAssumption == IsFiniteSet(Jobs) /\ IsFiniteSet(Workers)

VARIABLES
  jobs,      \* the argument of processJobs
  pool,      \* the workers that were started
  main,      \* where the main goroutine stands
  unqueued,  \* jobs the queuer has not sent
  todo,      \* jobs in channel todo
  results,   \* jobs whose report is in channel results
  reported,  \* jobs whose report was consumed
  n,         \* loop variable of the consuming loop
  failed,    \* processJobs' variable
  errs,      \* stats.errs: the jobs whose last attempt had an error
  wstate,    \* wstate[w]: where worker w stands in doWork
  wjob,      \* wjob[w]: its variable j
  ok,        \* jobs whose fetchObject ended with success
  closed     \* channels that are closed

pvars == <<jobs, pool, main, unqueued, todo, results, reported, n, failed,
           errs, wstate, wjob, ok, closed>>

NoJob == "no job"
MainStates == {"start", "consume", "qwait", "closeResults", "closeTodo",
               "wgwait", "returned", "exited"}
WorkerStates == {"off", "recv", "busy", "send", "gone"}

PInit ==
  /\ jobs = {} /\ pool = {} /\ main = "start"
  /\ unqueued = {} /\ todo = {} /\ results = {} /\ reported = {}
  /\ n = 0 /\ failed = FALSE /\ errs = {}
  /\ wstate = [w \in Workers |-> "off"]
  /\ wjob = [w \in Workers |-> NoJob]
  /\ ok = {} /\ closed = {}

\* Both channels hold as many elements as there are workers.
Capacity == Cardinality(pool)

\* processJobs is called with the jobs of S: workerCount is the smaller of
\* gf.WorkerCount and their number; the workers and the queuer start.
Start(S) ==
  /\ main = "start"
  /\ jobs' = S
  /\ \E P \in SUBSET Workers :
       /\ Cardinality(P) = IF Cardinality(S) < Cardinality(Workers)
                             THEN Cardinality(S) ELSE Cardinality(Workers)
       /\ pool' = P
       /\ wstate' = [w \in Workers |-> IF w \in P THEN "recv" ELSE "off"]
  /\ unqueued' = S
  /\ main' = "consume"
  /\ UNCHANGED <<todo, results, reported, n, failed, errs, wjob, ok, closed>>

\* The queuer: todo <- j.
Queue(j) ==
  /\ j \in unqueued
  /\ Cardinality(todo) < Capacity
  /\ unqueued' = unqueued \ {j}
  /\ todo' = todo \cup {j}
  /\ UNCHANGED <<jobs, pool, main, results, reported, n, failed, errs,
                 wstate, wjob, ok, closed>>

-----------------------------------------------------------------------------
(* doWork.                                                                  *)

Take(w, j) ==
  /\ wstate[w] = "recv"
  /\ j \in todo
  /\ todo' = todo \ {j}
  /\ wstate' = [wstate EXCEPT ![w] = "busy"]
  /\ wjob' = [wjob EXCEPT ![w] = j]
  /\ UNCHANGED <<jobs, pool, main, unqueued, results, reported, n, failed,
                 errs, ok, closed>>

\* fetchObject returns a report; good says whether it is one of success.
Work(w, good) ==
  /\ wstate[w] = "busy"
  /\ wstate' = [wstate EXCEPT ![w] = "send"]
  /\ ok' = IF good THEN ok \cup {wjob[w]} ELSE ok
  /\ UNCHANGED <<jobs, pool, main, unqueued, todo, results, reported, n,
                 failed, errs, wjob, closed>>

\* Mutated form of SendReport: a full channel drops the report.
SendReportOrDrop(w) ==
  /\ wstate[w] = "send"
  /\ results' = IF Cardinality(results) < Capacity
                  THEN results \cup {wjob[w]} ELSE results
  /\ wstate' = [wstate EXCEPT ![w] = "recv"]
  /\ wjob' = [wjob EXCEPT ![w] = NoJob]
  /\ UNCHANGED <<jobs, pool, main, unqueued, todo, reported, n, failed, errs,
                 ok, closed>>

\* results <- *report.
SendReport(w) ==
  /\ wstate[w] = "send"
  /\ Cardinality(results) < Capacity
  /\ results' = results \cup {wjob[w]}
  /\ wstate' = [wstate EXCEPT ![w] = "recv"]
  /\ wjob' = [wjob EXCEPT ![w] = NoJob]
  /\ UNCHANGED <<jobs, pool, main, unqueued, todo, reported, n, failed, errs,
                 ok, closed>>

\* The range loop ends when todo is closed and drained; then wg.Done().
WorkerEnds(w) ==
  /\ wstate[w] = "recv"
  /\ todo = {} /\ "todo" \in closed
  /\ wstate' = [wstate EXCEPT ![w] = "gone"]
  /\ UNCHANGED <<jobs, pool, main, unqueued, todo, results, reported, n,
                 failed, errs, wjob, ok, closed>>

-----------------------------------------------------------------------------
(* The rest of processJobs.                                                 *)

\* Mutated form of AnyFailed: failed holds the last report only.
LastFailed(j) == j \notin ok

AnyFailed(j) == failed \/ j \notin ok

\* One turn of the consuming loop, for the report of j.
Consume(j) ==
  /\ main = "consume"
  /\ n < Cardinality(jobs)
  /\ j \in results
  /\ results' = results \ {j}
  /\ reported' = reported \cup {j}
  /\ n' = n + 1
  /\ failed' = AnyFailed(j)
  /\ errs' = IF j \in ok THEN errs ELSE errs \cup {j}
  /\ UNCHANGED <<jobs, pool, main, unqueued, todo, wstate, wjob, ok, closed>>

\* Mutated form of LoopOver: one turn too few.
LoopOverEarly == n + 1 >= Cardinality(jobs)

LoopOver == n = Cardinality(jobs)

EndConsume ==
  /\ main = "consume"
  /\ LoopOver
  /\ main' = "qwait"
  /\ UNCHANGED <<jobs, pool, unqueued, todo, results, reported, n, failed,
                 errs, wstate, wjob, ok, closed>>

\* qwg.Wait(): the queuer has sent its last job.
QueuerDone ==
  /\ main = "qwait"
  /\ unqueued = {}
  /\ main' = "closeResults"
  /\ UNCHANGED <<jobs, pool, unqueued, todo, results, reported, n, failed,
                 errs, wstate, wjob, ok, closed>>

CloseResults ==
  /\ main = "closeResults"
  /\ closed' = closed \cup {"results"}
  /\ main' = "closeTodo"
  /\ UNCHANGED <<jobs, pool, unqueued, todo, results, reported, n, failed,
                 errs, wstate, wjob, ok>>

\* Mutated form of CloseTodo: the channel is left open.
CloseTodoForgotten ==
  /\ main = "closeTodo"
  /\ main' = "wgwait"
  /\ UNCHANGED <<jobs, pool, unqueued, todo, results, reported, n, failed,
                 errs, wstate, wjob, ok, closed>>

CloseTodo ==
  /\ main = "closeTodo"
  /\ closed' = closed \cup {"todo"}
  /\ main' = "wgwait"
  /\ UNCHANGED <<jobs, pool, unqueued, todo, results, reported, n, failed,
                 errs, wstate, wjob, ok>>

\* Mutated form of Outcome: the exit is left to the caller.
OutcomeLeft == "returned"

\* os.Exit(1) if a job failed, or return.
Outcome == IF failed THEN "exited" ELSE "returned"

\* wg.Wait(), and the end.
WorkersDone ==
  /\ main = "wgwait"
  /\ \A w \in pool : wstate[w] = "gone"
  /\ main' = Outcome
  /\ UNCHANGED <<jobs, pool, unqueued, todo, results, reported, n, failed,
                 errs, wstate, wjob, ok, closed>>

Ended == main \in {"returned", "exited"}

\* After the end nothing happens: not a deadlock.
Rest == Ended /\ UNCHANGED pvars

MainStep ==
  \/ \E j \in Jobs : Consume(j)
  \/ EndConsume \/ QueuerDone \/ CloseResults \/ CloseTodo \/ WorkersDone

WorkerStep(w) ==
  \/ \E j \in Jobs : Take(w, j)
  \/ \E good \in BOOLEAN : Work(w, good)
  \/ SendReport(w)
  \/ WorkerEnds(w)

PNext ==
  \/ \E S \in SUBSET Jobs : Start(S)
  \/ \E j \in Jobs : Queue(j)
  \/ \E w \in Workers : WorkerStep(w)
  \/ MainStep
  \/ Rest

PSafety == PInit /\ [][PNext]_pvars

\* Every goroutine that can run does; fetchObject returns (EveryFetchReturns).
PSpec ==
  /\ PSafety
  /\ WF_pvars(MainStep)
  /\ WF_pvars(\E j \in Jobs : Queue(j))
  /\ \A w \in Workers : WF_pvars(WorkerStep(w))

-----------------------------------------------------------------------------
(* Properties.                                                              *)

PoolTypeOK ==
  /\ jobs \in SUBSET Jobs /\ pool \in SUBSET Workers /\ main \in MainStates
  /\ unqueued \in SUBSET Jobs /\ todo \in SUBSET Jobs
  /\ results \in SUBSET Jobs /\ reported \in SUBSET Jobs
  /\ n \in Nat /\ failed \in BOOLEAN /\ errs \in SUBSET Jobs
  /\ wstate \in [Workers -> WorkerStates]
  /\ wjob \in [Workers -> Jobs \cup {NoJob}]
  /\ ok \in SUBSET Jobs /\ closed \in SUBSET {"todo", "results"}

Held(w) == IF wstate[w] \in {"busy", "send"} THEN {wjob[w]} ELSE {}

\* A job is, once processJobs has it, in exactly one place: with the queuer,
\* in todo, with one worker, in results, or consumed.  None is lost or done
\* twice by the passing from channel to worker to channel.
EachJobInOnePlace ==
  /\ jobs = unqueued \cup todo \cup results \cup reported
               \cup UNION {Held(w) : w \in Workers}
  /\ unqueued \cap (todo \cup results \cup reported) = {}
  /\ todo \cap (results \cup reported) = {}
  /\ results \cap reported = {}
  /\ \A w \in Workers :
       Held(w) \cap (unqueued \cup todo \cup results \cup reported) = {}
  /\ \A v, w \in Workers : v # w => Held(v) \cap Held(w) = {}

\* The loop counts turns, not jobs, and still it ends exactly when every job
\* has been reported: nothing is dropped, nothing is left in a channel.
AllReportedWhenLoopEnds ==
  main \notin {"start", "consume"} =>
    /\ reported = jobs
    /\ unqueued = {} /\ todo = {} /\ results = {}
    /\ \A w \in Workers : wstate[w] \in {"off", "recv", "gone"}

\* results is closed before todo, with workers still running: none of them
\* may be about to send, which would panic; nor the queuer on todo.
NoSendOnClosed ==
  /\ "results" \in closed => \A w \in Workers : wstate[w] \notin {"busy", "send"}
  /\ "todo" \in closed => unqueued = {}

\* The process is stopped if and only if some job failed; when processJobs
\* returns instead, every job's report was one of success.
ExitIffAJobFailed ==
  /\ main = "returned" => jobs \subseteq ok
  /\ main = "exited" => \E j \in jobs : j \notin ok

\* What fetchFromManifest does with a non-empty stats.errs is never done:
\* processJobs does not return when there is one.
NeverReturnsErrors == main = "returned" => errs = {}

\* processJobs ends, with every goroutine it started ended: the channels'
\* capacities and the order of the waits leave nobody waiting for ever.
PoolEnds == main = "consume" ~> Ended /\ \A w \in pool : wstate[w] = "gone"
=============================================================================
