--------------------------- MODULE FetchContract ---------------------------
(***************************************************************************)
(* What gcs-fetcher promises for every object it is asked to fetch, said    *)
(* without goroutines, timeouts, temporary files or directories: a job is   *)
(* tried at most Retries[j] + 1 times, the file under its final name is     *)
(* either not there or whole and verified, success is reported only with    *)
(* the file in place, failure only once every try is spent, and a job that  *)
(* was started is reported one day.  FetchObject is shown to implement it.  *)
(***************************************************************************)
EXTENDS Naturals

CONSTANTS Jobs,      \* the objects to fetch
          Retries    \* Retries[j]: tries allowed after the first one

VARIABLES status,    \* status[j]: waiting, running, ok or failed
          file,      \* file[j]: what a reader of the final name finds
          tries      \* tries[j]: failed or successful tries so far

cvars == <<status, file, tries>>

CInit ==
  /\ status = [j \in Jobs |-> "waiting"]
  /\ file = [j \in Jobs |-> "absent"]
  /\ tries = [j \in Jobs |-> 0]

CStart(j) ==
  /\ status[j] = "waiting"
  /\ status' = [status EXCEPT ![j] = "running"]
  /\ UNCHANGED <<file, tries>>

\* The verified file appears, in one step, under its final name.
CPublish(j) ==
  /\ status[j] = "running"
  /\ file[j] = "absent"
  /\ file' = [file EXCEPT ![j] = "verified"]
  /\ UNCHANGED <<status, tries>>

\* A try failed; the job is reported as failed when it was the last one.
CFail(j) ==
  /\ status[j] = "running"
  /\ tries[j] <= Retries[j]
  /\ tries' = [tries EXCEPT ![j] = @ + 1]
  /\ status' = [status EXCEPT ![j] =
                  IF tries[j] = Retries[j] THEN "failed" ELSE "running"]
  /\ UNCHANGED file

CSucceed(j) ==
  /\ status[j] = "running"
  /\ file[j] = "verified"
  /\ tries[j] <= Retries[j]
  /\ tries' = [tries EXCEPT ![j] = @ + 1]
  /\ status' = [status EXCEPT ![j] = "ok"]
  /\ UNCHANGED file

CNext == \E j \in Jobs : CStart(j) \/ CPublish(j) \/ CFail(j) \/ CSucceed(j)

CSafety == CInit /\ [][CNext]_cvars

\* A started job always gets on: tries are spent until it is reported.
CSpec == CSafety /\ \A j \in Jobs : WF_cvars(CFail(j) \/ CSucceed(j))
=============================================================================
