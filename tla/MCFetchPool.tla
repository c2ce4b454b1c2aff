---------------------------- MODULE MCFetchPool ----------------------------
(* Instances of FetchPool for TLC. *)
EXTENDS FetchPool

CONSTANTS j1, j2, j3, j4, w1, w2

FourJobs == {j1, j2, j3, j4}
TwoWorkers == {w1, w2}
=============================================================================
