--------------------------- MODULE MCFetchObject ---------------------------
(* Instances of FetchObject for TLC. *)
EXTENDS FetchObject

CONSTANTS j1, j2, o1, f1, f2, work, stage

OneJob == {j1}
TwoJobs == {j1, j2}
OneObject == {o1}
TwoFuzz == {f1, f2}
TwoDirs == {work, stage}
NoOverride == [j \in Jobs |-> work]
SameObject == [j \in Jobs |-> o1]
Never == [j \in Jobs |-> 0]
OnceAndNever == [j \in Jobs |-> IF j = j1 THEN 1 ELSE 0]
FirstHasSha == {j1}
=============================================================================
