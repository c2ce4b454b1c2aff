----------------------------- MODULE BuildSteps ------------------------------
(***************************************************************************)
(* The steps of a build that use the kubectl and the go builder, one after  *)
(* the other, in any order, with steps of other builders between them.  A   *)
(* build ends at its first step that fails.                                 *)
(***************************************************************************)
EXTENDS KubectlBash, GoWorkspace

CONSTANT MaxSteps   \* bound on the steps of a build

VARIABLE steps      \* steps begun

bvars == <<kvars, gvars, steps>>

BInit == KInit /\ GInit /\ steps = 0

BetweenSteps == kpc = "idle" /\ gpc = "idle" /\ steps < MaxSteps

KubectlStep ==
  /\ BetweenSteps /\ steps' = steps + 1
  /\ KStart
  /\ UNCHANGED gvars

GoStep ==
  /\ BetweenSteps /\ steps' = steps + 1
  /\ GStart
  /\ UNCHANGED kvars

\* gcloud or gke-deploy: it may leave another cluster behind.
OtherStep ==
  /\ BetweenSteps /\ steps' = steps + 1
  /\ config' \in Configs /\ kubeconfig' \in Contexts
  /\ UNCHANGED <<kpc, kenv, gvars>>

Continue ==
  \/ KStep /\ UNCHANGED <<gvars, steps>>
  \/ GStep /\ UNCHANGED <<kvars, steps>>

BNext == KubectlStep \/ GoStep \/ OtherStep \/ Continue

BSpec == BInit /\ [][BNext]_bvars
=============================================================================
