----------------------------- MODULE KubectlBash -----------------------------
(***************************************************************************)
(* kubectl/kubectl.bash: a build step that chooses a cluster, fetches its   *)
(* credentials and becomes kubectl.  The configurations of gcloud and of    *)
(* kubectl are in the home directory, where an earlier step of the build    *)
(* may have left its own; "" is a setting that is not made.                 *)
(***************************************************************************)
EXTENDS Naturals

CONSTANTS
  KubectlEnvs,  \* environments of a step: project, cluster, region, zone, version
  Configs,      \* what gcloud's configuration may hold: all of these but a version
  Contexts,     \* clusters kubectl may have been configured for
  Versions      \* the kubectl.* files next to gcloud

VARIABLES
  kpc,        \* where the script stands
  kenv,       \* its environment
  config,     \* gcloud's configuration
  kubeconfig  \* the cluster kubectl talks to

kvars == <<kpc, kenv, config, kubeconfig>>

KInit ==
  /\ kpc = "idle"
  /\ kenv \in KubectlEnvs
  /\ config \in Configs
  /\ kubeconfig \in Contexts

KStart ==
  /\ kpc = "idle"
  /\ kenv' \in KubectlEnvs
  /\ kpc' = "settings"
  /\ UNCHANGED <<config, kubeconfig>>

\* ${CLOUDSDK_...:-$(gcloud config get-value ...)}
Setting(s) == IF kenv[s] # "" THEN kenv[s] ELSE config[s]

\* A region, from wherever, is preferred to a zone.
Target ==
  [project |-> Setting("project"), cluster |-> Setting("cluster"),
   place |-> IF Setting("region") # "" THEN Setting("region") ELSE Setting("zone")]

VersionOK == kenv.version = "" \/ kenv.version \in Versions

CheckSettings ==
  /\ kpc = "settings"
  /\ kpc' = IF Setting("cluster") # "" /\ Target.place # "" /\ VersionOK
              THEN "credentials" ELSE "failed"
  /\ UNCHANGED <<kenv, config, kubeconfig>>

GetCredentials ==
  /\ kpc = "credentials"
  /\ kubeconfig' = Target
  /\ kpc' = "kubectl"
  /\ UNCHANGED <<kenv, config>>

\* Mutated form of GetCredentialsFails: there is no "|| exit".
GetCredentialsFailsUnseen ==
  /\ kpc = "credentials"
  /\ kpc' = "kubectl"
  /\ UNCHANGED <<kenv, config, kubeconfig>>

GetCredentialsFails ==
  /\ kpc = "credentials"
  /\ kpc' = "failed"
  /\ UNCHANGED <<kenv, config, kubeconfig>>

\* The script becomes kubectl, whose exit code is the step's.
RunKubectl ==
  /\ kpc = "kubectl"
  /\ kpc' \in {"idle", "failed"}
  /\ UNCHANGED <<kenv, config, kubeconfig>>

KStep ==
  CheckSettings \/ GetCredentials \/ GetCredentialsFails \/ RunKubectl

\* When kubectl runs it talks to the cluster of this step and of no step
\* before: of the project, the name and the region in the step's environment if
\* they are there, and in the zone there unless a region is known from elsewhere.
KubectlTalksToItsCluster ==
  kpc = "kubectl" =>
    /\ kubeconfig.project \in {kenv.project, config.project}
    /\ kenv.project # "" => kubeconfig.project = kenv.project
    /\ kubeconfig.cluster \in {kenv.cluster, config.cluster}
    /\ kenv.cluster # "" => kubeconfig.cluster = kenv.cluster
    /\ kenv.region # "" => kubeconfig.place = kenv.region
    /\ kenv.region = "" /\ config.region = "" /\ kenv.zone # "" =>
         kubeconfig.place = kenv.zone
    /\ kubeconfig.place # ""
=============================================================================
