---------------------------- MODULE MCOrchestrator ----------------------------
(* The repository holds the Kustomization `root` and the GitRepository        *)
(* `repo` it is built from.  It produces the GitRepository `git`, the        *)
(* OCIRepository `oci` with its Secret `sec`, and `apps`, which is built      *)
(* from `oci` and optionally substitutes from `sec`.                        *)
EXTENDS Orchestrator, TLC

CONSTANTS root, apps, repo, git, oci, sec, ks_yaml, repo_yaml

NoRefs == [k \in Kustomizations |-> {}]
ClusterSourceRef == root :> repo @@ apps :> oci
ClusterSubstituteFrom == [NoRefs EXCEPT ![apps] = {sec}]
ClusterOutput == [NoRefs EXCEPT ![root] = {git, oci, sec, apps}]
ClusterSecretRef == oci :> sec @@ [s \in Sources |-> NoSource]
ClusterContents == ks_yaml :> {root} @@ repo_yaml :> {repo}
=============================================================================
