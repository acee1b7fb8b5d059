---------------------- MODULE MCKustomizationController ----------------------
(* Three repositories.  From the first, `root` is loaded and produces a second *)
(* source, a ConfigMap, and two Kustomizations: `infra`, built from the      *)
(* second source, and `apps`, which depends on `infra` and substitutes from *)
(* the ConfigMap.  From the other, `ping` and `pong` are loaded, which wait *)
(* for each other, `faulty`, which has a substituteFrom without a name,     *)
(* `twice`, which names `pong` twice.  From the third, `alone` is loaded,   *)
(* which has nothing it must wait for.                                     *)
EXTENDS KustomizationController, TLC

CONSTANTS root, infra, apps, alone, ping, pong, faulty, twice, repo, oci, cm

NoRefs == [k \in Kustomizations |-> {}]
TwoDependsOn == [NoRefs EXCEPT ![apps] = {infra},
                    ![ping] = {pong}, ![pong] = {ping}, ![twice] = {pong}]
TwoSourceRef == root :> repo @@ infra :> oci @@ [k \in Kustomizations |-> NoSource]
TwoSubstituteFrom == [NoRefs EXCEPT ![apps] = {cm}, ![alone] = {cm}, ![faulty] = {cm}]
TwoOptional == [NoRefs EXCEPT ![alone] = {cm}]
TwoOutput == [NoRefs EXCEPT ![root] = {oci, cm, infra, apps}]
=============================================================================
