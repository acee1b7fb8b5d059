------------------------- MODULE KustomizationProofs -------------------------
(***************************************************************************)
(* Proofs about KustomizationController, for any repository: any            *)
(* Kustomizations, with any references between them and any output.        *)
(***************************************************************************)
EXTENDS KustomizationController, TLAPS

(* What a status says of the task, and the other way round. *)
StatusMatchesPhase ==
    \A k \in Kustomizations :
        /\ phase[k] \in {"absent", "scheduled"} => status[k] = "None"
        /\ phase[k] \in {"waiting", "building"} => status[k] = "Pending"
        /\ phase[k] = "reaping" => status[k] # "Ready"
        /\ phase[k] = "reaping" /\ status[k] = "Failed" => Bad(k) # {}
        /\ status[k] = "Ready" => phase[k] = "done"

(* Outcomes stay true. *)
OutcomesHold ==
    \A k \in Kustomizations, d \in Resources :
        /\ outcome[k][d] = "Ready" => Available(d)
        /\ outcome[k][d] = "Failed" => HasFailed(d)

(* What a Kustomization had before it was built, and leaves behind. *)
BuiltOnAll ==
    \A k \in Kustomizations :
        /\ phase[k] = "building" \/ status[k] = "Ready" =>
              AllReady(k) /\ (SourceRef[k] # NoSource => SourceRef[k] \in artifact)
        /\ status[k] = "Ready" => Output[k] \subseteq stored

(* Once closed, every task that is left has been cancelled. *)
ClosedCancelsAll == ~open => Active \subseteq cancelled

KsInv == KsTypeOK /\ StatusMatchesPhase /\ OutcomesHold /\ BuiltOnAll /\ ClosedCancelsAll

-----------------------------------------------------------------------------
(* No step takes a READY or FAILED status back, an object out of the store,  *)
(* or an artifact away.                                                     *)
LEMMA StepKeeps ==
    ASSUME KsTypeOK, StatusMatchesPhase, [KsNext]_ksVars
    PROVE  /\ \A r \in StatusKinds : status[r] \in {"Ready", "Failed"} => status'[r] = status[r]
           /\ stored \subseteq stored'
           /\ artifact \subseteq artifact'
<1>1. CASE UNCHANGED ksVars
  BY <1>1 DEF ksVars
<1>2. ASSUME NEW s \in Sources, SourceSettles(s)
      PROVE  /\ \A r \in StatusKinds : status[r] \in {"Ready", "Failed"} => status'[r] = status[r]
             /\ stored \subseteq stored' /\ artifact \subseteq artifact'
  BY <1>2 DEF SourceSettles, SetStatus, KsTypeOK, Resources, StatusKinds
<1>3. CASE WatchAdded
  BY <1>3 DEF WatchAdded
<1>4. ASSUME NEW k \in Kustomizations, WatchStep(k)
      PROVE  /\ \A r \in StatusKinds : status[r] \in {"Ready", "Failed"} => status'[r] = status[r]
             /\ stored \subseteq stored' /\ artifact \subseteq artifact'
  BY <1>4 DEF WatchStep, SettleDependency
<1>5. ASSUME NEW k \in Kustomizations, ReconcileStep(k)
      PROVE  /\ \A r \in StatusKinds : status[r] \in {"Ready", "Failed"} => status'[r] = status[r]
             /\ stored \subseteq stored' /\ artifact \subseteq artifact'
  <2>1. CASE StartReconcile(k)
    BY <2>1 DEF StartReconcile, SetStatus, KsTypeOK, StatusMatchesPhase, Resources, StatusKinds
  <2>2. CASE DependencyFails(k)
    BY <2>2 DEF DependencyFails, SetStatus, KsTypeOK, StatusMatchesPhase, Resources, StatusKinds
  <2>3. CASE DependenciesReady(k)
    BY <2>3 DEF DependenciesReady, SetStatus, KsTypeOK, StatusMatchesPhase, Resources, StatusKinds
  <2>4. CASE EndReaping(k)
    BY <2>4 DEF EndReaping, SetStatus, KsTypeOK, StatusMatchesPhase, Resources, StatusKinds
  <2>5. CASE BuildFails(k)
    BY <2>5 DEF BuildFails, SetStatus, KsTypeOK, StatusMatchesPhase, Resources, StatusKinds
  <2>6. CASE ApplyFails(k)
    BY <2>6 DEF ApplyFails, SetStatus, KsTypeOK, StatusMatchesPhase, Resources, StatusKinds
  <2>7. CASE ApplySucceeds(k)
    BY <2>7 DEF ApplySucceeds, Publish, SetStatus, KsTypeOK, StatusMatchesPhase, Resources,
                StatusKinds
  <2>8. CASE TakeCancellation(k)
    BY <2>8 DEF TakeCancellation
  <2> QED
    BY <1>5, <2>1, <2>2, <2>3, <2>4, <2>5, <2>6, <2>7, <2>8 DEF ReconcileStep
<1>6. ASSUME NEW T \in SUBSET Active, CancelReconciles(T)
      PROVE  /\ \A r \in StatusKinds : status[r] \in {"Ready", "Failed"} => status'[r] = status[r]
             /\ stored \subseteq stored' /\ artifact \subseteq artifact'
  BY <1>6 DEF CancelReconciles
<1>7. CASE Close
  BY <1>7 DEF Close
<1> QED
  BY <1>1, <1>2, <1>3, <1>4, <1>5, <1>6, <1>7 DEF KsNext

(* What is available stays available, and what has failed stays failed. *)
LEMMA AvailabilityStays ==
    ASSUME KsTypeOK, StatusMatchesPhase, [KsNext]_ksVars, NEW d \in Resources
    PROVE  /\ Available(d) => Available(d)'
           /\ HasFailed(d) => HasFailed(d)'
BY StepKeeps DEF Available, HasFailed

-----------------------------------------------------------------------------
(* Types are preserved. *)
LEMMA StepTypes ==
    ASSUME KsTypeOK, [KsNext]_ksVars
    PROVE  KsTypeOK'
<1> USE KustomizationAssumption DEF KsTypeOK, Phases, Outcomes, FinalOutcomes
<1>1. CASE UNCHANGED ksVars
  BY <1>1 DEF ksVars
<1>2. ASSUME NEW s \in Sources, SourceSettles(s) PROVE KsTypeOK'
  BY <1>2 DEF SourceSettles, SetStatus, Resources, StatusKinds
<1>3. CASE WatchAdded
  BY <1>3 DEF WatchAdded
<1>4. ASSUME NEW k \in Kustomizations, WatchStep(k) PROVE KsTypeOK'
  BY <1>4 DEF WatchStep, SettleDependency
<1>5. ASSUME NEW k \in Kustomizations, ReconcileStep(k) PROVE KsTypeOK'
  <2> USE DEF SetStatus, Enter
  <2>1. CASE StartReconcile(k)
    <3> DEFINE waits == [d \in Resources |->
                           IF d \in Dependencies(k) THEN "Pending" ELSE "Unwatched"]
    <3>1. waits \in [Resources -> Outcomes]
      OBVIOUS
    <3>2. outcome' = outcome \/ outcome' = [outcome EXCEPT ![k] = waits]
      BY <2>1 DEF StartReconcile
    <3> HIDE DEF waits
    <3>3. outcome' \in [Kustomizations -> [Resources -> Outcomes]]
      BY <3>1, <3>2
    <3>4. status' \in [Resources -> {"None", "Pending", "Ready", "Failed"}]
      BY <2>1 DEF StartReconcile, Resources
    <3>5. phase' \in [Kustomizations -> Phases]
      BY <2>1 DEF StartReconcile
    <3> QED
      BY <2>1, <3>3, <3>4, <3>5 DEF StartReconcile
  <2>2. CASE DependencyFails(k)
    BY <2>2 DEF DependencyFails, Resources
  <2>3. CASE DependenciesReady(k)
    BY <2>3 DEF DependenciesReady, Resources
  <2>4. CASE EndReaping(k)
    <3>1. \/ SetStatus(k, "Failed") /\ Enter(k, "done")
          \/ UNCHANGED status /\ Enter(k, "cancelled")
      BY <2>4, Zenon DEF EndReaping
    <3>2. UNCHANGED <<stored, artifact, outcome, cancelled, open>>
      BY <2>4, Zenon DEF EndReaping
    <3> QED
      BY <3>1, <3>2 DEF Resources
  <2>5. CASE BuildFails(k)
    BY <2>5 DEF BuildFails, Resources
  <2>6. CASE ApplyFails(k)
    BY <2>6 DEF ApplyFails, Resources
  <2>7. CASE ApplySucceeds(k)
    BY <2>7 DEF ApplySucceeds, Publish, Resources, StatusKinds
  <2>8. CASE TakeCancellation(k)
    BY <2>8 DEF TakeCancellation
  <2> QED
    BY <1>5, <2>1, <2>2, <2>3, <2>4, <2>5, <2>6, <2>7, <2>8 DEF ReconcileStep
<1>6. ASSUME NEW T \in SUBSET Active, CancelReconciles(T) PROVE KsTypeOK'
  BY <1>6 DEF CancelReconciles, Active
<1>7. CASE Close
  BY <1>7 DEF Close, Active
<1> QED
  BY <1>1, <1>2, <1>3, <1>4, <1>5, <1>6, <1>7 DEF KsNext

(* A step that leaves the outcomes of k as they are leaves what is read off *)
(* them.                                                                   *)
LEMMA SameOutcomes ==
    ASSUME NEW k, outcome'[k] = outcome[k]
    PROVE  Bad(k)' = Bad(k) /\ AllReady(k)' = AllReady(k)
BY DEF Bad, AllReady, Settled

LEMMA StepOutcomesHold ==
    ASSUME KsTypeOK, StatusMatchesPhase, OutcomesHold, [KsNext]_ksVars
    PROVE  OutcomesHold'
<1> DEFINE NewHold ==
             \A j \in Kustomizations, e \in Resources :
                /\ outcome'[j][e] = "Ready" => outcome[j][e] = "Ready" \/ Available(e)
                /\ outcome'[j][e] = "Failed" => outcome[j][e] = "Failed" \/ HasFailed(e)
<1>1. NewHold
  <2>1. CASE UNCHANGED outcome
    BY <2>1
  <2>2. ASSUME NEW k \in Kustomizations, NEW d \in Resources, NEW o \in FinalOutcomes,
               SettleDependency(k, d, o)
        PROVE  NewHold
    <3> SUFFICES ASSUME NEW j \in Kustomizations, NEW e \in Resources
                 PROVE  /\ outcome'[j][e] = "Ready" => outcome[j][e] = "Ready" \/ Available(e)
                        /\ outcome'[j][e] = "Failed" => outcome[j][e] = "Failed" \/ HasFailed(e)
      OBVIOUS
    <3>1. outcome'[j][e] = IF j = k /\ e = d THEN o ELSE outcome[j][e]
      BY <2>2 DEF SettleDependency, KsTypeOK
    <3> QED
      BY <2>2, <3>1 DEF SettleDependency
  <2>3. ASSUME NEW k \in Kustomizations, StartReconcile(k)
        PROVE  NewHold
    <3> SUFFICES ASSUME NEW j \in Kustomizations, NEW e \in Resources
                 PROVE  outcome'[j][e] \in {"Ready", "Failed"} => outcome'[j][e] = outcome[j][e]
      OBVIOUS
    <3>1. CASE UNCHANGED outcome
      BY <3>1
    <3>2. CASE outcome' = [outcome EXCEPT ![k] =
                [d \in Resources |->
                   IF d \in Dependencies(k) THEN "Pending" ELSE "Unwatched"]]
      BY <3>2 DEF KsTypeOK
    <3> QED
      BY <2>3, <3>1, <3>2 DEF StartReconcile
  <2> HIDE DEF NewHold
  <2> QED
    BY <2>1, <2>2, <2>3
    DEF KsNext, ksVars, WatchStep, ReconcileStep, SourceSettles, WatchAdded, DependencyFails,
        DependenciesReady, EndReaping, BuildFails, ApplyFails, ApplySucceeds,
        TakeCancellation, CancelReconciles, Close
<1> QED
  BY <1>1, AvailabilityStays DEF OutcomesHold

(* A step of one reconcile leaves the other Kustomizations alone. *)
LEMMA StepIsLocal ==
    ASSUME KsTypeOK, NEW k \in Kustomizations, ReconcileStep(k) \/ WatchStep(k),
           NEW j \in Kustomizations, j # k
    PROVE  phase'[j] = phase[j] /\ status'[j] = status[j] /\ outcome'[j] = outcome[j]
<1> USE DEF KsTypeOK, SetStatus, Enter, Resources
<1>1. CASE WatchStep(k)
  BY <1>1 DEF WatchStep, SettleDependency
<1>2. CASE StartReconcile(k)
  BY <1>2 DEF StartReconcile
<1>3. CASE DependencyFails(k)
  BY <1>3 DEF DependencyFails
<1>4. CASE DependenciesReady(k)
  BY <1>4 DEF DependenciesReady
<1>5. CASE EndReaping(k)
  BY <1>5 DEF EndReaping
<1>6. CASE BuildFails(k)
  BY <1>6 DEF BuildFails
<1>7. CASE ApplyFails(k)
  BY <1>7 DEF ApplyFails
<1>8. CASE ApplySucceeds(k)
  BY <1>8 DEF ApplySucceeds
<1>9. CASE TakeCancellation(k)
  BY <1>9 DEF TakeCancellation
<1> QED
  BY <1>1, <1>2, <1>3, <1>4, <1>5, <1>6, <1>7, <1>8, <1>9 DEF ReconcileStep

(* The outcomes a waiting Kustomization has collected only grow. *)
LEMMA BadStays ==
    ASSUME KsTypeOK, NEW k \in Kustomizations, WatchStep(k), Bad(k) # {}
    PROVE  Bad(k)' # {}
<1>1. PICK d \in Resources, o \in FinalOutcomes : SettleDependency(k, d, o)
  BY DEF WatchStep
<1>2. PICK e \in Resources : outcome[k][e] \in {"Failed", "Timeout"}
  BY DEF Bad, Settled
<1>3. outcome'[k][e] = outcome[k][e]
  BY <1>1, <1>2 DEF SettleDependency, KsTypeOK
<1> QED
  BY <1>2, <1>3 DEF Bad, Settled

(* StatusMatchesPhase, for one Kustomization. *)
Matches(k) ==
    /\ phase[k] \in {"absent", "scheduled"} => status[k] = "None"
    /\ phase[k] \in {"waiting", "building"} => status[k] = "Pending"
    /\ phase[k] = "reaping" => status[k] # "Ready"
    /\ phase[k] = "reaping" /\ status[k] = "Failed" => Bad(k) # {}
    /\ status[k] = "Ready" => phase[k] = "done"

LEMMA OwnStepMatches ==
    ASSUME KsTypeOK, NEW k \in Kustomizations, Matches(k), ReconcileStep(k) \/ WatchStep(k)
    PROVE  Matches(k)'
<1> USE DEF KsTypeOK, SetStatus, Enter, Resources
<1>1. CASE WatchStep(k)
  BY <1>1, BadStays DEF Matches, WatchStep, SettleDependency
<1>2. CASE StartReconcile(k)
  BY <1>2 DEF StartReconcile, Matches
<1>3. CASE DependencyFails(k)
  <2>1. Bad(k)' = Bad(k)
    BY <1>3, SameOutcomes DEF DependencyFails
  <2> QED
    BY <1>3, <2>1 DEF DependencyFails, Matches
<1>4. CASE DependenciesReady(k)
  BY <1>4 DEF DependenciesReady, Matches
<1>5. CASE EndReaping(k)
  <2>1. \/ SetStatus(k, "Failed") /\ Enter(k, "done")
        \/ UNCHANGED status /\ Enter(k, "cancelled")
    BY <1>5, Zenon DEF EndReaping
  <2> QED
    BY <1>5, <2>1 DEF EndReaping, Matches
<1>6. CASE BuildFails(k)
  BY <1>6 DEF BuildFails, Matches
<1>7. CASE ApplyFails(k)
  BY <1>7 DEF ApplyFails, Matches
<1>8. CASE ApplySucceeds(k)
  BY <1>8 DEF ApplySucceeds, Matches
<1>9. CASE TakeCancellation(k)
  BY <1>9 DEF TakeCancellation, Matches
<1> QED
  BY <1>1, <1>2, <1>3, <1>4, <1>5, <1>6, <1>7, <1>8, <1>9 DEF ReconcileStep

LEMMA StepMatches ==
    ASSUME KsTypeOK, StatusMatchesPhase, [KsNext]_ksVars
    PROVE  StatusMatchesPhase'
<1> SUFFICES ASSUME NEW j \in Kustomizations PROVE Matches(j)'
  BY DEF StatusMatchesPhase, Matches
<1>0. Matches(j)
  BY DEF StatusMatchesPhase, Matches
<1>a. CASE phase'[j] = phase[j] /\ status'[j] = status[j] /\ outcome'[j] = outcome[j]
  BY <1>a, <1>0, SameOutcomes DEF Matches
<1>1. CASE UNCHANGED ksVars
  BY <1>1, <1>a DEF ksVars
<1>2. ASSUME NEW s \in Sources, SourceSettles(s) PROVE Matches(j)'
  BY <1>2, <1>a, KustomizationAssumption DEF SourceSettles, SetStatus, KsTypeOK, Resources
<1>3. CASE WatchAdded
  <2>1. CASE j \in Added
    BY <1>3, <1>0, <2>1 DEF WatchAdded, Added, Matches, KsTypeOK
  <2>2. CASE j \notin Added
    BY <1>3, <1>a, <2>2 DEF WatchAdded, KsTypeOK
  <2> QED
    BY <2>1, <2>2
<1>4. ASSUME NEW k \in Kustomizations, ReconcileStep(k) \/ WatchStep(k) PROVE Matches(j)'
  <2>1. CASE j = k
    BY <1>4, <1>0, <2>1, OwnStepMatches
  <2>2. CASE j # k
    BY <1>4, <1>a, <2>2, StepIsLocal
  <2> QED
    BY <2>1, <2>2
<1>5. ASSUME NEW T \in SUBSET Active, CancelReconciles(T) PROVE Matches(j)'
  BY <1>5, <1>a DEF CancelReconciles
<1>6. CASE Close
  BY <1>6, <1>a DEF Close
<1> QED
  BY <1>1, <1>2, <1>3, <1>4, <1>5, <1>6 DEF KsNext

(* BuiltOnAll, for one Kustomization. *)
Built(k) ==
    /\ phase[k] = "building" \/ status[k] = "Ready" =>
          AllReady(k) /\ (SourceRef[k] # NoSource => SourceRef[k] \in artifact)
    /\ status[k] = "Ready" => Output[k] \subseteq stored

(* A Kustomization begins to build, or gets READY, in two steps only. *)
LEMMA OwnStepBuilds ==
    ASSUME KsTypeOK, NEW k \in Kustomizations, Matches(k), ReconcileStep(k) \/ WatchStep(k),
           phase'[k] = "building" \/ status'[k] = "Ready"
    PROVE  \/ DependenciesReady(k) /\ SourceResolved(k)
           \/ ApplySucceeds(k)
           \/ UNCHANGED <<phase, status, outcome>>
<1> USE DEF KsTypeOK, SetStatus, Enter, Resources, Matches
<1>1. CASE WatchStep(k)
  BY <1>1 DEF WatchStep, SettleDependency
<1>2. CASE StartReconcile(k)
  BY <1>2 DEF StartReconcile
<1>3. CASE DependencyFails(k)
  BY <1>3 DEF DependencyFails
<1>4. CASE DependenciesReady(k)
  BY <1>4 DEF DependenciesReady
<1>5. CASE EndReaping(k)
  <2>1. \/ SetStatus(k, "Failed") /\ Enter(k, "done")
        \/ UNCHANGED status /\ Enter(k, "cancelled")
    BY <1>5, Zenon DEF EndReaping
  <2> QED
    BY <1>5, <2>1 DEF EndReaping
<1>6. CASE BuildFails(k)
  BY <1>6 DEF BuildFails
<1>7. CASE ApplyFails(k)
  BY <1>7 DEF ApplyFails
<1>8. CASE ApplySucceeds(k)
  BY <1>8
<1>9. CASE TakeCancellation(k)
  BY <1>9 DEF TakeCancellation
<1> QED
  BY <1>1, <1>2, <1>3, <1>4, <1>5, <1>6, <1>7, <1>8, <1>9 DEF ReconcileStep

LEMMA StepBuilt ==
    ASSUME KsTypeOK, StatusMatchesPhase, BuiltOnAll, [KsNext]_ksVars
    PROVE  BuiltOnAll'
<1> SUFFICES ASSUME NEW j \in Kustomizations PROVE Built(j)'
  BY DEF BuiltOnAll, Built
<1>0. Built(j) /\ Matches(j) /\ stored \subseteq stored' /\ artifact \subseteq artifact'
  BY StepKeeps DEF BuiltOnAll, Built, StatusMatchesPhase, Matches
<1>a. CASE /\ phase'[j] = "building" => phase[j] = "building"
           /\ status'[j] = "Ready" => status[j] = "Ready"
           /\ outcome'[j] = outcome[j]
  BY <1>a, <1>0, SameOutcomes DEF Built
<1>1. CASE UNCHANGED ksVars
  BY <1>1, <1>a DEF ksVars
<1>2. ASSUME NEW s \in Sources, SourceSettles(s) PROVE Built(j)'
  BY <1>2, <1>a, KustomizationAssumption DEF SourceSettles, SetStatus, KsTypeOK, Resources
<1>3. CASE WatchAdded
  BY <1>3, <1>a DEF WatchAdded, KsTypeOK
<1>4. ASSUME NEW k \in Kustomizations, ReconcileStep(k) \/ WatchStep(k) PROVE Built(j)'
  <2>1. CASE j # k
    BY <1>4, <1>a, <2>1, StepIsLocal
  <2>2. CASE j = k /\ (phase'[j] = "building" \/ status'[j] = "Ready")
    <3>1. CASE DependenciesReady(j) /\ SourceResolved(j)
      <4>1. AllReady(j)' /\ (SourceRef[j] # NoSource => SourceRef[j] \in artifact')
        BY <3>1, SameOutcomes, <1>0 DEF DependenciesReady, SourceResolved
      <4>2. status'[j] # "Ready"
        BY <3>1, <1>0, KustomizationAssumption
        DEF DependenciesReady, SetStatus, KsTypeOK, Resources, Matches
      <4> QED
        BY <4>1, <4>2 DEF Built
    <3>2. CASE ApplySucceeds(j)
      <4>1. AllReady(j)' /\ (SourceRef[j] # NoSource => SourceRef[j] \in artifact')
        BY <3>2, SameOutcomes, <1>0 DEF ApplySucceeds, Built
      <4> QED
        BY <3>2, <4>1 DEF ApplySucceeds, Built
    <3>3. CASE UNCHANGED <<phase, status, outcome>>
      BY <3>3, <1>a
    <3> QED
      BY <1>0, <1>4, <2>2, <3>1, <3>2, <3>3, OwnStepBuilds
  <2>3. CASE phase'[j] # "building" /\ status'[j] # "Ready"
    BY <2>3 DEF Built
  <2> QED
    BY <2>1, <2>2, <2>3
<1>5. ASSUME NEW T \in SUBSET Active, CancelReconciles(T) PROVE Built(j)'
  BY <1>5, <1>a DEF CancelReconciles
<1>6. CASE Close
  BY <1>6, <1>a DEF Close
<1> QED
  BY <1>1, <1>2, <1>3, <1>4, <1>5, <1>6 DEF KsNext

(* No reconcile but those that watch_added hands over begins to run. *)
LEMMA StepClosed ==
    ASSUME KsTypeOK, ClosedCancelsAll, [KsNext]_ksVars
    PROVE  ClosedCancelsAll'
<1> USE DEF ClosedCancelsAll
<1>1. CASE UNCHANGED ksVars
  BY <1>1 DEF ksVars, Active
<1>2. ASSUME NEW s \in Sources, SourceSettles(s) PROVE ClosedCancelsAll'
  BY <1>2 DEF SourceSettles, Active
<1>3. CASE WatchAdded
  BY <1>3 DEF WatchAdded
<1>4. ASSUME NEW k \in Kustomizations, ReconcileStep(k) \/ WatchStep(k)
      PROVE  ClosedCancelsAll'
  <2>1. open' = open /\ cancelled' = cancelled
    BY <1>4 DEF ReconcileStep, WatchStep, SettleDependency, StartReconcile, DependencyFails,
                DependenciesReady, EndReaping, BuildFails, ApplyFails, ApplySucceeds,
                TakeCancellation
  <2>2. k \in Active
    BY <1>4 DEF Active, ReconcileStep, WatchStep, SettleDependency, StartReconcile,
                DependencyFails, DependenciesReady, EndReaping, BuildFails, ApplyFails,
                ApplySucceeds, TakeCancellation
  <2>3. \A j \in Kustomizations : j # k => phase'[j] = phase[j]
    BY <1>4, StepIsLocal
  <2> QED
    BY <2>1, <2>2, <2>3 DEF Active
<1>5. ASSUME NEW T \in SUBSET Active, CancelReconciles(T) PROVE ClosedCancelsAll'
  BY <1>5 DEF CancelReconciles, Active
<1>6. CASE Close
  BY <1>6 DEF Close, Active
<1> QED
  BY <1>1, <1>2, <1>3, <1>4, <1>5, <1>6 DEF KsNext

LEMMA StepKs == KsInv /\ [KsNext]_ksVars => KsInv'
BY StepTypes, StepMatches, StepOutcomesHold, StepBuilt, StepClosed DEF KsInv

LEMMA InitKs == KsInit => KsInv
<1> SUFFICES ASSUME KsInit PROVE KsInv
  OBVIOUS
<1> USE KustomizationAssumption DEF KsInit, Resources, StatusKinds
<1>1. KsTypeOK
  BY DEF KsTypeOK, Phases, Outcomes, FinalOutcomes
<1>2. StatusMatchesPhase
  BY DEF StatusMatchesPhase
<1>3. OutcomesHold /\ BuiltOnAll /\ ClosedCancelsAll
  BY DEF OutcomesHold, BuiltOnAll, ClosedCancelsAll
<1> QED
  BY <1>1, <1>2, <1>3 DEF KsInv

-----------------------------------------------------------------------------
(* The inductive invariant of the controller: types, what statuses and       *)
(* outcomes say, and what a build rests on.                                *)
THEOREM KsCorrect == KsSpec => []KsInv
  BY InitKs, StepKs, PTL DEF KsSpec

(* Type correctness (KsTypeOK). *)
THEOREM KsTypeCorrect == KsSpec => []KsTypeOK
<1>1. KsInv => KsTypeOK
  BY DEF KsInv
<1> QED
  BY <1>1, KsCorrect, PTL

(* A Kustomization is building or READY only on top of what it depends on:   *)
(* READY Kustomizations with all their output, a source with an artifact,   *)
(* and the ConfigMaps and Secrets it must have.                            *)
THEOREM BuildsOnReady == KsSpec => []BuildsOnReadyOnly
<1>1. KsInv => BuildsOnReadyOnly
  <2> SUFFICES ASSUME KsInv, NEW k \in Kustomizations,
                      phase[k] = "building" \/ status[k] = "Ready"
               PROVE  /\ \A d \in DependsOn[k] :
                            status[d] = "Ready" /\ Output[d] \subseteq stored
                      /\ SourceRef[k] # NoSource => SourceRef[k] \in artifact
                      /\ SubstituteFrom[k] \ Optional[k] \subseteq stored
    BY DEF BuildsOnReadyOnly
  <2>1. AllReady(k) /\ (SourceRef[k] # NoSource => SourceRef[k] \in artifact)
    BY DEF KsInv, BuiltOnAll
  <2>2. \A d \in Dependencies(k) : d \in Resources /\ Available(d)
    BY <2>1 DEF AllReady, Settled, KsInv, OutcomesHold
  <2>3. ASSUME NEW d \in DependsOn[k]
        PROVE  status[d] = "Ready" /\ Output[d] \subseteq stored
    <3>1. d \in Kustomizations
      BY KustomizationAssumption
    <3>2. status[d] = "Ready"
      BY <2>2, <3>1 DEF Dependencies, Names, Available, StatusKinds
    <3> QED
      BY <3>1, <3>2 DEF KsInv, BuiltOnAll
  <2>4. ASSUME NEW d \in SubstituteFrom[k] \ Optional[k]
        PROVE  d \in stored
    BY <2>2, KustomizationAssumption DEF Dependencies, Available
  <2> QED
    BY <2>1, <2>3, <2>4
<1> QED
  BY <1>1, KsCorrect, PTL

(* READY and FAILED are final, whoever reports, retries or cancels what. *)
THEOREM FinalStays == KsSpec => FinalStatusStays
<1>1. KsInv /\ [KsNext]_ksVars =>
        [\A r \in StatusKinds :
           status[r] \in {"Ready", "Failed"} => status'[r] = status[r]]_ksVars
  BY StepKeeps DEF KsInv
<1> QED
  BY <1>1, KsCorrect, PTL DEF KsSpec, FinalStatusStays

(* Once closed, every reconcile that might store or publish is cancelled. *)
LEMMA ClosedStep ==
    ASSUME KsInv, [KsNext]_ksVars, ~open
    PROVE  /\ stored' = stored
           /\ \A k \in Kustomizations : status'[k] = "Ready" => status[k] = "Ready"
<1>1. \A k \in Kustomizations : ~ApplySucceeds(k) /\ ~ApplyFails(k) /\ ~DependenciesReady(k)
  BY DEF KsInv, ClosedCancelsAll, Active, ApplySucceeds, ApplyFails, DependenciesReady
<1>2. stored' = stored
  BY <1>1 DEF KsNext, ksVars, WatchStep, ReconcileStep, SettleDependency, SourceSettles,
              WatchAdded, StartReconcile, DependencyFails, EndReaping, BuildFails, TakeCancellation,
              CancelReconciles, Close
<1>3. ASSUME NEW k \in Kustomizations, status'[k] = "Ready"
      PROVE  status[k] = "Ready"
  <2>1. ASSUME NEW s \in Sources, SourceSettles(s) PROVE status[k] = "Ready"
    BY <1>3, <2>1, KustomizationAssumption
    DEF SourceSettles, SetStatus, KsInv, KsTypeOK, Resources
  <2>2. ASSUME NEW j \in Kustomizations, ReconcileStep(j) \/ WatchStep(j)
        PROVE  status[k] = "Ready"
    <3>1. CASE j = k
      BY <1>1, <1>3, <2>2, <3>1, OwnStepBuilds DEF KsInv, StatusMatchesPhase, Matches
    <3>2. CASE j # k
      BY <1>3, <2>2, <3>2, StepIsLocal DEF KsInv
    <3> QED
      BY <3>1, <3>2
  <2> QED
    BY <1>3, <2>1, <2>2 DEF KsNext, ksVars, WatchAdded, CancelReconciles, Close
<1> QED
  BY <1>2, <1>3

(* After close() nothing is stored and nothing gets READY. *)
THEOREM ClosedQuiet == KsSpec => ClosedMeansQuiet
<1>1. KsInv /\ [KsNext]_ksVars =>
        [~open => /\ stored' = stored
                  /\ \A k \in Kustomizations :
                        status'[k] = "Ready" => status[k] = "Ready"]_ksVars
  BY ClosedStep
<1> QED
  BY <1>1, KsCorrect, PTL DEF KsSpec, ClosedMeansQuiet

-----------------------------------------------------------------------------
(* What waits for itself is not built, let alone READY. *)
CircleUnbuilt ==
    \A C \in SUBSET Kustomizations :
        (\A k \in C : DependsOn[k] \intersect C # {}) =>
            \A k \in C : phase[k] # "building" /\ status[k] # "Ready"

LEMMA StepCircle ==
    ASSUME KsInv, CircleUnbuilt, [KsNext]_ksVars
    PROVE  CircleUnbuilt'
<1> SUFFICES ASSUME NEW C \in SUBSET Kustomizations,
                    \A k \in C : DependsOn[k] \intersect C # {},
                    NEW j \in C,
                    phase'[j] = "building" \/ status'[j] = "Ready"
             PROVE  FALSE
  BY DEF CircleUnbuilt
<1>0. KsTypeOK /\ Matches(j) /\ phase[j] # "building" /\ status[j] # "Ready"
  BY DEF KsInv, CircleUnbuilt, StatusMatchesPhase, Matches
<1>1. CASE phase'[j] = phase[j] /\ status'[j] = status[j]
  BY <1>0, <1>1
<1>2. ASSUME NEW s \in Sources, SourceSettles(s) PROVE FALSE
  BY <1>0, <1>1, <1>2, KustomizationAssumption DEF SourceSettles, SetStatus, KsTypeOK, Resources
<1>3. CASE WatchAdded
  BY <1>0, <1>1, <1>3 DEF WatchAdded, KsTypeOK
<1>4. ASSUME NEW k \in Kustomizations, ReconcileStep(k) \/ WatchStep(k) PROVE FALSE
  <2>1. CASE j # k
    BY <1>0, <1>1, <1>4, <2>1, StepIsLocal
  <2>2. CASE DependenciesReady(j)
    <3>1. PICK d \in C : d \in DependsOn[j]
      OBVIOUS
    <3>2. d \in Dependencies(j)
      BY <3>1 DEF Dependencies, Names
    <3>3. d \in Resources /\ Available(d)
      BY <2>2, <3>2 DEF DependenciesReady, AllReady, Settled, KsInv, OutcomesHold
    <3>4. status[d] = "Ready"
      BY <3>1, <3>3 DEF Available, StatusKinds
    <3> QED
      BY <3>4 DEF CircleUnbuilt
  <2>3. CASE ApplySucceeds(j)
    BY <1>0, <2>3 DEF ApplySucceeds
  <2>4. CASE j = k /\ ~DependenciesReady(j) /\ ~ApplySucceeds(j)
    BY <1>0, <1>1, <1>4, <2>4, OwnStepBuilds
  <2> QED
    BY <2>1, <2>2, <2>3, <2>4
<1>5. ASSUME NEW T \in SUBSET Active, CancelReconciles(T) PROVE FALSE
  BY <1>1, <1>5 DEF CancelReconciles
<1>6. CASE Close
  BY <1>1, <1>6 DEF Close
<1>7. CASE UNCHANGED ksVars
  BY <1>1, <1>7 DEF ksVars
<1> QED
  BY <1>2, <1>3, <1>4, <1>5, <1>6, <1>7 DEF KsNext

(* However the Kustomizations refer to each other: those that wait in a      *)
(* circle are never READY.                                                 *)
THEOREM CircleNeverReady == KsSpec => []NoReadyWaitingCircle
<1>1. KsInit => CircleUnbuilt
  BY KustomizationAssumption DEF KsInit, CircleUnbuilt, Resources
<1>2. KsInv /\ CircleUnbuilt /\ [KsNext]_ksVars => CircleUnbuilt'
  BY StepCircle
<1>3. CircleUnbuilt => NoReadyWaitingCircle
  BY DEF CircleUnbuilt, NoReadyWaitingCircle
<1> QED
  BY <1>1, <1>2, <1>3, KsCorrect, PTL DEF KsSpec

-----------------------------------------------------------------------------
(* A set of Kustomizations that only blame each other for their failure. *)
Blames(C) ==
    \A k \in C : Bad(k) # {} /\ Settled(k, "Timeout") = {} /\ Bad(k) \subseteq C

NoBlameCircle == \A C \in SUBSET Kustomizations : C # {} => ~Blames(C)

(* The step that settles a dependency of k as o. *)
LEMMA SettledOutcomes ==
    ASSUME KsTypeOK, NEW k \in Kustomizations, NEW d \in Resources, NEW o \in FinalOutcomes,
           SettleDependency(k, d, o), NEW j \in Kustomizations, NEW p \in FinalOutcomes
    PROVE  Settled(j, p)' = IF j = k /\ o = p THEN Settled(j, p) \union {d} ELSE Settled(j, p)
<1>1. outcome[k][d] # p
  BY DEF SettleDependency, FinalOutcomes
<1>2. \A e \in Resources :
         outcome'[j][e] = IF j = k /\ e = d THEN o ELSE outcome[j][e]
  BY DEF SettleDependency, KsTypeOK
<1> QED
  BY <1>1, <1>2 DEF Settled

LEMMA StepBlame ==
    ASSUME KsInv, NoBlameCircle, [KsNext]_ksVars
    PROVE  NoBlameCircle'
<1> SUFFICES ASSUME NEW C \in SUBSET Kustomizations, C # {}, Blames(C)'
             PROVE  FALSE
  BY DEF NoBlameCircle
<1>0. KsTypeOK /\ StatusMatchesPhase /\ OutcomesHold
  BY DEF KsInv
<1>1. CASE \A j \in C : outcome'[j] = outcome[j]
  BY <1>1 DEF NoBlameCircle, Blames, Bad, Settled
<1>2. ASSUME NEW k \in Kustomizations, NEW d \in Resources, NEW o \in FinalOutcomes,
             SettleDependency(k, d, o)
      PROVE  FALSE
  <2>1. \A j \in C : j # k => Bad(j) = Bad(j)' /\ Settled(j, "Timeout") = Settled(j, "Timeout")'
    BY <1>0, <1>2, SettledOutcomes DEF Bad, FinalOutcomes
  <2>2. k \in C
    BY <2>1 DEF NoBlameCircle, Blames
  <2>3. Bad(k) \subseteq Bad(k)' /\ Settled(k, "Timeout") \subseteq Settled(k, "Timeout")'
    BY <1>0, <1>2, SettledOutcomes DEF Bad, FinalOutcomes
  <2>4. Bad(k) = {}
    <3> SUFFICES ASSUME Bad(k) # {} PROVE Blames(C)
      BY DEF NoBlameCircle
    <3>1. ASSUME NEW j \in C
          PROVE  Bad(j) # {} /\ Settled(j, "Timeout") = {} /\ Bad(j) \subseteq C
      <4>1. Bad(j)' # {} /\ Settled(j, "Timeout")' = {} /\ Bad(j)' \subseteq C
        BY DEF Blames
      <4>2. CASE j = k
        BY <2>3, <4>1, <4>2
      <4>3. CASE j # k
        BY <2>1, <4>1, <4>3
      <4> QED
        BY <4>2, <4>3
    <3> QED
      BY <3>1 DEF Blames
  <2>5. o = "Failed" /\ Bad(k)' = {d}
    <3>1. o # "Timeout"
      BY <1>0, <1>2, <2>2, SettledOutcomes DEF Blames, FinalOutcomes
    <3>2. Bad(k)' # {}
      BY <2>2 DEF Blames
    <3>3. o = "Failed"
      BY <1>0, <1>2, <2>4, <3>1, <3>2, SettledOutcomes DEF Bad, FinalOutcomes
    <3>4. Settled(k, "Failed")' = Settled(k, "Failed") \union {d}
      BY <1>0, <1>2, <3>3, SettledOutcomes DEF FinalOutcomes
    <3>5. Settled(k, "Timeout")' = Settled(k, "Timeout")
      BY <1>0, <1>2, <3>3, SettledOutcomes DEF FinalOutcomes
    <3> QED
      BY <2>4, <3>3, <3>4, <3>5 DEF Bad
  <2>6. d \in C /\ status[d] = "Failed"
    BY <1>2, <2>2, <2>5 DEF Blames, SettleDependency, HasFailed
  <2>7. status[k] # "Failed"
    BY <1>0, <1>2, <2>4 DEF SettleDependency, StatusMatchesPhase
  <2>8. \A j \in C : k \notin Bad(j)
    <3> SUFFICES ASSUME NEW j \in C, k \in Bad(j) PROVE FALSE
      OBVIOUS
    <3>1. j # k
      BY <2>4
    <3>2. Settled(j, "Timeout") = {}
      BY <2>1, <3>1 DEF Blames
    <3>3. outcome[j][k] = "Failed" /\ k \in Resources
      BY <3>2 DEF Bad, Settled
    <3> QED
      BY <1>0, <2>7, <3>3 DEF OutcomesHold, HasFailed
  <2>9. Blames(C \ {k})
    <3>1. ASSUME NEW j \in C \ {k}
          PROVE  Bad(j) # {} /\ Settled(j, "Timeout") = {} /\ Bad(j) \subseteq C \ {k}
      <4>1. Bad(j)' # {} /\ Settled(j, "Timeout")' = {} /\ Bad(j)' \subseteq C
        BY DEF Blames
      <4> QED
        BY <2>1, <2>8, <4>1
    <3> QED
      BY <3>1 DEF Blames
  <2> QED
    BY <2>6, <2>7, <2>9 DEF NoBlameCircle
<1>3. ASSUME NEW k \in Kustomizations, StartReconcile(k)
      PROVE  FALSE
  <2>1. CASE UNCHANGED outcome
    BY <1>1, <2>1
  <2>2. CASE outcome' = [outcome EXCEPT ![k] =
                [d \in Resources |->
                   IF d \in Dependencies(k) THEN "Pending" ELSE "Unwatched"]]
    <3>1. Bad(k)' = {}
      BY <1>0, <2>2 DEF Bad, Settled, KsTypeOK
    <3>2. k \notin C
      BY <3>1 DEF Blames
    <3>3. \A j \in C : outcome'[j] = outcome[j]
      BY <1>0, <2>2, <3>2 DEF KsTypeOK
    <3> QED
      BY <1>1, <3>3
  <2> QED
    BY <1>3, <2>1, <2>2 DEF StartReconcile
<1>4. CASE UNCHANGED outcome
  BY <1>1, <1>4
<1> QED
  BY <1>2, <1>3, <1>4
  DEF KsNext, ksVars, WatchStep, ReconcileStep, SourceSettles, WatchAdded, DependencyFails,
      DependenciesReady, EndReaping, BuildFails, ApplyFails, ApplySucceeds,
      TakeCancellation, CancelReconciles, Close

(* However far a failure has spread, it began somewhere: with a timeout, a    *)
(* source, or a Kustomization that failed by itself.                        *)
THEOREM FailureRooted == KsSpec => []FailureHasRoot
<1>1. KsInit => NoBlameCircle
  <2> SUFFICES ASSUME KsInit, NEW k \in Kustomizations PROVE Bad(k) = {}
    BY DEF NoBlameCircle, Blames
  <2> QED
    BY DEF KsInit, Bad, Settled
<1>2. KsInv /\ NoBlameCircle /\ [KsNext]_ksVars => NoBlameCircle'
  BY StepBlame
<1>3. NoBlameCircle => FailureHasRoot
  BY DEF NoBlameCircle, FailureHasRoot, Blames
<1> QED
  BY <1>1, <1>2, <1>3, KsCorrect, PTL DEF KsSpec

-----------------------------------------------------------------------------
(* The refinement of DependencyResolution, one for each Kustomization.  A     *)
(* reconcile only has outcomes of its own dependencies, and none before it  *)
(* has begun to wait.                                                      *)
WatchesItsOwn(k) ==
    \A d \in Resources :
        outcome[k][d] # "Unwatched" =>
            d \in Dependencies(k) /\ phase[k] \notin {"absent", "scheduled"}

WatchesOnlyDependencies == \A k \in Kustomizations : WatchesItsOwn(k)

LEMMA OwnStepWatches ==
    ASSUME KsTypeOK, NEW k \in Kustomizations, WatchesItsOwn(k),
           ReconcileStep(k) \/ WatchStep(k)
    PROVE  WatchesItsOwn(k)'
<1> USE DEF KsTypeOK, Enter
<1>1. CASE WatchStep(k)
  BY <1>1 DEF WatchStep, SettleDependency, WatchesItsOwn
<1>2. CASE ReconcileStep(k)
  <2>1. phase'[k] \notin {"absent", "scheduled"}
    <3>1. CASE EndReaping(k)
      BY <3>1 DEF EndReaping
    <3> QED
      BY <1>2, <3>1
      DEF ReconcileStep, StartReconcile, DependencyFails, DependenciesReady, BuildFails,
          ApplyFails, ApplySucceeds, TakeCancellation
  <2>2. CASE UNCHANGED outcome
    BY <2>1, <2>2 DEF WatchesItsOwn
  <2>3. CASE outcome' = [outcome EXCEPT ![k] =
                [d \in Resources |->
                   IF d \in Dependencies(k) THEN "Pending" ELSE "Unwatched"]]
    BY <2>1, <2>3 DEF WatchesItsOwn
  <2> QED
    BY <1>2, <2>2, <2>3
    DEF ReconcileStep, StartReconcile, DependencyFails, DependenciesReady, EndReaping,
        BuildFails, ApplyFails, ApplySucceeds, TakeCancellation
<1> QED
  BY <1>1, <1>2

LEMMA StepWatches ==
    ASSUME KsTypeOK, WatchesOnlyDependencies, [KsNext]_ksVars
    PROVE  WatchesOnlyDependencies'
<1> SUFFICES ASSUME NEW j \in Kustomizations PROVE WatchesItsOwn(j)'
  BY DEF WatchesOnlyDependencies
<1>0. WatchesItsOwn(j)
  BY DEF WatchesOnlyDependencies
<1>a. CASE phase'[j] = phase[j] /\ outcome'[j] = outcome[j]
  BY <1>a, <1>0 DEF WatchesItsOwn
<1>1. CASE WatchAdded
  BY <1>0, <1>1 DEF WatchAdded, Added, WatchesItsOwn, KsTypeOK
<1>2. ASSUME NEW k \in Kustomizations, ReconcileStep(k) \/ WatchStep(k)
      PROVE  WatchesItsOwn(j)'
  <2>1. CASE j = k
    BY <1>0, <1>2, <2>1, OwnStepWatches
  <2>2. CASE j # k
    BY <1>2, <1>a, <2>2, StepIsLocal
  <2> QED
    BY <2>1, <2>2
<1> QED
  BY <1>1, <1>2, <1>a DEF KsNext, ksVars, SourceSettles, CancelReconciles, Close

(* To the Resolution of j a step that leaves its outcomes and its end alone  *)
(* makes some of its dependencies available, or none.                      *)
Over(j) == phase[j] \in {"building", "done", "raised", "cancelled"}

LEMMA BecomesAvailable ==
    ASSUME KsInv, [KsNext]_ksVars, NEW j \in Kustomizations,
           outcome'[j] = outcome[j], Over(j)' <=> Over(j)
    PROVE  Resolution(j)!BecomeAvailable
<1> DEFINE A == {d \in Dependencies(j) : Available(d)}
           B == {d \in Dependencies(j) : Available(d)'}
<1>1. Dependencies(j) \subseteq Resources
  BY KustomizationAssumption DEF Dependencies, Names, Resources
<1>2. A \subseteq B
  BY <1>1, AvailabilityStays DEF KsInv
<1>3. B = A \union B /\ B \in SUBSET Dependencies(j)
  BY <1>2
<1>4. [d \in Dependencies(j) |-> outcome'[j][d]] = [d \in Dependencies(j) |-> outcome[j][d]]
  OBVIOUS
<1>5. Over(j)' = Over(j)
  BY DEF Over
<1> HIDE DEF A, B
<1>6. \E D \in SUBSET Dependencies(j) : B = A \union D
  BY <1>3
<1> QED
  BY <1>4, <1>5, <1>6 DEF Resolution!BecomeAvailable, A, B, Over

(* The reconcile of j ends its wait with no watch pending, or never begins. *)
LEMMA EndsWatch ==
    ASSUME KsTypeOK, StatusMatchesPhase, NEW j \in Kustomizations,
           \/ StartReconcile(j) \/ DependenciesReady(j) \/ EndReaping(j)
           \/ TakeCancellation(j),
           ~Over(j), Over(j)', outcome'[j] = outcome[j],
           \A d \in Dependencies(j) : outcome[j][d] # "Pending"
    PROVE  Resolution(j)!EndWatch
<1>1. stored' = stored /\ status[j] # "Ready" /\ j \in Resources
  BY DEF StartReconcile, DependenciesReady, EndReaping, TakeCancellation,
         StatusMatchesPhase, Over, Resources
<1>2. \/ status' = status
      \/ \E s \in {"Pending", "Failed"} : status' = [status EXCEPT ![j] = s]
  <2>1. CASE EndReaping(j)
    BY <2>1 DEF EndReaping, SetStatus
  <2> QED
    BY <2>1 DEF StartReconcile, DependenciesReady, TakeCancellation, SetStatus
<1>3. \A d \in Resources : Available(d)' <=> Available(d)
  BY <1>1, <1>2 DEF Available, KsTypeOK
<1>4. Dependencies(j) \subseteq Resources
  BY KustomizationAssumption DEF Dependencies, Names, Resources
<1>5. {d \in Dependencies(j) : Available(d)'} = {d \in Dependencies(j) : Available(d)}
  BY <1>3, <1>4
<1> QED
  BY <1>5 DEF Resolution!EndWatch, Resolution!Watched, Over

LEMMA SettlesOne ==
    ASSUME KsTypeOK, NEW j \in Kustomizations, WatchesItsOwn(j),
           NEW d \in Resources, NEW o \in FinalOutcomes, SettleDependency(j, d, o)
    PROVE  Resolution(j)!SettleOne(d, o) /\ d \in Dependencies(j)
<1>1. d \in Dependencies(j)
  BY DEF SettleDependency, WatchesItsOwn
<1>2. [e \in Dependencies(j) |-> outcome'[j][e]]
        = [[e \in Dependencies(j) |-> outcome[j][e]] EXCEPT ![d] = o]
  <2>1. \A e \in Dependencies(j) : outcome'[j][e] = IF e = d THEN o ELSE outcome[j][e]
    BY KustomizationAssumption
    DEF SettleDependency, KsTypeOK, Dependencies, Names, Resources
  <2> QED
    BY <2>1
<1>3. {e \in Dependencies(j) : Available(e)'} = {e \in Dependencies(j) : Available(e)}
  BY DEF SettleDependency, Available
<1>4. ~Over(j) /\ UNCHANGED phase
  BY DEF SettleDependency, Over
<1> QED
  BY <1>1, <1>2, <1>3, <1>4 DEF SettleDependency, Resolution!SettleOne, Over

LEMMA BeginsWatch ==
    ASSUME KsTypeOK, StatusMatchesPhase, NEW j \in Kustomizations, WatchesItsOwn(j),
           StartReconcile(j), outcome'[j] # outcome[j]
    PROVE  Resolution(j)!BeginWatch(Dependencies(j))
<1>1. /\ outcome' = [outcome EXCEPT ![j] =
            [d \in Resources |-> IF d \in Dependencies(j) THEN "Pending" ELSE "Unwatched"]]
      /\ phase[j] = "scheduled" /\ phase' = [phase EXCEPT ![j] = "waiting"]
      /\ status' = [status EXCEPT ![j] = "Pending"]
      /\ stored' = stored
      /\ Dependencies(j) # {}
  BY DEF StartReconcile, Enter, SetStatus
<1>2. Dependencies(j) \subseteq Resources /\ j \in Resources
  BY KustomizationAssumption DEF Dependencies, Names, Resources
<1>3. \A d \in Dependencies(j) : outcome[j][d] = "Unwatched" /\ outcome'[j][d] = "Pending"
  BY <1>1, <1>2 DEF WatchesItsOwn, KsTypeOK
<1>4. \A d \in Resources : Available(d)' <=> Available(d)
  BY <1>1, <1>2 DEF Available, KsTypeOK, StatusMatchesPhase
<1>5. {d \in Dependencies(j) : Available(d)'} = {d \in Dependencies(j) : Available(d)}
  BY <1>2, <1>4
<1>6. ~Over(j) /\ ~Over(j)'
  BY <1>1 DEF Over, KsTypeOK
<1> QED
  BY <1>1, <1>3, <1>5, <1>6 DEF Resolution!BeginWatch, Resolution!Watched, Over

(* A reconcile gets over its wait in four steps only. *)
LEMMA OwnStepEnds ==
    ASSUME KsTypeOK, NEW j \in Kustomizations, WatchesItsOwn(j), ReconcileStep(j),
           outcome'[j] = outcome[j], ~(Over(j)' <=> Over(j))
    PROVE  /\ \/ StartReconcile(j) \/ DependenciesReady(j) \/ EndReaping(j)
              \/ TakeCancellation(j)
           /\ ~Over(j) /\ Over(j)'
           /\ \A d \in Dependencies(j) : outcome[j][d] # "Pending"
<1> USE DEF KsTypeOK, Enter, Over
<1>0. Dependencies(j) \subseteq Resources
  BY KustomizationAssumption DEF Dependencies, Names, Resources
<1>1. CASE StartReconcile(j) \/ TakeCancellation(j)
  <2>1. phase[j] = "scheduled" \/ ~Over(j)'
    BY <1>1 DEF StartReconcile, TakeCancellation
  <2>2. ~Over(j)
    BY <1>1 DEF StartReconcile, TakeCancellation
  <2> QED
    BY <1>0, <1>1, <2>1, <2>2 DEF WatchesItsOwn
<1>2. CASE DependenciesReady(j)
  BY <1>2 DEF DependenciesReady, AllReady, Settled
<1>3. CASE EndReaping(j)
  BY <1>0, <1>3 DEF EndReaping, Reaped, Settled
<1>4. CASE DependencyFails(j) \/ BuildFails(j) \/ ApplyFails(j) \/ ApplySucceeds(j)
  BY <1>4 DEF DependencyFails, BuildFails, ApplyFails, ApplySucceeds
<1> QED
  BY <1>1, <1>2, <1>3, <1>4 DEF ReconcileStep

LEMMA StepResolution ==
    ASSUME KsInv, WatchesOnlyDependencies, [KsNext]_ksVars, NEW j \in Kustomizations
    PROVE  [Resolution(j)!ResolutionNext]_(Resolution(j)!resolutionVars)
<1>0. KsTypeOK /\ StatusMatchesPhase /\ WatchesItsOwn(j)
  BY DEF KsInv, WatchesOnlyDependencies
<1>a. CASE outcome'[j] = outcome[j] /\ (Over(j)' <=> Over(j))
  BY <1>a, BecomesAvailable DEF Resolution!ResolutionNext
<1>1. CASE WatchAdded
  BY <1>0, <1>1, <1>a DEF WatchAdded, Added, KsTypeOK, Over
<1>2. ASSUME NEW k \in Kustomizations, k # j, ReconcileStep(k) \/ WatchStep(k)
      PROVE  Resolution(j)!ResolutionNext
  BY <1>0, <1>2, <1>a, StepIsLocal, BecomesAvailable DEF Over, Resolution!ResolutionNext
<1>3. CASE WatchStep(j)
  <2>1. PICK d \in Resources, o \in FinalOutcomes : SettleDependency(j, d, o)
    BY <1>3 DEF WatchStep
  <2>2. o \in Resolution(j)!Outcomes
    BY DEF FinalOutcomes, Resolution!Outcomes
  <2>3. Resolution(j)!SettleOne(d, o) /\ d \in Dependencies(j)
    BY <1>0, <2>1, SettlesOne
  <2> QED
    BY <2>2, <2>3 DEF Resolution!ResolutionNext
<1>4. CASE ReconcileStep(j)
  <2>1. CASE outcome'[j] # outcome[j]
    <3>1. StartReconcile(j)
      BY <1>4, <2>1
      DEF ReconcileStep, DependencyFails, DependenciesReady, EndReaping, BuildFails,
          ApplyFails, ApplySucceeds, TakeCancellation
    <3> QED
      BY <1>0, <2>1, <3>1, BeginsWatch DEF Resolution!ResolutionNext
  <2>2. CASE outcome'[j] = outcome[j] /\ ~(Over(j)' <=> Over(j))
    <3>1. Resolution(j)!EndWatch
      BY <1>0, <1>4, <2>2, OwnStepEnds, EndsWatch
    <3> QED
      BY <3>1 DEF Resolution!ResolutionNext
  <2> QED
    BY <1>a, <2>1, <2>2
<1> QED
  BY <1>1, <1>2, <1>3, <1>4, <1>a
  DEF KsNext, ksVars, SourceSettles, CancelReconciles, Close, Over

(* Each reconcile sees its dependencies through DependencyResolution: one    *)
(* final outcome for each, READY only for what is available, and an end     *)
(* only when none is pending.                                              *)
THEOREM ReconcilesResolve == KsSpec => ResolutionsImplemented
<1>1. KsInit => WatchesOnlyDependencies
  BY DEF KsInit, WatchesOnlyDependencies, WatchesItsOwn
<1>2. ASSUME KsInit, NEW k \in Kustomizations PROVE Resolution(k)!ResolutionInit
  BY <1>2, KustomizationAssumption
  DEF KsInit, Resolution!ResolutionInit, Dependencies, Names, Resources
<1>3. KsInv /\ WatchesOnlyDependencies /\ [KsNext]_ksVars => WatchesOnlyDependencies'
  BY StepWatches DEF KsInv
<1>4. KsInv /\ WatchesOnlyDependencies /\ [KsNext]_ksVars =>
        [\A k \in Kustomizations :
            [Resolution(k)!ResolutionNext]_(Resolution(k)!resolutionVars)]_ksVars
  BY StepResolution
<1>5. KsInit => \A k \in Kustomizations : Resolution(k)!ResolutionInit
  BY <1>2
<1> QED
  BY <1>1, <1>3, <1>4, <1>5, KsCorrect, PTL DEF KsSpec, ResolutionsImplemented
=============================================================================
