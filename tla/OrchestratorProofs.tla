-------------------------- MODULE OrchestratorProofs --------------------------
(* What holds of the Orchestrator for any repository.  Its steps are steps of *)
(* the KustomizationController or leave its state alone, so KsInv holds here *)
(* as well; to it OrInv adds how far each source is, what the phase of run() *)
(* says of the tasks, and what close() has passed over.                     *)
EXTENDS Orchestrator, KustomizationProofs, FiniteSetTheorems, SequenceTheorems,
        WellFoundedInduction, Sequences

FetchPhases == {"absent", "scheduled", "waiting", "reaping", "done", "raised", "cancelled"}

RunPhases == {"starting", "blocked", "checking", "stopping", "closing", "joining", "stopped"}

(* The types of the variables that are not KustomizationController's. *)
OrTypes ==
    /\ fetch \in [Sources -> FetchPhases]
    /\ fetchCancelled \subseteq Sources
    /\ tasks \in Seq(Sources)
    /\ closing \in {"no", "cancelling", "over"}
    /\ run \in RunPhases
    /\ result \in {"none", "success", "failure", "error"}

(* A source is decided by its own task, once; the bootstrap repository is     *)
(* READY from the beginning.                                               *)
SourceKept(s) ==
    /\ s \in stored <=> fetch[s] # "absent"
    /\ fetch[s] = "absent" => status[s] = "None" /\ s \notin artifact
    /\ s \in Sc!Fetching =>
         \/ status[s] = "None" /\ s \notin artifact
         \/ /\ fetch[s] = "scheduled" /\ s \in GitSources
            /\ status[s] = "Ready" /\ s \in artifact
    /\ fetch[s] = "done" => status[s] \in {"Ready", "Failed"}
    /\ fetch[s] = "cancelled" => s \in fetchCancelled

SourcesKept == \A s \in Sources : SourceKept(s)

(* Why a reconcile has ended, or is about to. *)
ReconcileKept(k) ==
    /\ phase[k] = "done" => status[k] \in {"Ready", "Failed"}
    /\ phase[k] = "cancelled" => k \in cancelled
    /\ phase[k] = "reaping" => status[k] = "Failed" \/ k \in cancelled

ReconcilesKept == \A k \in Kustomizations : ReconcileKept(k)

(* Where run() and stop() are.  In the first round there is something to be    *)
(* done; an exception has left stop() only after both controllers had been    *)
(* closed, unless somebody cancelled it.                                    *)
RunInv ==
    /\ run = "starting" => Unfinished # {}
    /\ run \in {"starting", "checking", "blocked"} =>
         open /\ closing = "no" /\ result = "none"
    /\ run \in {"starting", "checking", "blocked"} /\ ~interrupted =>
         cancelled = {} /\ fetchCancelled = {}
    /\ escaped /\ ~interrupted => ~open /\ Active = {}
    /\ run \in {"closing", "joining", "stopped"} => ~open
    /\ closing # "no" => ~open
    /\ run \in {"joining", "stopped"} => Active = {}
    /\ run = "joining" => Unfinished \subseteq blockedOn
    /\ run = "stopped" /\ Unfinished # {} => result = "error"

(* close() has passed over tasks that are done or cancelled only, until it    *)
(* met one that raised.                                                    *)
Passed(n) == \A i \in 1 .. (n - 1) : tasks[i] \notin Sc!Fetching

RunningAfterRaised ==
    \A i \in DOMAIN tasks :
        tasks[i] \in Sc!Fetching => \E j \in 1 .. i : fetch[tasks[j]] = "raised"

CloseInv ==
    /\ closing = "cancelling" => awaited \in 1 .. Len(tasks) /\ Passed(awaited)
    /\ closing = "over" => RunningAfterRaised

OrInv ==
    /\ KsInv /\ ReconcilesKept
    /\ OrTypes /\ SourcesKept
    /\ RunInv /\ CloseInv /\ SuccessMeansSettled

-----------------------------------------------------------------------------
(* The step of a source's task. *)
SourceMoves(s) ==
    /\ UNCHANGED <<status, artifact>>
    /\ \/ fetch'[s] = fetch[s]
       \/ fetch'[s] \in {"waiting", "reaping"} /\ status[s] = "None" /\ s \notin artifact
       \/ fetch'[s] = "raised"
       \/ fetch'[s] = "cancelled" /\ s \in fetchCancelled
       \/ fetch'[s] = "done" /\ status[s] = "Ready"

SourceDecides(s) ==
    /\ status[s] = "None"
    /\ fetch'[s] = "done"
    /\ \/ SetStatus(s, "Ready") /\ artifact' = artifact \union {s}
       \/ SetStatus(s, "Ready") /\ UNCHANGED artifact
       \/ SetStatus(s, "Failed") /\ UNCHANGED artifact

LEMMA FetchAnswers ==
    ASSUME NEW s \in Sources, fetch \in [Sources -> FetchPhases], status[s] = "None",
           Sc!FetchOrRaise(s)
    PROVE  /\ fetch' = [fetch EXCEPT ![s] = fetch'[s]]
           /\ SourceMoves(s) \/ SourceDecides(s)
  BY DEF Sc!FetchOrRaise, Sc!SetSourceStatus, Sc!Leave, SetStatus, SourceMoves, SourceDecides

LEMMA FetchSteps ==
    ASSUME KsTypeOK, OrTypes, NEW s \in Sources, SourceKept(s), Sc!FetchStep(s)
    PROVE  /\ s \in Sc!Fetching
           /\ UNCHANGED <<stored, fetchCancelled, tasks, closing, awaited>>
           /\ fetch' = [fetch EXCEPT ![s] = fetch'[s]]
           /\ SourceMoves(s) \/ SourceDecides(s)
  <1> USE DEF Sc!Leave, Sc!SetSourceStatus, SetStatus, SourceMoves, SourceDecides
  <1>1. fetch \in [Sources -> FetchPhases]
    BY DEF OrTypes
  <1>2. CASE Sc!SkipFetch(s)
    BY <1>1, <1>2 DEF Sc!SkipFetch, Sc!Fetching, SourceKept
  <1>3. CASE Sc!Fetch(s)
    <2>1. status[s] = "None"
      BY <1>3 DEF Sc!Fetch, Sc!MustFetch, Sc!Fetching, SourceKept
    <2>2. QED
      BY <1>1, <1>3, <2>1, FetchAnswers DEF Sc!Fetch, Sc!Fetching
  <1>4. CASE Sc!WaitForSecret(s)
    BY <1>1, <1>4 DEF Sc!WaitForSecret, Sc!MustFetch, Sc!Fetching, SourceKept
  <1>5. ASSUME NEW o \in Sc!SecretOutcomes, Sc!SettleSecret(s, o)
        PROVE  /\ s \in Sc!Fetching /\ UNCHANGED <<fetch, status, artifact>>
               /\ UNCHANGED <<stored, fetchCancelled, tasks, closing, awaited>>
    BY <1>5 DEF Sc!SettleSecret, Sc!Fetching
  <1>6. CASE Sc!EndSecretWait(s)
    <2>1. /\ status[s] = "None" /\ s \in Sc!Fetching
          /\ UNCHANGED <<stored, fetchCancelled, tasks, closing, awaited>>
      BY <1>6 DEF Sc!EndSecretWait, Sc!Fetching, SourceKept
    <2>2. CASE Sc!FetchOrRaise(s)
      BY <1>1, <2>1, <2>2, FetchAnswers
    <2>3. CASE ~Sc!FetchOrRaise(s)
      BY <1>1, <1>6, <2>1, <2>3 DEF Sc!EndSecretWait
    <2>4. QED
      BY <2>2, <2>3
  <1>7. CASE Sc!TakeFetchCancellation(s)
    BY <1>1, <1>7 DEF Sc!TakeFetchCancellation, Sc!Fetching, SourceKept
  <1>8. QED
    BY <1>1, <1>2, <1>3, <1>4, <1>5, <1>6, <1>7 DEF Sc!FetchStep

-----------------------------------------------------------------------------
(* To the KustomizationController every step is one of its own, or none. *)
LEMMA FetchIsKsStep ==
    ASSUME KsTypeOK, OrTypes, SourcesKept, NEW s \in Sources, OfSource(Sc!FetchStep(s))
    PROVE  [KsNext]_ksVars
  <1>1. /\ SourceKept(s) /\ s \in Sc!Fetching
        /\ SourceMoves(s) \/ SourceDecides(s)
        /\ UNCHANGED <<stored, phase, outcome, cancelled, open>>
    BY FetchSteps DEF SourcesKept, OfSource
  <1>2. s \in stored
    BY <1>1 DEF SourceKept, Sc!Fetching
  <1>3. CASE SourceMoves(s)
    BY <1>1, <1>3 DEF SourceMoves, ksVars
  <1>4. CASE SourceDecides(s)
    BY <1>1, <1>2, <1>4 DEF SourceDecides, SourceSettles, KsNext
  <1>5. QED
    BY <1>1, <1>3, <1>4

LEMMA KsSteps ==
    ASSUME KsTypeOK, OrTypes, SourcesKept, [OrNext]_vars
    PROVE  [KsNext]_ksVars
  <1>1. CASE OfKustomize(WatchAdded)
    BY <1>1 DEF OfKustomize, KsNext
  <1>2. ASSUME NEW k \in Kustomizations, OfKustomize(WatchStep(k) \/ ReconcileStep(k))
        PROVE  [KsNext]_ksVars
    BY <1>2 DEF OfKustomize, KsNext
  <1>3. CASE OfSource(Sc!ContinueSourceClose)
    BY <1>3 DEF OfSource, Sc!ContinueSourceClose, ksVars
  <1>4. ASSUME NEW t, TaskDone(t) PROVE UNCHANGED ksVars
    BY <1>4 DEF TaskDone
  <1>5. CASE Start \/ Check \/ Unblock \/ BothClosed \/ EndStop \/ InterruptStop
    BY <1>5 DEF Start, Check, Round, Unblock, BothClosed, EndStop, InterruptStop
  <1>6. CASE BeginStop
    BY <1>6 DEF BeginStop, KsNext
  <1>7. CASE Interrupt
    <2>1. CASE blockedOn \intersect Active = {}
      BY <1>7, <2>1 DEF Interrupt, ksVars
    <2>2. CASE blockedOn \intersect Active # {}
      BY <1>7, <2>2 DEF Interrupt, CancelReconciles, KsNext
    <2>3. QED
      BY <2>1, <2>2
  <1>8. CASE UNCHANGED vars
    BY <1>8 DEF vars
  <1>9. QED
    BY <1>1, <1>2, <1>3, <1>4, <1>5, <1>6, <1>7, <1>8, FetchIsKsStep DEF OrNext, RunStep

-----------------------------------------------------------------------------
(* What a step of the KustomizationController leaves alone. *)
KustomizeStep ==
    \/ OfKustomize(WatchAdded)
    \/ \E k \in Kustomizations : OfKustomize(WatchStep(k) \/ ReconcileStep(k))

LEMMA StepSparesSources ==
    ASSUME KsTypeOK, NEW k \in Kustomizations, WatchStep(k) \/ ReconcileStep(k)
    PROVE  /\ UNCHANGED <<open, cancelled>>
           /\ k \in Active
           /\ \A s \in Sources : status'[s] = status[s] /\ (s \in artifact' <=> s \in artifact)
  <1>1. k \notin Sources
    BY KustomizationAssumption
  <1> USE DEF KsTypeOK, Resources, SetStatus
  <1>2. CASE WatchStep(k)
    BY <1>2 DEF WatchStep, SettleDependency, Active
  <1>3. CASE StartReconcile(k)
    BY <1>1, <1>3 DEF StartReconcile, Active
  <1>4. CASE DependencyFails(k) \/ DependenciesReady(k) \/ BuildFails(k)
    BY <1>1, <1>4 DEF DependencyFails, DependenciesReady, BuildFails, Active
  <1>5. CASE EndReaping(k)
    BY <1>1, <1>5 DEF EndReaping, Active
  <1>6. CASE ApplyFails(k)
    BY <1>1, <1>6 DEF ApplyFails, Active
  <1>7. CASE ApplySucceeds(k)
    BY <1>1, <1>7 DEF ApplySucceeds, Publish, Active
  <1>8. CASE TakeCancellation(k)
    BY <1>8 DEF TakeCancellation, Active
  <1>9. QED
    BY <1>2, <1>3, <1>4, <1>5, <1>6, <1>7, <1>8 DEF ReconcileStep

NewSources == (stored' \ stored) \intersect Sources

LEMMA KustomizeSteps ==
    ASSUME KsInv, KustomizeStep
    PROVE  /\ UNCHANGED <<open, cancelled, orVars>>
           /\ \A s \in Sources : status'[s] = status[s] /\ (s \in artifact' <=> s \in artifact)
           /\ stored \subseteq stored'
           /\ Sc!Listen(NewSources)
           /\ ~open => stored' = stored /\ Active # {}
           /\ run # "starting"
  <1>0. KsTypeOK /\ StatusMatchesPhase
    BY DEF KsInv
  <1>1. [KsNext]_ksVars
    BY DEF KustomizeStep, OfKustomize, KsNext
  <1>2. Sc!Listen(NewSources) /\ UNCHANGED orVars /\ run # "starting"
    BY DEF KustomizeStep, OfKustomize, NewSources
  <1>3. CASE WatchAdded
    BY <1>2, <1>3 DEF WatchAdded
  <1>4. ASSUME NEW k \in Kustomizations, WatchStep(k) \/ ReconcileStep(k)
        PROVE  /\ UNCHANGED <<open, cancelled>>
               /\ Active # {}
               /\ \A s \in Sources : status'[s] = status[s] /\ (s \in artifact' <=> s \in artifact)
    BY <1>0, <1>4, StepSparesSources
  <1>5. stored \subseteq stored' /\ (~open => stored' = stored)
    BY <1>0, <1>1, StepKeeps, ClosedStep
  <1>6. QED
    BY <1>2, <1>3, <1>4, <1>5 DEF KustomizeStep, OfKustomize

(* The sources that are added, listed in some order. *)
LEMMA SameCardinality == ASSUME NEW S PROVE Sc!Cardinality(S) = Cardinality(S)
  BY DEF Cardinality, Sc!Cardinality

LEMMA Listing ==
    ASSUME NEW S \in SUBSET Sources, NEW q \in Sc!SetToSeqs(S)
    PROVE  q \in Seq(S)
  <1>1. IsFiniteSet(S)
    BY FS_Subset, OrchestratorAssumption
  <1>2. Sc!Cardinality(S) \in Nat
    BY <1>1, FS_CardinalityType, SameCardinality
  <1>3. q \in [1 .. Sc!Cardinality(S) -> S]
    BY DEF Sc!SetToSeqs
  <1>4. QED
    BY <1>2, <1>3

LEMMA ListenSteps ==
    ASSUME OrTypes, NEW new \in SUBSET Sources, Sc!Listen(new)
    PROVE  /\ tasks' \in Seq(Sources)
           /\ new = {} => UNCHANGED <<tasks, fetch>>
           /\ fetch' \in [Sources -> FetchPhases]
           /\ UNCHANGED <<fetchCancelled, closing, awaited>>
  <1>1. PICK q \in Sc!SetToSeqs(new) : tasks' = tasks \o q
    BY DEF Sc!Listen
  <1>2. q \in Seq(new)
    BY <1>1, Listing
  <1>3. q \in Seq(Sources) /\ tasks \in Seq(Sources)
    BY <1>2 DEF OrTypes
  <1>4. tasks' \in Seq(Sources)
    BY <1>1, <1>3, ConcatProperties
  <1>5. ASSUME new = {} PROVE tasks' = tasks
    <2>1. q = <<>>
      BY <1>2, <1>5, EmptySeq
    <2>2. QED
      BY <1>1, <1>3, <2>1, ConcatEmptySeq
  <1>6. QED
    BY <1>4, <1>5 DEF Sc!Listen, OrTypes, FetchPhases

-----------------------------------------------------------------------------
LEMMA NextSources ==
    ASSUME KsInv, OrTypes, SourcesKept, [OrNext]_vars
    PROVE  SourcesKept'
  <1> SUFFICES ASSUME NEW s \in Sources PROVE SourceKept(s)'
    BY DEF SourcesKept
  <1>0. SourceKept(s) /\ KsTypeOK
    BY DEF SourcesKept, KsInv
  <1>a. CASE /\ UNCHANGED <<fetch, stored, status, artifact>>
             /\ fetchCancelled \subseteq fetchCancelled'
    BY <1>0, <1>a DEF SourceKept, Sc!Fetching
  <1>1. CASE KustomizeStep
    <2>1. /\ status'[s] = status[s] /\ (s \in artifact' <=> s \in artifact)
          /\ stored \subseteq stored' /\ Sc!Listen(NewSources)
      BY <1>1, KustomizeSteps
    <2>2. /\ fetch'[s] = IF s \in NewSources THEN "scheduled" ELSE fetch[s]
          /\ UNCHANGED fetchCancelled
      BY <2>1 DEF Sc!Listen
    <2>3. CASE s \in NewSources
      BY <1>0, <2>1, <2>2, <2>3 DEF NewSources, SourceKept, Sc!Fetching
    <2>4. CASE s \notin NewSources
      <3>1. s \in stored' <=> s \in stored
        BY <2>1, <2>4 DEF NewSources
      <3>2. QED
        BY <1>0, <2>1, <2>2, <2>4, <3>1 DEF SourceKept, Sc!Fetching
    <2>5. QED
      BY <2>3, <2>4
  <1>2. ASSUME NEW t \in Sources, OfSource(Sc!FetchStep(t)) PROVE SourceKept(s)'
    <2>1. /\ SourceKept(t) /\ t \in Sc!Fetching
          /\ UNCHANGED <<stored, fetchCancelled>>
          /\ fetch' = [fetch EXCEPT ![t] = fetch'[t]]
          /\ SourceMoves(t) \/ SourceDecides(t)
      BY <1>0, <1>2, FetchSteps DEF OfSource, SourcesKept
    <2>2. CASE s # t
      <3>1. fetch'[s] = fetch[s]
        BY <2>1, <2>2 DEF OrTypes
      <3>2. status'[s] = status[s] /\ (s \in artifact' <=> s \in artifact)
        BY <1>0, <2>1, <2>2 DEF SourceMoves, SourceDecides, SetStatus, KsTypeOK, Resources
      <3>3. QED
        BY <1>0, <2>1, <3>1, <3>2 DEF SourceKept, Sc!Fetching
    <2>3. CASE s = t /\ SourceMoves(s)
      BY <1>0, <2>1, <2>3 DEF SourceKept, SourceMoves, Sc!Fetching
    <2>4. CASE s = t /\ SourceDecides(s)
      BY <1>0, <2>1, <2>4
      DEF SourceKept, SourceDecides, SetStatus, Sc!Fetching, KsTypeOK, Resources
    <2>5. QED
      BY <2>1, <2>2, <2>3, <2>4
  <1>3. CASE OfSource(Sc!ContinueSourceClose) \/ BeginStop
    BY <1>3, <1>a
    DEF OfSource, Sc!ContinueSourceClose, BeginStop, Close, ksVars, Sc!CloseFrom,
        Sc!CancelFetches
  <1>4. CASE Interrupt \/ InterruptStop
    BY <1>4, <1>a DEF Interrupt, InterruptStop, ksVars, Sc!CancelFetches
  <1>5. ASSUME NEW t, TaskDone(t) PROVE SourceKept(s)'
    BY <1>5, <1>a DEF TaskDone, ksVars, sourceVars
  <1>6. CASE Start \/ Check \/ Unblock \/ BothClosed \/ EndStop \/ UNCHANGED vars
    BY <1>6, <1>a
    DEF Start, Check, Round, Unblock, BothClosed, EndStop, vars, ksVars, sourceVars
  <1>7. QED
    BY <1>1, <1>2, <1>3, <1>4, <1>5, <1>6 DEF OrNext, RunStep, KustomizeStep

-----------------------------------------------------------------------------
(* A source's task only moves on, and does not come back from raising. *)
LEMMA FetchMovesOn ==
    ASSUME KsInv, OrTypes, SourcesKept, NEW t \in Sources, OfSource(Sc!FetchStep(t))
    PROVE  /\ UNCHANGED <<stored, phase, outcome, cancelled, open, orVars>>
           /\ UNCHANGED <<fetchCancelled, tasks, closing, awaited>>
           /\ fetch' \in [Sources -> FetchPhases]
           /\ t \in Sc!Fetching /\ Sc!Fetching' \subseteq Sc!Fetching
           /\ run # "starting"
           /\ \A s \in Sources : fetch[s] = "raised" => fetch'[s] = "raised"
  <1>1. /\ t \in Sc!Fetching
        /\ UNCHANGED <<fetchCancelled, tasks, closing, awaited>>
        /\ UNCHANGED <<stored, phase, outcome, cancelled, open, orVars>>
        /\ run # "starting"
        /\ fetch' = [fetch EXCEPT ![t] = fetch'[t]]
        /\ SourceMoves(t) \/ SourceDecides(t)
    BY FetchSteps DEF OfSource, SourcesKept, KsInv
  <1>2. fetch'[t] \in FetchPhases
    BY <1>1 DEF SourceMoves, SourceDecides, FetchPhases, OrTypes
  <1>3. QED
    BY <1>1, <1>2 DEF OrTypes, Sc!Fetching

(* The least-number principle, for sets. *)
LEMMA LeastNumber ==
    ASSUME NEW S \in SUBSET Nat, S # {}
    PROVE  Sc!Min(S) \in S /\ \A y \in S : Sc!Min(S) <= y
  <1> DEFINE R == {ss \in Nat \X Nat : ss[1] < ss[2]}
  <1>1. IsWellFoundedOn(R, Nat)
    BY NatLessThanWellFounded, Zenon DEF OpToRel
  <1>2. \A x, y \in Nat : <<y, x>> \in R <=> y < x
    OBVIOUS
  <1> HIDE DEF R
  <1>3. PICK x \in S : \A y \in S : <<y, x>> \notin R
    BY <1>1, WFMin
  <1>4. \A y \in S : ~ (y < x)
    BY <1>2, <1>3
  <1>5. \A y \in S : x <= y
    BY <1>4
  <1>6. \E z \in S : \A y \in S : z <= y
    BY <1>5
  <1>7. QED
    BY <1>6 DEF Sc!Min

(* close() from the n-th task on: it stops at the first that is neither done  *)
(* nor cancelled, and is over if that one raised.                           *)
LEMMA CloseSteps ==
    ASSUME OrTypes, NEW n \in Nat \ {0}, Passed(n), Sc!CloseFrom(n), UNCHANGED <<tasks, fetch>>
    PROVE  /\ closing' \in {"cancelling", "over"}
           /\ fetchCancelled \subseteq fetchCancelled' /\ fetchCancelled' \subseteq Sources
           /\ CloseInv'
  <1> DEFINE left == {i \in n .. Len(tasks) : fetch[tasks[i]] \notin {"done", "cancelled"}}
             m == Sc!Min(left)
  <1>1. Len(tasks) \in Nat /\ DOMAIN tasks = 1 .. Len(tasks)
        /\ \A i \in 1 .. Len(tasks) : tasks[i] \in Sources
    BY DEF OrTypes
  <1>2. left # {} => m \in left /\ \A i \in left : m <= i
    <2>1. left \in SUBSET Nat
      BY <1>1
    <2> HIDE DEF left
    <2>2. QED
      BY <2>1, LeastNumber
  <1>3. IF left = {} \/ fetch[tasks[m]] = "raised"
        THEN closing' = "over" /\ UNCHANGED <<awaited, fetchCancelled>>
        ELSE /\ closing' = "cancelling"
             /\ awaited' = m
             /\ Sc!CancelFetches({tasks[m]})
    BY DEF Sc!CloseFrom
  <1>4. \A i \in 1 .. Len(tasks) : tasks[i] \in Sc!Fetching => i \in left
    BY <1>1 DEF Passed, Sc!Fetching
  <1> HIDE DEF m
  <1>5. CASE left = {}
    BY <1>1, <1>3, <1>4, <1>5 DEF CloseInv, RunningAfterRaised, OrTypes, Sc!Fetching
  <1>6. CASE left # {} /\ fetch[tasks[m]] = "raised"
    <2>1. ASSUME NEW i \in DOMAIN tasks, tasks[i] \in Sc!Fetching
          PROVE  \E j \in 1 .. i : fetch[tasks[j]] = "raised"
      <3>1. m \in 1 .. i
        BY <1>1, <1>2, <1>4, <1>6, <2>1
      <3>2. QED
        BY <1>6, <3>1
    <2>2. closing' = "over" /\ UNCHANGED <<awaited, fetchCancelled>>
      BY <1>3, <1>6
    <2>3. RunningAfterRaised'
      BY <2>1 DEF RunningAfterRaised, Sc!Fetching
    <2>4. QED
      BY <2>2, <2>3 DEF CloseInv, OrTypes
  <1>7. CASE left # {} /\ fetch[tasks[m]] # "raised"
    <2>1. closing' = "cancelling" /\ awaited' = m /\ Sc!CancelFetches({tasks[m]})
      BY <1>3, <1>7
    <2>2. m \in n .. Len(tasks) /\ m \in 1 .. Len(tasks)
      BY <1>1, <1>2, <1>7
    <2>3. ASSUME NEW i \in 1 .. (m - 1) PROVE tasks[i] \notin Sc!Fetching
      <3>1. i \in 1 .. Len(tasks) /\ ~ (m <= i)
        BY <1>1, <2>2
      <3>2. i \notin left
        BY <1>2, <1>7, <3>1
      <3>3. QED
        BY <1>4, <3>1, <3>2
    <2>4. Passed(awaited)'
      BY <2>1, <2>3 DEF Passed, Sc!Fetching
    <2>5. fetchCancelled' = fetchCancelled \union {tasks[m]}
      BY <2>1 DEF Sc!CancelFetches
    <2>6. QED
      BY <1>1, <2>1, <2>2, <2>4, <2>5 DEF CloseInv, OrTypes
  <1>8. QED
    BY <1>5, <1>6, <1>7

(* Every other step leaves the sources' tasks where they are. *)
OrStep ==
    \/ Start \/ Check \/ Unblock \/ BothClosed \/ EndStop
    \/ \E t \in Raised : TaskDone(t)

LEMMA OrSteps ==
    ASSUME OrStep
    PROVE  UNCHANGED <<ksVars, sourceVars, interrupted>>
  BY DEF OrStep, Start, Check, Round, Unblock, BothClosed, EndStop, TaskDone

LEMMA InterruptStep ==
    ASSUME Interrupt
    PROVE  /\ UNCHANGED <<stored, status, artifact, phase, outcome, open>>
           /\ UNCHANGED <<fetch, tasks, closing, awaited, run, result, blockedOn, logged>>
           /\ cancelled \subseteq cancelled' /\ fetchCancelled \subseteq fetchCancelled'
           /\ fetchCancelled' \subseteq fetchCancelled \union Sources
           /\ run \in {"checking", "blocked"} /\ interrupted' /\ UNCHANGED escaped
  BY DEF Interrupt, Sc!CancelFetches, Sc!Fetching

LEMMA InterruptStopStep ==
    ASSUME InterruptStop
    PROVE  /\ UNCHANGED <<ksVars, fetch, tasks, closing, awaited, logged>>
           /\ fetchCancelled \subseteq fetchCancelled'
           /\ fetchCancelled' \subseteq fetchCancelled \union Sources
           /\ ~interrupted /\ interrupted'
           /\ \/ run = "stopping" /\ LeaveStop
              \/ run \in {"closing", "joining"} /\ UNCHANGED <<run, result, blockedOn, escaped>>
  BY DEF InterruptStop, Sc!CancelFetches, Sc!Fetching

LEMMA BeginStopStep ==
    ASSUME OrTypes, BeginStop
    PROVE  /\ UNCHANGED <<stored, status, artifact, phase, outcome, fetch, tasks>>
           /\ UNCHANGED <<result, blockedOn, logged, interrupted, escaped>>
           /\ cancelled \subseteq cancelled'
           /\ ~open' /\ run = "stopping" /\ run' = "closing"
           /\ fetchCancelled \subseteq fetchCancelled' /\ fetchCancelled' \subseteq Sources
           /\ closing' \in {"cancelling", "over"} /\ CloseInv'
  <1>1. Sc!CloseFrom(1) /\ UNCHANGED <<tasks, fetch>>
    BY DEF BeginStop
  <1>2. Passed(1)
    BY DEF Passed
  <1>3. /\ closing' \in {"cancelling", "over"} /\ CloseInv'
        /\ fetchCancelled \subseteq fetchCancelled' /\ fetchCancelled' \subseteq Sources
    BY <1>1, <1>2, CloseSteps
  <1>4. QED
    BY <1>3 DEF BeginStop, Close, ksVars

LEMMA SourceCloseStep ==
    ASSUME OrTypes, CloseInv, OfSource(Sc!ContinueSourceClose)
    PROVE  /\ UNCHANGED <<ksVars, orVars, fetch, tasks>>
           /\ closing # "no"
           /\ fetchCancelled \subseteq fetchCancelled' /\ fetchCancelled' \subseteq Sources
           /\ closing' \in {"cancelling", "over"} /\ CloseInv'
  <1>1. /\ closing = "cancelling" /\ Sc!CloseFrom(awaited) /\ UNCHANGED <<tasks, fetch>>
        /\ UNCHANGED <<ksVars, orVars>>
    BY DEF OfSource, Sc!ContinueSourceClose, ksVars
  <1>2. Len(tasks) \in Nat
    BY DEF OrTypes
  <1>3. awaited \in Nat \ {0} /\ Passed(awaited)
    BY <1>1, <1>2 DEF CloseInv
  <1>4. QED
    BY <1>1, <1>3, CloseSteps

LEMMA NextOrTypes ==
    ASSUME KsInv, OrTypes, SourcesKept, CloseInv, [OrNext]_vars
    PROVE  OrTypes'
  <1>1. CASE KustomizeStep
    BY <1>1, KustomizeSteps, ListenSteps DEF OrTypes, orVars, NewSources
  <1>2. ASSUME NEW t \in Sources, OfSource(Sc!FetchStep(t)) PROVE OrTypes'
    BY <1>2, FetchMovesOn DEF OrTypes, orVars
  <1>3. CASE OfSource(Sc!ContinueSourceClose)
    BY <1>3, SourceCloseStep DEF OrTypes, orVars
  <1>4. CASE BeginStop
    BY <1>4, BeginStopStep DEF OrTypes, RunPhases
  <1>5. CASE Interrupt
    BY <1>5, InterruptStep DEF OrTypes
  <1>8. CASE InterruptStop
    BY <1>8, InterruptStopStep DEF OrTypes, LeaveStop, RunPhases
  <1>6. CASE OrStep
    <2>1. UNCHANGED sourceVars
      BY <1>6, OrSteps
    <2>2. /\ run' \in RunPhases
          /\ result' \in {"none", "success", "failure", "error"}
      BY <1>6
      DEF OrStep, Start, Check, Round, Unblock, BothClosed, EndStop, LeaveStop, TaskDone,
          Finish, OrTypes, RunPhases
    <2>3. QED
      BY <2>1, <2>2 DEF OrTypes, sourceVars
  <1>7. CASE UNCHANGED vars
    BY <1>7 DEF vars, sourceVars, orVars, OrTypes
  <1>9. QED
    BY <1>1, <1>2, <1>3, <1>4, <1>5, <1>8, <1>6, <1>7 DEF OrNext, RunStep, KustomizeStep, OrStep

LEMMA NextClose ==
    ASSUME KsInv, OrTypes, SourcesKept, RunInv, CloseInv, [OrNext]_vars
    PROVE  CloseInv'
  <1>a. ASSUME UNCHANGED <<tasks, closing, awaited>>,
               Sc!Fetching' \subseteq Sc!Fetching,
               \A s \in Sources : fetch[s] = "raised" => fetch'[s] = "raised"
        PROVE  CloseInv'
    <2>1. /\ Len(tasks) \in Nat /\ DOMAIN tasks = 1 .. Len(tasks)
          /\ \A i \in 1 .. Len(tasks) : tasks[i] \in Sources
      BY DEF OrTypes
    <2>2. closing = "cancelling" => awaited \in 1 .. Len(tasks) /\ Passed(awaited)'
      BY <1>a DEF CloseInv, Passed
    <2>3. ASSUME closing = "over", NEW i \in DOMAIN tasks, tasks[i] \in Sc!Fetching'
          PROVE  \E j \in 1 .. i : fetch'[tasks[j]] = "raised"
      <3>1. PICK j \in 1 .. i : fetch[tasks[j]] = "raised"
        BY <1>a, <2>3 DEF CloseInv, RunningAfterRaised
      <3>2. tasks[j] \in Sources
        BY <2>1, <2>3, <3>1
      <3>3. QED
        BY <1>a, <3>1, <3>2
    <2>4. closing = "over" => RunningAfterRaised'
      BY <1>a, <2>3 DEF RunningAfterRaised
    <2>5. QED
      BY <1>a, <2>2, <2>4 DEF CloseInv
  <1>b. CASE UNCHANGED <<fetch, tasks, closing, awaited>>
    BY <1>a, <1>b DEF Sc!Fetching
  <1>1. CASE KustomizeStep
    <2>1. CASE closing = "no"
      BY <1>1, <2>1, KustomizeSteps DEF Sc!Listen, CloseInv
    <2>2. CASE closing # "no"
      <3>1. NewSources = {}
        BY <1>1, <2>2, KustomizeSteps DEF RunInv, NewSources
      <3>2. UNCHANGED <<fetch, tasks, closing, awaited>>
        BY <1>1, <3>1, KustomizeSteps, ListenSteps
      <3>3. QED
        BY <1>b, <3>2
    <2>3. QED
      BY <2>1, <2>2
  <1>2. ASSUME NEW t \in Sources, OfSource(Sc!FetchStep(t)) PROVE CloseInv'
    BY <1>2, <1>a, FetchMovesOn
  <1>3. CASE OfSource(Sc!ContinueSourceClose)
    BY <1>3, SourceCloseStep
  <1>4. CASE BeginStop
    BY <1>4, BeginStopStep
  <1>5. CASE Interrupt \/ InterruptStop
    BY <1>5, <1>b, InterruptStep, InterruptStopStep
  <1>6. CASE OrStep \/ UNCHANGED vars
    BY <1>6, <1>b, OrSteps DEF vars, sourceVars
  <1>7. QED
    BY <1>1, <1>2, <1>3, <1>4, <1>5, <1>6 DEF OrNext, RunStep, KustomizeStep, OrStep
-----------------------------------------------------------------------------
LEMMA OwnStepReconciles ==
    ASSUME KsTypeOK, StatusMatchesPhase, NEW k \in Kustomizations, ReconcileKept(k),
           WatchStep(k) \/ ReconcileStep(k)
    PROVE  ReconcileKept(k)'
  <1> USE DEF KsTypeOK, SetStatus, Enter, Resources, ReconcileKept
  <1>1. CASE WatchStep(k)
    BY <1>1 DEF WatchStep, SettleDependency
  <1>2. CASE StartReconcile(k)
    BY <1>2 DEF StartReconcile
  <1>3. CASE DependencyFails(k)
    BY <1>3 DEF DependencyFails
  <1>4. CASE DependenciesReady(k)
    BY <1>4 DEF DependenciesReady
  <1>5. CASE EndReaping(k)
    <2>1. CASE Bad(k) # {}
      <3>1. SetStatus(k, "Failed") /\ Enter(k, "done")
        BY <1>5, <2>1, Zenon DEF EndReaping
      <3>2. QED
        BY <3>1
    <2>2. CASE Bad(k) = {}
      <3>1. UNCHANGED <<status, cancelled>> /\ Enter(k, "cancelled")
        BY <1>5, <2>2, Zenon DEF EndReaping
      <3>2. k \in cancelled
        BY <1>5, <2>2 DEF EndReaping, StatusMatchesPhase
      <3>3. QED
        BY <3>1, <3>2
    <2>3. QED
      BY <2>1, <2>2
  <1>6. CASE BuildFails(k) \/ ApplyFails(k) \/ ApplySucceeds(k)
    BY <1>6 DEF BuildFails, ApplyFails, ApplySucceeds
  <1>7. CASE TakeCancellation(k)
    BY <1>7 DEF TakeCancellation
  <1>8. QED
    BY <1>1, <1>2, <1>3, <1>4, <1>5, <1>6, <1>7 DEF ReconcileStep

LEMMA NextReconciles ==
    ASSUME KsInv, ReconcilesKept, [KsNext]_ksVars
    PROVE  ReconcilesKept'
  <1> SUFFICES ASSUME NEW j \in Kustomizations PROVE ReconcileKept(j)'
    BY DEF ReconcilesKept
  <1>0. ReconcileKept(j) /\ KsTypeOK /\ StatusMatchesPhase
    BY DEF ReconcilesKept, KsInv
  <1>a. CASE phase'[j] = phase[j] /\ status'[j] = status[j] /\ cancelled \subseteq cancelled'
    BY <1>0, <1>a DEF ReconcileKept
  <1>1. ASSUME NEW s \in Sources, SourceSettles(s) PROVE ReconcileKept(j)'
    <2>1. status'[j] = status[j]
      BY <1>0, <1>1, KustomizationAssumption
      DEF SourceSettles, SetStatus, KsTypeOK, Resources
    <2>2. QED
      BY <1>1, <1>a, <2>1 DEF SourceSettles
  <1>2. CASE WatchAdded
    BY <1>0, <1>2 DEF WatchAdded, Added, ReconcileKept
  <1>3. ASSUME NEW k \in Kustomizations, WatchStep(k) \/ ReconcileStep(k)
        PROVE  ReconcileKept(j)'
    <2>1. CASE j = k
      BY <1>0, <1>3, <2>1, OwnStepReconciles
    <2>2. CASE j # k
      BY <1>0, <1>3, <1>a, <2>2, StepIsLocal, StepSparesSources
    <2>3. QED
      BY <2>1, <2>2
  <1>4. ASSUME NEW T \in SUBSET Active, CancelReconciles(T) PROVE ReconcileKept(j)'
    BY <1>4, <1>a DEF CancelReconciles
  <1>5. CASE Close \/ UNCHANGED ksVars
    BY <1>5, <1>a DEF Close, ksVars
  <1>6. QED
    BY <1>1, <1>2, <1>3, <1>4, <1>5 DEF KsNext
-----------------------------------------------------------------------------
LEMMA NextRun ==
    ASSUME KsInv, OrTypes, SourcesKept, RunInv, CloseInv, [OrNext]_vars
    PROVE  RunInv'
  <1> USE DEF RunInv
  <1>1. CASE KustomizeStep
    <2>1. UNCHANGED <<open, cancelled, orVars, fetchCancelled, closing>>
      BY <1>1, KustomizeSteps DEF Sc!Listen
    <2>2. run \notin {"starting", "joining", "stopped"} /\ ~ (escaped /\ ~interrupted)
      BY <1>1, KustomizeSteps
    <2>3. QED
      BY <2>1, <2>2 DEF orVars
  <1>2. ASSUME NEW t \in Sources, OfSource(Sc!FetchStep(t)) PROVE RunInv'
    <2>1. Active' = Active /\ Unfinished' \subseteq Unfinished
      BY <1>2, FetchMovesOn DEF Active, Unfinished
    <2>2. UNCHANGED <<open, cancelled, orVars, fetchCancelled, closing>> /\ run # "starting"
      BY <1>2, FetchMovesOn
    <2>3. QED
      BY <2>1, <2>2 DEF orVars
  <1>3. CASE OfSource(Sc!ContinueSourceClose)
    <2>1. UNCHANGED <<ksVars, orVars, fetch>> /\ ~open
      BY <1>3, SourceCloseStep
    <2>2. QED
      BY <2>1 DEF ksVars, orVars, Active, Unfinished, Sc!Fetching
  <1>4. CASE BeginStop
    BY <1>4, BeginStopStep DEF Active
  <1>5. CASE Interrupt \/ InterruptStop
    <2>1. CASE Interrupt
      BY <2>1, InterruptStep
    <2>2. CASE InterruptStop
      <3>1. Active' = Active /\ Unfinished' = Unfinished
        BY <2>2, InterruptStopStep DEF ksVars, Active, Unfinished, Sc!Fetching
      <3>2. run = "stopping" /\ run' = "stopped" => escaped /\ ~interrupted /\ result' = "error"
        BY <2>2, InterruptStopStep DEF LeaveStop
      <3>3. /\ UNCHANGED <<open, closing>> /\ interrupted'
            /\ \/ run = "stopping" /\ run' \in {"stopping", "stopped"}
               \/ run \in {"closing", "joining"} /\ UNCHANGED <<run, result, blockedOn>>
        BY <2>2, InterruptStopStep DEF LeaveStop, ksVars
      <3>4. QED
        BY <3>1, <3>2, <3>3
    <2>3. QED
      BY <1>5, <2>1, <2>2
  <1>6. CASE OrStep
    <2>1. UNCHANGED <<open, cancelled, fetchCancelled, closing, interrupted>>
      BY <1>6, OrSteps DEF ksVars, sourceVars
    <2>2. Active' = Active /\ Unfinished' = Unfinished
      BY <1>6, OrSteps DEF ksVars, sourceVars, Active, Unfinished, Sc!Fetching
    <2>3. CASE Start \/ Check \/ Unblock
      <3>1. run' \in {"blocked", "checking", "stopping"} /\ UNCHANGED escaped
        BY <2>3 DEF Start, Check, Round, Unblock, Finish
      <3>2. run \in {"starting", "blocked", "checking"}
        BY <2>3 DEF Start, Check, Unblock
      <3>3. run' # "stopping" => UNCHANGED result
        BY <2>3 DEF Start, Check, Round, Unblock, Finish
      <3>4. QED
        BY <2>1, <2>2, <3>1, <3>2, <3>3
    <2>4. CASE BothClosed
      <3>1. run = "closing" /\ Active = {} /\ ~open
        BY <2>4 DEF BothClosed
      <3>2. \/ run' = "joining" /\ blockedOn' = ActiveTasks
            \/ run' = "stopping"
            \/ run' = "stopped" /\ result' = "error"
        BY <2>4 DEF BothClosed, LeaveStop
      <3>3. QED
        BY <2>1, <2>2, <3>1, <3>2 DEF ActiveTasks
    <2>5. CASE EndStop
      <3>1. run' = "stopped" /\ result' # "error" => Unfinished = {}
        BY <2>5 DEF EndStop, LeaveStop, BlockReturns
      <3>2. run = "joining" /\ run' \in {"stopping", "stopped"}
        BY <2>5 DEF EndStop, LeaveStop
      <3>3. QED
        BY <2>1, <2>2, <3>1, <3>2
    <2>6. ASSUME NEW t, TaskDone(t) PROVE UNCHANGED <<run, result, blockedOn, escaped>>
      BY <2>6 DEF TaskDone
    <2>7. CASE UNCHANGED <<run, result, blockedOn, escaped>>
      BY <2>1, <2>2, <2>7
    <2>8. QED
      BY <1>6, <2>3, <2>4, <2>5, <2>6, <2>7 DEF OrStep
  <1>7. CASE UNCHANGED vars
    BY <1>7 DEF vars, ksVars, sourceVars, orVars, Active, Unfinished, Sc!Fetching
  <1>8. QED
    BY <1>1, <1>2, <1>3, <1>4, <1>5, <1>6, <1>7 DEF OrNext, RunStep, KustomizeStep, OrStep

-----------------------------------------------------------------------------
(* What is in the store when no task is active, nothing has failed and nobody *)
(* interfered.                                                              *)
LEMMA SettledAtSuccess ==
    ASSUME KsInv, ReconcilesKept, SourcesKept, RunInv, OrTypes,
           run = "checking", Added = {}, ActiveTasks = {}, ~HasFailedResources, ~interrupted,
           NEW r \in StatusKinds \intersect stored
    PROVE  status[r] = "Ready" \/ r \in Raised
  <1>1. cancelled = {} /\ fetchCancelled = {} /\ status[r] # "Failed"
    BY DEF RunInv, HasFailedResources
  <1>2. CASE r \in Kustomizations
    <2>1. phase[r] \in {"done", "raised", "cancelled"}
      BY <1>2 DEF Added, ActiveTasks, Unfinished, Active, KsInv, KsTypeOK, Phases
    <2>2. QED
      BY <1>1, <1>2, <2>1 DEF ReconcilesKept, ReconcileKept, Raised
  <1>3. CASE r \in Sources
    <2>1. fetch[r] \in {"done", "raised", "cancelled"}
      BY <1>3
      DEF ActiveTasks, Unfinished, Sc!Fetching, SourcesKept, SourceKept, OrTypes, FetchPhases
    <2>2. QED
      BY <1>1, <1>3, <2>1 DEF SourcesKept, SourceKept, Raised
  <1>4. QED
    BY <1>2, <1>3 DEF StatusKinds

LEMMA NextSuccess ==
    ASSUME KsInv, ReconcilesKept, OrTypes, SourcesKept, RunInv, CloseInv,
           SuccessMeansSettled, [OrNext]_vars
    PROVE  SuccessMeansSettled'
  <1>a. CASE /\ UNCHANGED <<stored, status, phase, fetch>>
             /\ result' = "success" => result = "success"
    <2>1. Unfinished' = Unfinished /\ Raised' = Raised
      BY <1>a DEF Unfinished, Active, Raised, Sc!Fetching
    <2>2. QED
      BY <1>a, <2>1 DEF SuccessMeansSettled
  <1>1. CASE KustomizeStep
    <2>1. SUFFICES ASSUME result = "success" PROVE FALSE
      BY <1>1, KustomizeSteps DEF SuccessMeansSettled, orVars
    <2>2. Active = {}
      BY <2>1 DEF SuccessMeansSettled, Unfinished
    <2>3. Added = {}
      BY <2>1, KustomizationAssumption
      DEF Added, SuccessMeansSettled, StatusKinds, Raised, KsInv, StatusMatchesPhase
    <2>4. \A k \in Kustomizations : ~ (WatchStep(k) \/ ReconcileStep(k))
      BY <2>2, StepSparesSources DEF KsInv
    <2>5. QED
      BY <1>1, <2>3, <2>4 DEF KustomizeStep, OfKustomize, WatchAdded
  <1>2. ASSUME NEW t \in Sources, OfSource(Sc!FetchStep(t)) PROVE SuccessMeansSettled'
    <2>1. result' = result /\ t \in Unfinished
      BY <1>2, FetchMovesOn DEF orVars, Unfinished
    <2>2. QED
      BY <2>1 DEF SuccessMeansSettled
  <1>3. CASE OfSource(Sc!ContinueSourceClose)
    BY <1>3, <1>a, SourceCloseStep DEF ksVars, orVars
  <1>4. CASE BeginStop \/ Interrupt \/ InterruptStop
    BY <1>4, <1>a, BeginStopStep, InterruptStep, InterruptStopStep DEF LeaveStop, ksVars
  <1>5. CASE OrStep
    <2>1. UNCHANGED <<stored, status, phase, fetch>>
      BY <1>5, OrSteps DEF ksVars, sourceVars
    <2>2. CASE result' # "success" \/ result' = result
      BY <1>a, <2>1, <2>2
    <2>3. CASE result' = "success" /\ result' # result
      <3>1. Start \/ Check
        BY <1>5, <2>3
        DEF OrStep, Unblock, Finish, BothClosed, EndStop, LeaveStop, TaskDone
      <3>2. ActiveTasks = {} /\ ~HasFailedResources /\ ~interrupted
        BY <2>3, <3>1 DEF Start, Check, Round, Finish, IsComplete
      <3>6. run = "checking" /\ Added = {}
        BY <3>1, <3>2 DEF Start, Check, RunInv, ActiveTasks
      <3>3. \A r \in StatusKinds \intersect stored : status[r] = "Ready" \/ r \in Raised
        BY <3>2, <3>6, SettledAtSuccess
      <3>4. Unfinished' = Unfinished /\ Raised' = Raised
        BY <2>1 DEF Unfinished, Active, Raised, Sc!Fetching
      <3>5. QED
        BY <2>1, <3>2, <3>3, <3>4 DEF SuccessMeansSettled, ActiveTasks
    <2>4. QED
      BY <2>2, <2>3
  <1>6. CASE UNCHANGED vars
    BY <1>6, <1>a DEF vars, ksVars, sourceVars, orVars
  <1>7. QED
    BY <1>1, <1>2, <1>3, <1>4, <1>5, <1>6 DEF OrNext, RunStep, KustomizeStep, OrStep

-----------------------------------------------------------------------------
(* What bootstrap starts from. *)
LEMMA InitOr == OrInit => OrInv
  <1> SUFFICES ASSUME OrInit PROVE OrInv
    OBVIOUS
  <1>1. KsInv
    BY InitKs DEF OrInit
  <1>2. /\ stored \intersect Sources \subseteq GitSources
        /\ BootstrapRepo \in stored \intersect Sources
    <2>1. BootstrapRepo # NoSource
      BY OrchestratorAssumption DEF BootstrapRaises
    <2>2. BootstrapRepo \in GitSources
      <3>1. CASE RepoName # NoSource
        BY <2>1, <3>1 DEF BootstrapRepo, FoundRepos
      <3>2. CASE RepoName = NoSource /\ FoundRepos = {}
        BY <3>2, FS_EmptySet, OrchestratorAssumption DEF BootstrapRepo
      <3>3. CASE RepoName = NoSource /\ FoundRepos # {}
        <4>1. BootstrapRepo = CHOOSE r \in FoundRepos : TRUE
          BY <2>1, <3>3 DEF BootstrapRepo
        <4>2. QED
          BY <3>3, <4>1 DEF FoundRepos
      <3>4. QED
        BY <3>1, <3>2, <3>3
    <2>3. stored = (Found \intersect Kustomizations) \union {BootstrapRepo}
      BY OrchestratorAssumption DEF OrInit, KsInit
    <2>4. QED
      BY <2>2, <2>3, KustomizationAssumption, OrchestratorAssumption
  <1>3. /\ fetch = [s \in Sources |-> IF s \in stored THEN "scheduled" ELSE "absent"]
        /\ fetchCancelled = {} /\ closing = "no"
        /\ tasks \in Sc!SetToSeqs(Sources \intersect stored)
    BY DEF OrInit, Sc!FetchInit
  <1>4. /\ phase = [k \in Kustomizations |-> "absent"] /\ cancelled = {} /\ open = TRUE
        /\ status = [r \in Resources |->
                       IF r \in stored \intersect Sources THEN "Ready" ELSE "None"]
        /\ artifact = stored \intersect Sources
    BY DEF OrInit, KsInit
  <1>5. run = "starting" /\ result = "none" /\ ~escaped
    BY DEF OrInit
  <1>6. OrTypes
    <2>1. tasks \in Seq(Sources \intersect stored)
      BY <1>3, Listing
    <2>2. tasks \in Seq(Sources)
      BY <2>1
    <2>3. QED
      BY <1>3, <1>5, <2>2 DEF OrTypes, FetchPhases, RunPhases
  <1>7. SourcesKept
    BY <1>2, <1>3, <1>4 DEF SourcesKept, SourceKept, Sc!Fetching, Resources
  <1>8. ReconcilesKept
    BY <1>4 DEF ReconcilesKept, ReconcileKept
  <1>9. RunInv /\ CloseInv /\ SuccessMeansSettled
    <2>1. BootstrapRepo \in Unfinished
      BY <1>2, <1>3 DEF Unfinished, Sc!Fetching
    <2>2. QED
      BY <1>3, <1>4, <1>5, <2>1 DEF RunInv, CloseInv, SuccessMeansSettled
  <1>10. QED
    BY <1>1, <1>6, <1>7, <1>8, <1>9 DEF OrInv

LEMMA NextOr == OrInv /\ [OrNext]_vars => OrInv'
  <1> SUFFICES ASSUME OrInv, [OrNext]_vars PROVE OrInv'
    OBVIOUS
  <1> USE DEF OrInv
  <1>1. [KsNext]_ksVars
    BY KsSteps DEF KsInv
  <1>2. KsInv' /\ ReconcilesKept'
    BY <1>1, StepKs, NextReconciles
  <1>3. OrTypes' /\ SourcesKept'
    BY NextOrTypes, NextSources
  <1>4. RunInv' /\ CloseInv' /\ SuccessMeansSettled'
    BY NextRun, NextClose, NextSuccess
  <1>5. QED
    BY <1>2, <1>3, <1>4

-----------------------------------------------------------------------------
(* The inductive invariant of the Orchestrator: what the statuses, the tasks *)
(* and the phase of run() and stop() say of each other.                     *)
THEOREM OrCorrect == OrSpec => []OrInv
  BY InitOr, NextOr, PTL DEF OrSpec

(* A run that succeeded left nothing undone: no task runs, and everything    *)
(* that came into the store is READY, but for what raised.                  *)
THEOREM SuccessSettled == OrSpec => []SuccessMeansSettled
  <1>1. OrInv => SuccessMeansSettled
    BY DEF OrInv
  <1>2. QED
    BY <1>1, OrCorrect, PTL

(* What is left running when the controllers are closed, and when bootstrap   *)
(* has ended: sources listed after one that raised, and anything at all only *)
(* if bootstrap ends with an exception.                                     *)
THEOREM LeftoversExplained == OrSpec => []LeftRunningExplained
  <1>1. OrInv => LeftRunningExplained
    BY DEF OrInv, LeftRunningExplained, RunInv, CloseInv, RunningAfterRaised
  <1>2. QED
    BY <1>1, OrCorrect, PTL

(* With the SourceController and the Orchestrator as its environment the       *)
(* KustomizationController does what its own module says; so what is proved   *)
(* of that module holds here.                                               *)
THEOREM ImplementsKustomizations == OrSpec => KustomizationsImplemented
  <1>1. OrInit => KsInit
    BY DEF OrInit
  <1>2. OrInv /\ [OrNext]_vars => [KsNext]_ksVars
    BY KsSteps DEF OrInv, KsInv
  <1>3. QED
    BY <1>1, <1>2, OrCorrect, PTL DEF OrSpec, KustomizationsImplemented

(* In particular a Kustomization is READY only on top of all it depends on,    *)
(* circles of them never are, every failure has a root, statuses are final   *)
(* and nothing is stored after close(), whatever happens to run() and stop(). *)
THEOREM OrKeepsKustomizations ==
    OrSpec => /\ [](BuildsOnReadyOnly /\ NoReadyWaitingCircle /\ FailureHasRoot)
              /\ FinalStatusStays /\ ClosedMeansQuiet /\ ResolutionsImplemented
  <1>1. OrSpec => KsSpec
    BY ImplementsKustomizations DEF KustomizationsImplemented, KsSpec
  <1>2. QED
    BY <1>1, BuildsOnReady, CircleNeverReady, FailureRooted, FinalStays, ClosedQuiet,
       ReconcilesResolve, PTL
=============================================================================
