----------------------- MODULE KustomizationController -----------------------
(***************************************************************************)
(* The KustomizationController (kustomize_controller/controller.py): every  *)
(* Kustomization that comes into the store is reconciled by a task of its  *)
(* own, which waits for what it depends on, builds, and adds what it built  *)
(* to the store, further Kustomizations among them.                        *)
(*                                                                         *)
(* Each reconcile waits through a DependencyWaiter, of which only the       *)
(* promise is used here: the outcomes of DependencyResolution (the overall *)
(* timeout of the wait, longer than that of any dependency, is modelled in *)
(* DependencyWaiter).  The store is what it has stored, its statuses and   *)
(* its artifacts.  What a Kustomization refers to and what its build       *)
(* produces are constants.                                                 *)
(***************************************************************************)
CONSTANTS
    Kustomizations,
    Sources,           \* GitRepositories and OCIRepositories
    Configs,           \* ConfigMaps and Secrets
    NoSource,          \* not a resource
    DependsOn,         \* depends_on of a Kustomization
    SourceRef,         \* its source_kind and source_name, or NoSource
    SubstituteFrom,    \* its postbuild_substitute_from
    Optional,          \* those of them that are marked optional
    LocalPath,         \* the Kustomizations that name a path
    Malformed,         \* those with a substituteFrom that has no kind or name
    Repeated,          \* those that name a dependency twice
    Output,            \* what building a Kustomization produces
    Loads              \* what bootstrap may put into the store

Resources == Kustomizations \union Sources \union Configs
StatusKinds == Kustomizations \union Sources

Names(k) == DependsOn[k] \union ({SourceRef[k]} \ {NoSource})

(* What the reconcile of k adds to its DependencyWaiter. *)
Dependencies(k) == Names(k) \union (SubstituteFrom[k] \ Optional[k])

ASSUME KustomizationAssumption ==
    /\ Kustomizations \intersect Sources = {}
    /\ StatusKinds \intersect Configs = {}
    /\ NoSource \notin Resources
    /\ DependsOn \in [Kustomizations -> SUBSET Kustomizations]
    /\ SourceRef \in [Kustomizations -> Sources \union {NoSource}]
    /\ SubstituteFrom \in [Kustomizations -> SUBSET Configs]
    /\ Optional \in [Kustomizations -> SUBSET Configs]
    /\ Output \in [Kustomizations -> SUBSET Resources]
    /\ Loads \subseteq SUBSET (Kustomizations \union Sources)
    /\ \A k \in Malformed : SubstituteFrom[k] # {}

VARIABLES
    stored,       \* the objects in the store
    status,       \* the status of each: "None", "Pending", "Ready", "Failed"
    artifact,     \* those with an artifact
    phase,        \* how far the reconcile task of each Kustomization is
    outcome,      \* the outcome of each of its dependencies
    cancelled,    \* the reconcile tasks somebody called cancel() on
    open          \* close() has not been called

ksVars     == <<stored, status, artifact, phase, outcome, cancelled, open>>

Active == {k \in Kustomizations :
             phase[k] \in {"scheduled", "waiting", "reaping", "building"}}
Settled(k, o) == {d \in Resources : outcome[k][d] = o}
Bad(k) == Settled(k, "Failed") \union Settled(k, "Timeout")

SetStatus(r, s) == status' = [status EXCEPT ![r] = s]
Enter(k, p) == phase' = [phase EXCEPT ![k] = p]

-----------------------------------------------------------------------------
(* bootstrap has added what it loaded, and the bootstrap repository with its *)
(* artifact, before the controller begins to watch.                        *)
KsInit ==
    /\ stored \in Loads
    /\ status = [r \in Resources |->
                   IF r \in stored \intersect Sources THEN "Ready" ELSE "None"]
    /\ artifact = stored \intersect Sources
    /\ phase = [k \in Kustomizations |-> "absent"]
    /\ outcome = [k \in Kustomizations |-> [d \in Resources |-> "Unwatched"]]
    /\ cancelled = {}
    /\ open = TRUE

(* What the SourceController does for a source: an artifact and READY; READY *)
(* without an artifact for an OCIRepository while OCI is disabled; FAILED    *)
(* without its secret; and nothing at all when the fetch raises.            *)
SourceSettles(s) ==
    /\ s \in stored
    /\ status[s] = "None"
    /\ \/ SetStatus(s, "Ready") /\ artifact' = artifact \union {s}
       \/ SetStatus(s, "Ready") /\ UNCHANGED artifact
       \/ SetStatus(s, "Failed") /\ UNCHANGED artifact
    /\ UNCHANGED <<stored, phase, outcome, cancelled, open>>

(* MUTANT (FinalStatusStays): a Kustomization is reconciled whenever some   *)
(* Kustomization is added.                                                 *)
AddedAgain == {k \in Kustomizations \intersect stored : phase[k] \in {"absent", "done"}}

(* _watch_kustomizations takes what watch_added has queued in one go. *)
Added == {k \in Kustomizations \intersect stored : phase[k] = "absent"}

WatchAdded ==
    /\ open
    /\ Added # {}
    /\ phase' = [k \in Kustomizations |->
                   IF k \in Added THEN "scheduled" ELSE phase[k]]
    /\ UNCHANGED <<stored, status, artifact, outcome, cancelled, open>>

-----------------------------------------------------------------------------
(* The beginning of reconcile, up to the first await.  add() raises for a   *)
(* dependency that was added already, and only an InputException is caught. *)
(* With nothing to wait for, all_ready is false.                           *)
StartReconcile(k) ==
    /\ phase[k] = "scheduled"
    /\ k \notin cancelled
    /\ \/ /\ k \in Repeated
          /\ SetStatus(k, "Pending")
          /\ Enter(k, "raised")
          /\ UNCHANGED outcome
       \/ /\ k \in Malformed
          /\ SetStatus(k, "Failed")
          /\ Enter(k, "done")
          /\ UNCHANGED outcome
       \/ /\ k \notin Repeated \union Malformed
          /\ Dependencies(k) = {}
          /\ SetStatus(k, "Failed")
          /\ Enter(k, "done")
          /\ UNCHANGED outcome
       \/ /\ k \notin Repeated \union Malformed
          /\ Dependencies(k) # {}
          /\ SetStatus(k, "Pending")
          /\ Enter(k, "waiting")
          /\ outcome' = [outcome EXCEPT ![k] =
                [d \in Resources |->
                   IF d \in Dependencies(k) THEN "Pending" ELSE "Unwatched"]]
    /\ UNCHANGED <<stored, artifact, cancelled, open>>

(* MUTANT (BuildsOnReadyOnly, NoReadyWaitingCircle): a dependency is there  *)
(* as soon as it is in the store.                                          *)
AvailableIfStored(d) == d \in stored

Available(d) == IF d \in StatusKinds THEN status[d] = "Ready" ELSE d \in stored

(* MUTANT (FailureHasRoot): a dependency that is not READY has failed. *)
NotReady(d) == d \in StatusKinds /\ status[d] # "Ready"

HasFailed(d) == d \in StatusKinds /\ status[d] = "Failed"

(* Whoever watches dependency d for k has its outcome. *)
SettleDependency(k, d, o) ==
    /\ phase[k] \in {"waiting", "reaping"}
    /\ outcome[k][d] = "Pending"
    /\ o = "Ready" => Available(d)
    /\ o = "Failed" => HasFailed(d)
    /\ o = "Cancelled" => k \in cancelled \/ phase[k] = "reaping"
    /\ outcome' = [outcome EXCEPT ![k][d] = o]
    /\ UNCHANGED <<stored, status, artifact, phase, cancelled, open>>

(* The first FAILED or TIMEOUT event: the other watches are cancelled and    *)
(* awaited.                                                                *)
DependencyFails(k) ==
    /\ phase[k] = "waiting"
    /\ k \notin cancelled
    /\ Bad(k) # {}
    /\ SetStatus(k, "Failed")
    /\ Enter(k, "reaping")
    /\ UNCHANGED <<stored, artifact, outcome, cancelled, open>>

(* MUTANT (ResolutionsImplemented): the cancelled watches are not awaited. *)
ReapedAtOnce(k) == TRUE

Reaped(k) == Settled(k, "Pending") = {}

(* A cancelled reconcile is handed the events that are left, and returns at *)
(* a failure among them; a failed one keeps its status.                    *)
EndReaping(k) ==
    /\ phase[k] = "reaping"
    /\ Reaped(k)
    /\ IF Bad(k) # {}
       THEN SetStatus(k, "Failed") /\ Enter(k, "done")
       ELSE UNCHANGED status /\ Enter(k, "cancelled")
    /\ UNCHANGED <<stored, artifact, outcome, cancelled, open>>

(* Every dependency is READY: the source is resolved, substitutions are     *)
(* expanded, which may raise outside any try, and the build begins.        *)
SourceResolved(k) ==
    IF SourceRef[k] # NoSource THEN SourceRef[k] \in artifact ELSE k \in LocalPath

AllReady(k) == Settled(k, "Ready") = Dependencies(k)

DependenciesReady(k) ==
    /\ phase[k] = "waiting"
    /\ k \notin cancelled
    /\ AllReady(k)
    /\ \/ /\ ~SourceResolved(k)
          /\ SetStatus(k, "Failed")
          /\ Enter(k, "done")
       \/ /\ SourceResolved(k)
          /\ SubstituteFrom[k] # {}
          /\ Enter(k, "raised")
          /\ UNCHANGED status
       \/ /\ SourceResolved(k)
          /\ Enter(k, "building")
          /\ UNCHANGED status
    /\ UNCHANGED <<stored, artifact, outcome, cancelled, open>>

-----------------------------------------------------------------------------
BuildFails(k) ==
    /\ phase[k] = "building"
    /\ k \notin cancelled
    /\ SetStatus(k, "Failed")
    /\ Enter(k, "done")
    /\ UNCHANGED <<stored, artifact, outcome, cancelled, open>>

Publish(k) == artifact' = artifact \union {k}

(* The objects are added one by one, up to one that does not parse. *)
ApplyFails(k) ==
    /\ phase[k] = "building"
    /\ k \notin cancelled
    /\ \E S \in SUBSET Output[k] : stored' = stored \union S
    /\ SetStatus(k, "Failed")
    /\ Enter(k, "done")
    /\ UNCHANGED <<artifact, outcome, cancelled, open>>

ApplySucceeds(k) ==
    /\ phase[k] = "building"
    /\ k \notin cancelled
    /\ stored' = stored \union Output[k]
    /\ Publish(k)
    /\ SetStatus(k, "Ready")
    /\ Enter(k, "done")
    /\ UNCHANGED <<outcome, cancelled, open>>

-----------------------------------------------------------------------------
(* cancel() from outside: one who awaits these tasks has been cancelled. *)
CancelReconciles(T) ==
    /\ T # {}
    /\ cancelled' = cancelled \union T
    /\ UNCHANGED <<stored, status, artifact, phase, outcome, open>>

(* MUTANT (ClosedMeansQuiet): the reconciles are not cancelled. *)
CloseWatchOnly ==
    /\ open
    /\ open' = FALSE
    /\ UNCHANGED <<stored, status, artifact, phase, outcome, cancelled>>

(* close(): the watch and every reconcile are cancelled. *)
Close ==
    /\ open
    /\ open' = FALSE
    /\ cancelled' = cancelled \union Active
    /\ UNCHANGED <<stored, status, artifact, phase, outcome>>

(* A cancelled task gets its CancelledError; a task that was never run ends. *)
TakeCancellation(k) ==
    /\ k \in cancelled
    /\ \/ phase[k] \in {"scheduled", "building"} /\ Enter(k, "cancelled")
       \/ phase[k] = "waiting" /\ Enter(k, "reaping")
    /\ UNCHANGED <<stored, status, artifact, outcome, cancelled, open>>

-----------------------------------------------------------------------------
(* MUTANT (EveryKustomizationSettles): a dependency has no timeout. *)
UntimedOutcomes == {"Ready", "Failed", "Cancelled"}

FinalOutcomes == {"Ready", "Failed", "Timeout", "Cancelled"}

WatchStep(k) ==
    \E d \in Resources, o \in FinalOutcomes : SettleDependency(k, d, o)

ReconcileStep(k) ==
    \/ StartReconcile(k)
    \/ DependencyFails(k) \/ DependenciesReady(k) \/ EndReaping(k)
    \/ BuildFails(k) \/ ApplyFails(k) \/ ApplySucceeds(k)
    \/ TakeCancellation(k)

KsNext ==
    \/ \E s \in Sources : SourceSettles(s)
    \/ WatchAdded
    \/ \E k \in Kustomizations : WatchStep(k) \/ ReconcileStep(k)
    \/ \E T \in SUBSET Active : CancelReconciles(T)
    \/ Close

KsSpec == KsInit /\ [][KsNext]_ksVars

(* The event loop runs what is scheduled; a dependency times out at the     *)
(* latest; a build is a subprocess, which is given up after a minute.      *)
KsFairness ==
    /\ WF_ksVars(WatchAdded)
    /\ \A k \in Kustomizations : WF_ksVars(WatchStep(k)) /\ WF_ksVars(ReconcileStep(k))

FairKsSpec == KsSpec /\ KsFairness
-----------------------------------------------------------------------------
Phases == {"absent", "scheduled", "waiting", "reaping", "building", "done", "raised",
           "cancelled"}
Outcomes == FinalOutcomes \union {"Unwatched", "Pending"}

(* Type invariant. *)
KsTypeOK ==
    /\ stored \subseteq Resources
    /\ status \in [Resources -> {"None", "Pending", "Ready", "Failed"}]
    /\ artifact \subseteq StatusKinds
    /\ phase \in [Kustomizations -> Phases]
    /\ outcome \in [Kustomizations -> [Resources -> Outcomes]]
    /\ cancelled \subseteq Kustomizations
    /\ open \in BOOLEAN

(* A Kustomization is only built on what is there to stay: whenever it is   *)
(* building or READY, the Kustomizations it depends on are READY and all    *)
(* their output is in the store, its source has an artifact, and the        *)
(* ConfigMaps and Secrets it must substitute from are stored.              *)
BuildsOnReadyOnly ==
    \A k \in Kustomizations :
        phase[k] = "building" \/ status[k] = "Ready" =>
            /\ \A d \in DependsOn[k] : status[d] = "Ready" /\ Output[d] \subseteq stored
            /\ SourceRef[k] # NoSource => SourceRef[k] \in artifact
            /\ SubstituteFrom[k] \ Optional[k] \subseteq stored

(* Kustomizations that wait for each other in a circle are never READY, nor *)
(* is one that waits for itself.                                           *)
NoReadyWaitingCircle ==
    \A C \in SUBSET Kustomizations :
        (\A k \in C : DependsOn[k] \intersect C # {}) =>
            \A k \in C : status[k] # "Ready"

(* Nobody's failure is explained only by failures it explains: among the     *)
(* Kustomizations that failed on a dependency there is one whose dependency *)
(* timed out, or is not one of them.                                       *)
FailureHasRoot ==
    \A C \in SUBSET {k \in Kustomizations : Bad(k) # {}} :
        C # {} => \E k \in C : Settled(k, "Timeout") # {} \/ ~(Bad(k) \subseteq C)

(* READY and FAILED are final: no Kustomization is reconciled again, and no  *)
(* late event or cancellation takes a status back.                          *)
FinalStatusStays ==
    [][\A r \in StatusKinds :
         status[r] \in {"Ready", "Failed"} => status'[r] = status[r]]_ksVars

(* In the end every Kustomization in the store is READY or FAILED, those in  *)
(* a circle too, unless its reconcile raises or the program is being        *)
(* stopped.                                                                *)
EveryKustomizationSettles ==
    <>[](\A k \in Kustomizations \intersect stored :
            \/ status[k] \in {"Ready", "Failed"}
            \/ phase[k] = "raised"
            \/ k \in cancelled
            \/ ~open)

(* From close() on nothing is built into the store and nothing gets READY,   *)
(* whatever the reconciles it cancels were doing.                           *)
ClosedMeansQuiet ==
    [][~open => /\ stored' = stored
                /\ \A k \in Kustomizations :
                      status'[k] = "Ready" => status[k] = "Ready"]_ksVars

(* Each reconcile sees its dependencies through DependencyResolution. *)
Resolution(k) == INSTANCE DependencyResolution WITH
    Deps <- Dependencies(k),
    available <- {d \in Dependencies(k) : Available(d)},
    outcome <- [d \in Dependencies(k) |-> outcome[k][d]],
    over <- phase[k] \in {"building", "done", "raised", "cancelled"}

ResolutionsImplemented ==
    /\ \A k \in Kustomizations : Resolution(k)!ResolutionInit
    /\ [][\A k \in Kustomizations :
            [Resolution(k)!ResolutionNext]_(Resolution(k)!resolutionVars)]_ksVars
=============================================================================
