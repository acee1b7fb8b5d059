----------------------------- MODULE Orchestrator -----------------------------
(***************************************************************************)
(* The Orchestrator (orchestrator/orchestrator.py), without the helm         *)
(* controller: bootstrap loads what is in the repository and puts it into   *)
(* the store, starts the KustomizationController and the SourceController,  *)
(* runs until no task is active or something failed, and stops them.       *)
(*                                                                         *)
(* The TaskService is what it makes of the tasks of the two controllers:     *)
(* those that run are active, and one that raised still is until its        *)
(* callback has logged the exception.  Watch tasks of a DependencyWaiter    *)
(* are not listed: their parent is active as long as they are.             *)
(***************************************************************************)
EXTENDS KustomizationController, FiniteSets, Naturals

CONSTANTS
    GitSources, SecretRef,  \* see SourceController
    Files,             \* the YAML and JSON files below the path of bootstrap
    Contents,          \* the Kustomizations and GitRepositories in each
    Broken,            \* those that cannot be read or parsed
    Synthetic,         \* the GitRepository made up when there is none
    RepoName           \* bootstrap_repo_name, or NoSource

VARIABLES
    enableOci, fetch, secret, fetchCancelled, tasks, closing,
    awaited,           \* these of the SourceController
    run,               \* where run() is
    result,            \* how it ended
    blockedOn,         \* the tasks block_till_done gathers
    logged,            \* raised tasks whose _task_done has run
    interrupted,       \* run() or stop() itself has been cancelled
    stopCancelled,     \* and what stop() awaits is to raise that
    escaped            \* an exception has left stop() once already

Sc == INSTANCE SourceController

sourceVars == <<enableOci, fetch, secret, fetchCancelled, tasks, closing, awaited>>
orVars == <<run, result, blockedOn, logged, interrupted, stopCancelled, escaped>>
vars   == <<ksVars, sourceVars, orVars>>

-----------------------------------------------------------------------------
(* ResourceLoader.load: every file once; one that cannot be parsed ends it. *)
LoadFails == Broken # {}
Found == UNION {Contents[f] : f \in Files}

FoundRepos == Found \intersect GitSources

(* _find_or_create_bootstrap_repo *)
BootstrapRepo ==
    IF RepoName # NoSource
    THEN IF RepoName \in FoundRepos THEN RepoName ELSE NoSource
    ELSE IF FoundRepos = {} THEN Synthetic
    ELSE IF Cardinality(FoundRepos) = 1 THEN CHOOSE r \in FoundRepos : TRUE ELSE NoSource

(* With one of these bootstrap raises before anything is stored. *)
BootstrapRaises == LoadFails \/ BootstrapRepo = NoSource

ASSUME OrchestratorAssumption ==
    /\ ~BootstrapRaises
    /\ GitSources \subseteq Sources
    /\ IsFiniteSet(Sources)
    /\ Synthetic \in GitSources
    /\ \A s \in GitSources : SecretRef[s] = NoSource
    /\ Loads = {(Found \intersect Kustomizations) \union {BootstrapRepo}}

(* bootstrap has filled the store and start() has made the controllers: the   *)
(* listener of the SourceController has been told of the bootstrap repo, and  *)
(* the watch of the KustomizationController is a task that has not begun.     *)
OrInit ==
    /\ KsInit
    /\ Sc!FetchInit
    /\ run = "starting"
    /\ result = "none"
    /\ blockedOn = {}
    /\ logged = {}
    /\ interrupted = FALSE
    /\ stopCancelled = FALSE
    /\ escaped = FALSE

-----------------------------------------------------------------------------
Raised == {k \in Kustomizations : phase[k] = "raised"}
            \union {s \in Sources : fetch[s] = "raised"}
Cancelled == {k \in Kustomizations : phase[k] = "cancelled"}
               \union {s \in Sources : fetch[s] = "cancelled"}
Unfinished == Active \union Sc!Fetching

(* MUTANT (SuccessMeansSettled): the fetches are background tasks. *)
ReconcilesOnly == Active \union (Raised \ logged)

ActiveTasks == Unfinished \union (Raised \ logged)

(* A step of the KustomizationController; the listener of the other one is   *)
(* told of the sources it adds.  Nobody's task runs between start() and the  *)
(* end of the first round of run(), which does not suspend.                 *)
OfKustomize(A) ==
    /\ run # "starting"
    /\ A
    /\ Sc!Listen((stored' \ stored) \intersect Sources)
    /\ UNCHANGED orVars

OfSource(A) ==
    /\ run # "starting"
    /\ A
    /\ UNCHANGED <<phase, outcome, cancelled, open, orVars>>

TaskDone(t) ==
    /\ t \in Raised \ logged
    /\ logged' = logged \union {t}
    /\ UNCHANGED <<ksVars, sourceVars, run, result, blockedOn>>
    /\ UNCHANGED <<interrupted, stopCancelled, escaped>>

-----------------------------------------------------------------------------
Finish(r) ==
    /\ run' = "stopping"
    /\ result' = r
    /\ blockedOn' = {}

HasFailedResources == \E r \in StatusKinds : status[r] = "Failed"

IsComplete == ActiveTasks = {}

(* One round of run(). *)
Round ==
    /\ IF HasFailedResources \/ interrupted THEN Finish("failure")
       ELSE IF IsComplete THEN Finish("success")
       ELSE run' = "blocked" /\ blockedOn' = ActiveTasks /\ UNCHANGED result
    /\ UNCHANGED <<ksVars, sourceVars, logged, interrupted, stopCancelled, escaped>>

(* The first, before any Kustomization has a task. *)
Start == run = "starting" /\ Round

(* Any other, after a sleep.  Who watches for added Kustomizations is woken    *)
(* before the task that added one is done, so nothing is left for it by now.  *)
Check ==
    /\ run = "checking"
    /\ Added = {}
    /\ Round

(* block_till_done raises as soon as one of its tasks has (and been logged,  *)
(* whose callback comes first) or was cancelled, and returns when all have  *)
(* ended well; cancelled itself, it waits for its tasks and raises then.    *)
BlockRaises == blockedOn \intersect (logged \union Cancelled) # {}
BlockReturns == blockedOn \intersect (Unfinished \union Raised) = {}

Unblock ==
    /\ run = "blocked"
    /\ \/ BlockRaises /\ Finish("failure")
       \/ /\ ~BlockRaises
          /\ BlockReturns
          /\ IF interrupted
             THEN Finish("failure")
             ELSE run' = "checking" /\ blockedOn' = {} /\ UNCHANGED result
    /\ UNCHANGED <<ksVars, sourceVars, logged, interrupted, stopCancelled, escaped>>

(* Somebody cancels run(): the tasks it waits for are cancelled.  Once: a     *)
(* second interrupt does not cancel but raises in the event loop.           *)
Interrupt ==
    /\ run \in {"checking", "blocked"}
    /\ ~interrupted
    /\ interrupted' = TRUE
    /\ cancelled' = cancelled \union (blockedOn \intersect Active)
    /\ Sc!CancelFetches(blockedOn \intersect Sc!Fetching)
    /\ UNCHANGED <<stored, status, artifact, phase, outcome, open>>
    /\ UNCHANGED <<enableOci, fetch, secret, tasks, closing, awaited>>
    /\ UNCHANGED <<run, result, blockedOn, logged, stopCancelled, escaped>>

-----------------------------------------------------------------------------
(* stop() runs the close() of both controllers, the KustomizationController's *)
(* first.  Those that raise are ignored.                                    *)
BeginStop ==
    /\ run = "stopping"
    /\ run' = "closing"
    /\ \/ open /\ Close
       \/ ~open /\ UNCHANGED ksVars
    /\ Sc!CloseFrom(1)
    /\ UNCHANGED <<enableOci, fetch, secret, tasks>>
    /\ UNCHANGED <<result, blockedOn, logged, interrupted, stopCancelled, escaped>>

(* An exception leaves stop() and run(); bootstrap calls stop() again, and an *)
(* exception out of that one is the program's.                              *)
LeaveStop ==
    /\ escaped' = TRUE
    /\ stopCancelled' = FALSE
    /\ blockedOn' = {}
    /\ IF escaped
       THEN run' = "stopped" /\ result' = "error"
       ELSE run' = "stopping" /\ result' = "failure"

(* With both closed, what is active still is waited for.  The close() of the  *)
(* SourceController ends with a block_till_done of its own, over reconciles   *)
(* that the other close() awaits as well; gather keeps its exception.  When   *)
(* the gather was cancelled it raises that once both have ended.            *)
BothClosed ==
    /\ run = "closing"
    /\ Active = {}
    /\ closing = "over"
    /\ \/ stopCancelled /\ LeaveStop
       \/ /\ ~stopCancelled
          /\ run' = "joining"
          /\ blockedOn' = ActiveTasks
          /\ UNCHANGED <<result, stopCancelled, escaped>>
    /\ UNCHANGED <<ksVars, sourceVars, logged, interrupted>>

(* An exception of a task it waits for leaves stop(), and so does its own     *)
(* CancelledError.                                                          *)
EndStop ==
    /\ run = "joining"
    /\ \/ /\ BlockRaises \/ (BlockReturns /\ stopCancelled)
          /\ LeaveStop
       \/ /\ ~BlockRaises
          /\ BlockReturns
          /\ ~stopCancelled
          /\ run' = "stopped"
          /\ blockedOn' = {}
          /\ UNCHANGED <<result, stopCancelled, escaped>>
    /\ UNCHANGED <<ksVars, sourceVars, logged, interrupted>>

(* Somebody cancels stop(), once at most and not when run() was.  The close() *)
(* of a controller that has not begun never does; those that wait for tasks   *)
(* they have cancelled cancel them again, swallow that and go on; the tasks   *)
(* that are waited for in the end are cancelled.                            *)
InterruptStop ==
    /\ ~interrupted
    /\ interrupted' = TRUE
    /\ \/ /\ run = "stopping"
          /\ LeaveStop
          /\ UNCHANGED fetchCancelled
       \/ /\ run \in {"closing", "joining"}
          /\ stopCancelled' = TRUE
          /\ Sc!CancelFetches(blockedOn \intersect Sc!Fetching)
          /\ UNCHANGED <<run, result, blockedOn, escaped>>
    /\ UNCHANGED <<ksVars, enableOci, fetch, secret, tasks, closing, awaited, logged>>

-----------------------------------------------------------------------------
RunStep == Start \/ Check \/ Unblock \/ BeginStop \/ BothClosed \/ EndStop

OrNext ==
    \/ OfKustomize(WatchAdded)
    \/ \E k \in Kustomizations : OfKustomize(WatchStep(k) \/ ReconcileStep(k))
    \/ \E s \in Sources : OfSource(Sc!FetchStep(s))
    \/ OfSource(Sc!ContinueSourceClose)
    \/ \E t \in Raised : TaskDone(t)
    \/ RunStep
    \/ Interrupt
    \/ InterruptStop

OrSpec == OrInit /\ [][OrNext]_vars

(* The event loop runs every task that can run; nobody need interrupt. *)
OrFairness ==
    /\ WF_vars(OfKustomize(WatchAdded))
    /\ \A k \in Kustomizations :
          WF_vars(OfKustomize(WatchStep(k))) /\ WF_vars(OfKustomize(ReconcileStep(k)))
    /\ \A s \in Sources : WF_vars(OfSource(Sc!FetchStep(s)))
    /\ WF_vars(OfSource(Sc!ContinueSourceClose))
    /\ \A t \in StatusKinds : WF_vars(TaskDone(t))
    /\ WF_vars(RunStep)

FairOrSpec == OrSpec /\ OrFairness
-----------------------------------------------------------------------------
(* A run that succeeded left nothing undone: no task runs, and everything    *)
(* that came into the store is READY, but for what raised, of which only    *)
(* the log knows.                                                          *)
SuccessMeansSettled ==
    result = "success" =>
        /\ Unfinished = {}
        /\ \A r \in StatusKinds \intersect stored : status[r] = "Ready" \/ r \in Raised

(* What close() leaves running are sources listed after one that raised, and *)
(* stop() waits for those; only an exception out of its second attempt ends *)
(* the program while tasks of it run.                                      *)
LeftRunningExplained ==
    /\ closing = "over" =>
          \A i \in DOMAIN tasks :
              tasks[i] \in Sc!Fetching => \E j \in 1 .. i : fetch[tasks[j]] = "raised"
    /\ run \in {"joining", "stopped"} => Active = {}
    /\ run = "stopped" /\ Unfinished # {} => result = "error"

(* However the tasks end, and whoever interrupts it, bootstrap ends. *)
RunEnds == run = "starting" ~> run = "stopped"

(* What the SourceController and the Orchestrator do to the store and the    *)
(* reconciles is what KustomizationController assumes of its environment.   *)
KustomizationsImplemented == KsInit /\ [][KsNext]_ksVars

(* run: "Run the orchestrator until all work is complete."  Does not hold: a *)
(* fetch or a reconcile that raises while nobody gathers it is only logged, *)
(* and what it was about stays without a status.                           *)
CompleteMeansDecided ==
    result = "success" =>
        \A r \in StatusKinds \intersect stored : status[r] \in {"Ready", "Failed"}
=============================================================================
