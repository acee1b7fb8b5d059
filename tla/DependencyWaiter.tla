-------------------------- MODULE DependencyWaiter --------------------------
(***************************************************************************)
(* A DependencyWaiter (store/watcher.py) over the store of InMemoryStore,   *)
(* with the coroutine that consumes its events: the dependency phase of a   *)
(* Kustomization's reconcile (kustomize_controller/controller.py).         *)
(*                                                                         *)
(* Each dependency d is watched by a task of its own, the store's waiter d; *)
(* the other waiters belong to other parents.  The consumer's coroutine and *)
(* the watch() generator it iterates over are one thread of control, here   *)
(* `gen`.  The parent's own status updates are not modelled here, only the  *)
(* verdict of the phase; nor is a second interrupt of a consumer that is    *)
(* already waiting for the tasks it cancelled.                             *)
(***************************************************************************)
EXTENDS InMemoryStore, FiniteSets, FiniteSetsExt

CONSTANTS
    Deps,    \* the resources the parent may depend on
    Crowds   \* bound: waiters of other parents only run beside a parent with
             \* one of these sets of dependencies, and wait for a member of one

Others == Waiters \ Deps

ASSUME WaiterAssumption ==
    /\ Deps \subseteq Resources \cap Waiters
    /\ Deps \subseteq Cancellable
    /\ IsFiniteSet(Deps)

VARIABLES
    tracked,      \* the keys of _dependencies
    task,         \* the task in _dependencies: "none", "created", "running", "done",
                  \* or "unrun", which is done without having begun
    resolution,   \* _resolutions: "none" or a final state
    queue,        \* _event_queue: the dependencies whose events it holds
    expired,      \* tasks whose asyncio.timeout has fired
    aborted,      \* tasks somebody called cancel() on
    gen,          \* "idle", "waiting", "reaping" or "ended"
    wanted,       \* the dependencies added before watch()
    resolved,     \* resolved_count
    interrupts,   \* what has hit the waiting consumer: its timeout, a cancellation
    verdict,      \* how the consumer's dependency phase ended
    achieved      \* history: resources that have been stored, or READY, as required

taskVars     == <<tracked, task, resolution, queue, expired, aborted>>
consumerVars == <<gen, wanted, resolved, interrupts, verdict>>
waitVars     == <<vars, taskVars, consumerVars, achieved>>

Running == {d \in Deps : task[d] = "running"}
Achieved(r) == IF r \in StatusKinds THEN status[r] = "Ready" ELSE InStore(r)

(* A task starts in the order of the event loop, and a step of the consumer *)
(* scheduled by one of them, by a timer or by a cancellation comes later.   *)
AllStarted == \A d \in Deps : task[d] # "created"

-----------------------------------------------------------------------------
WaitInit ==
    /\ Init
    /\ \A d \in Deps : target[d] = d
    /\ \A w \in Others : target[w] \in UNION Crowds
    /\ tracked = {}
    /\ task = [d \in Deps |-> "none"]
    /\ resolution = [d \in Deps |-> "none"]
    /\ queue = <<>>
    /\ expired = {}
    /\ aborted = {}
    /\ gen = "idle"
    /\ wanted = {}
    /\ resolved = 0
    /\ interrupts = {}
    /\ verdict = "none"
    /\ achieved = {}

(* The steps of the rest of the program. *)
StoreWrite ==
    /\ Writes
    /\ achieved' = achieved \union {r \in Resources : Achieved(r)'}
    /\ UNCHANGED <<taskVars, consumerVars>>

OtherWaiterStep(w) ==
    /\ gen = "idle" \/ wanted \in Crowds
    /\ Call(w) \/ Resume(w) \/ Cancel(w)
    /\ UNCHANGED <<taskVars, consumerVars, achieved>>

-----------------------------------------------------------------------------
(* watch(): a task for each dependency; the generator then awaits the queue. *)
(* Without dependencies it ends at once, and all_ready is false.           *)
Watch(D) ==
    /\ gen = "idle"
    /\ D \in Crowds \/ \A w \in Others : pc[w] = "idle"
    /\ wanted' = D
    /\ tracked' = D
    /\ task' = [d \in Deps |-> IF d \in D THEN "created" ELSE "none"]
    /\ gen' = IF D = {} THEN "ended" ELSE "waiting"
    /\ verdict' = IF D = {} THEN "failed" ELSE "none"
    /\ UNCHANGED <<vars, resolution, queue, expired, aborted, resolved, interrupts,
                   achieved>>

(* The outcome of a store call that ended `how`.  A timeout turns into      *)
(* TIMEOUT unless somebody else cancelled the task as well.                *)
Outcome(d, how) ==
    IF how = "returned" THEN "Ready"
    ELSE IF how \in {"failed", "notfound"} THEN "Failed"
    ELSE IF d \in aborted THEN "Cancelled" ELSE "Timeout"

(* MUTANT (EventsConserved): the task leaves its entry in _dependencies. *)
SettleKeepsEntry(d, o) ==
    /\ resolution' = [resolution EXCEPT ![d] = o]
    /\ queue' = Append(queue, d)
    /\ task' = [task EXCEPT ![d] = "done"]
    /\ UNCHANGED tracked

(* The tail of _watch_single_dependency, which never suspends. *)
Settle(d, o) ==
    /\ resolution' = [resolution EXCEPT ![d] = o]
    /\ queue' = Append(queue, d)
    /\ tracked' = tracked \ {d}
    /\ task' = [task EXCEPT ![d] = "done"]

StartTask(d) ==
    /\ task[d] = "created"
    /\ IF d \in StatusKinds
       THEN WatchReadyDecided(d) \/ WatchReadyWaits(d)
       ELSE WatchExistsFound(d) \/ WatchExistsWaits(d)
    /\ \/ /\ pc'[d] \in {"exists", "ready"}
          /\ task' = [task EXCEPT ![d] = "running"]
          /\ UNCHANGED <<tracked, resolution, queue>>
       \/ /\ pc'[d] \notin {"exists", "ready"}
          /\ Settle(d, Outcome(d, pc'[d]))
    /\ UNCHANGED <<expired, aborted, consumerVars, achieved>>

FinishTask(d) ==
    /\ task[d] = "running"
    /\ Resume(d)
    /\ Settle(d, Outcome(d, pc'[d]))
    /\ UNCHANGED <<expired, aborted, consumerVars, achieved>>

(* task.cancel(), as the store sees it. *)
RequestCancel(D) ==
    /\ cancelling' = cancelling \union D
    /\ UNCHANGED <<storeVars, listenerVars, pc, target, eventVars, result, watcherVars>>

ExpireTask(d) ==
    /\ d \in Running \ expired
    /\ expired' = expired \union {d}
    /\ RequestCancel({d})
    /\ UNCHANGED <<tracked, task, resolution, queue, aborted, consumerVars, achieved>>

(* From outside: cancelling block_till_done cancels every task it awaits. *)
CancelTask(d) ==
    /\ d \in Running \ aborted
    /\ aborted' = aborted \union {d}
    /\ RequestCancel({d})
    /\ UNCHANGED <<tracked, task, resolution, queue, expired, consumerVars, achieved>>

(* The same cancels its parent, and tasks that have not begun: one of these   *)
(* never does, and leaves no event, no outcome and its entry.               *)
NeverStart(d) ==
    /\ task[d] = "created"
    /\ "cancel" \in interrupts
    /\ task' = [task EXCEPT ![d] = "unrun"]
    /\ aborted' = aborted \union {d}
    /\ UNCHANGED <<vars, tracked, resolution, queue, expired, consumerVars, achieved>>

-----------------------------------------------------------------------------
(* The consumer.  Its loop body does not suspend on an event it goes on     *)
(* after, so it takes the events in the queue in one go.                   *)
(* MUTANT (CancellationSwallowedOnlyByFailure): CANCELLED counts as a failure. *)
UnsuccessfulEvents == {i \in DOMAIN queue : resolution[queue[i]] # "Ready"}

BadEvents == {i \in DOMAIN queue : resolution[queue[i]] \in {"Failed", "Timeout"}}

(* MUTANT (ReadyMeansAllAchieved): cancelled dependencies are not counted. *)
NoneFailed ==
    /\ tracked = {}
    /\ \E d \in Deps : resolution[d] # "none"
    /\ \A d \in Deps : resolution[d] \in {"none", "Ready", "Cancelled"}

(* get_summary().all_ready *)
AllReady ==
    /\ tracked = {}
    /\ \E d \in Deps : resolution[d] # "none"
    /\ \A d \in Deps : resolution[d] \in {"none", "Ready"}

(* MUTANT (ResolutionImplemented): cancelled tasks are not awaited. *)
ReapWithoutWaiting ==
    /\ RequestCancel(Running)
    /\ aborted' = aborted \union Running
    /\ tracked' = tracked \cap Running
    /\ gen' = "ended"

(* cancel_pending_watches up to its await: running tasks are cancelled, the *)
(* other entries deleted.                                                  *)
BeginReaping ==
    /\ RequestCancel(Running)
    /\ aborted' = aborted \union Running
    /\ tracked' = tracked \cap Running
    /\ gen' = "reaping"

(* MUTANT (WatchCompletes): the loop waits for one event more. *)
LoopEndsLate(n) == n > Cardinality(wanted)

(* The loop goes on while fewer events than watches have come, and ends     *)
(* early when nothing is left to wait for.                                 *)
LoopEnds(n) == n >= Cardinality(wanted) \/ tracked = {}

TakeEvents ==
    /\ gen = "waiting"
    /\ interrupts = {}
    /\ AllStarted
    /\ queue # <<>>
    /\ BadEvents = {}
    /\ resolved' = resolved + Len(queue)
    /\ queue' = <<>>
    /\ IF LoopEnds(resolved')
       THEN /\ gen' = "ended"
            /\ verdict' = IF AllReady THEN "ready" ELSE "failed"
       ELSE UNCHANGED <<gen, verdict>>
    /\ UNCHANGED <<vars, tracked, task, resolution, expired, aborted, wanted,
                   interrupts, achieved>>

(* The first FAILED or TIMEOUT event: the parent is FAILED, the other       *)
(* watches are cancelled.                                                  *)
TakeBadEvent ==
    /\ gen = "waiting"
    /\ interrupts = {}
    /\ AllStarted
    /\ BadEvents # {}
    /\ resolved' = resolved + Min(BadEvents) - 1
    /\ queue' = SubSeq(queue, Min(BadEvents) + 1, Len(queue))
    /\ verdict' = "failed"
    /\ BeginReaping
    /\ UNCHANGED <<task, resolution, expired, wanted, interrupts, achieved>>

(* The consumer's own timeout, longer than any watch's, or a cancellation.  *)
Interrupt(i) ==
    /\ gen = "waiting"
    /\ i \notin interrupts
    /\ i = "timeout" => Running \subseteq expired
    /\ interrupts' = interrupts \union {i}
    /\ UNCHANGED <<vars, taskVars, gen, wanted, resolved, verdict, achieved>>

TakeInterrupt ==
    /\ gen = "waiting"
    /\ interrupts # {}
    /\ AllStarted
    /\ BeginReaping
    /\ UNCHANGED <<task, resolution, queue, expired, wanted, resolved, interrupts,
                   verdict, achieved>>

(* The rest of cancel_pending_watches, once every task it cancelled is done. *)
(* An interrupted consumer is then handed the events left in the queue,      *)
(* returns at a FAILED or TIMEOUT one, and is interrupted otherwise.         *)
EndReaping ==
    /\ gen = "reaping"
    /\ Running = {}
    /\ resolution' = [d \in Deps |->
                        IF d \in tracked /\ resolution[d] = "none"
                        THEN "Cancelled" ELSE resolution[d]]
    /\ tracked' = {}
    /\ queue' = <<>>
    /\ gen' = "ended"
    /\ verdict' = IF /\ verdict = "none"
                     /\ BadEvents = {}
                     /\ "cancel" \in interrupts
                  THEN "cancelled" ELSE "failed"
    /\ UNCHANGED <<vars, task, expired, aborted, wanted, resolved, interrupts, achieved>>

-----------------------------------------------------------------------------
ConsumerStep == TakeEvents \/ TakeBadEvent \/ TakeInterrupt \/ EndReaping

WaitNext ==
    \/ StoreWrite
    \/ \E w \in Others : OtherWaiterStep(w)
    \/ \E D \in SUBSET Deps : Watch(D)
    \/ \E d \in Deps : StartTask(d) \/ FinishTask(d) \/ NeverStart(d)
    \/ \E d \in Deps : ExpireTask(d) \/ CancelTask(d)
    \/ \E i \in {"timeout", "cancel"} : Interrupt(i)
    \/ ConsumerStep

WaitSpec == WaitInit /\ [][WaitNext]_waitVars

(* The event loop runs what is scheduled, and a timer that is due fires. *)
WaitFairness ==
    /\ \A d \in Deps : WF_waitVars(StartTask(d) \/ FinishTask(d))
    /\ \A d \in Deps : WF_waitVars(ExpireTask(d))
    /\ WF_waitVars(ConsumerStep)

FairWaitSpec == WaitSpec /\ WaitFairness
-----------------------------------------------------------------------------
(* The parent goes on to build only if each dependency it named was there:  *)
(* none was dropped from the summary, none is still pending.               *)
ReadyMeansAllAchieved ==
    verdict = "ready" => /\ \A d \in wanted : resolution[d] = "Ready"
                         /\ wanted \subseteq achieved

(* Every event counts once: what was delivered, what is queued and what is  *)
(* still watched add up, so the loop neither stops early nor waits for an   *)
(* event that will not come.                                               *)
EventsConserved ==
    gen = "waiting" =>
        /\ resolved + Len(queue) + Cardinality(tracked) = Cardinality(wanted)
        /\ IsInjective(queue)

(* A cancelled reconcile ends as cancelled, unless the drain of its queue   *)
(* meets a dependency that failed or timed out by itself.                  *)
CancellationSwallowedOnlyByFailure ==
    gen = "ended" /\ "cancel" \in interrupts /\ verdict # "cancelled" =>
        \E d \in wanted : resolution[d] \in {"Failed", "Timeout"}

(* A dependency that is reported as TIMEOUT although it is there had its    *)
(* answer posted before its timer fired and was cancelled before it ran, or *)
(* has lost its wakeup to a cancelled waiter of another parent.            *)
TimeoutExplained ==
    [][\A d \in Deps :
         resolution[d] # "Timeout" /\ resolution'[d] = "Timeout" /\ Achieved(d) =>
            event[d] \in isSet \/ result[d] # "None" \/ LostToCancellation(d)]_waitVars

(* watch() completes (watcher.py:248): every watch ends, by the timeout of  *)
(* each dependency if nothing else happens.                                *)
WatchCompletes == (gen = "waiting") ~> (gen = "ended")

(* A DependencyWaiter implements DependencyResolution; what was cancelled      *)
(* before it began counts as CANCELLED.                                     *)
Resolution == INSTANCE DependencyResolution WITH
    available <- achieved \cap Deps,
    outcome <- [d \in Deps |-> IF resolution[d] # "none" THEN resolution[d]
                               ELSE IF task[d] = "unrun" THEN "Cancelled"
                               ELSE IF task[d] = "none" THEN "Unwatched" ELSE "Pending"],
    over <- gen = "ended"

ResolutionImplemented == Resolution!ResolutionSpec
=============================================================================
