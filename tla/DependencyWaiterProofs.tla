------------------------ MODULE DependencyWaiterProofs ------------------------
(* What holds of a DependencyWaiter for any dependencies and any waiters of   *)
(* other parents beside it.  Most of it rests on WaitInv: how far a task is   *)
(* says what the store, the outcomes and the entries know of its dependency, *)
(* the events add up, and the phase of the consumer says what is left.       *)
EXTENDS DependencyWaiter, InMemoryStoreProofs, FiniteSetTheorems

TaskTypes ==
    /\ task \in [Deps -> {"none", "created", "running", "unrun", "done"}]
    /\ resolution \in [Deps -> {"none", "Ready", "Failed", "Timeout", "Cancelled"}]
    /\ gen \in {"idle", "waiting", "reaping", "ended"}
    /\ verdict \in {"none", "ready", "failed", "cancelled"}
    /\ gen \in {"idle", "waiting"} => resolved \in Nat

(* A task keeps its entry until it has settled its dependency, or, if it never *)
(* began, until the watches are cancelled.                                 *)
Entered(d) ==
    \/ task[d] \in {"created", "running"}
    \/ task[d] = "unrun" /\ gen = "waiting"

TasksKept ==
    /\ wanted = {d \in Deps : task[d] # "none"}
    /\ tracked = {d \in Deps : Entered(d)}
    /\ \A d \in Deps : resolution[d] = "none" <=> task[d] # "done"

(* The task of a dependency is the store's waiter for it. *)
WaiterOf(d) ==
    /\ target[d] = d
    /\ task[d] \in {"none", "created", "unrun"} => pc[d] = "idle"
    /\ task[d] = "running" => pc[d] = IF d \in StatusKinds THEN "ready" ELSE "exists"
    /\ task[d] = "done" => pc[d] \notin {"idle", "exists", "ready"}

TasksWait == \A d \in Deps : WaiterOf(d)

(* Where the consumer is. *)
ConsumerInv ==
    /\ gen = "idle" => wanted = {} /\ queue = <<>> /\ resolved = 0
    /\ gen \in {"idle", "waiting"} => verdict = "none"
    /\ gen = "idle" => interrupts = {}
    /\ (\E d \in Deps : task[d] = "unrun") => "cancel" \in interrupts
    /\ gen = "reaping" => AllStarted /\ verdict \in {"none", "failed"}
    /\ gen = "reaping" /\ verdict = "failed" => interrupts = {}
    /\ gen = "ended" => tracked = {}
    /\ verdict = "ready" => \A d \in wanted : resolution[d] = "Ready"

(* The events in the queue are of tasks that are done.  Of the queue a failed *)
(* consumer leaves behind nobody reads.                                    *)
QueueInv ==
    gen \in {"idle", "waiting", "reaping"} /\ verdict = "none" =>
        queue \in Seq({d \in Deps : task[d] = "done"})

(* What was READY or stored at some time is in the history. *)
HistoryInv ==
    /\ \A r \in Resources : Achieved(r) => r \in achieved
    /\ \A d \in Deps : d \in StatusKinds /\ result[d] = "Ready" => d \in achieved
    /\ \A d \in Deps : resolution[d] = "Ready" => d \in achieved

StoreInv == StoreTypeOK /\ ExistenceCore /\ ReadyNeverMissed

TaskInv == TaskTypes /\ TasksKept /\ TasksWait

WaitInv ==
    /\ StoreInv /\ TaskInv /\ ConsumerInv /\ QueueInv /\ HistoryInv
    /\ EventsConserved /\ CancellationSwallowedOnlyByFailure

-----------------------------------------------------------------------------
(* To the store a step is one of its own, or a cancellation of several tasks. *)
LEMMA StoreSteps ==
    ASSUME [WaitNext]_waitVars
    PROVE  [Next]_vars \/ \E D \in SUBSET Running : RequestCancel(D)
  <1>1. CASE StoreWrite
    BY <1>1 DEF StoreWrite, Next
  <1>2. ASSUME NEW w \in Others, OtherWaiterStep(w) PROVE Next
    BY <1>2 DEF OtherWaiterStep, Next, Others
  <1>3. ASSUME NEW d \in Deps, StartTask(d) \/ FinishTask(d) PROVE Next
    <2>1. Call(d) \/ Resume(d)
      BY <1>3 DEF StartTask, FinishTask, Call
    <2>2. QED
      BY <2>1, WaiterAssumption DEF Next
  <1>4. ASSUME NEW d \in Deps, ExpireTask(d) \/ CancelTask(d)
        PROVE  \E D \in SUBSET Running : RequestCancel(D)
    <2>1. {d} \in SUBSET Running /\ RequestCancel({d})
      BY <1>4 DEF ExpireTask, CancelTask
    <2>2. QED
      BY <2>1
  <1>5. CASE TakeBadEvent \/ TakeInterrupt
    BY <1>5 DEF TakeBadEvent, TakeInterrupt, BeginReaping
  <1>6. ASSUME NEW D \in SUBSET Deps, Watch(D) PROVE UNCHANGED vars
    BY <1>6 DEF Watch
  <1>7. ASSUME NEW i \in {"timeout", "cancel"}, Interrupt(i) PROVE UNCHANGED vars
    BY <1>7 DEF Interrupt
  <1>8. CASE TakeEvents \/ EndReaping
    BY <1>8 DEF TakeEvents, EndReaping
  <1>9. (\E d \in Deps : NeverStart(d)) \/ UNCHANGED waitVars => UNCHANGED vars
    BY DEF NeverStart, waitVars
  <1>10. QED
    BY <1>1, <1>2, <1>3, <1>4, <1>5, <1>6, <1>7, <1>8, <1>9 DEF WaitNext, ConsumerStep

LEMMA CancelKeepsStore ==
    ASSUME StoreInv, TasksWait, NEW D \in SUBSET Running, RequestCancel(D)
    PROVE  StoreInv'
  <1>1. /\ UNCHANGED <<objects, status, artifacts, listening, heard, told>>
        /\ UNCHANGED <<pc, target, event, existenceWaiters, isSet, result>>
        /\ cancelling' = cancelling \union D
    BY DEF RequestCancel, storeVars, listenerVars, eventVars
  <1>2. \A d \in Running : d \in Cancellable /\ d \in Waiters /\ Suspended(d)
    BY WaiterAssumption DEF Running, TasksWait, WaiterOf, Suspended
  <1>3. StoreTypeOK'
    BY <1>1, <1>2 DEF StoreInv, StoreTypeOK, Suspended
  <1>4. ExistenceCore' /\ ReadyNeverMissed'
    BY <1>1 DEF StoreInv, ExistenceCore, EventsWellFormed, SetMeansStored, WaiterReachable,
                LostToCancellation, InStore, ReadyNeverMissed
  <1>5. QED
    BY <1>3, <1>4 DEF StoreInv

LEMMA StoreKept == ASSUME StoreInv, TasksWait, [WaitNext]_waitVars PROVE StoreInv'
  <1>1. CASE [Next]_vars
    BY <1>1, NextStoreType, NextExistence, NextReadyNeverMissed DEF StoreInv
  <1>2. QED
    BY <1>1, StoreSteps, CancelKeepsStore

-----------------------------------------------------------------------------
(* A step is quiet if it leaves the tasks and the consumer where they are. *)
Quiet ==
    /\ UNCHANGED <<tracked, task, resolution, queue, consumerVars>>
    /\ UNCHANGED target
    /\ \A d \in Deps : pc'[d] = pc[d]

LEMMA WritesQuiet == ASSUME Writes PROVE UNCHANGED <<pc, target>>
  BY DEF Writes, AddObject, UpdateStatus, SetArtifact, waiterVars

LEMMA OtherStepOnStore ==
    ASSUME StoreInv, NEW w \in Waiters, Call(w) \/ Resume(w) \/ Cancel(w)
    PROVE  /\ UNCHANGED <<objects, status, target, result>>
           /\ \A v \in Waiters \ {w} : pc'[v] = pc[v]
  <1>1. CASE Cancel(w)
    BY <1>1 DEF Cancel, storeVars
  <1>2. CASE Call(w) \/ Resume(w)
    <2>1. ExistenceStep(w)
      BY <1>2 DEF Call, Resume, ExistenceStep
    <2>2. UNCHANGED objects
      BY <1>2 DEF Call, Resume, WatchExistsFound, WatchExistsWaits, WatchReadyDecided,
                  WatchReadyWaits, ExistsResumes, ExistsCancelled, ReadyResumes, ReadyCancelled,
                  storeVars
    <2>3. QED
      BY <2>1, <2>2, WaiterStepReady DEF StoreInv
  <1>3. QED
    BY <1>1, <1>2

LEMMA QuietSteps ==
    ASSUME StoreInv,
           \/ StoreWrite
           \/ \E w \in Others : OtherWaiterStep(w)
           \/ \E d \in Deps : ExpireTask(d) \/ CancelTask(d)
           \/ UNCHANGED waitVars
    PROVE  Quiet
  <1>1. CASE StoreWrite
    BY <1>1, WritesQuiet DEF StoreWrite, Quiet, taskVars
  <1>2. ASSUME NEW w \in Others, OtherWaiterStep(w) PROVE Quiet
    <2>1. UNCHANGED target /\ \A v \in Waiters \ {w} : pc'[v] = pc[v]
      BY <1>2, OtherStepOnStore DEF OtherWaiterStep, Others
    <2>2. Deps \subseteq Waiters \ {w}
      BY WaiterAssumption DEF Others
    <2>3. QED
      BY <1>2, <2>1, <2>2 DEF OtherWaiterStep, Quiet, taskVars
  <1>3. ASSUME NEW d \in Deps, ExpireTask(d) \/ CancelTask(d) PROVE Quiet
    BY <1>3 DEF ExpireTask, CancelTask, RequestCancel, Quiet
  <1>4. CASE UNCHANGED waitVars
    BY <1>4 DEF waitVars, vars, waiterVars, taskVars, Quiet
  <1>5. QED
    BY <1>1, <1>2, <1>3, <1>4

-----------------------------------------------------------------------------
(* A task's own step: it waits in the store from now on, or settles its     *)
(* dependency as the store's answer says.                                  *)
TaskSuspends(d) ==
    /\ task[d] = "created"
    /\ pc'[d] = IF d \in StatusKinds THEN "ready" ELSE "exists"
    /\ task' = [task EXCEPT ![d] = "running"]
    /\ UNCHANGED <<tracked, resolution, queue>>

Outcomes == {"Ready", "Failed", "Timeout", "Cancelled"}

TaskSettles(d, o) ==
    /\ Settle(d, o)
    /\ pc'[d] \notin {"idle", "exists", "ready"}
    /\ o = "Ready" => Achieved(d) \/ (d \in StatusKinds /\ result[d] = "Ready")

LEMMA OutcomeOf ==
    ASSUME NEW d \in Deps,
           NEW how \in {"returned", "failed", "notfound", "cancelled"}
    PROVE  /\ Outcome(d, how) \in Outcomes
           /\ Outcome(d, how) = "Ready" => how = "returned"
           /\ Outcome(d, how) = "Timeout" => how = "cancelled"
  BY DEF Outcome, Outcomes

LEMMA CallAnswers ==
    ASSUME StoreTypeOK, NEW d \in Deps, target[d] = d, StartTask(d),
           pc'[d] \notin {"exists", "ready"}
    PROVE  /\ pc'[d] \in {"returned", "failed"}
           /\ pc'[d] = "returned" => Achieved(d)
  <1>1. d \in Waiters
    BY WaiterAssumption
  <1>2. CASE WatchReadyDecided(d) /\ d \in StatusKinds
    BY <1>1, <1>2 DEF WatchReadyDecided, StoreTypeOK, Achieved
  <1>3. CASE WatchExistsFound(d) /\ d \notin StatusKinds
    BY <1>1, <1>3 DEF WatchExistsFound, StoreTypeOK, Achieved
  <1>4. ~WatchReadyWaits(d) /\ ~WatchExistsWaits(d)
    BY <1>1 DEF WatchReadyWaits, WatchExistsWaits, StoreTypeOK
  <1>5. QED
    BY <1>2, <1>3, <1>4 DEF StartTask

LEMMA CallWaits ==
    ASSUME StoreTypeOK, NEW d \in Deps, target[d] = d, StartTask(d),
           pc'[d] \in {"exists", "ready"}
    PROVE  pc'[d] = IF d \in StatusKinds THEN "ready" ELSE "exists"
  <1>1. d \in Waiters
    BY WaiterAssumption
  <1>2. ~WatchReadyDecided(d) /\ ~WatchExistsFound(d)
    BY <1>1 DEF WatchReadyDecided, WatchExistsFound, StoreTypeOK
  <1>3. CASE WatchReadyWaits(d) /\ d \in StatusKinds
    BY <1>1, <1>3 DEF WatchReadyWaits, StoreTypeOK
  <1>4. CASE WatchExistsWaits(d) /\ d \notin StatusKinds
    BY <1>1, <1>4 DEF WatchExistsWaits, StoreTypeOK
  <1>5. QED
    BY <1>2, <1>3, <1>4 DEF StartTask

LEMMA ResumeAnswers ==
    ASSUME StoreTypeOK, NEW d \in Deps, WaiterOf(d), FinishTask(d)
    PROVE  /\ pc'[d] \in {"returned", "failed", "notfound", "cancelled"}
           /\ pc'[d] = "returned" =>
                Achieved(d) \/ (d \in StatusKinds /\ result[d] = "Ready")
           /\ pc'[d] = "cancelled" => d \in cancelling
  <1>1. /\ d \in Waiters
        /\ pc \in [Waiters -> {"idle", "exists", "ready", "returned", "failed",
                              "cancelled", "notfound"}]
    BY WaiterAssumption DEF StoreTypeOK
  <1>2. /\ target[d] = d
        /\ pc[d] = IF d \in StatusKinds THEN "ready" ELSE "exists"
    BY DEF FinishTask, WaiterOf
  <1>3. CASE ExistsResumes(d)
    BY <1>1, <1>2, <1>3 DEF ExistsResumes, Achieved
  <1>4. CASE ExistsCancelled(d)
    BY <1>1, <1>2, <1>4 DEF ExistsCancelled
  <1>5. CASE ReadyResumes(d)
    BY <1>1, <1>2, <1>5 DEF ReadyResumes
  <1>6. CASE ReadyCancelled(d)
    BY <1>1, <1>2, <1>6 DEF ReadyCancelled
  <1>7. QED
    BY <1>3, <1>4, <1>5, <1>6 DEF FinishTask, Resume

LEMMA TaskSteps ==
    ASSUME StoreInv, TaskInv, NEW d \in Deps, StartTask(d) \/ FinishTask(d)
    PROVE  /\ UNCHANGED <<objects, status, target, result>>
           /\ UNCHANGED <<consumerVars, achieved>>
           /\ \A e \in Deps \ {d} : pc'[e] = pc[e]
           /\ task[d] \in {"created", "running"}
           /\ TaskSuspends(d) \/ \E o \in Outcomes : TaskSettles(d, o)
  <1>1. Call(d) \/ Resume(d)
    BY DEF StartTask, FinishTask, Call
  <1>2. /\ UNCHANGED <<objects, status, target, result>>
        /\ \A e \in Deps \ {d} : pc'[e] = pc[e]
    BY <1>1, OtherStepOnStore, WaiterAssumption
  <1>3. WaiterOf(d) /\ target[d] = d
    BY DEF TaskInv, TasksWait, WaiterOf
  <1>4. CASE StartTask(d) /\ pc'[d] \in {"exists", "ready"}
    <2>1. TaskSuspends(d)
      BY <1>3, <1>4, CallWaits DEF StartTask, TaskSuspends, StoreInv
    <2>2. QED
      BY <1>2, <1>4, <2>1 DEF StartTask
  <1>5. CASE StartTask(d) /\ pc'[d] \notin {"exists", "ready"}
    <2>1. /\ pc'[d] \in {"returned", "failed"}
          /\ pc'[d] = "returned" => Achieved(d)
      BY <1>3, <1>5, CallAnswers DEF StoreInv
    <2>2. Settle(d, Outcome(d, pc'[d]))
      BY <1>5 DEF StartTask
    <2>3. TaskSettles(d, Outcome(d, pc'[d])) /\ Outcome(d, pc'[d]) \in Outcomes
      BY <2>1, <2>2, OutcomeOf DEF TaskSettles
    <2>4. QED
      BY <1>2, <1>5, <2>3 DEF StartTask
  <1>6. CASE FinishTask(d)
    <2>1. /\ pc'[d] \in {"returned", "failed", "notfound", "cancelled"}
          /\ pc'[d] = "returned" =>
               Achieved(d) \/ (d \in StatusKinds /\ result[d] = "Ready")
      BY <1>3, <1>6, ResumeAnswers DEF StoreInv
    <2>2. Settle(d, Outcome(d, pc'[d]))
      BY <1>6 DEF FinishTask
    <2>3. TaskSettles(d, Outcome(d, pc'[d])) /\ Outcome(d, pc'[d]) \in Outcomes
      BY <2>1, <2>2, OutcomeOf DEF TaskSettles
    <2>4. QED
      BY <1>2, <1>6, <2>3 DEF FinishTask
  <1>7. QED
    BY <1>4, <1>5, <1>6

-----------------------------------------------------------------------------
(* A task that never begins: its consumer has been cancelled and waits.     *)
LEMMA NeverStartSteps ==
    ASSUME TaskInv, ConsumerInv, NEW d \in Deps, NeverStart(d)
    PROVE  /\ gen = "waiting" /\ task[d] = "created" /\ "cancel" \in interrupts
           /\ task' = [task EXCEPT ![d] = "unrun"]
           /\ UNCHANGED <<tracked, resolution, queue, consumerVars, achieved>>
           /\ UNCHANGED <<objects, status, target, result, pc>>
  <1>1. task[d] = "created" /\ d \in tracked
    BY DEF NeverStart, TaskInv, TasksKept, Entered
  <1>2. gen = "waiting"
    BY <1>1 DEF TaskInv, TaskTypes, TasksKept, ConsumerInv, AllStarted
  <1>3. QED
    BY <1>1, <1>2 DEF NeverStart, vars, storeVars, waiterVars

(* The consumer's own steps.  Once every task has started or never will,    *)
(* what stays after cancelling are the entries of running tasks.           *)
ReapStep == TakeBadEvent \/ TakeInterrupt

LEMMA ReapSteps ==
    ASSUME TasksKept, TaskTypes, ReapStep
    PROVE  /\ gen = "waiting" /\ gen' = "reaping" /\ AllStarted
           /\ tracked' = Running
           /\ UNCHANGED <<task, resolution, wanted, interrupts, achieved>>
           /\ UNCHANGED <<objects, status, target, result, pc>>
  <1>1. AllStarted /\ BeginReaping
    BY DEF ReapStep, TakeBadEvent, TakeInterrupt
  <1>2. Running \subseteq tracked
    BY DEF TasksKept, Entered, Running
  <1>3. tracked' = Running
    BY <1>1, <1>2 DEF BeginReaping
  <1>4. UNCHANGED <<objects, status, target, result, pc>>
    BY <1>1 DEF BeginReaping, RequestCancel, storeVars
  <1>5. QED
    BY <1>1, <1>3, <1>4 DEF ReapStep, TakeBadEvent, TakeInterrupt, BeginReaping

LEMMA EndReapingStep ==
    ASSUME TasksKept, TaskTypes, ConsumerInv, EndReaping
    PROVE  /\ tracked = {}
           /\ UNCHANGED <<tracked, task, resolution, wanted, interrupts, achieved, vars>>
  <1>1. Running = {} /\ AllStarted
    BY DEF EndReaping, ConsumerInv
  <1>2. tracked = {}
    BY <1>1 DEF EndReaping, TasksKept, Entered, AllStarted, Running
  <1>3. resolution' = resolution
    BY <1>2 DEF EndReaping, TaskTypes
  <1>4. QED
    BY <1>2, <1>3 DEF EndReaping

(* What the consumer takes leaves the tasks and their outcomes alone. *)
TasksAlone ==
    /\ UNCHANGED <<task, resolution, wanted, target>>
    /\ \A d \in Deps : pc'[d] = pc[d]

LEMMA ConsumerSteps ==
    ASSUME TasksKept, TaskTypes, ConsumerInv,
           \/ ConsumerStep
           \/ \E i \in {"timeout", "cancel"} : Interrupt(i)
    PROVE  TasksAlone
  <1>1. CASE ReapStep
    BY <1>1, ReapSteps DEF TasksAlone
  <1>2. CASE EndReaping
    BY <1>2, EndReapingStep DEF TasksAlone, vars, waiterVars
  <1>3. CASE TakeEvents
    BY <1>3 DEF TasksAlone, TakeEvents, vars, waiterVars
  <1>4. ASSUME NEW i \in {"timeout", "cancel"}, Interrupt(i) PROVE TasksAlone
    BY <1>4 DEF TasksAlone, Interrupt, vars, waiterVars, taskVars
  <1>5. QED
    BY <1>1, <1>2, <1>3, <1>4 DEF ConsumerStep, ReapStep

-----------------------------------------------------------------------------
(* The tasks, their entries and their outcomes. *)
TasksOK == TasksKept /\ TasksWait

LEMMA ConsumerKeepsEntries ==
    ASSUME TaskInv, ConsumerInv,
           \/ ConsumerStep
           \/ \E i \in {"timeout", "cancel"} : Interrupt(i)
    PROVE  tracked' = {d \in Deps : Entered(d)'}
  <1>1. task' = task /\ tracked = {d \in Deps : Entered(d)}
    BY ConsumerSteps DEF TaskInv, TasksKept, TasksAlone
  <1>2. CASE ReapStep
    BY <1>1, <1>2, ReapSteps DEF TaskInv, AllStarted, Running, Entered
  <1>3. CASE EndReaping
    <2>1. tracked' = {} /\ gen' = "ended" /\ Running = {} /\ AllStarted
      BY <1>3 DEF EndReaping, ConsumerInv
    <2>2. QED
      BY <1>1, <2>1 DEF Entered, Running, AllStarted
  <1>4. CASE TakeEvents
    <2>1. interrupts = {} /\ tracked' = tracked
      BY <1>4 DEF TakeEvents
    <2>2. \A d \in Deps : task[d] # "unrun"
      BY <2>1 DEF ConsumerInv
    <2>3. QED
      BY <1>1, <2>1, <2>2 DEF Entered
  <1>5. ASSUME NEW i \in {"timeout", "cancel"}, Interrupt(i)
        PROVE  UNCHANGED <<tracked, gen>>
    BY <1>5 DEF Interrupt, taskVars
  <1>6. QED
    BY <1>1, <1>2, <1>3, <1>4, <1>5 DEF ConsumerStep, ReapStep, Entered

LEMMA TaskStepTasks ==
    ASSUME StoreInv, TaskInv, NEW d \in Deps, StartTask(d) \/ FinishTask(d)
    PROVE  TasksOK'
  <1>1. /\ UNCHANGED <<target, wanted, gen>>
        /\ \A e \in Deps \ {d} : pc'[e] = pc[e]
        /\ task[d] \in {"created", "running"}
    BY TaskSteps DEF consumerVars
  <1>2. CASE TaskSuspends(d)
    <2>1. /\ task[d] = "created" /\ task' = [task EXCEPT ![d] = "running"]
          /\ UNCHANGED <<tracked, resolution, gen>>
          /\ pc'[d] = IF d \in StatusKinds THEN "ready" ELSE "exists"
      BY <1>1, <1>2 DEF TaskSuspends
    <2>2. TasksKept'
      BY <1>1, <2>1 DEF TaskInv, TaskTypes, TasksKept, Entered
    <2>3. TasksWait'
      BY <1>1, <2>1 DEF TaskInv, TaskTypes, TasksWait, WaiterOf
    <2>4. QED
      BY <2>2, <2>3 DEF TasksOK
  <1>3. ASSUME NEW o \in Outcomes, TaskSettles(d, o) PROVE TasksOK'
    <2>1. /\ task' = [task EXCEPT ![d] = "done"]
          /\ resolution' = [resolution EXCEPT ![d] = o]
          /\ tracked' = tracked \ {d}
          /\ o # "none"
      BY <1>3 DEF TaskSettles, Settle, Outcomes
    <2>2. TasksKept'
      BY <1>1, <2>1 DEF TaskInv, TaskTypes, TasksKept, Entered
    <2>3. TasksWait'
      BY <1>1, <1>3, <2>1 DEF TaskInv, TaskTypes, TasksWait, WaiterOf, TaskSettles
    <2>4. QED
      BY <2>2, <2>3 DEF TasksOK
  <1>4. QED
    BY <1>2, <1>3, TaskSteps

LEMMA WatchTasks ==
    ASSUME TaskInv, ConsumerInv, NEW D \in SUBSET Deps, Watch(D)
    PROVE  TasksOK'
  <1>1. \A d \in Deps : task[d] = "none"
    BY DEF Watch, ConsumerInv, TaskInv, TasksKept
  <1>2. UNCHANGED <<pc, target, resolution>>
    BY DEF Watch, vars, waiterVars
  <1>3. /\ wanted' = D /\ tracked' = D
        /\ task' = [d \in Deps |-> IF d \in D THEN "created" ELSE "none"]
    BY DEF Watch
  <1>4. TasksKept'
    BY <1>1, <1>2, <1>3 DEF TaskInv, TasksKept, Entered
  <1>5. TasksWait'
    BY <1>1, <1>2, <1>3 DEF TaskInv, TasksWait, WaiterOf
  <1>6. QED
    BY <1>4, <1>5 DEF TasksOK

LEMMA NextTasks ==
    ASSUME StoreInv, TaskInv, ConsumerInv, [WaitNext]_waitVars
    PROVE  TasksOK'
  <1>1. CASE Quiet
    BY <1>1
    DEF Quiet, consumerVars, TaskInv, TasksKept, TasksWait, TasksOK, WaiterOf, Entered
  <1>2. ASSUME \/ ConsumerStep
               \/ \E i \in {"timeout", "cancel"} : Interrupt(i)
        PROVE  TasksOK'
    <2>1. TasksAlone
      BY <1>2, ConsumerSteps DEF TaskInv
    <2>2. TasksKept'
      BY <1>2, <2>1, ConsumerKeepsEntries DEF TasksAlone, TaskInv, TasksKept
    <2>3. TasksWait'
      BY <2>1 DEF TasksAlone, TaskInv, TasksWait, WaiterOf
    <2>4. QED
      BY <2>2, <2>3 DEF TasksOK
  <1>3. ASSUME NEW d \in Deps, NeverStart(d) PROVE TasksOK'
    <2>1. /\ task[d] = "created" /\ task' = [task EXCEPT ![d] = "unrun"] /\ gen = "waiting"
          /\ UNCHANGED <<tracked, resolution, wanted, gen, target, pc>>
      BY <1>3, NeverStartSteps DEF consumerVars
    <2>2. TasksKept'
      BY <2>1 DEF TaskInv, TaskTypes, TasksKept, Entered
    <2>3. TasksWait'
      BY <2>1 DEF TaskInv, TaskTypes, TasksWait, WaiterOf
    <2>4. QED
      BY <2>2, <2>3 DEF TasksOK
  <1>4. QED
    BY <1>1, <1>2, <1>3, QuietSteps, TaskStepTasks, WatchTasks DEF WaitNext

-----------------------------------------------------------------------------
(* Tasks only run while the consumer waits for them, or for their end. *)
LEMMA TasksRunWhileAwaited ==
    ASSUME TaskInv, ConsumerInv, NEW d \in Deps, task[d] \in {"created", "running"}
    PROVE  gen \in {"waiting", "reaping"} /\ d \in tracked /\ d \in wanted
  <1>1. d \in tracked /\ d \in wanted
    BY DEF TaskInv, TasksKept, Entered
  <1>2. QED
    BY <1>1 DEF TaskInv, TaskTypes, ConsumerInv

LEMMA TrackedFinite ==
    ASSUME TasksKept
    PROVE  /\ IsFiniteSet(tracked) /\ IsFiniteSet(wanted)
           /\ Cardinality(tracked) \in Nat /\ Cardinality(wanted) \in Nat
  <1>1. tracked \subseteq Deps /\ wanted \subseteq Deps
    BY DEF TasksKept
  <1>2. IsFiniteSet(tracked) /\ IsFiniteSet(wanted)
    BY <1>1, FS_Subset, WaiterAssumption
  <1>3. QED
    BY <1>2, FS_CardinalityType

(* The loop ends with no entry left: the events that came are those of every *)
(* dependency there was.                                                   *)
LEMMA LoopEndsWithNoneTracked ==
    ASSUME TaskInv, ConsumerInv, QueueInv, EventsConserved, TakeEvents
    PROVE  /\ Len(queue) \in Nat /\ resolved' \in Nat
           /\ LoopEnds(resolved') => tracked = {}
  <1>1. gen = "waiting" /\ verdict = "none" /\ resolved \in Nat
    BY DEF TakeEvents, ConsumerInv, TaskInv, TaskTypes
  <1>2. queue \in Seq({d \in Deps : task[d] = "done"})
    BY <1>1 DEF QueueInv
  <1>3. Len(queue) \in Nat
    BY <1>2, LenProperties
  <1>4. resolved' = resolved + Len(queue)
    BY DEF TakeEvents
  <1>5. /\ Cardinality(tracked) \in Nat /\ Cardinality(wanted) \in Nat
        /\ IsFiniteSet(tracked)
    BY TrackedFinite DEF TaskInv
  <1>6. resolved' >= Cardinality(wanted) => Cardinality(tracked) = 0
    BY <1>1, <1>3, <1>4, <1>5 DEF EventsConserved
  <1>7. QED
    BY <1>1, <1>3, <1>4, <1>5, <1>6, FS_EmptySet DEF LoopEnds

LEMMA NextTypes ==
    ASSUME StoreInv, TaskInv, ConsumerInv, QueueInv, EventsConserved, [WaitNext]_waitVars
    PROVE  TaskTypes'
  <1>1. CASE Quiet
    BY <1>1 DEF Quiet, consumerVars, TaskInv, TaskTypes
  <1>2. ASSUME NEW d \in Deps, StartTask(d) \/ FinishTask(d) PROVE TaskTypes'
    <2>1. UNCHANGED consumerVars
      BY <1>2, TaskSteps
    <2>2. CASE TaskSuspends(d)
      BY <2>1, <2>2 DEF TaskSuspends, consumerVars, TaskInv, TaskTypes
    <2>3. ASSUME NEW o \in Outcomes, TaskSettles(d, o) PROVE TaskTypes'
      BY <2>1, <2>3 DEF TaskSettles, Settle, Outcomes, consumerVars, TaskInv, TaskTypes
    <2>4. QED
      BY <1>2, <2>2, <2>3, TaskSteps
  <1>3. ASSUME NEW D \in SUBSET Deps, Watch(D) PROVE TaskTypes'
    BY <1>3 DEF Watch, TaskInv, TaskTypes
  <1>4. CASE TakeEvents
    <2>1. resolved' \in Nat
      BY <1>4, LoopEndsWithNoneTracked
    <2>2. QED
      BY <1>4, <2>1 DEF TakeEvents, TaskInv, TaskTypes
  <1>5. ASSUME NEW i \in {"timeout", "cancel"}, Interrupt(i) PROVE TaskTypes'
    BY <1>5 DEF Interrupt, taskVars, TaskInv, TaskTypes
  <1>6. CASE ReapStep
    <2>1. UNCHANGED <<task, resolution>> /\ gen' = "reaping"
      BY <1>6, ReapSteps DEF TaskInv
    <2>2. verdict' \in {verdict, "failed"}
      BY <1>6 DEF ReapStep, TakeBadEvent, TakeInterrupt
    <2>3. QED
      BY <2>1, <2>2 DEF TaskInv, TaskTypes
  <1>7. CASE EndReaping
    <2>1. UNCHANGED <<task, resolution>> /\ gen' = "ended"
      BY <1>7, EndReapingStep DEF EndReaping, TaskInv
    <2>2. verdict' \in {"cancelled", "failed"}
      BY <1>7 DEF EndReaping
    <2>3. QED
      BY <2>1, <2>2 DEF TaskInv, TaskTypes
  <1>8. ASSUME NEW d \in Deps, NeverStart(d) PROVE TaskTypes'
    BY <1>8, NeverStartSteps DEF consumerVars, TaskInv, TaskTypes
  <1>9. QED
    BY <1>1, <1>2, <1>3, <1>4, <1>5, <1>6, <1>7, <1>8, QuietSteps
    DEF WaitNext, ConsumerStep, ReapStep

(* The consumer: where it is says which entries, events and interrupts are  *)
(* left.                                                                   *)
LEMMA NextConsumer ==
    ASSUME StoreInv, TaskInv, ConsumerInv, QueueInv, EventsConserved, [WaitNext]_waitVars
    PROVE  ConsumerInv'
  <1>1. CASE Quiet
    BY <1>1 DEF Quiet, consumerVars, ConsumerInv, AllStarted
  <1>2. ASSUME NEW d \in Deps, StartTask(d) \/ FinishTask(d) PROVE ConsumerInv'
    <2>1. UNCHANGED consumerVars /\ task[d] \in {"created", "running"}
      BY <1>2, TaskSteps
    <2>2. gen \in {"waiting", "reaping"}
      BY <2>1, TasksRunWhileAwaited
    <2>3. AllStarted => AllStarted'
      <3>1. CASE TaskSuspends(d)
        BY <3>1 DEF TaskSuspends, AllStarted
      <3>2. ASSUME NEW o \in Outcomes, TaskSettles(d, o), AllStarted PROVE AllStarted'
        BY <3>2 DEF TaskSettles, Settle, AllStarted, TaskInv, TaskTypes
      <3>3. QED
        BY <1>2, <3>1, <3>2, TaskSteps
    <2>4. \A e \in Deps : task'[e] = "unrun" => task[e] = "unrun"
      <3>1. task' \in {[task EXCEPT ![d] = "running"], [task EXCEPT ![d] = "done"]}
        BY <1>2, TaskSteps DEF TaskSuspends, TaskSettles, Settle
      <3>2. QED
        BY <3>1 DEF TaskInv, TaskTypes
    <2>5. QED
      BY <2>1, <2>2, <2>3, <2>4 DEF ConsumerInv, consumerVars
  <1>3. ASSUME NEW D \in SUBSET Deps, Watch(D) PROVE ConsumerInv'
    BY <1>3 DEF Watch, ConsumerInv
  <1>4. CASE TakeEvents
    <2>1. LoopEnds(resolved') => tracked = {}
      BY <1>4, LoopEndsWithNoneTracked
    <2>2. AllReady => \A d \in wanted : resolution[d] = "Ready"
      BY <1>4 DEF TakeEvents, AllReady, TaskInv, TaskTypes, TasksKept, Entered
    <2>3. QED
      BY <1>4, <2>1, <2>2 DEF TakeEvents, ConsumerInv
  <1>5. ASSUME NEW i \in {"timeout", "cancel"}, Interrupt(i) PROVE ConsumerInv'
    BY <1>5 DEF Interrupt, taskVars, ConsumerInv
  <1>6. CASE ReapStep
    <2>1. /\ gen = "waiting" /\ gen' = "reaping" /\ AllStarted
          /\ UNCHANGED <<task, resolution, wanted, interrupts>>
      BY <1>6, ReapSteps DEF TaskInv
    <2>2. \/ verdict' = "failed" /\ interrupts = {}
          \/ verdict' = verdict
      BY <1>6 DEF ReapStep, TakeBadEvent, TakeInterrupt
    <2>3. QED
      BY <2>1, <2>2 DEF ConsumerInv, AllStarted
  <1>7. CASE EndReaping
    BY <1>7, EndReapingStep DEF EndReaping, ConsumerInv, TaskInv
  <1>8. ASSUME NEW d \in Deps, NeverStart(d) PROVE ConsumerInv'
    <2>1. /\ gen = "waiting" /\ "cancel" \in interrupts
          /\ UNCHANGED <<tracked, resolution, queue, consumerVars>>
      BY <1>8, NeverStartSteps
    <2>2. QED
      BY <2>1 DEF ConsumerInv, consumerVars
  <1>9. QED
    BY <1>1, <1>2, <1>3, <1>4, <1>5, <1>6, <1>7, <1>8, QuietSteps
    DEF WaitNext, ConsumerStep, ReapStep

LEMMA NextQueue ==
    ASSUME StoreInv, TaskInv, ConsumerInv, QueueInv, [WaitNext]_waitVars
    PROVE  QueueInv'
  <1>1. CASE Quiet
    BY <1>1 DEF Quiet, consumerVars, QueueInv
  <1>2. ASSUME NEW d \in Deps, StartTask(d) \/ FinishTask(d) PROVE QueueInv'
    <2>1. UNCHANGED consumerVars /\ task[d] \in {"created", "running"}
      BY <1>2, TaskSteps
    <2>2. CASE TaskSuspends(d)
      <3>1. {e \in Deps : task'[e] = "done"} = {e \in Deps : task[e] = "done"}
        BY <2>2 DEF TaskSuspends, TaskInv, TaskTypes
      <3>2. QED
        BY <2>1, <2>2, <3>1 DEF TaskSuspends, consumerVars, QueueInv
    <2>3. ASSUME NEW o \in Outcomes, TaskSettles(d, o) PROVE QueueInv'
      <3>1. /\ d \in {e \in Deps : task'[e] = "done"}
            /\ {e \in Deps : task[e] = "done"} \subseteq {e \in Deps : task'[e] = "done"}
            /\ queue' = Append(queue, d)
        BY <2>3 DEF TaskSettles, Settle, TaskInv, TaskTypes
      <3>2. ASSUME queue \in Seq({e \in Deps : task[e] = "done"})
            PROVE  queue' \in Seq({e \in Deps : task'[e] = "done"})
        <4>1. queue \in Seq({e \in Deps : task'[e] = "done"})
          BY <3>1, <3>2
        <4>2. QED
          BY <3>1, <4>1, AppendProperties
      <3>3. QED
        BY <2>1, <3>2 DEF consumerVars, QueueInv
    <2>4. QED
      BY <1>2, <2>2, <2>3, TaskSteps
  <1>3. ASSUME NEW D \in SUBSET Deps, Watch(D) PROVE QueueInv'
    BY <1>3 DEF Watch, ConsumerInv, QueueInv
  <1>4. CASE TakeEvents
    BY <1>4 DEF TakeEvents, QueueInv
  <1>5. ASSUME NEW i \in {"timeout", "cancel"}, Interrupt(i) PROVE QueueInv'
    BY <1>5 DEF Interrupt, taskVars, QueueInv
  <1>6. CASE TakeBadEvent \/ EndReaping
    BY <1>6 DEF TakeBadEvent, EndReaping, QueueInv
  <1>7. CASE TakeInterrupt
    BY <1>7 DEF TakeInterrupt, QueueInv
  <1>8. ASSUME NEW d \in Deps, NeverStart(d) PROVE QueueInv'
    <2>1. /\ task[d] = "created" /\ task' = [task EXCEPT ![d] = "unrun"]
          /\ UNCHANGED <<queue, gen, verdict>>
      BY <1>8, NeverStartSteps DEF consumerVars
    <2>2. {e \in Deps : task'[e] = "done"} = {e \in Deps : task[e] = "done"}
      BY <2>1 DEF TaskInv, TaskTypes
    <2>3. QED
      BY <2>1, <2>2 DEF QueueInv
  <1>9. QED
    BY <1>1, <1>2, <1>3, <1>4, <1>5, <1>6, <1>7, <1>8, QuietSteps
    DEF WaitNext, ConsumerStep

-----------------------------------------------------------------------------
(* The history.  Only a write to the store makes a resource available, and  *)
(* it goes into the history in the same step.                              *)
HistoryKept == UNCHANGED <<objects, status, result, achieved>>

LEMMA HistorySteps ==
    ASSUME StoreInv, TaskInv, ConsumerInv, [WaitNext]_waitVars
    PROVE  StoreWrite \/ HistoryKept
  <1>1. ASSUME NEW w \in Others, OtherWaiterStep(w) PROVE HistoryKept
    BY <1>1, OtherStepOnStore DEF OtherWaiterStep, Others, HistoryKept
  <1>2. ASSUME NEW D \in SUBSET Deps, Watch(D) PROVE HistoryKept
    BY <1>2 DEF Watch, HistoryKept, vars, storeVars, waiterVars
  <1>3. ASSUME NEW d \in Deps, StartTask(d) \/ FinishTask(d) PROVE HistoryKept
    BY <1>3, TaskSteps DEF HistoryKept
  <1>4. ASSUME NEW d \in Deps, ExpireTask(d) \/ CancelTask(d) PROVE HistoryKept
    BY <1>4 DEF ExpireTask, CancelTask, RequestCancel, storeVars, HistoryKept
  <1>5. ASSUME NEW i \in {"timeout", "cancel"}, Interrupt(i) PROVE HistoryKept
    BY <1>5 DEF Interrupt, HistoryKept, vars, storeVars, waiterVars
  <1>6. CASE ReapStep
    BY <1>6, ReapSteps DEF TaskInv, HistoryKept
  <1>7. CASE EndReaping
    BY <1>7, EndReapingStep DEF TaskInv, HistoryKept, vars, storeVars, waiterVars
  <1>8. CASE TakeEvents \/ UNCHANGED waitVars
    BY <1>8 DEF TakeEvents, waitVars, HistoryKept, vars, storeVars, waiterVars
  <1>9. ASSUME NEW d \in Deps, NeverStart(d) PROVE HistoryKept
    BY <1>9, NeverStartSteps DEF HistoryKept
  <1>10. QED
    BY <1>1, <1>2, <1>3, <1>4, <1>5, <1>6, <1>7, <1>8, <1>9
    DEF WaitNext, ConsumerStep, ReapStep

(* The callback of watch_ready posts READY only when the resource is. *)
LEMMA WriteAnswers ==
    ASSUME StoreInv, TasksWait, Writes, NEW d \in Deps, d \in StatusKinds,
           result[d] # "Ready", result'[d] = "Ready"
    PROVE  Achieved(d)'
  <1>1. d \in Waiters /\ d \in Resources /\ target[d] = d
    BY WaiterAssumption DEF TasksWait, WaiterOf
  <1>2. PICK r \in Resources, s \in {"Pending", "Ready", "Failed"} : UpdateStatus(r, s)
    BY DEF Writes, AddObject, SetArtifact, waiterVars
  <1>3. r = d /\ s = "Ready"
    BY <1>1, <1>2 DEF UpdateStatus, FireStatusUpdated
  <1>4. status'[d] = "Ready"
    BY <1>1, <1>2, <1>3 DEF UpdateStatus, StoreInv, StoreTypeOK
  <1>5. QED
    BY <1>4 DEF Achieved

(* An outcome is only written by the task of its dependency. *)
LEMMA OutcomeSteps ==
    ASSUME StoreInv, TaskInv, ConsumerInv, [WaitNext]_waitVars, resolution' # resolution
    PROVE  \E d \in Deps, o \in Outcomes :
              (StartTask(d) \/ FinishTask(d)) /\ TaskSettles(d, o)
  <1>1. ASSUME NEW d \in Deps, StartTask(d) \/ FinishTask(d)
        PROVE  \E o \in Outcomes : TaskSettles(d, o)
    BY <1>1, TaskSteps DEF TaskSuspends
  <1>2. ASSUME NEW D \in SUBSET Deps, Watch(D) PROVE FALSE
    BY <1>2 DEF Watch
  <1>3. ASSUME NEW d \in Deps, NeverStart(d) PROVE FALSE
    BY <1>3 DEF NeverStart
  <1>4. QED
    BY <1>1, <1>2, <1>3, QuietSteps, ConsumerSteps DEF WaitNext, Quiet, TasksAlone, TaskInv

LEMMA NextHistory ==
    ASSUME StoreInv, TaskInv, ConsumerInv, HistoryInv, [WaitNext]_waitVars
    PROVE  HistoryInv'
  <1>1. CASE StoreWrite
    <2>1. \A r \in Resources : Achieved(r)' => r \in achieved'
      BY <1>1 DEF StoreWrite
    <2>2. achieved \subseteq achieved' /\ resolution' = resolution
      BY <1>1 DEF StoreWrite, taskVars
    <2>3. ASSUME NEW d \in Deps, d \in StatusKinds, result'[d] = "Ready"
          PROVE  d \in achieved'
      <3>1. CASE result[d] = "Ready"
        BY <2>2, <2>3, <3>1 DEF HistoryInv
      <3>2. CASE result[d] # "Ready"
        BY <1>1, <2>1, <2>3, <3>2, WriteAnswers, WaiterAssumption DEF StoreWrite, TaskInv
      <3>3. QED
        BY <3>1, <3>2
    <2>4. QED
      BY <2>1, <2>2, <2>3 DEF HistoryInv
  <1>2. CASE HistoryKept
    <2>1. /\ \A r \in Resources : Achieved(r)' => r \in achieved'
          /\ \A d \in Deps : d \in StatusKinds /\ result'[d] = "Ready" => d \in achieved'
      BY <1>2 DEF HistoryKept, HistoryInv, Achieved, InStore
    <2>2. CASE resolution' = resolution
      BY <1>2, <2>1, <2>2 DEF HistoryKept, HistoryInv
    <2>3. ASSUME NEW d \in Deps, NEW o \in Outcomes, TaskSettles(d, o)
          PROVE  \A e \in Deps : resolution'[e] = "Ready" => e \in achieved'
      <3>1. resolution' = [resolution EXCEPT ![d] = o]
        BY <2>3 DEF TaskSettles, Settle
      <3>2. o = "Ready" => d \in achieved
        BY <2>3, WaiterAssumption DEF TaskSettles, HistoryInv
      <3>3. QED
        BY <1>2, <3>1, <3>2 DEF HistoryKept, HistoryInv, TaskInv, TaskTypes
    <2>4. resolution' = resolution \/ \E d \in Deps, o \in Outcomes : TaskSettles(d, o)
      BY OutcomeSteps
    <2>5. QED
      BY <2>1, <2>2, <2>3, <2>4 DEF HistoryInv
  <1>3. QED
    BY <1>1, <1>2, HistorySteps

-----------------------------------------------------------------------------
(* Every event counts once: a task that settles trades its entry for one    *)
(* event, and no event of its dependency is in the queue before.           *)
LEMMA AppendFresh ==
    ASSUME NEW S, NEW s \in Seq(S), IsInjective(s), NEW e, e \notin S
    PROVE  IsInjective(Append(s, e)) /\ Len(Append(s, e)) = Len(s) + 1
  <1>1. /\ Len(s) \in Nat /\ DOMAIN s = 1..Len(s)
        /\ \A i \in 1..Len(s) : s[i] \in S
    OBVIOUS
  <1>2. s \in Seq(S \union {e})
    OBVIOUS
  <1>3. /\ Len(Append(s, e)) = Len(s) + 1
        /\ DOMAIN Append(s, e) = 1..(Len(s) + 1)
        /\ \A i \in 1..Len(s) : Append(s, e)[i] = s[i]
        /\ Append(s, e)[Len(s) + 1] = e
    BY <1>1, <1>2, AppendProperties
  <1>4. ASSUME NEW i \in 1..(Len(s) + 1), NEW j \in 1..(Len(s) + 1),
               Append(s, e)[i] = Append(s, e)[j]
        PROVE  i = j
    <2>1. CASE i \in 1..Len(s) /\ j \in 1..Len(s)
      BY <1>1, <1>3, <1>4, <2>1 DEF IsInjective
    <2>2. CASE i = Len(s) + 1 /\ j \in 1..Len(s)
      BY <1>1, <1>3, <1>4, <2>2
    <2>3. CASE j = Len(s) + 1 /\ i \in 1..Len(s)
      BY <1>1, <1>3, <1>4, <2>3
    <2>4. QED
      BY <1>1, <1>4, <2>1, <2>2, <2>3
  <1>5. QED
    BY <1>3, <1>4 DEF IsInjective

LEMMA SettleConserves ==
    ASSUME TaskInv, QueueInv, ConsumerInv, EventsConserved, gen = "waiting",
           NEW d \in Deps, task[d] \in {"created", "running"},
           NEW o \in Outcomes, Settle(d, o), UNCHANGED consumerVars
    PROVE  EventsConserved'
  <1>1. /\ queue' = Append(queue, d)
        /\ tracked' = tracked \ {d}
        /\ UNCHANGED <<wanted, resolved>>
    BY DEF Settle, consumerVars
  <1>2. queue \in Seq({e \in Deps : task[e] = "done"})
    BY DEF ConsumerInv, QueueInv
  <1>3. d \notin {e \in Deps : task[e] = "done"} /\ d \in tracked
    BY DEF TaskInv, TasksKept, Entered
  <1>4. IsInjective(queue) /\ resolved \in Nat
    BY DEF EventsConserved, TaskInv, TaskTypes
  <1>5. IsInjective(queue') /\ Len(queue') = Len(queue) + 1
    BY <1>1, <1>2, <1>3, <1>4, AppendFresh
  <1>6. IsFiniteSet(tracked) /\ Cardinality(tracked) \in Nat
    BY TrackedFinite DEF TaskInv
  <1>7. Cardinality(tracked') = Cardinality(tracked) - 1
    BY <1>1, <1>3, <1>6, FS_RemoveElement
  <1>8. Len(queue) \in Nat
    BY <1>2, LenProperties
  <1>9. resolved' + Len(queue') + Cardinality(tracked') = Cardinality(wanted')
    BY <1>1, <1>4, <1>5, <1>6, <1>7, <1>8 DEF EventsConserved
  <1>10. QED
    BY <1>5, <1>9 DEF EventsConserved

LEMMA NextEvents ==
    ASSUME StoreInv, TaskInv, ConsumerInv, QueueInv, EventsConserved, [WaitNext]_waitVars
    PROVE  EventsConserved'
  <1>1. CASE Quiet
    BY <1>1 DEF Quiet, consumerVars, EventsConserved
  <1>2. ASSUME NEW d \in Deps, StartTask(d) \/ FinishTask(d) PROVE EventsConserved'
    <2>1. UNCHANGED consumerVars /\ task[d] \in {"created", "running"}
      BY <1>2, TaskSteps
    <2>2. CASE TaskSuspends(d)
      BY <2>1, <2>2 DEF TaskSuspends, consumerVars, EventsConserved
    <2>3. ASSUME NEW o \in Outcomes, TaskSettles(d, o), gen = "waiting"
          PROVE  EventsConserved'
      BY <2>1, <2>3, SettleConserves DEF TaskSettles
    <2>4. CASE gen # "waiting"
      BY <2>1, <2>4 DEF consumerVars, EventsConserved
    <2>5. QED
      BY <1>2, <2>2, <2>3, <2>4, TaskSteps
  <1>3. ASSUME NEW D \in SUBSET Deps, Watch(D) PROVE EventsConserved'
    <2>1. /\ UNCHANGED <<queue, resolved>> /\ queue = <<>> /\ resolved = 0
          /\ tracked' = D /\ wanted' = D
      BY <1>3 DEF Watch, ConsumerInv
    <2>2. Cardinality(D) \in Nat
      BY FS_Subset, FS_CardinalityType, WaiterAssumption
    <2>3. QED
      BY <2>1, <2>2 DEF EventsConserved, IsInjective
  <1>4. CASE TakeEvents
    <2>1. Len(queue) \in Nat /\ Cardinality(tracked) \in Nat /\ resolved \in Nat
      BY <1>4, LoopEndsWithNoneTracked, TrackedFinite
      DEF TakeEvents, TaskInv, TaskTypes
    <2>2. /\ gen = "waiting" /\ queue' = <<>> /\ resolved' = resolved + Len(queue)
          /\ UNCHANGED <<tracked, wanted>>
      BY <1>4 DEF TakeEvents
    <2>3. resolved' + 0 + Cardinality(tracked') = Cardinality(wanted')
      BY <2>1, <2>2 DEF EventsConserved
    <2>4. QED
      BY <2>2, <2>3 DEF EventsConserved, IsInjective
  <1>5. ASSUME NEW i \in {"timeout", "cancel"}, Interrupt(i) PROVE EventsConserved'
    BY <1>5 DEF Interrupt, taskVars, EventsConserved
  <1>6. CASE ReapStep
    BY <1>6, ReapSteps DEF TaskInv, EventsConserved
  <1>7. CASE EndReaping
    BY <1>7 DEF EndReaping, EventsConserved
  <1>8. ASSUME NEW d \in Deps, NeverStart(d) PROVE EventsConserved'
    BY <1>8, NeverStartSteps DEF consumerVars, EventsConserved
  <1>9. QED
    BY <1>1, <1>2, <1>3, <1>4, <1>5, <1>6, <1>7, <1>8, QuietSteps
    DEF WaitNext, ConsumerStep, ReapStep

-----------------------------------------------------------------------------
(* An interrupted consumer that finds a failure finds it in its queue, where *)
(* only events of its own dependencies are.                                *)
LEMMA NextCancellation ==
    ASSUME StoreInv, TaskInv, ConsumerInv, QueueInv,
           CancellationSwallowedOnlyByFailure, [WaitNext]_waitVars
    PROVE  CancellationSwallowedOnlyByFailure'
  <1>1. CASE Quiet
    BY <1>1 DEF Quiet, consumerVars, CancellationSwallowedOnlyByFailure
  <1>2. ASSUME NEW d \in Deps, StartTask(d) \/ FinishTask(d) PROVE gen' # "ended"
    BY <1>2, TaskSteps, TasksRunWhileAwaited DEF consumerVars
  <1>3. ASSUME NEW D \in SUBSET Deps, Watch(D) PROVE interrupts' = {}
    BY <1>3 DEF Watch, ConsumerInv
  <1>4. CASE TakeEvents
    BY <1>4 DEF TakeEvents, CancellationSwallowedOnlyByFailure
  <1>5. ASSUME NEW i \in {"timeout", "cancel"}, Interrupt(i) PROVE gen' # "ended"
    BY <1>5 DEF Interrupt
  <1>6. CASE ReapStep
    BY <1>6, ReapSteps DEF TaskInv, CancellationSwallowedOnlyByFailure
  <1>7. ASSUME EndReaping, "cancel" \in interrupts', verdict' # "cancelled"
        PROVE  \E d \in wanted' : resolution'[d] \in {"Failed", "Timeout"}
    <2>1. UNCHANGED <<resolution, wanted, interrupts>>
      BY <1>7, EndReapingStep DEF TaskInv
    <2>2. gen = "reaping" /\ verdict = "none"
      BY <1>7, <2>1 DEF EndReaping, ConsumerInv
    <2>3. BadEvents # {}
      BY <1>7, <2>1, <2>2 DEF EndReaping
    <2>4. queue \in Seq({d \in Deps : task[d] = "done"})
      BY <2>2 DEF QueueInv
    <2>5. PICK i \in DOMAIN queue : resolution[queue[i]] \in {"Failed", "Timeout"}
      BY <2>3 DEF BadEvents
    <2>6. queue[i] \in wanted
      BY <2>4, <2>5 DEF TaskInv, TasksKept
    <2>7. QED
      BY <2>1, <2>5, <2>6
  <1>8. ASSUME NEW d \in Deps, NeverStart(d) PROVE gen' # "ended"
    BY <1>8, NeverStartSteps DEF consumerVars
  <1>9. QED
    BY <1>1, <1>2, <1>3, <1>4, <1>5, <1>6, <1>7, <1>8, QuietSteps
    DEF WaitNext, ConsumerStep, ReapStep, CancellationSwallowedOnlyByFailure

-----------------------------------------------------------------------------
LEMMA InitWait == WaitInit => WaitInv
  <1> SUFFICES ASSUME WaitInit PROVE WaitInv
    OBVIOUS
  <1>1. Init
    BY DEF WaitInit
  <1>2. StoreInv
    BY <1>1, InitStoreType, InitExistence DEF StoreInv, Init, ReadyNeverMissed
  <1>3. TaskInv
    BY <1>1, WaiterAssumption
    DEF WaitInit, Init, TaskInv, TaskTypes, TasksKept, TasksWait, WaiterOf, Entered
  <1>4. ConsumerInv /\ QueueInv
    BY DEF WaitInit, ConsumerInv, QueueInv
  <1>5. HistoryInv
    BY <1>1, WaiterAssumption DEF WaitInit, Init, HistoryInv, Achieved, InStore, ToSet
  <1>6. EventsConserved /\ CancellationSwallowedOnlyByFailure
    BY DEF WaitInit, EventsConserved, CancellationSwallowedOnlyByFailure
  <1>7. QED
    BY <1>2, <1>3, <1>4, <1>5, <1>6 DEF WaitInv

LEMMA NextWait == WaitInv /\ [WaitNext]_waitVars => WaitInv'
  <1> SUFFICES ASSUME WaitInv, [WaitNext]_waitVars PROVE WaitInv'
    OBVIOUS
  <1>1. StoreInv'
    BY StoreKept DEF WaitInv, TaskInv
  <1>2. TaskInv'
    BY NextTasks, NextTypes DEF WaitInv, TaskInv, TasksOK
  <1>3. ConsumerInv' /\ QueueInv' /\ HistoryInv'
    BY NextConsumer, NextQueue, NextHistory DEF WaitInv
  <1>4. EventsConserved' /\ CancellationSwallowedOnlyByFailure'
    BY NextEvents, NextCancellation DEF WaitInv
  <1>5. QED
    BY <1>1, <1>2, <1>3, <1>4 DEF WaitInv

(* The invariant of a DependencyWaiter: task, entry, outcome and event of a *)
(* dependency agree in every phase of the consumer.                        *)
THEOREM WaitCorrect == WaitSpec => []WaitInv
  BY InitWait, NextWait, PTL DEF WaitSpec

(* Delivered events, queued events and pending watches add up to the        *)
(* dependencies watched, and no dependency has two events: the loop in     *)
(* watch() neither stops early nor waits for an event that will not come.  *)
THEOREM NoEventLost == WaitSpec => []EventsConserved
  <1>1. WaitInv => EventsConserved
    BY DEF WaitInv
  <1>2. QED
    BY <1>1, WaitCorrect, PTL

(* A parent goes on to build only when each dependency it named is READY,   *)
(* and each was stored, or READY, at some moment.                          *)
THEOREM BuildsOnlyWhenAchieved == WaitSpec => []ReadyMeansAllAchieved
  <1>1. WaitInv => ReadyMeansAllAchieved
    BY DEF WaitInv, ConsumerInv, HistoryInv, TaskInv, TasksKept, ReadyMeansAllAchieved
  <1>2. QED
    BY <1>1, WaitCorrect, PTL

(* A cancelled reconcile ends as cancelled unless a dependency failed or    *)
(* timed out by itself.                                                    *)
THEOREM CancellationNotSwallowed == WaitSpec => []CancellationSwallowedOnlyByFailure
  <1>1. WaitInv => CancellationSwallowedOnlyByFailure
    BY DEF WaitInv
  <1>2. QED
    BY <1>1, WaitCorrect, PTL

-----------------------------------------------------------------------------
LEMMA TimedOutTask ==
    ASSUME WaitInv, [WaitNext]_waitVars, NEW d \in Deps,
           resolution[d] # "Timeout", resolution'[d] = "Timeout", Achieved(d)
    PROVE  event[d] \in isSet \/ result[d] # "None" \/ LostToCancellation(d)
  <1>1. StoreInv /\ TaskInv /\ ConsumerInv /\ StoreTypeOK /\ WaiterOf(d) /\ d \in Waiters
    BY WaiterAssumption DEF WaitInv, StoreInv, TaskInv, TasksWait
  <1>2. PICK e \in Deps, o \in Outcomes :
           (StartTask(e) \/ FinishTask(e)) /\ TaskSettles(e, o)
    BY <1>1, OutcomeSteps
  <1>3. e = d /\ o = "Timeout"
    BY <1>1, <1>2 DEF TaskSettles, Settle, TaskInv, TaskTypes
  <1>4. ~StartTask(d)
    <2>1. SUFFICES ASSUME StartTask(d) PROVE FALSE
      OBVIOUS
    <2>2. target[d] = d /\ pc'[d] \notin {"exists", "ready"}
      BY <1>1, <1>2, <1>3 DEF WaiterOf, TaskSettles
    <2>3. pc'[d] \in {"returned", "failed"}
      BY <1>1, <2>1, <2>2, CallAnswers
    <2>4. resolution'[d] = Outcome(d, pc'[d])
      BY <1>1, <2>1, <2>2 DEF StartTask, Settle, TaskInv, TaskTypes
    <2>5. QED
      BY <2>3, <2>4, OutcomeOf
  <1>5. /\ target[d] = d
        /\ pc[d] = IF d \in StatusKinds THEN "ready" ELSE "exists"
    BY <1>1, <1>2, <1>3, <1>4 DEF FinishTask, WaiterOf
  <1>6. CASE d \in StatusKinds
    <2>1. status[target[d]] \in Terminal
      BY <1>5, <1>6 DEF Achieved, Terminal
    <2>2. QED
      BY <1>1, <1>5, <1>6, <2>1 DEF StoreInv, ReadyNeverMissed
  <1>7. CASE d \notin StatusKinds
    <2>1. InStore(target[d])
      BY <1>5, <1>7 DEF Achieved
    <2>2. QED
      BY <1>1, <1>5, <1>7, <2>1
      DEF StoreInv, StoreTypeOK, ExistenceCore, EventsWellFormed, SetMeansStored,
          WaiterReachable
  <1>8. QED
    BY <1>6, <1>7

(* A dependency that is there is reported as TIMEOUT only if its answer was  *)
(* posted before the timer fired, or its wakeup was lost to a cancelled    *)
(* waiter of another parent.                                               *)
THEOREM TimeoutsExplained == WaitSpec => TimeoutExplained
  <1>1. WaitInv /\ [WaitNext]_waitVars =>
          [\A d \in Deps :
             resolution[d] # "Timeout" /\ resolution'[d] = "Timeout" /\ Achieved(d) =>
                event[d] \in isSet \/ result[d] # "None" \/ LostToCancellation(d)]_waitVars
    BY TimedOutTask
  <1>2. QED
    BY <1>1, WaitCorrect, PTL DEF WaitSpec, TimeoutExplained

-----------------------------------------------------------------------------
(* The refinement of DependencyResolution. *)
OutcomeSeen(d) == IF resolution[d] # "none" THEN resolution[d]
                  ELSE IF task[d] = "unrun" THEN "Cancelled"
                  ELSE IF task[d] = "none" THEN "Unwatched" ELSE "Pending"

LEMMA InitResolution == WaitInit => Resolution!ResolutionInit
  BY DEF WaitInit, Resolution!ResolutionInit

LEMMA StutterResolution ==
    ASSUME UNCHANGED <<achieved, resolution, gen>>,
           \A d \in Deps : OutcomeSeen(d)' = OutcomeSeen(d)
    PROVE  UNCHANGED Resolution!resolutionVars
  BY DEF Resolution!resolutionVars, OutcomeSeen

LEMMA EndResolution ==
    ASSUME TaskInv, gen \in {"waiting", "reaping"}, gen' = "ended", tracked = {},
           UNCHANGED <<achieved, resolution, task>>
    PROVE  Resolution!EndWatch
  <1>1. \A d \in Deps : OutcomeSeen(d) # "Pending"
    BY DEF OutcomeSeen, TaskInv, TaskTypes, TasksKept, Entered
  <1>2. QED
    BY <1>1 DEF Resolution!EndWatch, Resolution!Watched, OutcomeSeen

LEMMA SettleResolution ==
    ASSUME TaskInv, ConsumerInv, HistoryInv, NEW d \in Deps, NEW o \in Outcomes,
           task[d] \in {"created", "running"}, TaskSettles(d, o),
           UNCHANGED <<consumerVars, achieved>>
    PROVE  Resolution!SettleOne(d, o)
  <1>1. /\ resolution' = [resolution EXCEPT ![d] = o]
        /\ task' = [task EXCEPT ![d] = "done"]
        /\ UNCHANGED <<gen, achieved>>
        /\ o # "none"
    BY DEF TaskSettles, Settle, consumerVars, Outcomes
  <1>2. resolution[d] = "none" /\ gen # "ended"
    BY TasksRunWhileAwaited DEF TaskInv, TasksKept
  <1>3. o = "Ready" => d \in achieved
    BY WaiterAssumption DEF TaskSettles, HistoryInv
  <1>4. \A e \in Deps : OutcomeSeen(e)' = IF e = d THEN o ELSE OutcomeSeen(e)
    BY <1>1 DEF OutcomeSeen, TaskInv, TaskTypes
  <1>5. [e \in Deps |-> OutcomeSeen(e)]'
          = [[e \in Deps |-> OutcomeSeen(e)] EXCEPT ![d] = o]
    BY <1>4
  <1>6. OutcomeSeen(d) = "Pending"
    BY <1>2 DEF OutcomeSeen
  <1>7. QED
    BY <1>1, <1>2, <1>3, <1>5, <1>6 DEF Resolution!SettleOne, OutcomeSeen

LEMMA WatchResolution ==
    ASSUME TaskInv, ConsumerInv, NEW D \in SUBSET Deps, Watch(D)
    PROVE  Resolution!BeginWatch(D)
  <1>1. gen = "idle" /\ \A d \in Deps : resolution[d] = "none" /\ task[d] = "none"
    BY DEF Watch, ConsumerInv, TaskInv, TasksKept
  <1>2. /\ task' = [d \in Deps |-> IF d \in D THEN "created" ELSE "none"]
        /\ UNCHANGED <<resolution, achieved>>
        /\ gen' = IF D = {} THEN "ended" ELSE "waiting"
    BY DEF Watch
  <1>3. (gen' = "ended") = (D = {})
    BY <1>2
  <1>4. QED
    BY <1>1, <1>2, <1>3 DEF Resolution!BeginWatch, Resolution!Watched

LEMMA StepResolution ==
    ASSUME WaitInv, [WaitNext]_waitVars
    PROVE  [Resolution!ResolutionNext]_(Resolution!resolutionVars)
  <1> USE DEF WaitInv
  <1>1. CASE StoreWrite
    <2>1. /\ UNCHANGED <<resolution, task, gen>>
          /\ achieved \subseteq achieved'
      BY <1>1 DEF StoreWrite, taskVars, consumerVars
    <2>2. achieved' \cap Deps = (achieved \cap Deps) \union (achieved' \cap Deps)
      BY <2>1
    <2>3. Resolution!BecomeAvailable
      BY <2>1, <2>2 DEF Resolution!BecomeAvailable
    <2>4. QED
      BY <2>3 DEF Resolution!ResolutionNext
  <1>2. CASE HistoryKept /\ Quiet
    <2>1. UNCHANGED <<achieved, resolution, task, gen>>
      BY <1>2 DEF HistoryKept, Quiet, consumerVars
    <2>2. QED
      BY <2>1, StutterResolution DEF OutcomeSeen
  <1>3. ASSUME NEW d \in Deps, StartTask(d) \/ FinishTask(d)
        PROVE  [Resolution!ResolutionNext]_(Resolution!resolutionVars)
    <2>1. UNCHANGED <<consumerVars, achieved>> /\ task[d] \in {"created", "running"}
      BY <1>3, TaskSteps
    <2>2. CASE TaskSuspends(d)
      <3>1. /\ UNCHANGED <<achieved, resolution, gen>>
            /\ task[d] = "created" /\ task' = [task EXCEPT ![d] = "running"]
        BY <2>1, <2>2 DEF TaskSuspends, consumerVars
      <3>2. \A e \in Deps : OutcomeSeen(e)' = OutcomeSeen(e)
        BY <3>1 DEF OutcomeSeen, TaskInv, TaskTypes
      <3>3. QED
        BY <3>1, <3>2, StutterResolution
    <2>3. ASSUME NEW o \in Outcomes, TaskSettles(d, o)
          PROVE  Resolution!ResolutionNext
      <3>1. Resolution!SettleOne(d, o)
        BY <2>1, <2>3, SettleResolution
      <3>2. o \in Resolution!Outcomes
        BY <2>3 DEF Outcomes, Resolution!Outcomes
      <3>3. QED
        BY <3>1, <3>2 DEF Resolution!ResolutionNext
    <2>4. QED
      BY <1>3, <2>2, <2>3, TaskSteps
  <1>4. ASSUME NEW D \in SUBSET Deps, Watch(D)
        PROVE  Resolution!ResolutionNext
    BY <1>4, WatchResolution DEF Resolution!ResolutionNext
  <1>5. ASSUME NEW i \in {"timeout", "cancel"}, Interrupt(i)
        PROVE  UNCHANGED Resolution!resolutionVars
    <2>1. UNCHANGED <<achieved, resolution, task, gen>>
      BY <1>5 DEF Interrupt, taskVars
    <2>2. QED
      BY <2>1, StutterResolution DEF OutcomeSeen
  <1>6. CASE ReapStep
    <2>1. UNCHANGED <<resolution, task, achieved>> /\ gen = "waiting" /\ gen' = "reaping"
      BY <1>6, ReapSteps DEF TaskInv
    <2>2. (gen' = "ended") = (gen = "ended")
      BY <2>1
    <2>3. QED
      BY <2>1, <2>2 DEF Resolution!resolutionVars
  <1>7. CASE EndReaping
    <2>1. gen = "reaping" /\ gen' = "ended"
      BY <1>7 DEF EndReaping
    <2>2. QED
      BY <1>7, <2>1, EndReapingStep, EndResolution DEF TaskInv, Resolution!ResolutionNext
  <1>8. CASE TakeEvents
    <2>1. UNCHANGED <<resolution, task, achieved, tracked>> /\ gen = "waiting"
      BY <1>8 DEF TakeEvents
    <2>2. CASE gen' = "ended"
      <3>1. tracked = {}
        BY <1>8, <2>1, <2>2, LoopEndsWithNoneTracked DEF TakeEvents
      <3>2. QED
        BY <2>1, <2>2, <3>1, EndResolution DEF Resolution!ResolutionNext
    <2>3. CASE gen' = gen
      BY <2>1, <2>3, StutterResolution DEF OutcomeSeen
    <2>4. QED
      BY <1>8, <2>2, <2>3 DEF TakeEvents
  <1>9. CASE Quiet /\ ~StoreWrite
    BY <1>2, <1>9, HistorySteps
  <1>10. ASSUME NEW d \in Deps, NeverStart(d) PROVE Resolution!ResolutionNext
    <2>1. /\ gen = "waiting" /\ task[d] = "created"
          /\ task' = [task EXCEPT ![d] = "unrun"]
          /\ UNCHANGED <<achieved, resolution, gen>>
      BY <1>10, NeverStartSteps DEF consumerVars
    <2>2. resolution[d] = "none"
      BY <2>1 DEF TaskInv, TasksKept
    <2>3. [e \in Deps |-> OutcomeSeen(e)]'
            = [[e \in Deps |-> OutcomeSeen(e)] EXCEPT ![d] = "Cancelled"]
      BY <2>1, <2>2 DEF OutcomeSeen, TaskInv, TaskTypes
    <2>4. OutcomeSeen(d) = "Pending"
      BY <2>1, <2>2 DEF OutcomeSeen
    <2>5. Resolution!SettleOne(d, "Cancelled")
      BY <2>1, <2>3, <2>4 DEF Resolution!SettleOne, OutcomeSeen
    <2>6. QED
      BY <2>5 DEF Resolution!ResolutionNext, Resolution!Outcomes
  <1>11. QED
    BY <1>1, <1>3, <1>4, <1>5, <1>6, <1>7, <1>8, <1>9, <1>10, QuietSteps
    DEF WaitNext, ConsumerStep, ReapStep

(* A DependencyWaiter implements DependencyResolution: with its store,      *)
(* tasks, events and timers, it gives every dependency one final outcome,  *)
(* READY only if it became available, and ends when all of them have one.  *)
THEOREM WaiterResolves == WaitSpec => ResolutionImplemented
  BY InitResolution, StepResolution, WaitCorrect, PTL
  DEF WaitSpec, ResolutionImplemented, Resolution!ResolutionSpec
=============================================================================
