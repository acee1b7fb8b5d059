--------------------------- MODULE InMemoryStore ---------------------------
(***************************************************************************)
(* The in-memory object store of flux-local (store/in_memory.py): objects, *)
(* statuses and artifacts by resource id, synchronous listeners, and the   *)
(* three ways a coroutine waits on it: watch_exists, watch_ready and       *)
(* watch_added.                                                            *)
(*                                                                         *)
(* The program runs on one asyncio event loop.  An action is what runs     *)
(* between two suspensions of one coroutine, with every listener it calls; *)
(* resuming a coroutine whose future is done, and delivering a requested   *)
(* cancellation to it, are steps of their own that may come any time later.*)
(* `async with lock` in watch_exists never suspends: no holder of the lock *)
(* awaits anything, so the lock is always free and the body is atomic.     *)
(*                                                                         *)
(* An operator marked MUTANT is not part of the specification: it is the   *)
(* next definition with a plausible bug, which the named property catches. *)
(***************************************************************************)
EXTENDS Naturals, Sequences, SequencesExt

CONSTANTS
    Resources,    \* resource ids (NamedResource)
    StatusKinds,  \* the resources whose kind is in SUPPORTS_STATUS
    WatchedKind,  \* the resources of the kind watch_added is asked for
    Waiters,      \* coroutines that call watch_exists or watch_ready once
    Cancellable,  \* the waiters whose task may be cancelled or may time out
    Watchers,     \* coroutines that iterate over watch_added
    Listeners,    \* controllers that register flushing callbacks
    MaxRevision,  \* bound: how often an artifact is set per resource
    NoEvent       \* no asyncio.Event

ASSUME StoreAssumption ==
    /\ StatusKinds \subseteq Resources
    /\ WatchedKind \subseteq Resources
    /\ Cancellable \subseteq Waiters
    /\ MaxRevision \in Nat
    /\ NoEvent \notin Waiters

VARIABLES
    objects,      \* _objects: the ids in insertion order
    status,       \* _status
    artifacts,    \* _artifacts: 0 for none, else a revision
    listening,    \* "off", "on" or "removed" per controller
    heard,        \* OBJECT_ADDED callbacks each controller received
    told,         \* last ARTIFACT_UPDATED callback it received per resource
    pc,           \* where each waiter is
    target,       \* the resource it asked for
    event,        \* the Event it awaits in watch_exists, named by its creator
    existenceWaiters, \* _existence_waiters: the Event on record per resource
    isSet,        \* the Events that are set
    result,       \* result_holder[0] of a watch_ready call
    cancelling,   \* waiters with a cancellation requested, not yet delivered
    watch,        \* where each watch_added generator is
    snapshot,     \* existing objects it has still to yield
    pending,      \* its asyncio.Queue
    seen,         \* what it has yielded
    prompt        \* its consumer awaits nothing between two items

storeVars    == <<objects, status, artifacts>>
listenerVars == <<listening, heard, told>>
eventVars    == <<event, existenceWaiters, isSet>>
waiterVars   == <<pc, target, eventVars, result, cancelling>>
watcherVars  == <<watch, snapshot, pending, seen, prompt>>
vars == <<storeVars, listenerVars, waiterVars, watcherVars>>

Terminal == {"Ready", "Failed"}
InStore(r) == r \in ToSet(objects)

(* What SelectSeq selects, as a function that can be reasoned about. *)
OfKind(s) ==
    LET Among[i \in 0 .. Len(s)] ==
            IF i = 0 THEN <<>>
            ELSE IF s[i] \in WatchedKind THEN Append(Among[i - 1], s[i])
            ELSE Among[i - 1]
    IN  Among[Len(s)]

Suspended(w) == pc[w] \in {"exists", "ready"}

-----------------------------------------------------------------------------
Init ==
    /\ objects = <<>>
    /\ status = [r \in Resources |-> "None"]
    /\ artifacts = [r \in Resources |-> 0]
    /\ listening = [l \in Listeners |-> "off"]
    /\ heard = [l \in Listeners |-> <<>>]
    /\ told = [l \in Listeners |-> [r \in Resources |-> 0]]
    /\ pc = [w \in Waiters |-> "idle"]
    /\ target \in [Waiters -> Resources]
    /\ event = [w \in Waiters |-> NoEvent]
    /\ existenceWaiters = [r \in Resources |-> NoEvent]
    /\ isSet = {}
    /\ result = [w \in Waiters |-> "None"]
    /\ cancelling = {}
    /\ watch = [g \in Watchers |-> "idle"]
    /\ snapshot = [g \in Watchers |-> <<>>]
    /\ pending = [g \in Watchers |-> <<>>]
    /\ seen = [g \in Watchers |-> <<>>]
    /\ prompt \in [Watchers -> BOOLEAN]

-----------------------------------------------------------------------------
(* Writes.  A listener that raises is logged and the next one is called, so *)
(* an event always reaches every callback registered when it fires.        *)

(* MUTANT (PromptWatcherMissesNothing): the callback does not look at the kind. *)
FireObjectAddedToAll(r) ==
    /\ heard' = [l \in Listeners |->
                    IF listening[l] = "on" THEN Append(heard[l], r) ELSE heard[l]]
    /\ pending' = [g \in Watchers |->
                    IF watch[g] = "listening" THEN Append(pending[g], r) ELSE pending[g]]

FireObjectAdded(r) ==
    /\ heard' = [l \in Listeners |->
                    IF listening[l] = "on" THEN Append(heard[l], r) ELSE heard[l]]
    /\ pending' = [g \in Watchers |->
                    IF watch[g] = "listening" /\ r \in WatchedKind
                    THEN Append(pending[g], r) ELSE pending[g]]

WakeExistenceWaiters(r) ==
    isSet' = IF existenceWaiters[r] = NoEvent
             THEN isSet ELSE isSet \union {existenceWaiters[r]}

(* A resource that is already stored is left as it is, with no event. *)
AddObject(r) ==
    /\ ~InStore(r)
    /\ objects' = Append(objects, r)
    /\ FireObjectAdded(r)
    /\ WakeExistenceWaiters(r)
    /\ UNCHANGED <<status, artifacts, listening, told, pc, target, event,
                   existenceWaiters, result, cancelling,
                   watch, snapshot, seen, prompt>>

(* MUTANT (ReadyNeverMissed): the callback only resolves on READY. *)
FireReadyOnly(r, s) ==
    result' = [w \in Waiters |->
                 IF pc[w] = "ready" /\ target[w] = r /\ s = "Ready" /\ result[w] = "None"
                 THEN s ELSE result[w]]

(* MUTANT (AnswerIsCurrentStatus): a later status replaces the answer. *)
FireLatestStatus(r, s) ==
    result' = [w \in Waiters |->
                 IF pc[w] = "ready" /\ target[w] = r /\ s \in Terminal
                 THEN s ELSE result[w]]

(* The callback of each watch_ready call; only the first answer is read. *)
FireStatusUpdated(r, s) ==
    result' = [w \in Waiters |->
                 IF /\ pc[w] = "ready" /\ target[w] = r
                    /\ s \in Terminal /\ result[w] = "None"
                 THEN s ELSE result[w]]

UpdateStatus(r, s) ==
    /\ r \in StatusKinds
    /\ status' = [status EXCEPT ![r] = s]
    /\ FireStatusUpdated(r, s)
    /\ UNCHANGED <<objects, artifacts, listenerVars, pc, target, eventVars,
                   cancelling, watcherVars>>

(* The callers (source, kustomization and helm controllers, bootstrap) set  *)
(* the artifact of a resource they have from the store, of a status kind.  *)
SetArtifact(r) ==
    /\ InStore(r)
    /\ r \in StatusKinds
    /\ artifacts[r] < MaxRevision
    /\ artifacts' = [artifacts EXCEPT ![r] = @ + 1]
    /\ told' = [l \in Listeners |->
                  IF listening[l] = "on"
                  THEN [told[l] EXCEPT ![r] = artifacts[r] + 1] ELSE told[l]]
    /\ UNCHANGED <<objects, status, listening, heard, waiterVars, watcherVars>>

-----------------------------------------------------------------------------
(* Listeners: a controller registers an object and an artifact callback    *)
(* with flush=True, which replays what the store already holds.            *)

(* MUTANT (ListenersUpToDate): the flush replays the objects alone. *)
NoArtifacts == [r \in Resources |-> 0]

FlushedArtifacts == [r \in Resources |-> IF InStore(r) THEN artifacts[r] ELSE 0]

AddListener(l) ==
    /\ listening[l] = "off"
    /\ listening' = [listening EXCEPT ![l] = "on"]
    /\ heard' = [heard EXCEPT ![l] = objects]
    /\ told' = [told EXCEPT ![l] = FlushedArtifacts]
    /\ UNCHANGED <<storeVars, waiterVars, watcherVars>>

RemoveListener(l) ==
    /\ listening[l] = "on"
    /\ listening' = [listening EXCEPT ![l] = "removed"]
    /\ heard' = [heard EXCEPT ![l] = <<>>]
    /\ told' = [told EXCEPT ![l] = [r \in Resources |-> 0]]
    /\ UNCHANGED <<storeVars, waiterVars, watcherVars>>

-----------------------------------------------------------------------------
(* watch_exists.  The waiters for one resource share one Event, which the  *)
(* first of them creates in a defaultdict.                                 *)

(* MUTANT (WakeupLostOnlyToCancellation, WaitersAnswered): every waiter puts *)
(* an Event of its own on record.                                          *)
OwnEvent(w) == w

ExistsEvent(w) ==
    IF existenceWaiters[target[w]] = NoEvent THEN w ELSE existenceWaiters[target[w]]

WatchExistsFound(w) ==
    /\ pc[w] = "idle"
    /\ InStore(target[w])
    /\ pc' = [pc EXCEPT ![w] = "returned"]
    /\ UNCHANGED <<storeVars, listenerVars, target, eventVars, result,
                   cancelling, watcherVars>>

(* An Event left set although the object is missing is cleared first. *)
WatchExistsWaits(w) ==
    /\ pc[w] = "idle"
    /\ ~InStore(target[w])
    /\ pc' = [pc EXCEPT ![w] = "exists"]
    /\ event' = [event EXCEPT ![w] = ExistsEvent(w)]
    /\ existenceWaiters' = [existenceWaiters EXCEPT ![target[w]] = ExistsEvent(w)]
    /\ isSet' = isSet \ {ExistsEvent(w)}
    /\ UNCHANGED <<storeVars, listenerVars, target, result, cancelling,
                   watcherVars>>

(* The finally block: whoever leaves takes the shared Event off the record. *)
ForgetEvent(w) ==
    existenceWaiters' =
        IF existenceWaiters[target[w]] = event[w]
        THEN [existenceWaiters EXCEPT ![target[w]] = NoEvent]
        ELSE existenceWaiters

ExistsResumes(w) ==
    /\ pc[w] = "exists"
    /\ event[w] \in isSet
    /\ w \notin cancelling
    /\ pc' = [pc EXCEPT ![w] = IF InStore(target[w]) THEN "returned" ELSE "notfound"]
    /\ ForgetEvent(w)
    /\ UNCHANGED <<storeVars, listenerVars, target, event, isSet, result,
                   cancelling, watcherVars>>

ExistsCancelled(w) ==
    /\ pc[w] = "exists"
    /\ w \in cancelling
    /\ pc' = [pc EXCEPT ![w] = "cancelled"]
    /\ cancelling' = cancelling \ {w}
    /\ ForgetEvent(w)
    /\ UNCHANGED <<storeVars, listenerVars, target, event, isSet, result, watcherVars>>

-----------------------------------------------------------------------------
(* watch_ready: check, then register a callback, with no await between.    *)

WatchReadyDecided(w) ==
    /\ pc[w] = "idle"
    /\ target[w] \in StatusKinds
    /\ status[target[w]] \in Terminal
    /\ pc' = [pc EXCEPT ![w] =
                IF status[target[w]] = "Ready" THEN "returned" ELSE "failed"]
    /\ UNCHANGED <<storeVars, listenerVars, target, eventVars, result,
                   cancelling, watcherVars>>

WatchReadyWaits(w) ==
    /\ pc[w] = "idle"
    /\ target[w] \in StatusKinds
    /\ status[target[w]] \notin Terminal
    /\ pc' = [pc EXCEPT ![w] = "ready"]
    /\ UNCHANGED <<storeVars, listenerVars, target, eventVars, result,
                   cancelling, watcherVars>>

(* The finally block removes the callback: only a waiter in "ready" has one. *)
ReadyResumes(w) ==
    /\ pc[w] = "ready"
    /\ result[w] # "None"
    /\ w \notin cancelling
    /\ pc' = [pc EXCEPT ![w] = IF result[w] = "Ready" THEN "returned" ELSE "failed"]
    /\ UNCHANGED <<storeVars, listenerVars, target, eventVars, result,
                   cancelling, watcherVars>>

ReadyCancelled(w) ==
    /\ pc[w] = "ready"
    /\ w \in cancelling
    /\ pc' = [pc EXCEPT ![w] = "cancelled"]
    /\ cancelling' = cancelling \ {w}
    /\ UNCHANGED <<storeVars, listenerVars, target, eventVars, result, watcherVars>>

(* task.cancel() or an expired asyncio.timeout.  It wins over an answer     *)
(* that was posted but whose waiter has not run yet.                       *)
Cancel(w) ==
    /\ Suspended(w)
    /\ w \in Cancellable \ cancelling
    /\ cancelling' = cancelling \union {w}
    /\ UNCHANGED <<storeVars, listenerVars, pc, target, eventVars, result, watcherVars>>

-----------------------------------------------------------------------------
(* watch_added: a generator that yields a snapshot of the stored objects,  *)
(* then registers a callback and yields what its queue receives.  A prompt *)
(* consumer runs it in one go from the first item to the empty queue.      *)

WatchAddedPrompt(g) ==
    /\ watch[g] = "idle"
    /\ prompt[g]
    /\ watch' = [watch EXCEPT ![g] = "listening"]
    /\ seen' = [seen EXCEPT ![g] = OfKind(objects)]
    /\ UNCHANGED <<storeVars, listenerVars, waiterVars, snapshot, pending, prompt>>

WatchAddedStarts(g) ==
    /\ watch[g] = "idle"
    /\ ~prompt[g]
    /\ watch' = [watch EXCEPT ![g] = "existing"]
    /\ snapshot' = [snapshot EXCEPT ![g] = OfKind(objects)]
    /\ UNCHANGED <<storeVars, listenerVars, waiterVars, pending, seen, prompt>>

YieldExisting(g) ==
    /\ watch[g] = "existing"
    /\ snapshot[g] # <<>>
    /\ seen' = [seen EXCEPT ![g] = Append(@, Head(snapshot[g]))]
    /\ snapshot' = [snapshot EXCEPT ![g] = Tail(@)]
    /\ UNCHANGED <<storeVars, listenerVars, waiterVars, watch, pending, prompt>>

WatchAddedListens(g) ==
    /\ watch[g] = "existing"
    /\ snapshot[g] = <<>>
    /\ watch' = [watch EXCEPT ![g] = "listening"]
    /\ UNCHANGED <<storeVars, listenerVars, waiterVars, snapshot, pending, seen, prompt>>

YieldAdded(g) ==
    /\ watch[g] = "listening"
    /\ pending[g] # <<>>
    /\ seen' = [seen EXCEPT ![g] = Append(@, Head(pending[g]))]
    /\ pending' = [pending EXCEPT ![g] = Tail(@)]
    /\ UNCHANGED <<storeVars, listenerVars, waiterVars, watch, snapshot, prompt>>

(* Cancelled, or closed by its consumer: callback and queue are dropped. *)
CloseWatch(g) ==
    /\ watch[g] \in {"existing", "listening"}
    /\ watch' = [watch EXCEPT ![g] = "closed"]
    /\ snapshot' = [snapshot EXCEPT ![g] = <<>>]
    /\ pending' = [pending EXCEPT ![g] = <<>>]
    /\ seen' = [seen EXCEPT ![g] = <<>>]
    /\ UNCHANGED <<storeVars, listenerVars, waiterVars, prompt>>

-----------------------------------------------------------------------------
Writes ==
    \/ \E r \in Resources : AddObject(r)
    \/ \E r \in Resources, s \in {"Pending", "Ready", "Failed"} : UpdateStatus(r, s)
    \/ \E r \in Resources : SetArtifact(r)

ListenerStep(l) == AddListener(l) \/ RemoveListener(l)

Call(w) ==
    \/ WatchExistsFound(w)
    \/ WatchExistsWaits(w)
    \/ WatchReadyDecided(w)
    \/ WatchReadyWaits(w)

Resume(w) ==
    \/ ExistsResumes(w)
    \/ ExistsCancelled(w)
    \/ ReadyResumes(w)
    \/ ReadyCancelled(w)

WatcherStep(g) ==
    \/ WatchAddedPrompt(g)
    \/ WatchAddedStarts(g)
    \/ YieldExisting(g)
    \/ WatchAddedListens(g)
    \/ YieldAdded(g)
    \/ CloseWatch(g)

Next ==
    \/ Writes
    \/ \E l \in Listeners : ListenerStep(l)
    \/ \E w \in Waiters : Call(w) \/ Resume(w) \/ Cancel(w)
    \/ \E g \in Watchers : WatcherStep(g)

Spec == Init /\ [][Next]_vars

(* The event loop runs every scheduled callback, so a waiter whose future   *)
(* is done is resumed; nobody has to write to the store.                   *)
Fairness == \A w \in Waiters : WF_vars(Resume(w))

FairSpec == Spec /\ Fairness
-----------------------------------------------------------------------------
(* Type invariant: the part the proofs use, and the watch_added generators. *)
StoreTypeOK ==
    /\ objects \in Seq(Resources)
    /\ status \in [Resources -> {"None", "Pending"} \union Terminal]
    /\ artifacts \in [Resources -> 0..MaxRevision]
    /\ listening \in [Listeners -> {"off", "on", "removed"}]
    /\ heard \in [Listeners -> Seq(Resources)]
    /\ told \in [Listeners -> [Resources -> 0..MaxRevision]]
    /\ pc \in [Waiters -> {"idle", "exists", "ready", "returned", "failed",
                           "cancelled", "notfound"}]
    /\ target \in [Waiters -> Resources]
    /\ event \in [Waiters -> Waiters \union {NoEvent}]
    /\ existenceWaiters \in [Resources -> Waiters \union {NoEvent}]
    /\ isSet \subseteq Waiters
    /\ result \in [Waiters -> {"None"} \union Terminal]
    /\ cancelling \subseteq {w \in Cancellable : Suspended(w)}

TypeOK ==
    /\ StoreTypeOK
    /\ watch \in [Watchers -> {"idle", "existing", "listening", "closed"}]
    /\ snapshot \in [Watchers -> Seq(WatchedKind)]
    /\ pending \in [Watchers -> Seq(WatchedKind)]
    /\ seen \in [Watchers -> Seq(WatchedKind)]
    /\ prompt \in [Watchers -> BOOLEAN]

(* What watch_exists documents (store.py:136 and 145): the waiter returns   *)
(* the object when it is added.  So a waiter whose object is in the store  *)
(* has its Event set, and will be resumed.                                 *)
NoLostWakeup ==
    \A w \in Waiters :
        pc[w] = "exists" /\ InStore(target[w]) => event[w] \in isSet

(* A fellow of w on the same Event was cancelled before the Event was set,  *)
(* and took the Event off the record when it left.                         *)
LostToCancellation(w) ==
    \E v \in Waiters \ {w} :
        pc[v] = "cancelled" /\ event[v] = event[w] /\ target[v] = target[w]

(* What the code guarantees of NoLostWakeup: add_object wakes every waiter  *)
(* for the object but those that shared their Event with a cancelled one.  *)
WakeupLostOnlyToCancellation ==
    \A w \in Waiters :
        pc[w] = "exists" /\ InStore(target[w]) /\ event[w] \notin isSet
            => LostToCancellation(w)

(* The error branch of watch_exists (in_memory.py:386) is never reached: a  *)
(* waiter whose Event is set finds its object.                             *)
WokenWaiterFindsObject ==
    /\ \A w \in Waiters : event[w] \in isSet => InStore(target[w])
    /\ \A w \in Waiters : pc[w] # "notfound"

(* watch_ready registers its callback before any status can slip by: a     *)
(* waiter for a resource that is READY or FAILED already has its answer.   *)
ReadyNeverMissed ==
    \A w \in Waiters :
        pc[w] = "ready" /\ status[target[w]] \in Terminal => result[w] # "None"

(* The answer a watch_ready call is given, at once or by its callback, is   *)
(* the status its own resource has at that moment, and is never replaced.  *)
AnswerIsCurrentStatus ==
    [][\A w \in Waiters :
         /\ result'[w] # result[w] =>
              result[w] = "None" /\ result'[w] = status'[target[w]]
         /\ pc[w] = "idle" /\ pc'[w] = "failed" => status[target[w]] = "Failed"
         /\ pc[w] = "ready" /\ pc'[w] \in {"returned", "failed"} =>
              (pc'[w] = "returned") <=> (result[w] = "Ready")]_vars

(* A consumer that awaits nothing between two items (as the kustomization   *)
(* controller's) gets every object of the kind once, in insertion order:   *)
(* nothing falls between the snapshot and the callback.                    *)
PromptWatcherMissesNothing ==
    \A g \in Watchers :
        prompt[g] /\ watch[g] = "listening"
            => seen[g] \o pending[g] = OfKind(objects)

(* Whenever a controller registered, flush and callbacks together give it   *)
(* every object once, in order, and the current artifact of each.          *)
ListenersUpToDate ==
    \A l \in Listeners :
        listening[l] = "on" => heard[l] = objects /\ told[l] = artifacts

(* Every waiter whose answer is there is resumed in the end, save one that  *)
(* lost its Event to a cancelled fellow.                                   *)
WaitersAnswered ==
    \A w \in Waiters :
        /\ (pc[w] = "exists" /\ InStore(target[w]))
              ~> (pc[w] # "exists" \/ LostToCancellation(w))
        /\ (pc[w] = "ready" /\ status[target[w]] \in Terminal)
              ~> (pc[w] # "ready")
-----------------------------------------------------------------------------
(* The inductive invariant of the existence protocol, part by part.        *)

(* An Event belongs to the waiter that created it, for that waiter's        *)
(* resource, and only waiters for the same resource share it.              *)
EventsWellFormed ==
    /\ \A w \in Waiters : pc[w] = "idle" => event[w] = NoEvent
    /\ \A w \in Waiters : pc[w] = "exists" => event[w] # NoEvent
    /\ \A w \in Waiters : event[w] # NoEvent =>
          event[event[w]] = event[w] /\ target[event[w]] = target[w]
    /\ \A r \in Resources : existenceWaiters[r] # NoEvent =>
          /\ event[existenceWaiters[r]] = existenceWaiters[r]
          /\ target[existenceWaiters[r]] = r

(* An Event is set once its object is stored, and the Event on record for a *)
(* stored object is set.                                                   *)
SetMeansStored ==
    /\ \A e \in isSet : event[e] = e /\ InStore(target[e])
    /\ \A r \in Resources :
          existenceWaiters[r] # NoEvent /\ InStore(r) => existenceWaiters[r] \in isSet

(* A waiter's Event is on record, or set, or lost to a cancelled fellow. *)
WaiterReachable ==
    \A w \in Waiters : pc[w] = "exists" =>
        \/ existenceWaiters[target[w]] = event[w]
        \/ event[w] \in isSet
        \/ LostToCancellation(w)

ExistenceInv == StoreTypeOK /\ EventsWellFormed /\ SetMeansStored /\ WaiterReachable

=============================================================================
