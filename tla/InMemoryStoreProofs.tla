------------------------ MODULE InMemoryStoreProofs ------------------------
(* What holds of InMemoryStore for any resources, waiters, watchers and     *)
(* listeners.  The existence protocol rests on ExistenceInv: every waiter   *)
(* is reachable through the Event on record for its resource, or that Event *)
(* is set, or a cancelled fellow took it off the record.                    *)
EXTENDS InMemoryStore, SequenceTheorems, WellFoundedInduction, TLAPS

(* Appending an object adds exactly that object to the store. *)
LEMMA AppendStores ==
    ASSUME NEW s \in Seq(Resources), NEW r \in Resources
    PROVE  /\ Append(s, r) \in Seq(Resources)
           /\ ToSet(Append(s, r)) = ToSet(s) \union {r}
  <1>1. /\ Append(s, r) \in Seq(Resources)
        /\ Len(Append(s, r)) = Len(s) + 1
        /\ \A i \in 1..Len(s) : Append(s, r)[i] = s[i]
        /\ Append(s, r)[Len(s) + 1] = r
    BY AppendProperties
  <1>2. /\ DOMAIN s = 1..Len(s)
        /\ DOMAIN Append(s, r) = 1..(Len(s) + 1)
        /\ Len(s) \in Nat
    BY <1>1
  <1>3. ToSet(Append(s, r)) \subseteq ToSet(s) \union {r}
    BY <1>1, <1>2 DEF ToSet
  <1>4. ToSet(s) \subseteq ToSet(Append(s, r))
    BY <1>1, <1>2 DEF ToSet
  <1>5. r \in ToSet(Append(s, r))
    BY <1>1, <1>2 DEF ToSet
  <1>6. QED
    BY <1>1, <1>3, <1>4, <1>5

(* The steps of listeners and generators leave the waiters alone. *)
LEMMA WatcherSteps ==
    ASSUME NEW g \in Watchers, WatcherStep(g)
    PROVE  UNCHANGED <<storeVars, listenerVars, waiterVars>>
  BY DEF WatcherStep, WatchAddedPrompt, WatchAddedStarts, YieldExisting,
         WatchAddedListens, YieldAdded, CloseWatch

-----------------------------------------------------------------------------
LEMMA InitStoreType == Init => StoreTypeOK
  BY StoreAssumption DEF Init, StoreTypeOK, Terminal, Suspended

LEMMA NextStoreType == StoreTypeOK /\ [Next]_vars => StoreTypeOK'
  <1> SUFFICES ASSUME StoreTypeOK, [Next]_vars PROVE StoreTypeOK'
    OBVIOUS
  <1> USE StoreAssumption DEF StoreTypeOK, Terminal, Suspended
  <1>1. ASSUME NEW r \in Resources, AddObject(r) PROVE StoreTypeOK'
    <2>1. objects' \in Seq(Resources)
      BY <1>1, AppendStores DEF AddObject
    <2>2. heard' \in [Listeners -> Seq(Resources)]
      BY <1>1, AppendStores DEF AddObject, FireObjectAdded
    <2>3. QED
      BY <1>1, <2>1, <2>2 DEF AddObject, WakeExistenceWaiters
  <1>2. ASSUME NEW r \in Resources, NEW s \in {"Pending", "Ready", "Failed"},
               UpdateStatus(r, s)
        PROVE  StoreTypeOK'
    BY <1>2 DEF UpdateStatus, FireStatusUpdated, listenerVars, eventVars
  <1>3. ASSUME NEW r \in Resources, SetArtifact(r) PROVE StoreTypeOK'
    <2>1. artifacts[r] + 1 \in 0..MaxRevision
      BY <1>3 DEF SetArtifact
    <2>2. QED
      BY <1>3, <2>1 DEF SetArtifact, waiterVars, eventVars
  <1>4. ASSUME NEW l \in Listeners, ListenerStep(l) PROVE StoreTypeOK'
    <2>1. CASE AddListener(l)
      BY <2>1 DEF AddListener, FlushedArtifacts, storeVars, waiterVars, eventVars
    <2>2. CASE RemoveListener(l)
      BY <2>2 DEF RemoveListener, storeVars, waiterVars, eventVars
    <2>3. QED
      BY <1>4, <2>1, <2>2 DEF ListenerStep
  <1>5. ASSUME NEW w \in Waiters, Call(w) PROVE StoreTypeOK'
    <2>1. CASE WatchExistsFound(w)
      BY <2>1 DEF WatchExistsFound, storeVars, listenerVars, eventVars
    <2>2. CASE WatchExistsWaits(w)
      BY <2>2 DEF WatchExistsWaits, ExistsEvent, storeVars, listenerVars
    <2>3. CASE WatchReadyDecided(w)
      BY <2>3 DEF WatchReadyDecided, storeVars, listenerVars, eventVars
    <2>4. CASE WatchReadyWaits(w)
      BY <2>4 DEF WatchReadyWaits, storeVars, listenerVars, eventVars
    <2>5. QED
      BY <1>5, <2>1, <2>2, <2>3, <2>4 DEF Call
  <1>6. ASSUME NEW w \in Waiters, Resume(w) PROVE StoreTypeOK'
    <2>1. CASE ExistsResumes(w)
      BY <2>1 DEF ExistsResumes, ForgetEvent, storeVars, listenerVars
    <2>2. CASE ExistsCancelled(w)
      BY <2>2 DEF ExistsCancelled, ForgetEvent, storeVars, listenerVars
    <2>3. CASE ReadyResumes(w)
      BY <2>3 DEF ReadyResumes, storeVars, listenerVars, eventVars
    <2>4. CASE ReadyCancelled(w)
      BY <2>4 DEF ReadyCancelled, storeVars, listenerVars, eventVars
    <2>5. QED
      BY <1>6, <2>1, <2>2, <2>3, <2>4 DEF Resume
  <1>7. ASSUME NEW w \in Waiters, Cancel(w) PROVE StoreTypeOK'
    BY <1>7 DEF Cancel, storeVars, listenerVars, eventVars
  <1>8. ASSUME NEW g \in Watchers, WatcherStep(g) PROVE StoreTypeOK'
    BY <1>8, WatcherSteps DEF storeVars, listenerVars, waiterVars, eventVars
  <1>9. CASE UNCHANGED vars
    BY <1>9 DEF vars, storeVars, listenerVars, waiterVars, eventVars
  <1>10. CASE Writes
    BY <1>1, <1>2, <1>3, <1>10 DEF Writes
  <1> HIDE DEF StoreTypeOK
  <1>11. QED
    BY <1>4, <1>5, <1>6, <1>7, <1>8, <1>9, <1>10 DEF Next

(* Type correctness of the stored state and of the waiting coroutines. *)
THEOREM StoreTypeCorrect == Spec => []StoreTypeOK
  BY InitStoreType, NextStoreType, PTL DEF Spec

-----------------------------------------------------------------------------
(* The existence protocol: what watch_exists and add_object share.         *)
existenceVars == <<objects, pc, target, event, existenceWaiters, isSet>>

ExistenceCore == EventsWellFormed /\ SetMeansStored /\ WaiterReachable

(* The steps of the protocol; every other step leaves its state alone. *)
ExistenceStep(w) ==
    \/ WatchExistsFound(w) \/ WatchExistsWaits(w)
    \/ WatchReadyDecided(w) \/ WatchReadyWaits(w)
    \/ ExistsResumes(w) \/ ExistsCancelled(w)
    \/ ReadyResumes(w) \/ ReadyCancelled(w)

LEMMA ExistenceSteps ==
    ASSUME [Next]_vars
    PROVE  \/ \E r \in Resources : AddObject(r)
           \/ \E w \in Waiters : ExistenceStep(w)
           \/ UNCHANGED existenceVars
  <1> USE DEF existenceVars
  <1>1. ASSUME NEW r \in Resources, NEW s \in {"Pending", "Ready", "Failed"},
               UpdateStatus(r, s)
        PROVE  UNCHANGED existenceVars
    BY <1>1 DEF UpdateStatus, eventVars
  <1>2. ASSUME NEW r \in Resources, SetArtifact(r) PROVE UNCHANGED existenceVars
    BY <1>2 DEF SetArtifact, waiterVars, eventVars
  <1>3. ASSUME NEW l \in Listeners, ListenerStep(l) PROVE UNCHANGED existenceVars
    BY <1>3 DEF ListenerStep, AddListener, RemoveListener, storeVars, waiterVars,
                eventVars
  <1>4. ASSUME NEW w \in Waiters, Cancel(w) PROVE UNCHANGED existenceVars
    BY <1>4 DEF Cancel, storeVars, eventVars
  <1>5. ASSUME NEW g \in Watchers, WatcherStep(g) PROVE UNCHANGED existenceVars
    BY <1>5, WatcherSteps DEF storeVars, waiterVars, eventVars
  <1>6. CASE UNCHANGED vars
    BY <1>6 DEF vars, storeVars, waiterVars, eventVars
  <1>7. CASE Writes
    BY <1>1, <1>2, <1>7 DEF Writes
  <1>8. ASSUME NEW w \in Waiters, Call(w) \/ Resume(w) PROVE ExistenceStep(w)
    BY <1>8 DEF Call, Resume, ExistenceStep
  <1> HIDE DEF existenceVars
  <1>9. QED
    BY <1>3, <1>4, <1>5, <1>6, <1>7, <1>8 DEF Next

LEMMA InitExistence == Init => ExistenceCore
  BY StoreAssumption
  DEF Init, ExistenceCore, EventsWellFormed, SetMeansStored, WaiterReachable

(* add_object sets the Event on record: its object is stored from then on.  *)
LEMMA AddObjectExistence ==
    ASSUME StoreTypeOK, ExistenceCore, NEW r \in Resources, AddObject(r)
    PROVE  ExistenceCore'
  <1> USE StoreAssumption DEF ExistenceCore, StoreTypeOK, WakeExistenceWaiters
  <1>1. /\ UNCHANGED <<pc, target, event, existenceWaiters>>
        /\ isSet' = IF existenceWaiters[r] = NoEvent
                    THEN isSet ELSE isSet \union {existenceWaiters[r]}
    BY DEF AddObject
  <1>2. \A q : InStore(q)' <=> InStore(q) \/ q = r
    BY AppendStores DEF AddObject, InStore
  <1>3. EventsWellFormed'
    BY <1>1 DEF EventsWellFormed
  <1>4. SetMeansStored'
    BY <1>1, <1>2 DEF SetMeansStored, EventsWellFormed
  <1>5. WaiterReachable'
    BY <1>1, <1>2 DEF WaiterReachable, LostToCancellation
  <1>6. QED
    BY <1>3, <1>4, <1>5

(* A waiter that leaves for another reason than cancellation was woken, so  *)
(* its Event is set and its fellows need no record of it.                  *)
LEMMA ExistsResumesExistence ==
    ASSUME StoreTypeOK, ExistenceCore, NEW w \in Waiters, ExistsResumes(w)
    PROVE  ExistenceCore'
  <1> USE StoreAssumption DEF ExistenceCore, StoreTypeOK
  <1>1. /\ UNCHANGED <<objects, target, event, isSet>>
        /\ event[w] \in isSet
        /\ pc[w] = "exists"
        /\ pc' = [pc EXCEPT ![w] = pc'[w]]
        /\ pc'[w] \in {"returned", "notfound"}
        /\ \A r \in Resources : \/ existenceWaiters'[r] = existenceWaiters[r]
                                \/ /\ existenceWaiters'[r] = NoEvent
                                   /\ existenceWaiters[r] = event[w]
    BY DEF ExistsResumes, ForgetEvent, storeVars
  <1>2. \A q : InStore(q)' <=> InStore(q)
    BY <1>1 DEF InStore
  <1>3. EventsWellFormed'
    BY <1>1 DEF EventsWellFormed
  <1>4. SetMeansStored'
    BY <1>1, <1>2 DEF SetMeansStored
  <1>5. ASSUME NEW v \in Waiters, pc'[v] = "exists"
        PROVE  \/ existenceWaiters'[target[v]] = event[v]
               \/ event[v] \in isSet
               \/ LostToCancellation(v)'
    <2>1. pc[v] = "exists"
      BY <1>1, <1>5
    <2>2. CASE existenceWaiters[target[v]] = event[v]
      BY <1>1, <2>2
    <2>3. CASE LostToCancellation(v)
      BY <1>1, <2>3 DEF LostToCancellation
    <2>4. QED
      BY <2>1, <2>2, <2>3 DEF WaiterReachable
  <1>6. WaiterReachable'
    BY <1>1, <1>5 DEF WaiterReachable
  <1>7. QED
    BY <1>3, <1>4, <1>6

(* A cancelled waiter takes the Event off the record: its fellows are lost. *)
LEMMA ExistsCancelledExistence ==
    ASSUME StoreTypeOK, ExistenceCore, NEW w \in Waiters, ExistsCancelled(w)
    PROVE  ExistenceCore'
  <1> USE StoreAssumption DEF ExistenceCore, StoreTypeOK
  <1>1. /\ UNCHANGED <<objects, target, event, isSet>>
        /\ pc[w] = "exists"
        /\ pc' = [pc EXCEPT ![w] = "cancelled"]
        /\ \A r \in Resources : \/ existenceWaiters'[r] = existenceWaiters[r]
                                \/ /\ existenceWaiters'[r] = NoEvent
                                   /\ existenceWaiters[r] = event[w]
                                   /\ r = target[w]
    BY DEF ExistsCancelled, ForgetEvent, storeVars
  <1>2. \A q : InStore(q)' <=> InStore(q)
    BY <1>1 DEF InStore
  <1>3. EventsWellFormed'
    BY <1>1 DEF EventsWellFormed
  <1>4. SetMeansStored'
    BY <1>1, <1>2 DEF SetMeansStored
  <1>5. ASSUME NEW v \in Waiters, pc'[v] = "exists"
        PROVE  \/ existenceWaiters'[target[v]] = event[v]
               \/ event[v] \in isSet
               \/ LostToCancellation(v)'
    <2>1. v # w /\ pc[v] = "exists"
      BY <1>1, <1>5
    <2>2. CASE existenceWaiters[target[v]] = event[v]
      <3>1. CASE existenceWaiters'[target[v]] = NoEvent
        <4>1. event[v] = event[w] /\ target[v] = target[w]
          BY <1>1, <2>1, <2>2, <3>1 DEF EventsWellFormed
        <4>2. pc'[w] = "cancelled"
          BY <1>1
        <4>3. QED
          BY <1>1, <2>1, <4>1, <4>2 DEF LostToCancellation
      <3>2. QED
        BY <1>1, <2>2, <3>1
    <2>3. CASE LostToCancellation(v)
      BY <1>1, <2>3 DEF LostToCancellation
    <2>4. QED
      BY <2>1, <2>2, <2>3 DEF WaiterReachable
  <1>6. WaiterReachable'
    BY <1>1, <1>5 DEF WaiterReachable
  <1>7. QED
    BY <1>3, <1>4, <1>6

(* A new waiter joins the Event on record, or puts its own there. *)
LEMMA WatchExistsWaitsExistence ==
    ASSUME StoreTypeOK, ExistenceCore, NEW w \in Waiters, WatchExistsWaits(w)
    PROVE  ExistenceCore'
  <1> USE StoreAssumption DEF ExistenceCore, StoreTypeOK
  <1> DEFINE e == ExistsEvent(w)
  <1>1. /\ UNCHANGED <<objects, target>>
        /\ pc[w] = "idle"
        /\ ~InStore(target[w])
        /\ pc' = [pc EXCEPT ![w] = "exists"]
        /\ event' = [event EXCEPT ![w] = e]
        /\ existenceWaiters' = [existenceWaiters EXCEPT ![target[w]] = e]
        /\ isSet' = isSet \ {e}
    BY DEF WatchExistsWaits, storeVars
  <1>2. /\ e \in Waiters
        /\ e = w \/ (event[e] = e /\ target[e] = target[w] /\ e # w)
    BY <1>1 DEF ExistsEvent, EventsWellFormed
  <1>3. event[w] = NoEvent
    BY <1>1 DEF EventsWellFormed
  <1> HIDE DEF e
  <1>4. \A q : InStore(q)' <=> InStore(q)
    BY <1>1 DEF InStore
  <1>5. e \notin isSet
    BY <1>1, <1>2, <1>3 DEF SetMeansStored
  <1>6. EventsWellFormed'
    BY <1>1, <1>2, <1>3 DEF EventsWellFormed
  <1>7. SetMeansStored'
    BY <1>1, <1>2, <1>3, <1>4, <1>5 DEF SetMeansStored
  <1>8. ASSUME NEW v \in Waiters, pc'[v] = "exists"
        PROVE  \/ existenceWaiters'[target[v]] = event'[v]
               \/ event'[v] \in isSet'
               \/ LostToCancellation(v)'
    <2>1. CASE v = w
      BY <1>1, <2>1
    <2>2. CASE v # w /\ event[v] \in isSet
      BY <1>1, <1>5, <2>2
    <2>3. CASE v # w /\ LostToCancellation(v)
      BY <1>1, <2>3 DEF LostToCancellation
    <2>4. CASE v # w /\ existenceWaiters[target[v]] = event[v]
      <3>1. event[v] # NoEvent
        BY <1>1, <1>8, <2>4 DEF EventsWellFormed
      <3>2. QED
        BY <1>1, <2>4, <3>1 DEF ExistsEvent, e
    <2>5. QED
      BY <1>1, <1>8, <2>1, <2>2, <2>3, <2>4 DEF WaiterReachable
  <1>9. WaiterReachable'
    BY <1>1, <1>8 DEF WaiterReachable
  <1>10. QED
    BY <1>6, <1>7, <1>9

(* A step that only moves a waiter neither out of "idle" into "exists" nor  *)
(* out of "exists" or "cancelled" disturbs nothing.                        *)
LEMMA OtherStepsExistence ==
    ASSUME StoreTypeOK, ExistenceCore, NEW w \in Waiters,
           \/ WatchExistsFound(w) \/ WatchReadyDecided(w) \/ WatchReadyWaits(w)
           \/ ReadyResumes(w) \/ ReadyCancelled(w)
    PROVE  ExistenceCore'
  <1> USE StoreAssumption DEF ExistenceCore, StoreTypeOK
  <1>1. /\ UNCHANGED <<objects, target, event, existenceWaiters, isSet>>
        /\ pc[w] \in {"idle", "ready"}
        /\ pc' = [pc EXCEPT ![w] = pc'[w]]
        /\ pc'[w] \in {"returned", "failed", "ready", "cancelled"}
    BY DEF WatchExistsFound, WatchReadyDecided, WatchReadyWaits, ReadyResumes,
           ReadyCancelled, storeVars, eventVars
  <1>2. \A q : InStore(q)' <=> InStore(q)
    BY <1>1 DEF InStore
  <1>3. EventsWellFormed'
    BY <1>1 DEF EventsWellFormed
  <1>4. SetMeansStored'
    BY <1>1, <1>2 DEF SetMeansStored
  <1>5. WaiterReachable'
    <2>1. \A v \in Waiters : LostToCancellation(v) => LostToCancellation(v)'
      BY <1>1 DEF LostToCancellation
    <2>2. \A v \in Waiters : pc'[v] = "exists" => pc[v] = "exists"
      BY <1>1
    <2>3. QED
      BY <1>1, <2>1, <2>2 DEF WaiterReachable
  <1>6. QED
    BY <1>3, <1>4, <1>5

LEMMA NextExistence == StoreTypeOK /\ ExistenceCore /\ [Next]_vars => ExistenceCore'
  <1> SUFFICES ASSUME StoreTypeOK, ExistenceCore, [Next]_vars PROVE ExistenceCore'
    OBVIOUS
  <1>1. CASE UNCHANGED existenceVars
    BY <1>1 DEF existenceVars, ExistenceCore, EventsWellFormed, SetMeansStored,
                WaiterReachable, LostToCancellation, InStore
  <1>2. ASSUME NEW w \in Waiters, ExistenceStep(w) PROVE ExistenceCore'
    BY <1>2, ExistsResumesExistence, ExistsCancelledExistence,
       WatchExistsWaitsExistence, OtherStepsExistence DEF ExistenceStep
  <1>3. QED
    BY <1>1, <1>2, ExistenceSteps, AddObjectExistence

(* The invariant the existence protocol rests on. *)
THEOREM ExistenceCorrect == Spec => []ExistenceInv
  <1>1. Init => ExistenceCore
    BY InitExistence
  <1>2. Spec => []ExistenceCore
    BY <1>1, StoreTypeCorrect, NextExistence, PTL DEF Spec
  <1>3. ExistenceInv <=> StoreTypeOK /\ ExistenceCore
    BY DEF ExistenceInv, ExistenceCore
  <1>4. QED
    BY <1>2, <1>3, StoreTypeCorrect, PTL

(* add_object wakes every watch_exists waiter of its object, but those that *)
(* shared their Event with a fellow that was cancelled.                    *)
THEOREM LostOnlyToCancellation == Spec => []WakeupLostOnlyToCancellation
  <1>1. ExistenceInv => WakeupLostOnlyToCancellation
    BY DEF ExistenceInv, WakeupLostOnlyToCancellation, EventsWellFormed,
           SetMeansStored, WaiterReachable, StoreTypeOK
  <1>2. QED
    BY <1>1, ExistenceCorrect, PTL

-----------------------------------------------------------------------------
(* A woken waiter finds its object: objects are never removed, and only     *)
(* add_object sets an Event.                                               *)
NobodyNotFound == \A w \in Waiters : pc[w] # "notfound"

LEMMA WokenIsStored ==
    ASSUME ExistenceInv, NEW w \in Waiters, event[w] \in isSet
    PROVE  InStore(target[w])
  BY StoreAssumption
  DEF ExistenceInv, StoreTypeOK, EventsWellFormed, SetMeansStored

LEMMA NextNobodyNotFound ==
    ExistenceInv /\ NobodyNotFound /\ [Next]_vars => NobodyNotFound'
  <1> SUFFICES ASSUME ExistenceInv, NobodyNotFound, [Next]_vars PROVE NobodyNotFound'
    OBVIOUS
  <1> USE DEF NobodyNotFound
  <1>1. pc = [w \in Waiters |-> pc[w]]
    BY DEF ExistenceInv, StoreTypeOK
  <1>2. ASSUME NEW w \in Waiters, ExistenceStep(w) PROVE NobodyNotFound'
    <2>1. CASE ExistsResumes(w)
      BY <1>1, <2>1, WokenIsStored DEF ExistsResumes
    <2>2. CASE \/ WatchExistsFound(w) \/ WatchExistsWaits(w)
               \/ WatchReadyDecided(w) \/ WatchReadyWaits(w)
      BY <1>1, <2>2 DEF WatchExistsFound, WatchExistsWaits, WatchReadyDecided,
                        WatchReadyWaits
    <2>3. CASE ExistsCancelled(w) \/ ReadyResumes(w) \/ ReadyCancelled(w)
      BY <1>1, <2>3 DEF ExistsCancelled, ReadyResumes, ReadyCancelled
    <2>4. QED
      BY <1>2, <2>1, <2>2, <2>3 DEF ExistenceStep
  <1>3. ASSUME NEW r \in Resources, AddObject(r) PROVE NobodyNotFound'
    BY <1>3 DEF AddObject
  <1>4. QED
    BY <1>2, <1>3, ExistenceSteps DEF existenceVars

(* The error branch of watch_exists is dead code. *)
THEOREM WokenFindsObject == Spec => []WokenWaiterFindsObject
  <1>1. Init => NobodyNotFound
    BY DEF Init, NobodyNotFound
  <1>2. ExistenceInv /\ NobodyNotFound => WokenWaiterFindsObject
    BY WokenIsStored DEF WokenWaiterFindsObject, NobodyNotFound
  <1>3. QED
    BY <1>1, <1>2, ExistenceCorrect, NextNobodyNotFound, PTL DEF Spec

-----------------------------------------------------------------------------
(* Only waiters whose task may be cancelled are. *)
OnlyCancellableCancelled == \A w \in Waiters : pc[w] = "cancelled" => w \in Cancellable

LEMMA NextOnlyCancellable ==
    StoreTypeOK /\ OnlyCancellableCancelled /\ [Next]_vars => OnlyCancellableCancelled'
  <1> SUFFICES ASSUME StoreTypeOK, OnlyCancellableCancelled, [Next]_vars
               PROVE  OnlyCancellableCancelled'
    OBVIOUS
  <1> USE DEF OnlyCancellableCancelled
  <1>1. pc = [w \in Waiters |-> pc[w]] /\ cancelling \subseteq Cancellable
    BY DEF StoreTypeOK
  <1>2. ASSUME NEW w \in Waiters, ExistenceStep(w) PROVE OnlyCancellableCancelled'
    <2>1. CASE ExistsCancelled(w) \/ ReadyCancelled(w)
      BY <1>1, <2>1 DEF ExistsCancelled, ReadyCancelled
    <2>2. CASE \/ WatchExistsFound(w) \/ WatchExistsWaits(w)
               \/ WatchReadyDecided(w) \/ WatchReadyWaits(w)
      BY <1>1, <2>2 DEF WatchExistsFound, WatchExistsWaits, WatchReadyDecided,
                        WatchReadyWaits
    <2>3. CASE ExistsResumes(w) \/ ReadyResumes(w)
      BY <1>1, <2>3 DEF ExistsResumes, ReadyResumes
    <2>4. QED
      BY <1>2, <2>1, <2>2, <2>3 DEF ExistenceStep
  <1>3. ASSUME NEW r \in Resources, AddObject(r) PROVE OnlyCancellableCancelled'
    BY <1>3 DEF AddObject
  <1>4. QED
    BY <1>2, <1>3, ExistenceSteps DEF existenceVars

(* Where no waiter is ever cancelled or timed out, watch_exists is what its *)
(* documentation says: no wakeup is lost at all.                           *)
THEOREM NoCancellationNoLoss == ASSUME Cancellable = {} PROVE Spec => []NoLostWakeup
  <1>1. Init => OnlyCancellableCancelled
    BY DEF Init, OnlyCancellableCancelled
  <1>2. OnlyCancellableCancelled /\ WakeupLostOnlyToCancellation => NoLostWakeup
    BY DEF OnlyCancellableCancelled, WakeupLostOnlyToCancellation, NoLostWakeup,
           LostToCancellation
  <1>3. QED
    BY <1>1, <1>2, LostOnlyToCancellation, StoreTypeCorrect, NextOnlyCancellable,
       PTL DEF Spec

-----------------------------------------------------------------------------
(* watch_ready: no status slips by between its check and its callback.     *)
readyVars == <<status, pc, target, result>>

LEMMA ReadySteps ==
    ASSUME [Next]_vars
    PROVE  \/ \E r \in Resources, s \in {"Pending", "Ready", "Failed"} : UpdateStatus(r, s)
           \/ \E w \in Waiters : ExistenceStep(w)
           \/ UNCHANGED readyVars
  <1> USE DEF readyVars
  <1>1. ASSUME NEW r \in Resources, AddObject(r) \/ SetArtifact(r)
        PROVE  UNCHANGED readyVars
    BY <1>1 DEF AddObject, SetArtifact, waiterVars
  <1>2. ASSUME NEW l \in Listeners, ListenerStep(l) PROVE UNCHANGED readyVars
    BY <1>2 DEF ListenerStep, AddListener, RemoveListener, storeVars, waiterVars
  <1>3. ASSUME NEW w \in Waiters, Cancel(w) PROVE UNCHANGED readyVars
    BY <1>3 DEF Cancel, storeVars
  <1>4. ASSUME NEW g \in Watchers, WatcherStep(g) PROVE UNCHANGED readyVars
    BY <1>4, WatcherSteps DEF storeVars, waiterVars
  <1>5. CASE UNCHANGED vars
    BY <1>5 DEF vars, storeVars, waiterVars
  <1>6. ASSUME NEW w \in Waiters, Call(w) \/ Resume(w) PROVE ExistenceStep(w)
    BY <1>6 DEF Call, Resume, ExistenceStep
  <1> HIDE DEF readyVars
  <1>7. QED
    BY <1>1, <1>2, <1>3, <1>4, <1>5, <1>6 DEF Next, Writes

LEMMA WaiterStepReady ==
    ASSUME StoreTypeOK, NEW w \in Waiters, ExistenceStep(w)
    PROVE  /\ UNCHANGED <<status, target, result>>
           /\ \A v \in Waiters \ {w} : pc'[v] = pc[v]
           /\ pc'[w] = "ready" => pc[w] = "idle" /\ status[target[w]] \notin Terminal
           /\ pc'[w] = "failed" /\ pc[w] = "idle" => status[target[w]] = "Failed"
           /\ pc[w] = "ready" /\ pc'[w] \in {"returned", "failed"} =>
                (pc'[w] = "returned" <=> result[w] = "Ready")
  <1> USE DEF StoreTypeOK, storeVars
  <1>1. CASE WatchExistsFound(w) \/ WatchExistsWaits(w) \/ WatchReadyWaits(w)
    BY <1>1 DEF WatchExistsFound, WatchExistsWaits, WatchReadyWaits
  <1>2. CASE WatchReadyDecided(w)
    BY <1>2 DEF WatchReadyDecided, Terminal
  <1>3. CASE ExistsResumes(w) \/ ExistsCancelled(w)
    BY <1>3 DEF ExistsResumes, ExistsCancelled
  <1>4. CASE ReadyResumes(w) \/ ReadyCancelled(w)
    BY <1>4 DEF ReadyResumes, ReadyCancelled
  <1>5. QED
    BY <1>1, <1>2, <1>3, <1>4 DEF ExistenceStep

LEMMA NextReadyNeverMissed ==
    StoreTypeOK /\ ReadyNeverMissed /\ [Next]_vars => ReadyNeverMissed'
  <1> SUFFICES ASSUME StoreTypeOK, ReadyNeverMissed, [Next]_vars PROVE ReadyNeverMissed'
    OBVIOUS
  <1>1. CASE UNCHANGED readyVars
    BY <1>1 DEF readyVars, ReadyNeverMissed
  <1>2. ASSUME NEW r \in Resources, NEW s \in {"Pending", "Ready", "Failed"},
               UpdateStatus(r, s)
        PROVE  ReadyNeverMissed'
    BY <1>2 DEF UpdateStatus, FireStatusUpdated, ReadyNeverMissed, StoreTypeOK, Terminal
  <1>3. ASSUME NEW w \in Waiters, ExistenceStep(w) PROVE ReadyNeverMissed'
    BY <1>3, WaiterStepReady DEF ReadyNeverMissed
  <1>4. QED
    BY <1>1, <1>2, <1>3, ReadySteps

(* A watch_ready waiter never sleeps on a status that is already decided. *)
THEOREM ReadyNotMissed == Spec => []ReadyNeverMissed
  <1>1. Init => ReadyNeverMissed
    BY DEF Init, ReadyNeverMissed
  <1>2. QED
    BY <1>1, StoreTypeCorrect, NextReadyNeverMissed, PTL DEF Spec

(* The answer of watch_ready is a status its resource has when it is given. *)
THEOREM AnswersAreCurrent == Spec => AnswerIsCurrentStatus
  <1> DEFINE Answers ==
        \A w \in Waiters :
          /\ result'[w] # result[w] =>
               result[w] = "None" /\ result'[w] = status'[target[w]]
          /\ pc[w] = "idle" /\ pc'[w] = "failed" => status[target[w]] = "Failed"
          /\ pc[w] = "ready" /\ pc'[w] \in {"returned", "failed"} =>
               (pc'[w] = "returned") <=> (result[w] = "Ready")
  <1>1. ASSUME StoreTypeOK, [Next]_vars PROVE Answers
    <2>1. CASE UNCHANGED readyVars
      BY <2>1 DEF readyVars
    <2>2. ASSUME NEW r \in Resources, NEW s \in {"Pending", "Ready", "Failed"},
                 UpdateStatus(r, s)
          PROVE  Answers
      BY <1>1, <2>2 DEF UpdateStatus, FireStatusUpdated, StoreTypeOK
    <2>3. ASSUME NEW w \in Waiters, ExistenceStep(w) PROVE Answers
      BY <1>1, <2>3, WaiterStepReady
    <2> HIDE DEF Answers
    <2>4. QED
      BY <1>1, <2>1, <2>2, <2>3, ReadySteps
  <1>2. StoreTypeOK /\ [Next]_vars => [Answers]_vars
    BY <1>1
  <1>3. Spec => [][Answers]_vars
    BY <1>2, StoreTypeCorrect, PTL DEF Spec
  <1>4. QED
    BY <1>3 DEF AnswerIsCurrentStatus

-----------------------------------------------------------------------------
(* Listeners: the flush of a registration replays the artifacts of stored   *)
(* objects only, which are all there are.                                  *)
ArtifactsOfObjects == \A r \in Resources : artifacts[r] # 0 => InStore(r)

ListenerInv == ArtifactsOfObjects /\ ListenersUpToDate

LEMMA NextListenerInv == StoreTypeOK /\ ListenerInv /\ [Next]_vars => ListenerInv'
  <1> SUFFICES ASSUME StoreTypeOK, ListenerInv, [Next]_vars PROVE ListenerInv'
    OBVIOUS
  <1> USE DEF ListenerInv, ArtifactsOfObjects, ListenersUpToDate, StoreTypeOK
  <1>1. ASSUME UNCHANGED <<objects, artifacts, listening, heard, told>>
        PROVE  ListenerInv'
    BY <1>1 DEF InStore
  <1>2. ASSUME NEW r \in Resources, AddObject(r) PROVE ListenerInv'
    <2>1. \A q : InStore(q) => InStore(q)'
      BY <1>2, AppendStores DEF AddObject, InStore
    <2>2. QED
      BY <1>2, <2>1 DEF AddObject, FireObjectAdded
  <1>3. ASSUME NEW r \in Resources, SetArtifact(r) PROVE ListenerInv'
    <2>1. /\ \A q : InStore(q)' <=> InStore(q)
          /\ InStore(r)
      BY <1>3 DEF SetArtifact, InStore
    <2>2. ArtifactsOfObjects'
      BY <1>3, <2>1 DEF SetArtifact
    <2>3. ListenersUpToDate'
      BY <1>3 DEF SetArtifact
    <2>4. QED
      BY <2>2, <2>3
  <1>4. ASSUME NEW l \in Listeners, AddListener(l) PROVE ListenerInv'
    <2>1. ArtifactsOfObjects'
      BY <1>4 DEF AddListener, storeVars, InStore
    <2>2. artifacts = FlushedArtifacts
      BY DEF FlushedArtifacts
    <2>3. ListenersUpToDate'
      BY <1>4, <2>2 DEF AddListener, storeVars
    <2>4. QED
      BY <2>1, <2>3
  <1>5. ASSUME NEW l \in Listeners, RemoveListener(l) PROVE ListenerInv'
    BY <1>5 DEF RemoveListener, storeVars, InStore
  <1> HIDE DEF ListenerInv
  <1>6. ASSUME NEW r \in Resources, NEW s \in {"Pending", "Ready", "Failed"},
               UpdateStatus(r, s)
        PROVE  ListenerInv'
    BY <1>1, <1>6 DEF UpdateStatus, listenerVars
  <1>7. ASSUME NEW w \in Waiters, ExistenceStep(w) \/ Cancel(w) PROVE ListenerInv'
    BY <1>1, <1>7
    DEF ExistenceStep, WatchExistsFound, WatchExistsWaits, WatchReadyDecided,
        WatchReadyWaits, ExistsResumes, ExistsCancelled, ReadyResumes,
        ReadyCancelled, Cancel, storeVars, listenerVars
  <1>8. ASSUME NEW g \in Watchers, WatcherStep(g) PROVE ListenerInv'
    BY <1>1, <1>8, WatcherSteps DEF storeVars, listenerVars
  <1>9. CASE UNCHANGED vars
    BY <1>1, <1>9 DEF vars, storeVars, listenerVars
  <1>10. ASSUME NEW w \in Waiters, Call(w) \/ Resume(w) PROVE ExistenceStep(w)
    BY <1>10 DEF Call, Resume, ExistenceStep
  <1>11. QED
    BY <1>2, <1>3, <1>4, <1>5, <1>6, <1>7, <1>8, <1>9, <1>10
    DEF Next, Writes, ListenerStep

(* However late a controller registers, it has been told of every object    *)
(* once, in order, and of the current artifact of each.                    *)
THEOREM ListenersCorrect == Spec => []ListenersUpToDate
  <1>1. Init => ListenerInv
    BY DEF Init, ListenerInv, ArtifactsOfObjects, ListenersUpToDate
  <1>2. ListenerInv => ListenersUpToDate
    BY DEF ListenerInv
  <1>3. QED
    BY <1>1, <1>2, StoreTypeCorrect, NextListenerInv, PTL DEF Spec

-----------------------------------------------------------------------------
(* What watch_added selects from a sequence of objects.  OfKind is a recursive *)
(* function; that there is one, and what it does to an appended element, is   *)
(* shown by looking at the least index at which it could be otherwise.        *)
LEMMA LeastIndex ==
    ASSUME NEW S \in SUBSET Nat, S # {}
    PROVE  \E x \in S : \A y \in S : x <= y
  <1> DEFINE R == {ss \in Nat \X Nat : ss[1] < ss[2]}
  <1>1. IsWellFoundedOn(R, Nat)
    BY NatLessThanWellFounded, Zenon DEF OpToRel
  <1>2. \A x, y \in Nat : <<y, x>> \in R <=> y < x
    OBVIOUS
  <1> HIDE DEF R
  <1>3. PICK x \in S : \A y \in S : <<y, x>> \notin R
    BY <1>1, WFMin
  <1>4. \A y \in S : ~ (y < x)
    BY <1>2, <1>3
  <1>5. QED
    BY <1>4

(* One step of the recursion, and that f takes it up to n. *)
Selected(s, f, i) ==
    IF i = 0 THEN <<>>
    ELSE IF s[i] \in WatchedKind THEN Append(f[i - 1], s[i])
    ELSE f[i - 1]

Selects(s, f, n) == f = [i \in 0 .. n |-> Selected(s, f, i)]

LEMMA SelectionExists ==
    ASSUME NEW s, NEW n \in Nat
    PROVE  \E f : Selects(s, f, n)
  <1> DEFINE Missing == {m \in Nat : ~ \E f : Selects(s, f, m)}
  <1>1. SUFFICES ASSUME Missing # {} PROVE FALSE
    OBVIOUS
  <1>2. PICK m \in Missing : \A y \in Missing : m <= y
    BY <1>1, LeastIndex
  <1>3. CASE m = 0
    <2> DEFINE f == [i \in 0 .. 0 |-> <<>>]
    <2>1. Selects(s, f, 0)
      BY DEF Selects, Selected
    <2>2. QED
      BY <1>2, <1>3, <2>1
  <1>4. CASE m # 0
    <2>1. m - 1 \in Nat /\ ~ (m <= m - 1)
      BY <1>2, <1>4
    <2>2. PICK f : Selects(s, f, m - 1)
      BY <1>2, <2>1
    <2> DEFINE g == [i \in 0 .. m |-> IF i = m THEN Selected(s, f, m) ELSE f[i]]
    <2>3. \A i \in 0 .. m : g[i] = Selected(s, g, i)
      <3> SUFFICES ASSUME NEW i \in 0 .. m PROVE g[i] = Selected(s, g, i)
        OBVIOUS
      <3>1. CASE i = m
        BY <1>4, <2>1, <3>1 DEF Selected
      <3>2. CASE i # m
        <4>1. i \in 0 .. (m - 1) /\ g[i] = f[i]
          BY <2>1, <3>2
        <4>2. f[i] = Selected(s, f, i)
          BY <2>2, <4>1 DEF Selects
        <4>3. i # 0 => i - 1 \in 0 .. m /\ i - 1 # m
          BY <4>1
        <4>4. i # 0 => g[i - 1] = f[i - 1]
          BY <4>3
        <4>5. QED
          BY <4>1, <4>2, <4>4 DEF Selected
      <3>3. QED
        BY <3>1, <3>2
    <2>4. Selects(s, g, m)
      BY <2>3 DEF Selects
    <2>5. QED
      BY <1>2, <2>4
  <1>5. QED
    BY <1>3, <1>4

(* Two of them agree as far as their sequences do, and select sequences. *)
LEMMA SelectionsAgree ==
    ASSUME NEW s, NEW t, NEW f, NEW g, NEW m \in Nat, NEW n \in Nat, n <= m,
           Selects(s, f, m), Selects(t, g, n), \A i \in 1 .. n : s[i] = t[i]
    PROVE  f[n] = g[n]
  <1> DEFINE Apart == {i \in 0 .. n : f[i] # g[i]}
  <1>1. SUFFICES ASSUME Apart # {} PROVE FALSE
    OBVIOUS
  <1>2. Apart \in SUBSET Nat
    OBVIOUS
  <1>3. PICK i \in Apart : \A j \in Apart : i <= j
    BY <1>1, <1>2, LeastIndex
  <1>4. f[i] = Selected(s, f, i) /\ g[i] = Selected(t, g, i)
    <2>1. i \in 0 .. m /\ i \in 0 .. n
      BY <1>3
    <2>2. QED
      BY <2>1 DEF Selects
  <1>5. i # 0
    BY <1>3, <1>4 DEF Selected
  <1>6. i - 1 \in 0 .. n /\ ~ (i <= i - 1)
    BY <1>3, <1>5
  <1>7. f[i - 1] = g[i - 1] /\ s[i] = t[i]
    BY <1>3, <1>5, <1>6
  <1>8. QED
    BY <1>3, <1>4, <1>7 DEF Selected

LEMMA SelectionTyped ==
    ASSUME NEW s, NEW f, NEW n \in Nat, Selects(s, f, n)
    PROVE  f[n] \in Seq(WatchedKind)
  <1> DEFINE Wrong == {i \in 0 .. n : f[i] \notin Seq(WatchedKind)}
  <1>1. SUFFICES ASSUME Wrong # {} PROVE FALSE
    OBVIOUS
  <1>2. Wrong \in SUBSET Nat
    OBVIOUS
  <1>3. PICK i \in Wrong : \A j \in Wrong : i <= j
    BY <1>1, <1>2, LeastIndex
  <1>4. f[i] = Selected(s, f, i)
    BY <1>3 DEF Selects
  <1>5. i # 0
    <2>1. <<>> \in Seq(WatchedKind)
      BY EmptySeq
    <2>2. QED
      BY <1>3, <1>4, <2>1 DEF Selected
  <1>6. i - 1 \in 0 .. n /\ ~ (i <= i - 1)
    BY <1>3, <1>5
  <1>7. f[i - 1] \in Seq(WatchedKind)
    BY <1>3, <1>6
  <1>8. s[i] \in WatchedKind => Append(f[i - 1], s[i]) \in Seq(WatchedKind)
    BY <1>7, AppendProperties
  <1>9. QED
    BY <1>3, <1>4, <1>5, <1>7, <1>8 DEF Selected

LEMMA OfKindSelected ==
    ASSUME NEW s \in Seq(Resources)
    PROVE  \E f : Selects(s, f, Len(s)) /\ OfKind(s) = f[Len(s)]
  <1>1. Len(s) \in Nat
    OBVIOUS
  <1> DEFINE P(f) == f = [i \in 0 .. Len(s) |->
                            IF i = 0 THEN <<>>
                            ELSE IF s[i] \in WatchedKind THEN Append(f[i - 1], s[i])
                            ELSE f[i - 1]]
             h == CHOOSE f : P(f)
  <1>2. \E f : P(f)
    <2>1. PICK f : Selects(s, f, Len(s))
      BY <1>1, SelectionExists
    <2>2. P(f)
      BY <2>1 DEF Selects, Selected
    <2> HIDE DEF P
    <2>3. QED
      BY <2>2
  <1>3. P(h)
    BY <1>2
  <1>4. OfKind(s) = h[Len(s)]
    BY DEF OfKind
  <1>5. QED
    BY <1>3, <1>4 DEF Selects, Selected

(* The generator's selection grows with the store. *)
LEMMA OfKindAppend ==
    ASSUME NEW s \in Seq(Resources), NEW r \in Resources
    PROVE  /\ OfKind(s) \in Seq(WatchedKind)
           /\ OfKind(Append(s, r)) =
                IF r \in WatchedKind THEN Append(OfKind(s), r) ELSE OfKind(s)
  <1> DEFINE t == Append(s, r)
             n == Len(s)
  <1>1. /\ n \in Nat /\ t \in Seq(Resources) /\ Len(t) = n + 1
        /\ t[n + 1] = r /\ \A i \in 1 .. n : t[i] = s[i]
    BY AppendProperties
  <1>2. PICK f : Selects(s, f, n) /\ OfKind(s) = f[n]
    BY OfKindSelected
  <1>3. PICK g : Selects(t, g, n + 1) /\ OfKind(t) = g[n + 1]
    BY <1>1, OfKindSelected
  <1> HIDE DEF t, n
  <1>4. g[n] = f[n]
    BY <1>1, <1>2, <1>3, SelectionsAgree
  <1>5. g[n + 1] = Selected(t, g, n + 1)
    <2>1. n + 1 \in 0 .. (n + 1)
      BY <1>1
    <2>2. QED
      BY <1>3, <2>1 DEF Selects
  <1>6. n + 1 # 0 /\ (n + 1) - 1 = n
    BY <1>1
  <1>7. OfKind(t) = IF r \in WatchedKind THEN Append(OfKind(s), r) ELSE OfKind(s)
    BY <1>1, <1>2, <1>3, <1>4, <1>5, <1>6 DEF Selected
  <1>8. OfKind(s) \in Seq(WatchedKind)
    BY <1>1, <1>2, SelectionTyped
  <1>9. QED
    BY <1>7, <1>8 DEF t

(* The queue of a generator is filled only while it listens, and a consumer   *)
(* that is prompt never leaves it between the snapshot and the callback.     *)
WatcherKept(g) ==
    /\ watch[g] \in {"idle", "existing", "listening", "closed"}
    /\ snapshot[g] \in Seq(WatchedKind)
    /\ pending[g] \in Seq(WatchedKind)
    /\ seen[g] \in Seq(WatchedKind)
    /\ watch[g] # "listening" => pending[g] = <<>>
    /\ watch[g] = "existing" => ~prompt[g]
    /\ prompt[g] /\ watch[g] = "listening" => seen[g] \o pending[g] = OfKind(objects)

WatcherDomains ==
    /\ watch = [g \in Watchers |-> watch[g]]
    /\ snapshot = [g \in Watchers |-> snapshot[g]]
    /\ pending = [g \in Watchers |-> pending[g]]
    /\ seen = [g \in Watchers |-> seen[g]]
    /\ prompt \in [Watchers -> BOOLEAN]

WatcherInv == WatcherDomains /\ \A g \in Watchers : WatcherKept(g)

LEMMA HeadThenTail ==
    ASSUME NEW T, NEW s \in Seq(T), NEW q \in Seq(T), q # <<>>
    PROVE  /\ Append(s, Head(q)) \in Seq(T) /\ Tail(q) \in Seq(T)
           /\ Append(s, Head(q)) \o Tail(q) = s \o q
  <1>1. Head(q) \in T /\ Tail(q) \in Seq(T) /\ Append(s, Head(q)) \in Seq(T)
    OBVIOUS
  <1>2. Len(q) \in Nat \ {0} /\ Len(s) \in Nat
    BY EmptySeq
  <1> DEFINE left == Append(s, Head(q)) \o Tail(q)
             right == s \o q
  <1>3. /\ left \in Seq(T) /\ right \in Seq(T)
        /\ Len(left) = Len(s) + Len(q) /\ Len(right) = Len(s) + Len(q)
    BY <1>1, <1>2
  <1>4. \A i \in 1 .. (Len(s) + Len(q)) : left[i] = right[i]
    BY <1>1, <1>2
  <1> HIDE DEF left, right
  <1>5. left = right
    BY <1>3, <1>4, SeqEqual
  <1>6. QED
    BY <1>1, <1>5 DEF left, right

LEMMA AppendedLast ==
    ASSUME NEW T
    PROVE  \A s, q \in Seq(T) : \A x \in T :
               /\ Append(q, x) \in Seq(T)
               /\ s \o Append(q, x) = Append(s \o q, x)
  <1> SUFFICES ASSUME NEW s \in Seq(T), NEW q \in Seq(T), NEW x \in T
               PROVE  /\ Append(q, x) \in Seq(T)
                      /\ s \o Append(q, x) = Append(s \o q, x)
    OBVIOUS
  <1> DEFINE left == s \o Append(q, x)
             right == Append(s \o q, x)
  <1>1. /\ left \in Seq(T) /\ right \in Seq(T) /\ Append(q, x) \in Seq(T)
        /\ Len(left) = Len(s) + Len(q) + 1 /\ Len(right) = Len(s) + Len(q) + 1
    OBVIOUS
  <1>2. \A i \in 1 .. (Len(s) + Len(q) + 1) : left[i] = right[i]
    OBVIOUS
  <1> HIDE DEF left, right
  <1>3. left = right
    BY <1>1, <1>2, SeqEqual
  <1>4. QED
    BY <1>1, <1>3 DEF left, right

LEMMA AddedWatcher ==
    ASSUME StoreTypeOK, WatcherInv, NEW r \in Resources, AddObject(r)
    PROVE  WatcherInv'
  <1>1. WatcherDomains'
    BY DEF AddObject, FireObjectAdded, WatcherInv, WatcherDomains
  <1>2. ASSUME NEW g \in Watchers PROVE WatcherKept(g)'
    <2>1. WatcherKept(g) /\ UNCHANGED <<watch, snapshot, seen, prompt>>
      BY DEF AddObject, WatcherInv
    <2>2. pending'[g] = IF watch[g] = "listening" /\ r \in WatchedKind
                        THEN Append(pending[g], r) ELSE pending[g]
      BY DEF AddObject, FireObjectAdded
    <2>3. /\ objects' = Append(objects, r)
          /\ OfKind(Append(objects, r)) =
                IF r \in WatchedKind THEN Append(OfKind(objects), r) ELSE OfKind(objects)
      BY OfKindAppend DEF AddObject, StoreTypeOK
    <2>4. OfKind(objects)' = OfKind(Append(objects, r))
      BY <2>3 DEF OfKind
    <2>5. ASSUME r \in WatchedKind
          PROVE  /\ Append(pending[g], r) \in Seq(WatchedKind)
                 /\ seen[g] \o Append(pending[g], r) = Append(seen[g] \o pending[g], r)
      <3> DEFINE given == seen[g]
                 waiting == pending[g]
      <3>1. given \in Seq(WatchedKind) /\ waiting \in Seq(WatchedKind)
        BY <2>1 DEF WatcherKept
      <3> HIDE DEF given, waiting
      <3>2. /\ Append(waiting, r) \in Seq(WatchedKind)
            /\ given \o Append(waiting, r) = Append(given \o waiting, r)
        BY <2>5, <3>1, AppendedLast
      <3>3. QED
        BY <3>2 DEF given, waiting
    <2>6. QED
      BY <2>1, <2>2, <2>3, <2>4, <2>5 DEF WatcherKept
  <1>3. QED
    BY <1>1, <1>2 DEF WatcherInv

LEMMA OwnStepWatcher ==
    ASSUME StoreTypeOK, WatcherDomains, NEW g \in Watchers, WatcherKept(g), WatcherStep(g)
    PROVE  WatcherKept(g)'
  <1>1. OfKind(objects)' = OfKind(objects) /\ OfKind(objects) \in Seq(WatchedKind)
    <2>1. objects' = objects
      BY WatcherSteps DEF storeVars
    <2>2. OfKind(objects) \in Seq(WatchedKind)
      <3>1. objects \in Seq(Resources)
        BY DEF StoreTypeOK
      <3>2. PICK f : Selects(objects, f, Len(objects)) /\ OfKind(objects) = f[Len(objects)]
        BY <3>1, OfKindSelected
      <3>3. QED
        BY <3>1, <3>2, SelectionTyped
    <2>3. QED
      BY <2>1, <2>2 DEF OfKind
  <1> USE <1>1 DEF WatcherKept, WatcherDomains
  <1>2. CASE WatchAddedPrompt(g)
    <2>1. OfKind(objects) \o <<>> = OfKind(objects)
      BY ConcatEmptySeq
    <2>2. QED
      BY <1>2, <2>1 DEF WatchAddedPrompt
  <1>3. CASE WatchAddedStarts(g)
    BY <1>3 DEF WatchAddedStarts
  <1>4. CASE YieldExisting(g)
    BY <1>4, HeadThenTail DEF YieldExisting
  <1>5. CASE WatchAddedListens(g)
    BY <1>5 DEF WatchAddedListens
  <1>6. CASE YieldAdded(g)
    <2>1. /\ seen'[g] = Append(seen[g], Head(pending[g])) /\ pending'[g] = Tail(pending[g])
          /\ UNCHANGED <<watch, snapshot, prompt>> /\ pending[g] # <<>>
          /\ watch[g] = "listening"
      BY <1>6 DEF YieldAdded
    <2>2. seen'[g] \o pending'[g] = seen[g] \o pending[g]
      BY <2>1, HeadThenTail
    <2>3. seen'[g] \in Seq(WatchedKind) /\ pending'[g] \in Seq(WatchedKind)
      BY <2>1, HeadThenTail
    <2>4. QED
      BY <2>1, <2>2, <2>3
  <1>7. CASE CloseWatch(g)
    BY <1>7, EmptySeq DEF CloseWatch
  <1>8. QED
    BY <1>2, <1>3, <1>4, <1>5, <1>6, <1>7 DEF WatcherStep

LEMMA OthersStepWatcher ==
    ASSUME StoreTypeOK, WatcherInv, NEW g \in Watchers, WatcherStep(g)
    PROVE  WatcherInv'
  <1>1. objects' = objects
    BY WatcherSteps DEF storeVars
  <1>2. WatcherDomains'
    BY DEF WatcherStep, WatchAddedPrompt, WatchAddedStarts, YieldExisting, WatchAddedListens,
           YieldAdded, CloseWatch, WatcherInv, WatcherDomains
  <1>3. ASSUME NEW h \in Watchers, h # g
        PROVE  /\ watch'[h] = watch[h] /\ snapshot'[h] = snapshot[h]
               /\ pending'[h] = pending[h] /\ seen'[h] = seen[h] /\ prompt'[h] = prompt[h]
    BY <1>3
    DEF WatcherStep, WatchAddedPrompt, WatchAddedStarts, YieldExisting, WatchAddedListens,
        YieldAdded, CloseWatch, WatcherInv, WatcherDomains
  <1>4. ASSUME NEW h \in Watchers, h # g PROVE WatcherKept(h)'
    <2>1. OfKind(objects)' = OfKind(objects)
      BY <1>1 DEF OfKind
    <2>2. WatcherKept(h)
      BY DEF WatcherInv
    <2>3. QED
      BY <1>3, <1>4, <2>1, <2>2 DEF WatcherKept
  <1>5. WatcherKept(g)'
    BY OwnStepWatcher DEF WatcherInv
  <1>6. QED
    BY <1>2, <1>4, <1>5 DEF WatcherInv

LEMMA NextWatcher == StoreTypeOK /\ WatcherInv /\ [Next]_vars => WatcherInv'
  <1> SUFFICES ASSUME StoreTypeOK, WatcherInv, [Next]_vars PROVE WatcherInv'
    OBVIOUS
  <1>1. ASSUME UNCHANGED <<objects, watcherVars>> PROVE WatcherInv'
    <2>1. OfKind(objects)' = OfKind(objects)
      BY <1>1 DEF OfKind
    <2>2. QED
      BY <1>1, <2>1 DEF watcherVars, WatcherInv, WatcherKept, WatcherDomains
  <1>2. ASSUME NEW r \in Resources, NEW s \in {"Pending", "Ready", "Failed"},
               UpdateStatus(r, s) \/ SetArtifact(r)
        PROVE  WatcherInv'
    BY <1>1, <1>2 DEF UpdateStatus, SetArtifact
  <1>3. ASSUME NEW l \in Listeners, ListenerStep(l) PROVE WatcherInv'
    BY <1>1, <1>3 DEF ListenerStep, AddListener, RemoveListener, storeVars
  <1>4. ASSUME NEW w \in Waiters, Call(w) \/ Resume(w) \/ Cancel(w) PROVE WatcherInv'
    BY <1>1, <1>4
    DEF Call, Resume, Cancel, WatchExistsFound, WatchExistsWaits, WatchReadyDecided,
        WatchReadyWaits, ExistsResumes, ExistsCancelled, ReadyResumes, ReadyCancelled, storeVars
  <1>5. CASE UNCHANGED vars
    BY <1>1, <1>5 DEF vars, storeVars
  <1>6. QED
    BY <1>2, <1>3, <1>4, <1>5, AddedWatcher, OthersStepWatcher DEF Next, Writes

(* Type correctness, the watch_added generators included. *)
THEOREM WatcherCorrect == Spec => [](TypeOK /\ WatcherInv)
  <1>1. Init => WatcherInv
    <2> SUFFICES ASSUME Init PROVE WatcherInv
      OBVIOUS
    <2>1. <<>> \in Seq(WatchedKind)
      BY EmptySeq
    <2>2. QED
      BY <2>1 DEF Init, WatcherInv, WatcherKept, WatcherDomains
  <1>2. StoreTypeOK /\ WatcherInv => TypeOK
    BY DEF WatcherInv, WatcherKept, WatcherDomains, TypeOK
  <1>3. QED
    BY <1>1, <1>2, NextWatcher, StoreTypeCorrect, PTL DEF Spec

(* A consumer that awaits nothing between two items gets every object of the   *)
(* kind once, in the order they were added, whenever it began.              *)
THEOREM PromptWatcherServed == Spec => []PromptWatcherMissesNothing
  <1>1. WatcherInv => PromptWatcherMissesNothing
    BY DEF WatcherInv, WatcherKept, PromptWatcherMissesNothing
  <1>2. QED
    BY <1>1, WatcherCorrect, PTL
=============================================================================
