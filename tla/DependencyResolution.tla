------------------------ MODULE DependencyResolution ------------------------
(***************************************************************************)
(* What a DependencyWaiter promises its parent resource, without the store, *)
(* tasks, events, queue and timers it uses: every dependency watched gets   *)
(* one final outcome, READY only if it became available, and the watch is   *)
(* over only once all of them have theirs.                                 *)
(***************************************************************************)
CONSTANT Deps    \* the dependencies a parent may have

VARIABLES
    available,   \* those that have existed, or been READY, at some moment
    outcome,     \* the outcome of each
    over         \* the watch has ended

resolutionVars == <<available, outcome, over>>

Outcomes == {"Ready", "Failed", "Timeout", "Cancelled"}
Watched(o) == {d \in Deps : outcome[d] = o}

ResolutionInit ==
    /\ available \in SUBSET Deps
    /\ outcome = [d \in Deps |-> "Unwatched"]
    /\ over = FALSE

BecomeAvailable ==
    /\ \E D \in SUBSET Deps : available' = available \union D
    /\ UNCHANGED <<outcome, over>>

(* A parent without dependencies has nothing to wait for. *)
BeginWatch(D) ==
    /\ ~over
    /\ Watched("Unwatched") = Deps
    /\ outcome' = [d \in Deps |-> IF d \in D THEN "Pending" ELSE "Unwatched"]
    /\ over' = (D = {})
    /\ UNCHANGED available

SettleOne(d, o) ==
    /\ ~over
    /\ outcome[d] = "Pending"
    /\ o = "Ready" => d \in available
    /\ outcome' = [outcome EXCEPT ![d] = o]
    /\ UNCHANGED <<available, over>>

EndWatch ==
    /\ ~over
    /\ Watched("Pending") = {}
    /\ over' = TRUE
    /\ UNCHANGED <<available, outcome>>

ResolutionNext ==
    \/ BecomeAvailable
    \/ \E D \in SUBSET Deps : BeginWatch(D)
    \/ \E d \in Deps, o \in Outcomes : SettleOne(d, o)
    \/ EndWatch

ResolutionSpec == ResolutionInit /\ [][ResolutionNext]_resolutionVars
=============================================================================
