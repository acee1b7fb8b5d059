----------------------------- MODULE TaskService -----------------------------
(***************************************************************************)
(* The TaskService of flux-local (task/service.py): it tracks the tasks of  *)
(* the program, and block_till_done gathers those that are active.         *)
(*                                                                         *)
(* A task that finishes has its callbacks scheduled, _task_done first and  *)
(* then those of the gathers that wait for it: each is a step of its own.   *)
(* What tasks do is left open, but for how they end and that one that was   *)
(* asked to cancel may end as it likes.  An operator marked MUTANT is no     *)
(* part of the specification but the next definition with a plausible bug.  *)
(***************************************************************************)
EXTENDS Naturals

CONSTANTS
    Tasks,       \* tasks that may be created
    Background,  \* those created as background tasks
    Blockers,    \* coroutines that call block_till_done, again and again
    Joiners,     \* coroutines that call wait_for_task once
    NoTask

ASSUME TaskAssumption == Background \subseteq Tasks /\ NoTask \notin Tasks

VARIABLES
    state,       \* "none", "running", or how the task ended
    active,      \* _active_tasks
    background,  \* _background_tasks
    asked,       \* tasks whose cancel() was called while they ran
    blocker,     \* where each blocker is
    children,    \* the tasks it gathers
    counted,     \* those whose end its gather has been told of
    gathered,    \* the gather's future
    interrupted, \* cancel() on a blocker: passed to its gather, or its own
    joiner,      \* where each joiner is
    joined       \* the task it waits for

taskVars  == <<state, active, background, asked>>
blockVars == <<blocker, children, counted, gathered, interrupted>>
joinVars  == <<joiner, joined>>
vars      == <<taskVars, blockVars, joinVars>>

Done == {t \in Tasks : state[t] \in {"ok", "error", "cancelled"}}
Running == {t \in Tasks : state[t] = "running"}

Init ==
    /\ state = [t \in Tasks |-> "none"]
    /\ active = {}
    /\ background = {}
    /\ asked = {}
    /\ blocker = [b \in Blockers |-> "idle"]
    /\ children = [b \in Blockers |-> {}]
    /\ counted = [b \in Blockers |-> {}]
    /\ gathered = [b \in Blockers |-> "pending"]
    /\ interrupted = [b \in Blockers |-> "no"]
    /\ joiner = [j \in Joiners |-> "idle"]
    /\ joined = [j \in Joiners |-> NoTask]

-----------------------------------------------------------------------------
Track(t) ==
    /\ active' = IF t \in Background THEN active ELSE active \union {t}
    /\ background' = IF t \in Background THEN background \union {t} ELSE background

(* create_task and create_background_task *)
CreateTask(t) ==
    /\ state[t] = "none"
    /\ state' = [state EXCEPT ![t] = "running"]
    /\ Track(t)
    /\ UNCHANGED <<asked, blockVars, joinVars>>

(* task.cancel(): a close(), a timeout. *)
CancelTask(t) ==
    /\ t \in Running \ asked
    /\ asked' = asked \union {t}
    /\ UNCHANGED <<state, active, background, blockVars, joinVars>>

FinishTask(t, o) ==
    /\ t \in Running
    /\ o = "cancelled" => t \in asked
    /\ state' = [state EXCEPT ![t] = o]
    /\ UNCHANGED <<active, background, asked, blockVars, joinVars>>

(* _task_done, the first callback of a task that is done. *)
TaskDone(t) ==
    /\ t \in Done
    /\ t \in active \union background
    /\ active' = active \ {t}
    /\ background' = background \ {t}
    /\ UNCHANGED <<state, asked, blockVars, joinVars>>

-----------------------------------------------------------------------------
(* MUTANT (BlockersComeBack): background tasks are waited for as well. *)
SnapshotWithBackground == active \union background

Snapshot == active

(* block_till_done.  Without active tasks it only yields to the event loop. *)
BlockTillDone(b) ==
    /\ blocker[b] \in {"idle", "returned"}
    /\ blocker' = [blocker EXCEPT ![b] = IF active = {} THEN "yielding" ELSE "blocked"]
    /\ children' = [children EXCEPT ![b] = Snapshot]
    /\ counted' = [counted EXCEPT ![b] = {}]
    /\ gathered' = [gathered EXCEPT ![b] = "pending"]
    /\ UNCHANGED <<taskVars, interrupted, joinVars>>

(* MUTANT (BlockReturnMeansDone): gather goes by its last task alone. *)
OutcomeOfLast(b, t) == IF counted'[b] # children[b] THEN "pending" ELSE state[t]

(* MUTANT (CancellationNotLost): the gather forgets it was cancelled. *)
OutcomeOfChildren(b, t) ==
    IF state[t] = "ok" /\ counted'[b] # children[b] THEN "pending" ELSE state[t]

(* A failed or cancelled child ends the gather at once; the others run on.  *)
GatherOutcome(b, t) ==
    IF state[t] # "ok" THEN state[t]
    ELSE IF counted'[b] # children[b] THEN "pending"
    ELSE IF interrupted[b] = "gather" THEN "cancelled" ELSE "ok"

(* The callback of a gather; _task_done was registered, and runs, before it. *)
ChildDone(b, t) ==
    /\ blocker[b] = "blocked"
    /\ t \in (children[b] \cap Done) \ (counted[b] \union active)
    /\ counted' = [counted EXCEPT ![b] = @ \union {t}]
    /\ gathered' = [gathered EXCEPT ![b] =
                      IF @ = "pending" THEN GatherOutcome(b, t) ELSE @]
    /\ UNCHANGED <<taskVars, blocker, children, interrupted, joinVars>>

Unblock(b) ==
    /\ \/ blocker[b] = "yielding"
       \/ blocker[b] = "blocked" /\ gathered[b] # "pending"
    /\ blocker' = [blocker EXCEPT ![b] =
                     IF interrupted[b] = "self" THEN "cancelled"
                     ELSE IF @ = "yielding" \/ gathered[b] = "ok" THEN "returned"
                     ELSE gathered[b]]
    /\ UNCHANGED <<taskVars, children, counted, gathered, interrupted, joinVars>>

(* cancel() of a coroutine in block_till_done goes to its gather, which      *)
(* cancels every child that still runs; if none does, or the gather is over  *)
(* already, the coroutine is cancelled itself once it is resumed.          *)
InterruptBlocker(b) ==
    /\ blocker[b] \in {"blocked", "yielding"}
    /\ interrupted[b] = "no"
    /\ IF gathered[b] = "pending" /\ children[b] \cap Running # {}
       THEN /\ interrupted' = [interrupted EXCEPT ![b] = "gather"]
            /\ asked' = asked \union (children[b] \cap Running)
       ELSE /\ interrupted' = [interrupted EXCEPT ![b] = "self"]
            /\ UNCHANGED asked
    /\ UNCHANGED <<state, active, background, blocker, children, counted, gathered,
                   joinVars>>

-----------------------------------------------------------------------------
(* wait_for_task *)
WaitForTask(j, t) ==
    /\ joiner[j] = "idle"
    /\ state[t] # "none"
    /\ joined' = [joined EXCEPT ![j] = t]
    /\ joiner' = [joiner EXCEPT ![j] = IF t \in active THEN "joining" ELSE "refused"]
    /\ UNCHANGED <<taskVars, blockVars>>

(* An error of the task is raised before the discard.  For a cancelled task, *)
(* set_result raises RuntimeError after it: a Task refuses it.             *)
JoinerResumes(j) ==
    /\ joiner[j] = "joining"
    /\ joined[j] \in Done
    /\ joiner' = [joiner EXCEPT ![j] =
                    IF state[joined[j]] = "ok" THEN "returned" ELSE "raised"]
    /\ active' = IF state[joined[j]] = "error" THEN active ELSE active \ {joined[j]}
    /\ UNCHANGED <<state, background, asked, blockVars, joined>>

(* MUTANT (RunningIsTracked): the task is awaited through a shield. *)
InterruptShieldedJoiner(j) ==
    /\ joiner[j] = "joining"
    /\ joined[j] \in Running
    /\ joiner' = [joiner EXCEPT ![j] = "returned"]
    /\ active' = active \ {joined[j]}
    /\ UNCHANGED <<state, background, asked, blockVars, joined>>

(* cancel() of a joiner cancels the task it awaits, and is swallowed: the   *)
(* joiner goes on as the task ends.                                        *)
InterruptJoiner(j) ==
    /\ joiner[j] = "joining"
    /\ joined[j] \in Running \ asked
    /\ asked' = asked \union {joined[j]}
    /\ UNCHANGED <<state, active, background, blockVars, joinVars>>

-----------------------------------------------------------------------------
TaskStep(t) ==
    \/ CreateTask(t)
    \/ CancelTask(t)
    \/ \E o \in {"ok", "error", "cancelled"} : FinishTask(t, o)
    \/ TaskDone(t)

BlockerStep(b) ==
    \/ BlockTillDone(b)
    \/ \E t \in Tasks : ChildDone(b, t)
    \/ Unblock(b)
    \/ InterruptBlocker(b)

JoinerStep(j) ==
    \/ \E t \in Tasks : WaitForTask(j, t)
    \/ JoinerResumes(j)
    \/ InterruptJoiner(j)

Next ==
    \/ \E t \in Tasks : TaskStep(t)
    \/ \E b \in Blockers : BlockerStep(b)
    \/ \E j \in Joiners : JoinerStep(j)

Spec == Init /\ [][Next]_vars

(* The event loop runs every scheduled callback, and tracked tasks end:      *)
(* each of their waits has a timeout.  Background tasks need not.          *)
Fairness ==
    /\ \A t \in Tasks \ Background :
          WF_vars(\E o \in {"ok", "error", "cancelled"} : FinishTask(t, o))
    /\ \A t \in Tasks : WF_vars(TaskDone(t))
    /\ \A b \in Blockers, t \in Tasks : WF_vars(ChildDone(b, t))
    /\ \A b \in Blockers : WF_vars(Unblock(b))

FairSpec == Spec /\ Fairness
-----------------------------------------------------------------------------
TypeOK ==
    /\ state \in [Tasks -> {"none", "running", "ok", "error", "cancelled"}]
    /\ active \subseteq Tasks \ Background
    /\ background \subseteq Background
    /\ asked \subseteq Tasks
    /\ blocker \in [Blockers -> {"idle", "blocked", "yielding", "returned", "error",
                                 "cancelled"}]
    /\ children \in [Blockers -> SUBSET Tasks]
    /\ counted \in [Blockers -> SUBSET Tasks]
    /\ gathered \in [Blockers -> {"pending", "ok", "error", "cancelled"}]
    /\ interrupted \in [Blockers -> {"no", "gather", "self"}]
    /\ joiner \in [Joiners -> {"idle", "joining", "refused", "returned", "raised"}]
    /\ joined \in [Joiners -> Tasks \union {NoTask}]

(* The tracked tasks are never fewer than those that run, whoever waits for *)
(* them and is cancelled: is_complete() (orchestrator.py:191) counts them.  *)
RunningIsTracked == Running \subseteq active \union background

(* When block_till_done returns, every task of its snapshot ended well. *)
BlockReturnMeansDone ==
    \A b \in Blockers : blocker[b] = "returned" =>
        \A t \in children[b] : state[t] = "ok"

(* It raises only what one of its tasks raised, or because a task of its    *)
(* snapshot, or the caller itself, was cancelled.                          *)
BlockFailsForCause ==
    \A b \in Blockers :
        /\ blocker[b] = "error" => \E t \in children[b] : state[t] = "error"
        /\ blocker[b] = "cancelled" =>
              \/ interrupted[b] # "no"
              \/ \E t \in children[b] : state[t] = "cancelled"

(* A caller that was cancelled never goes on as if nothing had happened,    *)
(* though its cancellation is handed to tasks that may well swallow it.    *)
CancellationNotLost ==
    \A b \in Blockers : interrupted[b] # "no" => blocker[b] # "returned"

(* Every caller of block_till_done comes back. *)
BlockersComeBack ==
    \A b \in Blockers :
        blocker[b] \in {"blocked", "yielding"}
            ~> blocker[b] \in {"returned", "error", "cancelled"}

=============================================================================
