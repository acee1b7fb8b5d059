-------------------------- MODULE TaskServiceProofs --------------------------
(* What holds of TaskService for any tasks, blockers and joiners.  The      *)
(* argument is about what a gather has been told: GatherInv ties its future *)
(* to the tasks it has counted, and those to how they ended.               *)
EXTENDS TaskService, TLAPS

LEMMA InitType == Init => TypeOK
  BY TaskAssumption DEF Init, TypeOK

LEMMA NextType == TypeOK /\ [Next]_vars => TypeOK'
  <1> SUFFICES ASSUME TypeOK, [Next]_vars PROVE TypeOK'
    OBVIOUS
  <1> USE TaskAssumption DEF TypeOK, Running, Done
  <1>1. ASSUME NEW t \in Tasks, TaskStep(t) PROVE TypeOK'
    <2>1. CASE CreateTask(t)
      BY <2>1 DEF CreateTask, Track, blockVars, joinVars
    <2>2. CASE CancelTask(t)
      BY <2>2 DEF CancelTask, blockVars, joinVars
    <2>3. ASSUME NEW o \in {"ok", "error", "cancelled"}, FinishTask(t, o) PROVE TypeOK'
      BY <2>3 DEF FinishTask, blockVars, joinVars
    <2>4. CASE TaskDone(t)
      BY <2>4 DEF TaskDone, blockVars, joinVars
    <2>5. QED
      BY <1>1, <2>1, <2>2, <2>3, <2>4 DEF TaskStep
  <1>2. ASSUME NEW b \in Blockers, BlockerStep(b) PROVE TypeOK'
    <2>1. CASE BlockTillDone(b)
      BY <2>1 DEF BlockTillDone, Snapshot, taskVars, joinVars
    <2>2. ASSUME NEW t \in Tasks, ChildDone(b, t) PROVE TypeOK'
      BY <2>2 DEF ChildDone, GatherOutcome, taskVars, joinVars
    <2>3. CASE Unblock(b)
      BY <2>3 DEF Unblock, taskVars, joinVars
    <2>4. CASE InterruptBlocker(b)
      BY <2>4 DEF InterruptBlocker, joinVars
    <2>5. QED
      BY <1>2, <2>1, <2>2, <2>3, <2>4 DEF BlockerStep
  <1>3. ASSUME NEW j \in Joiners, JoinerStep(j) PROVE TypeOK'
    <2>1. ASSUME NEW t \in Tasks, WaitForTask(j, t) PROVE TypeOK'
      BY <2>1 DEF WaitForTask, taskVars, blockVars
    <2>2. CASE JoinerResumes(j)
      BY <2>2 DEF JoinerResumes, blockVars
    <2>3. CASE InterruptJoiner(j)
      BY <2>3 DEF InterruptJoiner, blockVars, joinVars
    <2>4. QED
      BY <1>3, <2>1, <2>2, <2>3 DEF JoinerStep
  <1>4. CASE UNCHANGED vars
    BY <1>4 DEF vars, taskVars, blockVars, joinVars
  <1> HIDE DEF TypeOK
  <1>5. QED
    BY <1>1, <1>2, <1>3, <1>4 DEF Next

(* Type correctness of the task service. *)
THEOREM TypeCorrect == Spec => []TypeOK
  BY InitType, NextType, PTL DEF Spec

-----------------------------------------------------------------------------
(* A running task is tracked: it leaves its set only once it is done. *)
LEMMA NextTracked == TypeOK /\ RunningIsTracked /\ [Next]_vars => RunningIsTracked'
  <1> SUFFICES ASSUME TypeOK, RunningIsTracked, [Next]_vars PROVE RunningIsTracked'
    OBVIOUS
  <1> USE DEF TypeOK, RunningIsTracked, Running, Done
  <1>1. ASSUME NEW t \in Tasks, TaskStep(t) PROVE RunningIsTracked'
    BY <1>1 DEF TaskStep, CreateTask, Track, CancelTask, FinishTask, TaskDone
  <1>2. ASSUME NEW b \in Blockers, BlockerStep(b) PROVE RunningIsTracked'
    BY <1>2 DEF BlockerStep, BlockTillDone, ChildDone, Unblock, InterruptBlocker, taskVars
  <1>3. ASSUME NEW j \in Joiners, JoinerStep(j) PROVE RunningIsTracked'
    BY <1>3 DEF JoinerStep, WaitForTask, JoinerResumes, InterruptJoiner, taskVars
  <1>4. CASE UNCHANGED vars
    BY <1>4 DEF vars, taskVars
  <1>5. QED
    BY <1>1, <1>2, <1>3, <1>4 DEF Next

(* get_num_active_tasks() never reports fewer tasks than still run. *)
THEOREM TrackedCorrect == Spec => []RunningIsTracked
  <1>1. Init => RunningIsTracked
    BY DEF Init, RunningIsTracked, Running
  <1>2. QED
    BY <1>1, TypeCorrect, NextTracked, PTL DEF Spec

-----------------------------------------------------------------------------
(* What a gather has been told of its children, and what it made of it. *)
GatherInv ==
    \A b \in Blockers :
        /\ counted[b] \subseteq children[b] \cap Done
        /\ gathered[b] = "pending" => \A t \in counted[b] : state[t] = "ok"
        /\ gathered[b] = "ok" => /\ \A t \in children[b] : state[t] = "ok"
                                 /\ interrupted[b] # "gather"
        /\ gathered[b] = "error" => \E t \in children[b] : state[t] = "error"
        /\ gathered[b] = "cancelled" =>
              \/ interrupted[b] # "no"
              \/ \E t \in children[b] : state[t] = "cancelled"

(* How a caller of block_till_done stands to its gather. *)
CallerInv ==
    \A b \in Blockers :
        /\ interrupted[b] # "no" => blocker[b] \notin {"idle", "returned"}
        /\ interrupted[b] = "gather" => blocker[b] # "yielding"
        /\ blocker[b] = "yielding" => children[b] = {}
        /\ blocker[b] = "error" => gathered[b] = "error"
        /\ blocker[b] = "cancelled" => gathered[b] = "cancelled" \/ interrupted[b] # "no"
        /\ blocker[b] = "returned" => children[b] = {} \/ gathered[b] = "ok"

BlockInv == GatherInv /\ CallerInv

(* Steps that leave the blockers alone, and how done tasks ended. *)
LEMMA QuietBlock ==
    ASSUME BlockInv, UNCHANGED blockVars,
           \A t \in Tasks : t \in Done => state'[t] = state[t],
           children \in [Blockers -> SUBSET Tasks], TypeOK
    PROVE  BlockInv'
  <1>1. \A b \in Blockers, t \in Tasks :
          t \in children[b] /\ t \in Done => t \in Done' /\ state'[t] = state[t]
    BY DEF Done
  <1>2. UNCHANGED <<blocker, children, counted, gathered, interrupted>>
    BY DEF blockVars
  <1>3. GatherInv'
    <2> SUFFICES ASSUME NEW b \in Blockers
                 PROVE  /\ counted[b] \subseteq children[b] \cap Done'
                        /\ gathered[b] = "pending" => \A t \in counted[b] : state'[t] = "ok"
                        /\ gathered[b] = "ok" => /\ \A t \in children[b] : state'[t] = "ok"
                                                 /\ interrupted[b] # "gather"
                        /\ gathered[b] = "error" => \E t \in children[b] : state'[t] = "error"
                        /\ gathered[b] = "cancelled" =>
                              \/ interrupted[b] # "no"
                              \/ \E t \in children[b] : state'[t] = "cancelled"
      BY <1>2 DEF GatherInv
    <2>1. \A t \in children[b] : t \in Tasks
      OBVIOUS
    <2>2. \A t \in children[b] : state[t] \in {"ok", "error", "cancelled"} =>
                                    t \in Done' /\ state'[t] = state[t]
      BY <1>1, <2>1 DEF Done
    <2>3. counted[b] \subseteq children[b] /\ \A t \in counted[b] : t \in Done
      BY DEF BlockInv, GatherInv
    <2>4. QED
      BY <2>1, <2>2, <2>3, <1>1 DEF BlockInv, GatherInv
  <1>4. CallerInv'
    BY <1>2 DEF BlockInv, CallerInv
  <1>5. QED
    BY <1>3, <1>4 DEF BlockInv

LEMMA NextBlock == TypeOK /\ BlockInv /\ [Next]_vars => BlockInv'
  <1> SUFFICES ASSUME TypeOK, BlockInv, [Next]_vars PROVE BlockInv'
    OBVIOUS
  <1>0. children \in [Blockers -> SUBSET Tasks] /\ state = [t \in Tasks |-> state[t]]
    BY DEF TypeOK
  <1>1. ASSUME NEW t \in Tasks, TaskStep(t) PROVE BlockInv'
    <2>1. UNCHANGED blockVars
      BY <1>1 DEF TaskStep, CreateTask, CancelTask, FinishTask, TaskDone
    <2>2. \A u \in Tasks : u \in Done => state'[u] = state[u]
      BY <1>0, <1>1 DEF TaskStep, CreateTask, CancelTask, FinishTask, TaskDone, Done, Running
    <2>3. QED
      BY <1>0, <2>1, <2>2, QuietBlock
  <1>2. ASSUME NEW j \in Joiners, JoinerStep(j) PROVE BlockInv'
    BY <1>0, <1>2, QuietBlock
    DEF JoinerStep, WaitForTask, JoinerResumes, InterruptJoiner, taskVars
  <1>3. ASSUME NEW b \in Blockers, BlockTillDone(b) PROVE BlockInv'
    BY <1>3 DEF BlockTillDone, taskVars, BlockInv, GatherInv, CallerInv, TypeOK, Snapshot, Done
  <1>4. ASSUME NEW b \in Blockers, NEW t \in Tasks, ChildDone(b, t) PROVE BlockInv'
    <2>1. /\ UNCHANGED <<state, blocker, children, interrupted>>
          /\ t \in children[b] /\ t \in Done /\ blocker[b] = "blocked"
          /\ counted' = [counted EXCEPT ![b] = @ \union {t}]
          /\ gathered' = [gathered EXCEPT ![b] =
                            IF @ = "pending" THEN GatherOutcome(b, t) ELSE @]
      BY <1>4 DEF ChildDone, taskVars
    <2>2. state[t] \in {"ok", "error", "cancelled"}
      BY <2>1 DEF Done
    <2>3. gathered[b] = "pending" =>
            /\ GatherOutcome(b, t) = "pending" => state[t] = "ok"
            /\ GatherOutcome(b, t) = "ok" => /\ counted'[b] = children[b]
                                             /\ state[t] = "ok"
                                             /\ interrupted[b] # "gather"
            /\ GatherOutcome(b, t) = "error" => state[t] = "error"
            /\ GatherOutcome(b, t) = "cancelled" =>
                  state[t] = "cancelled" \/ interrupted[b] # "no"
      BY <2>2 DEF GatherOutcome
    <2>4. GatherInv'
      BY <2>1, <2>3 DEF BlockInv, GatherInv, TypeOK, Done
    <2>5. CallerInv'
      BY <2>1 DEF BlockInv, CallerInv, TypeOK
    <2>6. QED
      BY <2>4, <2>5 DEF BlockInv
  <1>5. ASSUME NEW b \in Blockers, Unblock(b) PROVE BlockInv'
    BY <1>5 DEF Unblock, taskVars, BlockInv, GatherInv, CallerInv, TypeOK, Done
  <1>6. ASSUME NEW b \in Blockers, InterruptBlocker(b) PROVE BlockInv'
    BY <1>6 DEF InterruptBlocker, BlockInv, GatherInv, CallerInv, TypeOK, Done
  <1>7. CASE UNCHANGED vars
    BY <1>0, <1>7, QuietBlock DEF vars, taskVars
  <1>8. QED
    BY <1>1, <1>2, <1>3, <1>4, <1>5, <1>6, <1>7 DEF Next, BlockerStep

(* The invariant block_till_done rests on. *)
LEMMA BlockCorrect == Spec => []BlockInv
  <1>1. Init => BlockInv
    BY DEF Init, BlockInv, GatherInv, CallerInv
  <1>2. QED
    BY <1>1, TypeCorrect, NextBlock, PTL DEF Spec

(* A block_till_done that returns has seen every task of its snapshot end   *)
(* well.                                                                   *)
THEOREM ReturnMeansDone == Spec => []BlockReturnMeansDone
  <1>1. BlockInv => BlockReturnMeansDone
    BY DEF BlockInv, GatherInv, CallerInv, BlockReturnMeansDone
  <1>2. QED
    BY <1>1, BlockCorrect, PTL

(* It fails only for a task of its snapshot, or because it was cancelled.   *)
THEOREM FailsForCause == Spec => []BlockFailsForCause
  <1>1. BlockInv => BlockFailsForCause
    BY DEF BlockInv, GatherInv, CallerInv, BlockFailsForCause
  <1>2. QED
    BY <1>1, BlockCorrect, PTL

(* A cancellation of its caller is never lost among the tasks it awaits.    *)
THEOREM CancellationKept == Spec => []CancellationNotLost
  <1>1. BlockInv => CancellationNotLost
    BY DEF BlockInv, CallerInv, CancellationNotLost
  <1>2. QED
    BY <1>1, BlockCorrect, PTL
=============================================================================
