---------------------------- MODULE MCTaskService ----------------------------
(* TaskService with three tracked tasks, one of them in the background, one *)
(* coroutine that blocks and one that waits for a task.                    *)
EXTENDS TaskService
=============================================================================
