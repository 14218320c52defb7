--------------------------- MODULE MCTaskManager ---------------------------
(* Small instance of the task list, checked against TimerQueue. *)
EXTENDS TaskQueue, TLC

(* Tasks are told apart by nothing but their identity. *)
Symmetry == Permutations(Task)

=============================================================================
