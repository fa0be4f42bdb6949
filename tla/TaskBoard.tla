-------------------------------- MODULE TaskBoard -------------------------------
(***************************************************************************)
(* What the task records on disk promise (persist_task_locked, written by  *)
(* add_task, finish_task and the other sections of the task manager, and   *)
(* read by load_state): a task is open until it is over, and how it ended  *)
(* never changes until it is deleted.  A task whose saves fail may show up *)
(* only when it is over, or be gone without showing how it ended.          *)
(* get_task answers from memory, which is ahead of the records by the      *)
(* saves that failed: a restart goes back to what the records tell.        *)
(***************************************************************************)
CONSTANTS
  BoardTask,  \* the tasks
  Outcome     \* how a task may end

VARIABLE board  \* what the record of each task tells

Moves ==
  UNION {{"Absent"} \X ({"Open"} \cup Outcome),
         {"Open"} \X (Outcome \cup {"Absent"}),
         Outcome \X {"Absent"}}

\* One save may show the progress of several tasks.
BoardInit == board = [t \in BoardTask |-> "Absent"]
Progress ==
  /\ DOMAIN board' = BoardTask
  /\ \A t \in BoardTask : board'[t] # board[t] => <<board[t], board'[t]>> \in Moves
BoardSpec == BoardInit /\ [][Progress]_board
=============================================================================
