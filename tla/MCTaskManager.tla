----------------------------- MODULE MCTaskManager -----------------------------
(* Small instances of the task manager.                                    *)
EXTENDS TaskManager

CONSTANTS t1, t2, w1, w2
=============================================================================
