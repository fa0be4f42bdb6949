---------------------------- MODULE MCFleetScheduler ---------------------------
(* Small instances of the recovery engine.                                 *)
EXTENDS FleetScheduler

CONSTANTS r1, t1, t2, w1, w2, slack, p1, p2

MCRunOf == [t \in Task |-> r1]
================================================================================
