----------------------------- MODULE MCFleetManager ----------------------------
(* Small instances of the manager: one run, or two runs that name the same *)
(* workers in the same order.                                              *)
EXTENDS FleetManager, TLC

CONSTANTS r1, r2, t1, t2, t3, w1, w2, slack, m1, m2

OneRun == [t \in Task |-> r1]
TwoRuns == [t \in Task |-> IF t = t1 THEN r1 ELSE r2]
SameRun == [m \in Manager |-> r1]
RunEach == [m \in Manager |-> IF m = m1 THEN r1 ELSE r2]
OneWorker == [r \in Run |-> <<w1>>]
TwoWorkers == [r \in Run |-> <<w1, w2>>]
================================================================================
