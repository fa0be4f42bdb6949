----------------------------- MODULE MCFleetLedger -----------------------------
(* Small instance of the ledger under its most general client.             *)
EXTENDS FleetLedger, TLC

CONSTANTS r1, t1, t2, w1, w2, slack

MCRunOf == (t1 :> r1) @@ (t2 :> r1)
Symmetry == Permutations({w1, w2}) \cup Permutations({t1, t2})
================================================================================
