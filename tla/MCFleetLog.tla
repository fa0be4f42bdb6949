------------------------------- MODULE MCFleetLog ------------------------------
(* Small instances of the ledger file.                                     *)
EXTENDS FleetLog

CONSTANTS r1, t1, w1, slack

MCRunOf == [t \in Task |-> r1]

\* A torn append and a compaction in different behaviours; in the same one.
Apart == {{"tearing"}, {"compacting"}}
Together == {{"tearing", "compacting"}}
MCMaxRecords == [m \in Modes |-> IF m = {"tearing"} THEN 7 ELSE IF m = {"compacting"} THEN 10 ELSE 7]
================================================================================
