---------------------------- MODULE MCRuntimeTurn ------------------------------
(* Two turns in a row: an answer to the first may reach the second.        *)
EXTENDS RuntimeTurn
================================================================================
