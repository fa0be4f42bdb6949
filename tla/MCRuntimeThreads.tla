--------------------------- MODULE MCRuntimeThreads ----------------------------
(* Small instances of the runtime threads.                                 *)
EXTENDS RuntimeThreads, TLC

CONSTANTS a, b, c1, c2

\* Threads and calls are interchangeable (used without liveness only).
Symmetry == Permutations(Thread) \cup Permutations(Call)
================================================================================
