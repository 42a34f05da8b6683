--------------------------- MODULE MCHappensBefore ---------------------------
(* HappensBefore on small sets of threads, handles and blocks.             *)
EXTENDS HappensBefore, TLC

(* Threads, handles and blocks are interchangeable (safety runs only).     *)
Symmetry == Permutations(Thread) \cup Permutations(Handle) \cup Permutations(Block)
=============================================================================
