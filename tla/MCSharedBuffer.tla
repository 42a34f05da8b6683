--------------------------- MODULE MCSharedBuffer ---------------------------
(* SharedBuffer on small sets of threads, handles and blocks.              *)
EXTENDS SharedBuffer, TLC

(* Threads, handles and blocks are interchangeable (safety runs only).     *)
Symmetry == Permutations(Thread) \cup Permutations(Handle) \cup Permutations(Block)
=============================================================================
