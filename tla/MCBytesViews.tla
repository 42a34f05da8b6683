---------------------------- MODULE MCBytesViews ----------------------------
(* BytesViews on a small memory.                                           *)
EXTENDS BytesViews, TLC

(* Handles are interchangeable; allocations and blocks are not: the        *)
(* allocator picks the first free one.                                     *)
Symmetry == Permutations(Handle)
=============================================================================
