---------------------------- MODULE MCDmaPages ----------------------------
(* Instances of DmaPages for TLC: the system's pages have two units, RM    *)
(* asks for pages of one and of four, and a gibibyte has twelve.  Two of   *)
(* the large pages are below it, the size of four wraps to nothing, and    *)
(* that of five to twelve.                                                 *)
EXTENDS DmaPages, TLC

CONSTANTS a1, a2, b1, b2

TwoAllocators == {a1, a2}
TwoBuffers == {b1, b2}
Counts == {2, 4, 5}
Sizes == {1, 4}
Symmetry == Permutations(TwoAllocators) \cup Permutations(TwoBuffers)
Widths == {36}
=============================================================================
