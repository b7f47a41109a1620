---------------------------- MODULE MCKernelHeap ----------------------------
(* Frames are interchangeable.                                              *)
EXTENDS KernelHeap, TLC

Symmetry == Permutations(Frames)
=============================================================================
