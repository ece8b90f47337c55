------------------------------ MODULE MCMemory ------------------------------
(* Instances of Memory for TLC.                                            *)
EXTENDS Memory

(* Sizes up to a third of the address space: free blocks are split, joined *)
(* and used up, and the address space runs out.                            *)
SmallSizes == 0 .. 3

(* One kind of each behaviour towards deallocation: always allowed, only   *)
(* when protection is lifted, and only through the heap calls as well.     *)
EveryBehaviour == {"block", "protected", "heap"}

HeapOnly == {"heap"}
=============================================================================
