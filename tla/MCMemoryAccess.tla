--------------------------- MODULE MCMemoryAccess ---------------------------
(* Instances of MemoryAccess for TLC.                                      *)
EXTENDS MemoryAccess

Bits == {0, 1}

(* Two bytes that differ may meet two blocks.                              *)
UpToTwoBytes == {<<>>, <<1>>, <<1, 0>>}

OneOrTwo == 1 .. 2
=============================================================================
