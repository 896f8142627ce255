----------------------------- MODULE MCRingBuffer -----------------------------
(* Ring memories of a few bytes; blocks as long as the memory and longer. *)
EXTENDS RingBuffer

MCByte    == {0, 1}
MCBlocks  == UNION {[1 .. n -> MCByte] : n \in 0 .. SIZE + 1}
MCLengths == 0 .. SIZE + 1
================================================================================
