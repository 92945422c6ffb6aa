---------------------------- MODULE MCMainMemory ----------------------------
(* An instance of MainMemory for TLC: three pages of two bytes.              *)
EXTENDS MainMemory

\* Every address of memory, and the last one that MemoryAddress holds.
EdgeStarts == Address \cup {Wrap - 1}

\* Blocks that are empty, fill a page or less, and touch two or three pages.
SomeBlocks == {<<>>, <<1, 0>>, <<0, 1, 1, 0>>}
=============================================================================
