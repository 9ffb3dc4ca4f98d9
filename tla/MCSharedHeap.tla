---------------------------- MODULE MCSharedHeap ----------------------------
(* A small heap for TLC: thirteen granules hold up to six blocks, and    *)
(* requests of one, two and three payload granules make splits, exact      *)
(* fits, remainders too small to split and all four coalescing cases of    *)
(* free occur.  16 and 17 sit on the two sides of a granule boundary.      *)
EXTENDS SharedHeap

MCBase     == 1
MCLimit    == 14
MCRequests == {16, 17, 33}
=============================================================================
