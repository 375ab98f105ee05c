--------------------------- MODULE MCChapterMemory ---------------------------
(***************************************************************************)
(* Instances of ChapterMemory for TLC.                                     *)
(***************************************************************************)
EXTENDS ChapterMemory, TLC

CONSTANTS p1, p2, t1, t2, c1

Symmetry == Permutations(Packets) \cup Permutations(Txns)
=============================================================================
