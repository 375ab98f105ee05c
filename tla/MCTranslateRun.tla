--------------------------- MODULE MCTranslateRun ---------------------------
(***************************************************************************)
(* Instances of TranslateRun for TLC.                                      *)
(***************************************************************************)
EXTENDS TranslateRun, TLC

CONSTANTS p1, p2, p3

\* Two packets of one chapter and one of another.
TwoChapters == p1 :> p1 @@ p2 :> p1 @@ p3 :> p3
TwoLanes    == p1 :> 0 @@ p2 :> 1 @@ p3 :> 0

\* One chapter of two packets.
OneChapter == p1 :> p1 @@ p2 :> p1
OneLane    == p1 :> 0 @@ p2 :> 1

\* A single packet.
Lone       == p1 :> p1
LoneLane   == p1 :> 0

TokenSymmetry == Permutations(Tokens)
Symmetry      == TokenSymmetry \cup Permutations(Drivers)
=============================================================================
