---------------------------- MODULE MCRunControl ----------------------------
(***************************************************************************)
(* Instances of RunControl for TLC.                                        *)
(***************************************************************************)
EXTENDS RunControl, TLC

Symmetry == Permutations(Runs) \cup Permutations(Requests)
=============================================================================
