---------------------------- MODULE MCIssueLedger ----------------------------
(***************************************************************************)
(* Instances of IssueLedger for TLC.                                       *)
(***************************************************************************)
EXTENDS IssueLedger, TLC

CONSTANTS i1, i2, p1, p2

TwoPackets == [i \in Issues |-> IF i = i1 THEN p1 ELSE p2]
=============================================================================
