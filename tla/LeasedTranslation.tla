------------------------- MODULE LeasedTranslation -------------------------
(***************************************************************************)
(* What the lease ledger promises of a document's packets: at most one     *)
(* worker holds a packet, a packet passes from one worker to another only  *)
(* by being free in between, and its translation is committed once, by the *)
(* worker that holds it.  A worker is named by its lease token.            *)
(***************************************************************************)
CONSTANTS Packets, Tokens, NoHolder

VARIABLES holder,   \* the token that holds a packet
          done      \* the packets whose translation is committed

Init == holder = [p \in Packets |-> NoHolder] /\ done = {}

\* Claims are made in batches, of free packets for tokens that hold nothing.
Acquire ==
  /\ holder' \in [Packets -> Tokens \cup {NoHolder}]
  /\ \A p \in Packets : holder[p] # NoHolder => holder'[p] = holder[p]
  /\ \A p, q \in Packets : holder'[p] = holder'[q] /\ holder'[p] # NoHolder => p = q
  /\ UNCHANGED done

\* So are reclaims.
Yield ==
  /\ \E S \in SUBSET Packets :
       holder' = [p \in Packets |-> IF p \in S THEN NoHolder ELSE holder[p]]
  /\ UNCHANGED done

Commit(p) ==
  /\ holder[p] # NoHolder /\ p \notin done
  /\ done' = done \cup {p}
  /\ UNCHANGED holder

Next == Acquire \/ Yield \/ \E p \in Packets : Commit(p)

Spec == Init /\ [][Next]_<<holder, done>>
=============================================================================
