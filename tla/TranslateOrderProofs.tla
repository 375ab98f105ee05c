------------------------- MODULE TranslateOrderProofs -------------------------
(***************************************************************************)
(* The order of the chapters of a translate run, the limit on its workers   *)
(* and the promise its leases keep, proved for any number of packets,       *)
(* tokens and drivers.                                                      *)
(***************************************************************************)
EXTENDS TranslateRunProofs, FiniteSetTheorems

-----------------------------------------------------------------------------
(* What the steps leave alone, except for the one that seeds and claims.   *)

\* Translations are committed for leased packets only.
PacketsKept ==
  \A p \in Packets : \/ packet'[p] = packet[p]
                     \/ packet'[p] = "translated" /\ \E t \in Tokens : lease[t] = p

\* Only owned items change, and none is cancelled.
ItemsKept ==
  \A p \in Packets : \/ item'[p] = item[p]
                     \/ item[p] \in Owned /\ item'[p] \notin {"none", "cancelled"}

\* Leases are closed, and none is opened.
LeasesKept == \A t \in Tokens : lease'[t] = lease[t] \/ lease'[t] = NoPacket

\* A driver that is about to write read its rows just now, or holds what it held.
ViewsKept ==
  \A d \in Drivers : pc'[d] = "write" =>
    \/ pc[d] = "write" /\ view'[d] = view[d]
    \/ /\ view'[d].item = item /\ view'[d].built = {p \in Packets : packet[p] = "built"}
       /\ item' = item /\ packet' = packet

Quiet == PacketsKept /\ ItemsKept /\ LeasesKept /\ ViewsKept

LEMMA QuietFrame ==
  ASSUME item' = item, packet' = packet, lease' = lease,
         \A d \in Drivers : pc'[d] = "write" => pc[d] = "write" /\ view'[d] = view[d]
  PROVE  Quiet
BY DEF Quiet, PacketsKept, ItemsKept, LeasesKept, ViewsKept

LEMMA DriveQuiet ==
  ASSUME TypeOK, NEW d \in Drivers, Drive(d), ~WriteLedger(d)
  PROVE  Quiet
<1>1. CASE Tick(d) \/ Sweep(d) \/ GuardrailStops(d) \/ EvaluateStages(d) \/ ApplyVerdict(d)
  <2>1. item' = item /\ packet' = packet /\ lease' = lease /\ view' = view
    BY <1>1 DEF Tick, Sweep, GuardrailStops, EvaluateStages, ApplyVerdict, ledger, leases
  <2>2. \A e \in Drivers : pc'[e] = "write" => pc[e] = "write"
    BY <1>1 DEF Tick, Sweep, GuardrailStops, EvaluateStages, ApplyVerdict, TypeOK
  <2>3. QED
    BY <2>1, <2>2, QuietFrame
<1>2. CASE ExpireLeases(d)
  <2>1. /\ packet' = packet /\ view' = view
        /\ \A t \in Tokens : lease'[t] = lease[t] \/ lease'[t] = NoPacket
    BY <1>2 DEF ExpireLeases, Expire
  <2>2. \A e \in Drivers : pc'[e] = "write" => pc[e] = "write"
    BY <1>2 DEF ExpireLeases, Expire, TypeOK
  <2>3. ItemsKept
    BY <1>2 DEF ExpireLeases, Expire, ItemsKept
  <2>4. QED
    BY <2>1, <2>2, <2>3 DEF Quiet, PacketsKept, LeasesKept, ViewsKept
<1>3. CASE ReadLedger(d)
  <2>1. item' = item /\ packet' = packet /\ lease' = lease
    BY <1>3 DEF ReadLedger, ledger, leases
  <2>2. \A e \in Drivers : \/ pc'[e] = pc[e] /\ view'[e] = view[e]
                           \/ /\ view'[e].item = item
                              /\ view'[e].built = {p \in Packets : packet[p] = "built"}
    BY <1>3 DEF ReadLedger, TypeOK
  <2>3. QED
    BY <2>1, <2>2 DEF Quiet, PacketsKept, ItemsKept, LeasesKept, ViewsKept
<1>4. QED
  BY <1>1, <1>2, <1>3 DEF Drive

LEMMA ExecuteQuiet ==
  ASSUME TypeOK, ThreadLease, NEW t \in Tokens, Execute(t)
  PROVE  Quiet
<1>1. pc' = pc /\ view' = view
  BY DEF Execute, Start, StartLost, Prepare, CallReturns, StepError, Persist, Commits, PersistLost,
         CompleteSuccess, CompleteLost, CompleteFailure, Fails, Discards, drivers
<1>2. LeasesKept
  BY DEF Execute, Start, StartLost, Prepare, CallReturns, StepError, Persist, Commits, PersistLost,
         CompleteSuccess, CompleteLost, CompleteFailure, Fails, Discards, Release, leases, TypeOK,
         LeasesKept
<1>3. PacketsKept
  <2>1. CASE Persist(t)
    <3>1. lease[t] = work[t].packet /\ work[t].packet \in Packets
      BY <2>1 DEF Persist, Held, ThreadLease
    <3>2. QED
      BY <2>1, <3>1 DEF Persist, Commits, TypeOK, PacketsKept
  <2>2. CASE ~Persist(t)
    BY <2>2 DEF Execute, Start, StartLost, Prepare, CallReturns, StepError, PersistLost,
                CompleteSuccess, CompleteLost, CompleteFailure, Fails, Discards, ledger, PacketsKept
  <2>3. QED
    BY <2>1, <2>2
<1>4. ItemsKept
  <2>1. CASE Start(t)
    BY <2>1 DEF Start, Held, Owned, TypeOK, ItemsKept
  <2>2. CASE CompleteSuccess(t) \/ CompleteFailure(t)
    BY <2>2 DEF CompleteSuccess, CompleteFailure, Fails, Release, TypeOK, ItemsKept
  <2>3. CASE Prepare(t) \/ CallReturns(t) \/ StepError(t) \/ Persist(t) \/ Discards(t)
    BY <2>3 DEF Prepare, CallReturns, StepError, Persist, Commits, Discards, ledger, ItemsKept
  <2>4. QED
    BY <2>1, <2>2, <2>3 DEF Execute, StartLost, PersistLost, CompleteLost
<1>5. QED
  BY <1>1, <1>2, <1>3, <1>4 DEF Quiet, ViewsKept

LEMMA EnvironmentQuiet ==
  ASSUME TypeOK, Environment
  PROVE  Quiet
<1>1. item' = item /\ packet' = packet /\ lease' = lease
  BY DEF Environment, Heartbeat, Lapse, Abandon, BackoffElapses, Crash, Aborts, Stop,
         OwnershipExpires, ledger, leases
<1>2. \A d \in Drivers : pc'[d] = "write" => pc[d] = "write" /\ view'[d] = view[d]
  <2>1. ASSUME NEW e \in Drivers, Crash(e) \/ Aborts(e), NEW d \in Drivers, pc'[d] = "write"
        PROVE  pc[d] = "write" /\ view'[d] = view[d]
    BY <2>1 DEF Crash, Aborts, TypeOK
  <2>2. ASSUME \/ \E t \in Tokens : Heartbeat(t) \/ Lapse(t) \/ Abandon(t)
               \/ \E p \in Packets : BackoffElapses(p)
               \/ \E d \in Drivers : Stop(d)
               \/ OwnershipExpires
        PROVE  pc' = pc /\ view' = view
    BY <2>2 DEF Heartbeat, Lapse, Abandon, BackoffElapses, Stop, OwnershipExpires, drivers
  <2>3. QED
    BY <2>1, <2>2 DEF Environment
<1>3. QED
  BY <1>1, <1>2, QuietFrame

\* Every step is quiet, or is one of WriteLedger.
LEMMA QuietSteps ==
  ASSUME LeaseInv, [Next]_vars
  PROVE  Quiet \/ \E d \in Drivers : WriteLedger(d)
<1>1. CASE Operator \/ UNCHANGED vars
  <2>1. item' = item /\ packet' = packet /\ lease' = lease /\ pc' = pc /\ view' = view
    BY <1>1 DEF Operator, vars, ledger, leases, drivers
  <2>2. QED
    BY <2>1, QuietFrame
<1>2. QED
  BY <1>1, DriveQuiet, ExecuteQuiet, EnvironmentQuiet DEF Next, LeaseInv

-----------------------------------------------------------------------------
(* Chapters in order, with any number of drivers and stale reads.          *)

Before(p, q) == Chapter[p] = Chapter[q] /\ Ordinal[p] < Ordinal[q]

\* Nothing is left to do for a packet: no worker has it and none will claim it.
Passed(p) == packet[p] = "translated" /\ item[p] \notin Owned \cup Claimable

\* Only the items of translated packets are cancelled.
CancelledMeansTranslated ==
  \A p \in Packets : item[p] = "cancelled" => packet[p] = "translated"

\* While a packet waits for its item, no later one of its chapter has one.
SeededInOrder ==
  \A p, q \in Packets :
    Before(p, q) /\ item[p] = "none" /\ packet[p] = "built" => item[q] = "none"

\* A packet is leased, and translated, after those before it are done.
LeasedInOrder ==
  \A p, q \in Packets :
    Before(p, q) /\ (packet[q] = "translated" \/ \E t \in Tokens : lease[t] = q) => Passed(p)

\* What a stale read says of a packet that is done is still so ...
ViewSound ==
  \A d \in Drivers : pc[d] = "write" =>
    \A p \in Packets :
      /\ p \notin view[d].built => packet[p] = "translated"
      /\ p \notin view[d].built /\ view[d].item[p] = "none" => Passed(p)
      /\ view[d].item[p] \in {"cancelled", "succeeded"} => Passed(p)

\* ... and it was in order when it was read.
ViewInOrder ==
  \A d \in Drivers : pc[d] = "write" =>
    \A p, q \in Packets :
      Before(p, q) /\ view[d].item[p] = "none" /\ p \in view[d].built => view[d].item[q] = "none"

OrderInv ==
  /\ EvidenceInv
  /\ CancelledMeansTranslated /\ SeededInOrder /\ LeasedInOrder /\ ViewSound /\ ViewInOrder

\* What a driver holds after it has reconciled and seeded are item rows.
LEMMA RowsType ==
  ASSUME TypeOK, NEW d \in Drivers
  PROVE  /\ Reconciled(view[d]) \in [Packets -> ItemStatuses \cup {"none"}]
         /\ SeededRows(Reconciled(view[d])) \in [Packets -> ItemStatuses \cup {"none"}]
<1>1. /\ view[d].item \in [Packets -> ItemStatuses \cup {"none"}]
      /\ item \in [Packets -> ItemStatuses \cup {"none"}]
  BY DEF TypeOK
<1>2. "cancelled" \in ItemStatuses /\ "pending" \in ItemStatuses
  BY DEF ItemStatuses
<1>3. Reconciled(view[d]) \in [Packets -> ItemStatuses \cup {"none"}]
  BY <1>1, <1>2 DEF Reconciled
<1>4. QED
  BY <1>1, <1>2, <1>3 DEF SeededRows

\* An item read under its row lock keeps its settled status in the rows, and a
\* row that was read does not change by seeding.
LEMMA RowsKeepView ==
  ASSUME EvidenceInv, NEW d \in Drivers, NEW p \in Packets \ Obsolete(view[d]),
         view[d].item[p] # "none"
  PROVE  SeededRows(Reconciled(view[d]))[p] = view[d].item[p]
<1>1. Reconciled(view[d])[p] = view[d].item[p]
  BY DEF Reconciled
<1>2. item[p] # "none"
  BY DEF EvidenceInv, ViewIsPast
<1>3. QED
  BY <1>1, <1>2 DEF SeededRows

\* Nothing comes before a head in its chapter.
LEMMA HeadIsFirst ==
  ASSUME NEW S \in SUBSET Packets, NEW q \in Heads(S), NEW p \in S
  PROVE  ~Before(p, q)
<1>1. q \in Packets /\ p \in Packets
  BY DEF Heads
<1>2. Chapter[p] = Chapter[q] => Ordinal[q] <= Ordinal[p]
  BY <1>1 DEF Heads, SameChapter
<1>3. Ordinal[p] \in Nat /\ Ordinal[q] \in Nat
  BY <1>1, TranslateRunAssumption
<1>4. QED
  BY <1>2, <1>3 DEF Before

\* The frontier takes no packet while one before it waits for its item.
LEMMA FrontierInOrder ==
  ASSUME NEW rows, NEW q \in Frontier(rows), NEW p \in Packets, Before(p, q),
         packet[p] = "built"
  PROVE  rows[p] \notin {"none", "cancelled"}
<1> DEFINE S == {x \in Packets : /\ packet[x] = "built"
                                 /\ rows[x] \in {"none", "cancelled"}
                                 /\ \A y \in SameChapter(x) : rows[y] \notin Claimable \cup Owned}
<1>1. q \in Heads(S)
  BY DEF Frontier
<1>2. q \in S
  BY <1>1 DEF Heads
<1>3. SameChapter(p) = SameChapter(q)
  BY DEF Before, SameChapter
<1>4. p \notin S
  BY <1>1, HeadIsFirst
<1>5. QED
  BY <1>2, <1>3, <1>4

\* A claim takes a packet after those before it are done, or are cancelled in
\* the same step.
LEMMA ClaimInOrder ==
  ASSUME OrderInv, NEW d \in Drivers, pc[d] = "write",
         NEW q \in Claims(SeededRows(Reconciled(view[d])), view[d].delayed),
         NEW p \in Packets, Before(p, q)
  PROVE  Passed(p) \/ p \in Obsolete(view[d])
<1> DEFINE v    == view[d]
           rec  == Reconciled(v)
           rows == SeededRows(rec)
<1>0. TypeOK /\ EvidenceInv
  BY DEF OrderInv, EvidenceInv, LeaseInv
<1>1. /\ q \in Heads({x \in Packets : rows[x] \in Claimable})
      /\ q \in Packets /\ rows[q] \in Claimable
      /\ rows[p] \notin Owned /\ rows[p] # "terminal_failed"
  BY DEF Claims, Heads, Before, SameChapter
<1>2. rows[p] \notin Claimable
  BY <1>1, HeadIsFirst
<1>3. rows[p] \in {"none", "succeeded", "cancelled"}
  BY <1>0, <1>1, <1>2, RowsType DEF ItemStatuses, Owned, Claimable
<1>4. CASE p \notin Obsolete(v) /\ v.item[p] # "none"
  BY <1>0, <1>3, <1>4, RowsKeepView DEF OrderInv, ViewSound
<1>5. CASE v.item[p] = "none" /\ p \notin v.built
  BY <1>5 DEF OrderInv, ViewSound
<1>6. CASE v.item[p] = "none" /\ p \in v.built
  <2>1. v.item[q] = "none"
    BY <1>1, <1>6 DEF OrderInv, ViewInOrder
  <2>2. p \notin Obsolete(v) /\ q \notin Obsolete(v)
    BY <1>6, <2>1 DEF Obsolete, Claimable
  <2>3. /\ rec[p] = IF Obsolete(v) # {} THEN item[p] ELSE "none"
        /\ rec[q] = IF Obsolete(v) # {} THEN item[q] ELSE "none"
    BY <1>1, <1>6, <2>1, <2>2 DEF Reconciled
  <2>4. CASE item[p] = "none" /\ packet[p] = "built"
    <3>1. item[q] = "none"
      BY <1>1, <2>4 DEF OrderInv, SeededInOrder
    <3>2. rec[p] = "none" /\ rec[q] = "none"
      BY <2>3, <2>4, <3>1
    <3>3. q \in Frontier(rec)
      BY <1>1, <3>1, <3>2 DEF SeededRows, Claimable
    <3>4. QED
      BY <2>4, <3>2, <3>3, FrontierInOrder
  <2>5. CASE item[p] = "none" /\ packet[p] # "built"
    BY <1>0, <2>5 DEF Passed, Owned, Claimable, TypeOK
  <2>6. CASE item[p] # "none"
    <3>1. rows[p] = item[p]
      <4>1. CASE Obsolete(v) # {}
        BY <2>3, <2>6, <4>1 DEF SeededRows
      <4>2. CASE Obsolete(v) = {}
        <5>1. rec[p] = "none" /\ rec[q] = "none"
          BY <2>3, <4>2
        <5>2. Frontier(rec) # {}
          BY <1>1, <5>1 DEF SeededRows, Claimable
        <5>3. QED
          BY <2>6, <5>1, <5>2 DEF SeededRows
      <4>3. QED
        BY <4>1, <4>2
    <3>2. item[p] \in {"succeeded", "cancelled"}
      BY <1>3, <2>6, <3>1
    <3>3. packet[p] = "translated"
      BY <1>0, <3>2 DEF OrderInv, CancelledMeansTranslated, EvidenceInv, SucceededMeansTranslated
    <3>4. QED
      BY <3>2, <3>3 DEF Passed, Owned, Claimable
  <2>7. QED
    BY <2>4, <2>5, <2>6
<1>7. QED
  BY <1>4, <1>5, <1>6

\* Claiming and seeding keep the chapters in order.
LEMMA WriteLedgerOrder ==
  ASSUME OrderInv, NEW d \in Drivers, WriteLedger(d)
  PROVE  /\ CancelledMeansTranslated' /\ SeededInOrder' /\ LeasedInOrder'
         /\ ViewSound' /\ ViewInOrder'
<1> DEFINE v    == view[d]
           rec  == Reconciled(v)
           rows == SeededRows(rec)
<1>0. TypeOK /\ EvidenceInv
  BY DEF OrderInv, EvidenceInv, LeaseInv
<1>1. PICK C \in SUBSET Packets, T \in SUBSET Tokens : \E g \in Bijection(T, C) :
        /\ SeedAndClaim(d, C, T, g)
        /\ C \subseteq Claims(rows, v.delayed)
        /\ \A p \in C : item[p] \in Claimable \cup {"none"}
  BY <1>0, WriteLedgerPick
<1>2. PICK g \in Bijection(T, C) : SeedAndClaim(d, C, T, g)
  BY <1>1
<1>3. /\ \A t \in Tokens : lease'[t] = lease[t] \/ lease'[t] \in C
      /\ \A p \in Packets : item'[p] = IF p \in C THEN "leased"
                                       ELSE IF p \in Obsolete(v) THEN "cancelled"
                                       ELSE IF p \in Seeds(rec) THEN "pending"
                                       ELSE item[p]
  <2>1. \A t \in Tokens : lease'[t] = IF t \in T THEN g[t] ELSE lease[t]
    BY <1>2, SeedAndClaimFacts
  <2>2. \A t \in T : g[t] \in C
    BY <1>2, SeedAndClaimFacts
  <2>3. QED
    BY <1>2, <2>1, <2>2 DEF SeedAndClaim
<1>4. pc[d] = "write" /\ packet' = packet /\ view' = [view EXCEPT ![d] = EmptyView]
  BY Zenon DEF WriteLedger
<1>5. \A e \in Drivers : pc'[e] = "write" => pc[e] = "write" /\ view'[e] = view[e]
  <2>1. pc' = [pc EXCEPT ![d] = IF C # {} \/ (ActiveRows(rows) = {}
                                              /\ \E p \in Packets : packet[p] = "built")
                                THEN "idle" ELSE "settle"]
    BY <1>2 DEF SeedAndClaim
  <2>2. QED
    BY <1>0, <1>4, <2>1 DEF TypeOK
<1>6. \A p \in Packets : p \in Obsolete(v) => v.item[p] # "none" /\ packet[p] = "translated"
  BY <1>4 DEF OrderInv, ViewSound, Obsolete, Claimable
<1>7. ASSUME NEW p \in Packets, Passed(p)
      PROVE  Passed(p)'
  <2>1. p \notin C
    BY <1>0, <1>1, <1>7, SeededPacketBuilt DEF Passed
  <2>2. p \notin Seeds(rec)
    BY <1>7 DEF Passed, Seeds
  <2>3. QED
    BY <1>3, <1>4, <1>7, <2>1, <2>2 DEF Passed, Owned, Claimable
<1>8. ASSUME NEW q \in C, NEW p \in Packets, Before(p, q)
      PROVE  Passed(p)'
  <2>1. p \notin C
    <3>1. /\ q \in Heads({x \in Packets : rows[x] \in Claimable})
          /\ p \in C => rows[p] \in Claimable
      BY <1>1 DEF Claims, Heads
    <3>2. QED
      BY <1>8, <3>1, HeadIsFirst
  <2>2. CASE Passed(p)
    BY <1>7, <2>2
  <2>3. CASE p \in Obsolete(v)
    BY <1>3, <1>4, <1>6, <2>1, <2>3 DEF Passed, Owned, Claimable
  <2>4. QED
    BY <1>1, <1>4, <1>8, <2>2, <2>3, ClaimInOrder
<1>9. CancelledMeansTranslated'
  BY <1>3, <1>4, <1>6 DEF OrderInv, CancelledMeansTranslated
<1>10. LeasedInOrder'
  <2>1. SUFFICES ASSUME NEW p \in Packets, NEW q \in Packets, Before(p, q),
                        packet[q] = "translated" \/ \E t \in Tokens : lease'[t] = q
                 PROVE  Passed(p)'
    BY <1>4 DEF LeasedInOrder, Before
  <2>2. CASE packet[q] = "translated" \/ \E t \in Tokens : lease[t] = q
    BY <1>7, <2>1, <2>2 DEF OrderInv, LeasedInOrder
  <2>3. CASE q \in C
    BY <1>8, <2>1, <2>3
  <2>4. QED
    BY <1>3, <2>1, <2>2, <2>3
<1>11. SeededInOrder'
  <2>1. SUFFICES ASSUME NEW p \in Packets, NEW q \in Packets, Before(p, q),
                        item'[p] = "none", packet[p] = "built", item'[q] # "none"
                 PROVE  FALSE
    BY <1>4 DEF SeededInOrder, Before
  <2>2. item[p] = "none" /\ p \notin C /\ p \notin Obsolete(v) /\ p \notin Seeds(rec)
    BY <1>3, <2>1
  <2>3. item[q] = "none"
    BY <2>1, <2>2 DEF OrderInv, SeededInOrder
  <2>4. q \notin C
    BY <1>4, <1>8, <2>1 DEF Passed
  <2>5. q \notin Obsolete(v)
    BY <1>0, <1>6, <2>3 DEF EvidenceInv, ViewIsPast
  <2>6. q \in Seeds(rec)
    BY <1>3, <2>1, <2>3, <2>4, <2>5
  <2>7. q \in Frontier(rec)
    BY <2>1, <2>2, <2>6 DEF Seeds
  <2>8. rec[p] = "none"
    <3>1. v.item[p] = "none"
      BY <1>0, <2>2 DEF EvidenceInv, ViewIsPast
    <3>2. QED
      BY <2>2, <3>1 DEF Reconciled
  <2>9. QED
    BY <2>1, <2>7, <2>8, FrontierInOrder
<1>12. ViewSound'
  BY <1>4, <1>5, <1>7 DEF OrderInv, ViewSound
<1>13. ViewInOrder'
  BY <1>5 DEF OrderInv, ViewInOrder, Before
<1>14. QED
  BY <1>9, <1>10, <1>11, <1>12, <1>13

\* Quiet steps keep the chapters in order.
LEMMA QuietOrder ==
  ASSUME OrderInv, Quiet
  PROVE  /\ CancelledMeansTranslated' /\ SeededInOrder' /\ LeasedInOrder'
         /\ ViewSound' /\ ViewInOrder'
<1>0. TypeOK
  BY DEF OrderInv, EvidenceInv, LeaseInv
<1>1. ASSUME NEW p \in Packets, Passed(p)
      PROVE  Passed(p)'
  BY <1>1 DEF Passed, Quiet, PacketsKept, ItemsKept
<1>2. CancelledMeansTranslated'
  BY DEF OrderInv, CancelledMeansTranslated, Quiet, PacketsKept, ItemsKept
<1>3. SeededInOrder'
  <2>1. \A p \in Packets : item'[p] = "none" <=> item[p] = "none"
    BY DEF Quiet, ItemsKept, Owned
  <2>2. \A p \in Packets : packet'[p] = "built" => packet[p] = "built"
    BY DEF Quiet, PacketsKept
  <2>3. QED
    BY <2>1, <2>2 DEF OrderInv, SeededInOrder, Before
<1>4. LeasedInOrder'
  <2>1. SUFFICES ASSUME NEW p \in Packets, NEW q \in Packets, Before(p, q),
                        packet'[q] = "translated" \/ \E t \in Tokens : lease'[t] = q
                 PROVE  Passed(p)'
    BY DEF LeasedInOrder, Before
  <2>2. packet[q] = "translated" \/ \E t \in Tokens : lease[t] = q
    BY <2>1, TranslateRunAssumption DEF Quiet, PacketsKept, LeasesKept
  <2>3. QED
    BY <1>1, <2>1, <2>2 DEF OrderInv, LeasedInOrder
<1>5. ASSUME NEW d \in Drivers, pc'[d] = "write", pc[d] # "write" \/ view'[d] # view[d]
      PROVE  /\ view'[d].item = item /\ view'[d].built = {p \in Packets : packet[p] = "built"}
             /\ item' = item /\ packet' = packet
  BY <1>5 DEF Quiet, ViewsKept
<1>6. /\ \A p \in Packets : packet[p] \in {"built", "translated"}
      /\ \A p \in Packets : item[p] \in {"cancelled", "succeeded"} => Passed(p)
      /\ \A p \in Packets : packet[p] = "translated" /\ item[p] = "none" => Passed(p)
  BY <1>0 DEF OrderInv, EvidenceInv, CancelledMeansTranslated, SucceededMeansTranslated, Passed,
              Owned, Claimable, TypeOK
<1>7. ViewSound'
  <2>1. SUFFICES ASSUME NEW d \in Drivers, pc'[d] = "write", NEW p \in Packets
                 PROVE  /\ p \notin view'[d].built => packet'[p] = "translated"
                        /\ p \notin view'[d].built /\ view'[d].item[p] = "none" => Passed(p)'
                        /\ view'[d].item[p] \in {"cancelled", "succeeded"} => Passed(p)'
    BY DEF ViewSound
  <2>2. CASE pc[d] = "write" /\ view'[d] = view[d]
    BY <1>1, <2>1, <2>2 DEF OrderInv, ViewSound, Quiet, PacketsKept
  <2>3. CASE pc[d] # "write" \/ view'[d] # view[d]
    BY <1>1, <1>5, <1>6, <2>1, <2>3
  <2>4. QED
    BY <2>2, <2>3
<1>8. ViewInOrder'
  BY <1>5 DEF OrderInv, ViewInOrder, SeededInOrder, Before
<1>9. QED
  BY <1>2, <1>3, <1>4, <1>7, <1>8

LEMMA OrderInvInit == Init => OrderInv
BY EvidenceInvInit, TranslateRunAssumption
   DEF Init, OrderInv, CancelledMeansTranslated, SeededInOrder, LeasedInOrder, ViewSound,
       ViewInOrder

LEMMA OrderInvNext == OrderInv /\ [Next]_vars => OrderInv'
<1> SUFFICES ASSUME OrderInv, [Next]_vars
             PROVE  OrderInv'
  OBVIOUS
<1>1. EvidenceInv'
  BY EvidenceInvNext DEF OrderInv
<1>2. Quiet \/ \E d \in Drivers : WriteLedger(d)
  BY QuietSteps DEF OrderInv, EvidenceInv
<1>3. QED
  BY <1>1, <1>2, QuietOrder, WriteLedgerOrder DEF OrderInv

\* A chapter is translated in order and by one worker at a time, whatever the
\* drivers of overlapping ticks read and write.
THEOREM ChaptersInOrder == Spec => []ChapterOrder
<1>1. OrderInv => ChapterOrder
  <2>1. SUFFICES ASSUME OrderInv, NEW p \in Packets, NEW q \in SameChapter(p)
                 PROVE  /\ packet[p] = "translated" /\ Ordinal[q] < Ordinal[p] => packet[q] = "translated"
                        /\ {item[p], item[q]} \subseteq Owned => p = q
    BY DEF ChapterOrder
  <2>2. q \in Packets /\ Chapter[q] = Chapter[p]
    BY DEF SameChapter
  <2>3. packet[p] = "translated" /\ Ordinal[q] < Ordinal[p] => packet[q] = "translated"
    BY <2>1, <2>2 DEF OrderInv, LeasedInOrder, Before, Passed
  <2>4. ASSUME item[p] \in Owned, item[q] \in Owned
        PROVE  p = q
    <3>1. (\E t \in Tokens : lease[t] = p) /\ (\E t \in Tokens : lease[t] = q)
      BY <2>1, <2>2, <2>4 DEF OrderInv, EvidenceInv, LeaseInv, OwnedItemIsLeased
    <3>2. ~Before(p, q) /\ ~Before(q, p)
      BY <2>1, <2>2, <2>4, <3>1 DEF OrderInv, LeasedInOrder, Passed
    <3>3. Ordinal[p] = Ordinal[q]
      BY <2>2, <3>2, TranslateRunAssumption DEF Before
    <3>4. QED
      BY <2>2, <3>3, TranslateRunAssumption
  <2>5. QED
    BY <2>3, <2>4
<1>2. QED
  BY <1>1, OrderInvInit, OrderInvNext, PTL DEF Spec

-----------------------------------------------------------------------------
(* No more owned items than workers, while ticks do not overlap.           *)

OwnedItems == {p \in Packets : item[p] \in Owned}

\* A driver that is about to claim counts every item that is owned.
ViewOwned ==
  \A d \in Drivers : pc[d] = "write" =>
    \A p \in Packets : item[p] \in Owned => view[d].item[p] \in Owned

LimitInv == EvidenceInv /\ Serial /\ ViewOwned /\ ParallelLimit

\* A claim adds at most as many items as there are slots.
LEMMA WriteLedgerSlots ==
  ASSUME TypeOK, NEW d \in Drivers, WriteLedger(d)
  PROVE  \E C \in SUBSET Packets :
           /\ Cardinality(C) <= Slots(SeededRows(Reconciled(view[d])))
           /\ \A p \in Packets : item'[p] \in Owned => item[p] \in Owned \/ p \in C
<1> DEFINE rows  == SeededRows(Reconciled(view[d]))
           ready == Claims(rows, view[d].delayed)
<1>1. PICK C \in SUBSET ready, T \in SUBSET FreeTokens :
        /\ Cardinality(C) <= Slots(rows)
        /\ \E g \in Bijection(T, C) : SeedAndClaim(d, C, T, g)
  BY Zenon DEF WriteLedger
<1>2. PICK g \in Bijection(T, C) : SeedAndClaim(d, C, T, g)
  BY <1>1
<1>3. C \in SUBSET Packets
  BY <1>1 DEF Claims, Heads
<1>4. \A p \in Packets : item'[p] \in Owned => item[p] \in Owned \/ p \in C
  BY <1>2 DEF SeedAndClaim, Owned
<1>5. QED
  BY <1>1, <1>3, <1>4

LEMMA WriteLedgerLimit ==
  ASSUME LimitInv, NEW d \in Drivers, WriteLedger(d)
  PROVE  ParallelLimit'
<1> DEFINE rows == SeededRows(Reconciled(view[d]))
           busy == {p \in Packets : rows[p] \in Owned}
<1>0. TypeOK /\ EvidenceInv
  BY DEF LimitInv, EvidenceInv, LeaseInv
<1>1. PICK C \in SUBSET Packets :
        /\ Cardinality(C) <= Slots(rows)
        /\ \A p \in Packets : item'[p] \in Owned => item[p] \in Owned \/ p \in C
  BY <1>0, WriteLedgerSlots
<1>2. OwnedItems \subseteq busy
  <2>1. SUFFICES ASSUME NEW p \in Packets, item[p] \in Owned
                 PROVE  rows[p] \in Owned
    BY DEF OwnedItems
  <2>2. view[d].item[p] \in Owned
    BY <2>1 DEF LimitInv, ViewOwned, WriteLedger
  <2>3. p \notin Obsolete(view[d]) /\ view[d].item[p] # "none"
    BY <2>2 DEF Obsolete, Owned, Claimable
  <2>4. QED
    BY <1>0, <2>2, <2>3, RowsKeepView
<1>3. OwnedItems' \subseteq OwnedItems \cup C
  BY <1>1 DEF OwnedItems
<1>4. /\ IsFiniteSet(C) /\ IsFiniteSet(busy) /\ IsFiniteSet(OwnedItems)
      /\ IsFiniteSet(OwnedItems \cap C)
  BY TranslateRunAssumption, FS_Subset DEF OwnedItems
<1>5. /\ Cardinality(C) \in Nat /\ Cardinality(busy) \in Nat /\ Cardinality(OwnedItems) \in Nat
      /\ Cardinality(OwnedItems \cap C) \in Nat
  BY <1>4, FS_CardinalityType
<1>6. Cardinality(OwnedItems) <= Cardinality(busy)
  BY <1>2, <1>4, FS_Subset
<1>7. /\ IsFiniteSet(OwnedItems \cup C)
      /\ Cardinality(OwnedItems \cup C) =
           Cardinality(OwnedItems) + Cardinality(C) - Cardinality(OwnedItems \cap C)
  BY <1>4, FS_Union
<1>8. IsFiniteSet(OwnedItems') /\ Cardinality(OwnedItems') <= Cardinality(OwnedItems \cup C)
  BY <1>3, <1>7, FS_Subset
<1>9. Cardinality(OwnedItems') \in Nat
  BY <1>8, FS_CardinalityType
<1>10. Cardinality(OwnedItems) <= MaxParallel /\ MaxParallel \in Nat
  BY TranslateRunAssumption DEF LimitInv, ParallelLimit, OwnedItems
<1>11. Slots(rows) = IF Cardinality(busy) < MaxParallel THEN MaxParallel - Cardinality(busy) ELSE 0
  BY DEF Slots
<1>12. Cardinality(OwnedItems') <= MaxParallel
  BY <1>1, <1>5, <1>6, <1>7, <1>8, <1>9, <1>10, <1>11
<1>13. QED
  BY <1>12 DEF ParallelLimit, OwnedItems

LEMMA LimitInvNext == LimitInv /\ [Next /\ Serial']_vars => LimitInv'
<1> SUFFICES ASSUME LimitInv, [Next /\ Serial']_vars
             PROVE  LimitInv'
  OBVIOUS
<1>0. LeaseInv /\ TypeOK
  BY DEF LimitInv, EvidenceInv, LeaseInv
<1>1. EvidenceInv'
  BY EvidenceInvNext DEF LimitInv
<1>2. Serial'
  BY DEF LimitInv, Serial, vars, drivers
<1>3. CASE Quiet
  <2>1. \A p \in Packets : item'[p] \in Owned => item[p] \in Owned
    BY <1>3 DEF Quiet, ItemsKept
  <2>2. ViewOwned'
    BY <1>3, <2>1 DEF LimitInv, ViewOwned, Quiet, ViewsKept
  <2>3. OwnedItems' \in SUBSET OwnedItems /\ IsFiniteSet(OwnedItems)
    BY <2>1, TranslateRunAssumption, FS_Subset DEF OwnedItems
  <2>4. /\ Cardinality(OwnedItems') <= Cardinality(OwnedItems)
        /\ Cardinality(OwnedItems') \in Nat /\ Cardinality(OwnedItems) \in Nat
    BY <2>3, FS_Subset, FS_CardinalityType
  <2>5. Cardinality(OwnedItems) <= MaxParallel /\ MaxParallel \in Nat
    BY TranslateRunAssumption DEF LimitInv, ParallelLimit, OwnedItems
  <2>6. Cardinality(OwnedItems') <= MaxParallel
    BY <2>4, <2>5
  <2>7. QED
    BY <1>1, <1>2, <2>2, <2>6 DEF LimitInv, ParallelLimit, OwnedItems
<1>4. ASSUME NEW d \in Drivers, WriteLedger(d)
      PROVE  LimitInv'
  <2>1. ParallelLimit'
    BY <1>4, WriteLedgerLimit
  <2>2. pc[d] = "write" /\ \A e \in Drivers : pc'[e] # "write"
    <3>1. pc[d] = "write" /\ \E x \in {"idle", "settle"} : pc' = [pc EXCEPT ![d] = x]
      BY <1>4 DEF WriteLedger, SeedAndClaim
    <3>2. \A e \in Drivers \ {d} : pc[e] = "idle"
      BY <3>1 DEF LimitInv, Serial
    <3>3. QED
      BY <1>0, <3>1, <3>2 DEF TypeOK
  <2>3. QED
    BY <1>1, <1>2, <2>1, <2>2 DEF LimitInv, ViewOwned
<1>5. QED
  BY <1>0, <1>3, <1>4, QuietSteps

\* While ticks do not overlap, no more items are owned than the run may have
\* workers: a tick counts every owned item before it claims.
THEOREM WorkersAreLimited == SerialSpec => []ParallelLimit
<1>1. Init => LimitInv
  <2>1. ASSUME Init
        PROVE  ParallelLimit
    <3>1. {p \in Packets : item[p] \in Owned} = {}
      BY <2>1 DEF Init, Owned
    <3>2. Cardinality({p \in Packets : item[p] \in Owned}) = 0
      BY <3>1, FS_EmptySet
    <3>3. QED
      BY <3>2, TranslateRunAssumption DEF ParallelLimit
  <2>2. QED
    BY <2>1, EvidenceInvInit DEF Init, LimitInv, Serial, ViewOwned
<1>2. LimitInv => ParallelLimit
  BY DEF LimitInv
<1>3. QED
  BY <1>1, <1>2, LimitInvNext, PTL DEF SerialSpec

-----------------------------------------------------------------------------
(* The leases keep their promise, while ticks do not overlap.              *)

\* The holder of a packet is the token of the one lease that covers it.
LEMMA HolderFacts ==
  ASSUME ExclusiveLease, TypeOK, NEW p \in Packets
  PROVE  /\ \A t \in Tokens : lease[t] = p => HolderOf(p) = t
         /\ (\A t \in Tokens : lease[t] # p) => HolderOf(p) = NoPacket
         /\ HolderOf(p) # NoPacket => HolderOf(p) \in Tokens /\ lease[HolderOf(p)] = p
<1>1. ASSUME NEW t \in Tokens, lease[t] = p
      PROVE  HolderOf(p) = t
  <2>1. \A u \in Tokens : lease[u] = p => u = t
    BY <1>1, TranslateRunAssumption DEF ExclusiveLease
  <2>2. QED
    BY <1>1, <2>1 DEF HolderOf
<1>2. (\A t \in Tokens : lease[t] # p) => HolderOf(p) = NoPacket
  BY DEF HolderOf
<1>3. QED
  BY <1>1, <1>2

\* Closing leases frees packets.
LEMMA QuietYields ==
  ASSUME ExclusiveInv, ExclusiveInv', LeasesKept, packet' = packet
  PROVE  Promise!Yield
<1> DEFINE S == {p \in Packets : \A t \in Tokens : lease'[t] # p}
<1>0. TypeOK /\ TypeOK' /\ ExclusiveLease /\ ExclusiveLease'
  BY DEF ExclusiveInv, LeaseInv
<1>1. ASSUME NEW p \in Packets
      PROVE  HolderOf(p)' = IF p \in S THEN NoPacket ELSE HolderOf(p)
  <2>1. CASE p \in S
    BY <2>1 DEF HolderOf
  <2>2. CASE p \notin S
    <3>1. PICK t \in Tokens : lease'[t] = p
      BY <2>2
    <3>2. lease[t] = p
      BY <3>1, TranslateRunAssumption DEF LeasesKept
    <3>3. HolderOf(p) = t
      BY <1>0, <3>2, HolderFacts
    <3>4. HolderOf(p)' = t
      <4>1. \A u \in Tokens : lease'[u] = p => u = t
        BY <1>0, <3>1, TranslateRunAssumption DEF ExclusiveLease
      <4>2. QED
        BY <3>1, <4>1 DEF HolderOf
    <3>5. QED
      BY <2>2, <3>3, <3>4
  <2>3. QED
    BY <2>1, <2>2
<1>2. QED
  BY <1>1 DEF Promise!Yield

\* Claiming takes free packets, for tokens that hold nothing.
LEMMA WriteLedgerAcquires ==
  ASSUME ExclusiveInv, ExclusiveInv', NEW d \in Drivers, WriteLedger(d)
  PROVE  Promise!Acquire
<1>0. TypeOK /\ TypeOK' /\ ExclusiveLease /\ ExclusiveLease'
  BY DEF ExclusiveInv, LeaseInv
<1>1. packet' = packet
  BY Zenon DEF WriteLedger
<1>2. \A t \in Tokens : lease[t] # NoPacket => lease'[t] = lease[t]
  <2>1. PICK C \in SUBSET Packets, T \in SUBSET Tokens : \E g \in Bijection(T, C) :
          /\ SeedAndClaim(d, C, T, g)
          /\ \A t \in T : lease[t] = NoPacket
    BY <1>0, WriteLedgerPick
  <2>2. QED
    BY <2>1, SeedAndClaimFacts
<1>3. \A p \in Packets : HolderOf(p)' # NoPacket => /\ HolderOf(p)' \in Tokens
                                                    /\ lease'[HolderOf(p)'] = p
  BY DEF HolderOf
<1>4. ASSUME NEW p \in Packets, HolderOf(p) # NoPacket
      PROVE  HolderOf(p)' = HolderOf(p)
  <2> DEFINE t == HolderOf(p)
  <2>1. t \in Tokens /\ lease[t] = p
    BY <1>0, <1>4, HolderFacts
  <2>2. lease'[t] = p
    BY <1>2, <2>1, TranslateRunAssumption
  <2>3. \A u \in Tokens : lease'[u] = p => u = t
    BY <1>0, <2>1, <2>2, TranslateRunAssumption DEF ExclusiveLease
  <2>4. QED
    BY <2>1, <2>2, <2>3 DEF HolderOf
<1>5. \A p, q \in Packets : HolderOf(p)' = HolderOf(q)' /\ HolderOf(p)' # NoPacket => p = q
  BY <1>3
<1>6. QED
  BY <1>1, <1>3, <1>4, <1>5 DEF Promise!Acquire

\* A result is committed by the holder of a packet that has none yet.
LEMMA PersistCommits ==
  ASSUME CommitInv, NEW t \in Tokens, Persist(t)
  PROVE  Promise!Commit(work[t].packet)
<1> DEFINE p == work[t].packet
<1>0. TypeOK /\ ThreadLease /\ ExclusiveLease
  BY DEF CommitInv, ExclusiveInv, LeaseInv
<1>1. p \in Packets /\ lease[t] = p
  BY <1>0 DEF Persist, Held, ThreadLease
<1>2. HolderOf(p) # NoPacket
  BY <1>0, <1>1, HolderFacts, TranslateRunAssumption
<1>3. packet[p] # "translated"
  BY <1>1, TranslateRunAssumption DEF Persist, CommitInv, CallInv
<1>4. lease' = lease /\ packet' = [packet EXCEPT ![p] = "translated"]
  BY DEF Persist, Commits, leases
<1>5. {q \in Packets : packet'[q] = "translated"}
        = {q \in Packets : packet[q] = "translated"} \cup {p}
  BY <1>0, <1>1, <1>4 DEF TypeOK
<1>6. \A q \in Packets : HolderOf(q)' = HolderOf(q)
  BY <1>4 DEF HolderOf
<1>7. QED
  BY <1>1, <1>2, <1>3, <1>5, <1>6 DEF Promise!Commit

\* A packet that was not committed keeps its translation.
LEMMA PersistOrKept ==
  ASSUME LeaseInv, [Next]_vars
  PROVE  packet' = packet \/ \E t \in Tokens : Persist(t)
<1>1. ASSUME NEW d \in Drivers, Drive(d)
      PROVE  packet' = packet
  BY <1>1 DEF Drive, Tick, Sweep, ExpireLeases, Expire, GuardrailStops, ReadLedger, WriteLedger,
              EvaluateStages, ApplyVerdict, ledger
<1>2. ASSUME NEW t \in Tokens, Execute(t), ~Persist(t)
      PROVE  packet' = packet
  BY <1>2 DEF Execute, Start, StartLost, Prepare, CallReturns, StepError, PersistLost,
              CompleteSuccess, CompleteLost, CompleteFailure, Fails, Discards, ledger
<1>3. CASE Operator \/ Environment \/ UNCHANGED vars
  BY <1>3 DEF Operator, Environment, Heartbeat, Lapse, Abandon, BackoffElapses, Crash, Aborts,
              Stop, OwnershipExpires, vars, ledger
<1>4. QED
  BY <1>1, <1>2, <1>3 DEF Next

\* The ledger implements what leases promise: a packet changes hands only by
\* being free in between, and its holder commits it, once.
THEOREM LeasesKeepPromise == SerialSpec => KeepsPromise
<1>1. Init => Promise!Init
  <2>1. SUFFICES ASSUME Init
                 PROVE  Promise!Init
    OBVIOUS
  <2>2. \A p \in Packets : HolderOf(p) = NoPacket
    BY <2>1, TranslateRunAssumption DEF Init, HolderOf
  <2>3. {p \in Packets : packet[p] = "translated"} = {}
    BY <2>1 DEF Init
  <2>4. QED
    BY <2>2, <2>3 DEF Promise!Init
<1>2. ASSUME CommitInv, CommitInv', [Next /\ Serial']_vars
      PROVE  Promise!Next
  <2>1. ExclusiveInv /\ ExclusiveInv' /\ LeaseInv
    BY <1>2 DEF CommitInv, ExclusiveInv
  <2>2. CASE Quiet /\ packet' = packet
    BY <2>1, <2>2, QuietYields DEF Quiet, Promise!Next
  <2>3. ASSUME NEW d \in Drivers, WriteLedger(d)
        PROVE  Promise!Next
    BY <2>1, <2>3, WriteLedgerAcquires DEF Promise!Next
  <2>4. ASSUME NEW t \in Tokens, Persist(t)
        PROVE  Promise!Next
    <3>1. work[t].packet \in Packets
      BY <2>1, <2>4 DEF Persist, LeaseInv, ThreadLease
    <3>2. Promise!Commit(work[t].packet)
      BY <1>2, <2>4, PersistCommits
    <3>3. QED
      BY <3>1, <3>2 DEF Promise!Next, Promise!Commit
  <2>5. [Next]_vars
    BY <1>2
  <2>6. QED
    BY <2>1, <2>2, <2>3, <2>4, <2>5, QuietSteps, PersistOrKept
<1>3. SerialSpec => []CommitInv
  BY CommitInvInit, CommitInvNext, PTL DEF SerialSpec
<1>4. QED
  BY <1>1, <1>2, <1>3, PTL DEF SerialSpec, KeepsPromise, Promise!Spec
=============================================================================
