------------------------- MODULE TranslateRunProofs -------------------------
(***************************************************************************)
(* Proofs about TranslateRun for every set of packets, tokens and drivers  *)
(* and every bound.                                                        *)
(***************************************************************************)
EXTENDS TranslateRun, TLAPS

-----------------------------------------------------------------------------
(* The operators the actions share.                                        *)

\* A verdict is one of the four outcomes.
LEMMA VerdictType ==
  ASSUME NEW r, NEW it, NEW bo, NEW pk
  PROVE  VerdictOf(r, it, bo, pk) \in Verdicts
BY DEF VerdictOf, Verdicts

\* Transitions stay among the run's statuses.
LEMMA TransitionType ==
  ASSUME NEW v, NEW r \in RunStatuses
  PROVE  /\ Transition(v, r) \in RunStatuses
         /\ PausedBySystem(r) \in RunStatuses
         /\ FailedBySystem(r) \in RunStatuses
         /\ Guardrail(r) \subseteq RunStatuses
BY DEF Transition, PausedBySystem, FailedBySystem, SucceededBySystem, Guardrail, RunStatuses

\* The item statuses are the owned, the claimable and the settled ones.
LEMMA ItemPartition ==
  /\ ItemStatuses = Owned \cup Claimable \cup Settled
  /\ Owned \cap Claimable = {} /\ Owned \cap Settled = {} /\ Claimable \cap Settled = {}
  /\ "none" \notin ItemStatuses
BY DEF ItemStatuses, Owned, Claimable, Settled

-----------------------------------------------------------------------------
(* Type correctness.                                                       *)

LEMMA InitType == Init => TypeOK
BY TranslateRunAssumption
   DEF Init, TypeOK, RunStatuses, ItemStatuses, IdleWork, EmptyView, Phases, Threads, Steps, Verdicts

LEMMA DriveType ==
  ASSUME TypeOK, NEW d \in Drivers, Drive(d)
  PROVE  TypeOK'
<1> USE DEF TypeOK
<1>1. CASE Tick(d)
  BY <1>1 DEF Tick, Steps, ledger, leases
<1>2. CASE Sweep(d)
  BY <1>2 DEF Sweep, Steps, ledger, leases
<1>3. CASE ExpireLeases(d)
  BY <1>3 DEF ExpireLeases, Expire, Listed, ListedItems, Steps, ItemStatuses
<1>4. CASE GuardrailStops(d)
  BY <1>4, TransitionType DEF GuardrailStops, Steps, ledger, leases
<1>5. CASE ReadLedger(d)
  BY <1>5 DEF ReadLedger, Steps, ledger, leases
<1>6. CASE WriteLedger(d)
  BY <1>6 DEF WriteLedger, SeedAndClaim, Steps, ItemStatuses, EmptyView, Phases, Threads, Bijection, Injection, FreeTokens, Claims, Heads
<1>7. CASE EvaluateStages(d)
  BY <1>7, VerdictType DEF EvaluateStages, Steps, ledger, leases
<1>8. CASE ApplyVerdict(d)
  BY <1>8, TransitionType DEF ApplyVerdict, Steps, Verdicts, ledger, leases
<1>9. QED
  BY <1>1, <1>2, <1>3, <1>4, <1>5, <1>6, <1>7, <1>8 DEF Drive

\* A thread that moves on or ends leaves every other thread alone.
LEMMA GoToType ==
  ASSUME work \in [Tokens -> Threads], NEW t \in Tokens, NEW phase \in Phases, GoTo(t, phase)
  PROVE  /\ work' \in [Tokens -> Threads]
         /\ work'[t].phase = phase /\ work'[t].packet = work[t].packet
         /\ \A u \in Tokens \ {t} : work'[u] = work[u]
<1>1. work' = [u \in Tokens |-> IF u = t THEN [work[t] EXCEPT !.phase = phase] ELSE work[u]]
  BY DEF GoTo
<1>2. work[t] \in Threads
  OBVIOUS
<1>3. /\ [work[t] EXCEPT !.phase = phase] \in Threads
      /\ [work[t] EXCEPT !.phase = phase].phase = phase
      /\ [work[t] EXCEPT !.phase = phase].packet = work[t].packet
  BY <1>2 DEF Threads
<1>4. QED
  BY <1>1, <1>3

LEMMA EndsType ==
  ASSUME work \in [Tokens -> Threads], NEW t \in Tokens, Ends(t)
  PROVE  /\ work' \in [Tokens -> Threads]
         /\ work'[t].phase = "idle"
         /\ \A u \in Tokens \ {t} : work'[u] = work[u]
<1>1. IdleWork \in Threads /\ IdleWork.phase = "idle"
  BY DEF IdleWork, Threads, Phases
<1>2. QED
  BY <1>1 DEF Ends

LEMMA ExecuteType ==
  ASSUME TypeOK, NEW t \in Tokens, Execute(t)
  PROVE  TypeOK'
<1> USE DEF TypeOK
<1>0. {"idle", "claimed", "running", "calling", "answered", "done"} \cup Failing \subseteq Phases
  BY DEF Phases, Failing
<1>1. CASE Start(t)
  <2>1. work' \in [Tokens -> Threads]
    BY <1>0, <1>1, GoToType DEF Start
  <2>2. QED
    BY <1>1, <2>1 DEF Start, Held, ItemStatuses, drivers
<1>2. CASE StartLost(t) \/ PersistLost(t) \/ CompleteLost(t)
  BY <1>2, EndsType DEF StartLost, PersistLost, CompleteLost, Discards, ledger, leases, drivers
<1>3. CASE Prepare(t) \/ CallReturns(t)
  <2>1. work' \in [Tokens -> Threads]
    BY <1>0, <1>3, GoToType DEF Prepare, CallReturns
  <2>2. QED
    BY <1>3, <2>1 DEF Prepare, CallReturns, ledger, leases, drivers
<1>4. CASE StepError(t)
  <2>1. work' \in [Tokens -> Threads]
    <3>1. PICK f \in Failing : GoTo(t, f)
      BY <1>4 DEF StepError
    <3>2. f \in Phases
      BY <1>0
    <3>3. QED
      BY <3>1, <3>2, GoToType
  <2>2. QED
    BY <1>4, <2>1 DEF StepError, ledger, leases, drivers
<1>5. CASE Persist(t)
  <2>1. work' \in [Tokens -> Threads]
    BY <1>0, <1>5, GoToType DEF Persist, Commits
  <2>2. packet' \in [Packets -> {"built", "translated"}]
    BY <1>5 DEF Persist, Commits
  <2>3. \A n \in 0..2 : (IF n < 2 THEN n + 1 ELSE n) \in 0..2
    OBVIOUS
  <2>4. translations' \in [Packets -> 0..2]
    BY <1>5, <2>3 DEF Persist, Commits
  <2>5. QED
    BY <1>5, <2>1, <2>2, <2>4 DEF Persist, Commits, leases, drivers
<1>6. CASE CompleteSuccess(t)
  <2>1. run' \in RunStatuses /\ work' \in [Tokens -> Threads]
    BY <1>6, TransitionType, EndsType DEF CompleteSuccess
  <2>2. QED
    BY <1>6, <2>1 DEF CompleteSuccess, Release, ItemStatuses, drivers
<1>7. CASE CompleteFailure(t)
  <2>1. run' \in RunStatuses /\ work' \in [Tokens -> Threads]
    BY <1>7, TransitionType, EndsType DEF CompleteFailure, Fails
  <2>2. QED
    BY <1>7, <2>1 DEF CompleteFailure, Fails, Held, Release, ItemStatuses, drivers
<1>8. QED
  BY <1>1, <1>2, <1>3, <1>4, <1>5, <1>6, <1>7 DEF Execute

\* An executor that stops leaves its threads where they are.
LEMMA StopThreads ==
  ASSUME work \in [Tokens -> Threads], NEW d \in Drivers, Stop(d)
  PROVE  /\ work' \in [Tokens -> Threads]
         /\ \A t \in Tokens : work'[t].phase = work[t].phase /\ work'[t].packet = work[t].packet
<1>1. ASSUME NEW t \in Tokens
      PROVE  /\ [work[t] EXCEPT !.driver = NoOwner] \in Threads
             /\ [work[t] EXCEPT !.driver = NoOwner].phase = work[t].phase
             /\ [work[t] EXCEPT !.driver = NoOwner].packet = work[t].packet
  BY DEF Threads
<1>2. QED
  BY <1>1 DEF Stop

LEMMA EnvironmentType ==
  ASSUME TypeOK, Environment
  PROVE  TypeOK'
<1> USE DEF TypeOK, Fault
<1>1. ASSUME NEW t \in Tokens, Heartbeat(t) \/ Lapse(t) \/ Abandon(t)
      PROVE  TypeOK'
  BY <1>1, EndsType DEF Heartbeat, Lapse, Abandon, Held, ledger, leases, drivers
<1>2. ASSUME NEW p \in Packets, BackoffElapses(p)
      PROVE  TypeOK'
  BY <1>2 DEF BackoffElapses, leases, drivers
<1>3. ASSUME NEW d \in Drivers, Crash(d)
      PROVE  TypeOK'
  BY <1>3 DEF Crash, IdleWork, EmptyView, Phases, Threads, Steps, Verdicts, ItemStatuses, ledger, leases
<1>4. ASSUME NEW d \in Drivers, Aborts(d)
      PROVE  TypeOK'
  <2>1. run' = run \/ run' = FailedBySystem(run)
    BY <1>4 DEF Aborts
  <2>2. run' \in RunStatuses
    BY <2>1, TransitionType
  <2>3. EmptyView \in [item : [Packets -> ItemStatuses \cup {"none"}],
                      built : SUBSET Packets, delayed : SUBSET Packets]
    BY DEF EmptyView
  <2>4. QED
    BY <1>4, <2>2, <2>3 DEF Aborts, Steps, Verdicts, ledger, leases
<1>5. ASSUME NEW d \in Drivers, Stop(d)
      PROVE  TypeOK'
  BY <1>5, StopThreads DEF Stop, ledger, leases
<1>6. CASE OwnershipExpires
  BY <1>6 DEF OwnershipExpires, ledger, leases
<1>7. QED
  BY <1>1, <1>2, <1>3, <1>4, <1>5, <1>6 DEF Environment

\* The thread of a token ended, or is where it was.
StillThere(t) ==
  \/ work'[t].phase = "idle"
  \/ work'[t].phase = work[t].phase /\ work'[t].packet = work[t].packet

\* The environment ends threads, and moves none.
LEMMA EnvironmentThreads ==
  ASSUME TypeOK, Environment
  PROVE  \A t \in Tokens : StillThere(t)
<1>1. ASSUME NEW u \in Tokens, Abandon(u)
      PROVE  \A t \in Tokens : StillThere(t)
  BY <1>1, EndsType DEF Abandon, TypeOK, StillThere
<1>2. ASSUME NEW d \in Drivers, Crash(d)
      PROVE  \A t \in Tokens : StillThere(t)
  BY <1>2 DEF Crash, IdleWork, StillThere
<1>3. ASSUME NEW d \in Drivers, Stop(d)
      PROVE  \A t \in Tokens : StillThere(t)
  BY <1>3, StopThreads DEF TypeOK, StillThere
<1>4. ASSUME \/ \E t \in Tokens : Heartbeat(t) \/ Lapse(t)
             \/ \E p \in Packets : BackoffElapses(p)
             \/ \E d \in Drivers : Aborts(d)
             \/ OwnershipExpires
      PROVE  work' = work
  BY <1>4 DEF Heartbeat, Lapse, BackoffElapses, Aborts, OwnershipExpires
<1>5. QED
  BY <1>1, <1>2, <1>3, <1>4 DEF Environment, StillThere

LEMMA NextType == TypeOK /\ [Next]_vars => TypeOK'
<1> SUFFICES ASSUME TypeOK, [Next]_vars
             PROVE  TypeOK'
  OBVIOUS
<1>1. CASE Operator
  BY <1>1 DEF TypeOK, Operator, Resume, Pause, Drain, Cancel, RunStatuses, ledger, leases, drivers
<1>2. CASE UNCHANGED vars
  BY <1>2 DEF TypeOK, vars, ledger, leases, drivers
<1>3. QED
  BY <1>1, <1>2, DriveType, ExecuteType, EnvironmentType DEF Next

\* Every reachable state is well typed, whatever the instance.
THEOREM TypeCorrect == Spec => []TypeOK
BY InitType, NextType, PTL DEF Spec

-----------------------------------------------------------------------------
(* Leases and threads, with any number of drivers.                         *)

\* A thread works on the packet its lease covers, as long as it holds one.
ThreadLease ==
  \A t \in Tokens : work[t].phase # "idle" =>
    /\ work[t].packet \in Packets
    /\ lease[t] # NoPacket => lease[t] = work[t].packet

\* A listed lease may have ended meanwhile, but never covers another packet.
ListedLease ==
  \A d \in Drivers : \A t \in Tokens : \A p \in Packets :
    <<t, p>> \in seen[d] => lease[t] = p \/ lease[t] = NoPacket

LeaseInv == TypeOK /\ ThreadLease /\ ListedLease /\ OwnedItemIsLeased

\* What the ledger looks like after a driver has seeded and claimed.
LEMMA SeedAndClaimFacts ==
  ASSUME NEW d \in Drivers, NEW C, NEW T, NEW g \in Bijection(T, C), SeedAndClaim(d, C, T, g)
  PROVE  /\ g \in [T -> C]
         /\ \A t, u \in T : g[t] = g[u] => t = u
         /\ \A p \in C : \E t \in T : g[t] = p
         /\ \A t \in Tokens : lease'[t] = IF t \in T THEN g[t] ELSE lease[t]
         /\ \A t \in Tokens : \/ work'[t] = work[t]
                              \/ /\ t \in T
                                 /\ work'[t] = [phase |-> "claimed", packet |-> g[t], driver |-> d]
         /\ \A p \in C \cap Packets : item'[p] = "leased"
         /\ \A p \in Packets \ C :
              item'[p] = item[p] \/ item'[p] = "cancelled" \/ item'[p] = "pending"
         /\ \A p \in Packets \ C :
              item'[p] = "cancelled" => p \in Obsolete(view[d]) \/ item[p] = "cancelled"
         /\ \A p \in Packets \ C :
              item'[p] = "pending" => p \in Seeds(Reconciled(view[d])) \/ item[p] = "pending"
BY DEF SeedAndClaim, Bijection, Injection, Surjection, IsInjective

\* Claims are made of items nobody owns, for tokens no driver has listed.
LEMMA WriteLedgerPick ==
  ASSUME TypeOK, NEW d \in Drivers, WriteLedger(d)
  PROVE  \E C \in SUBSET Packets, T \in SUBSET Tokens : \E g \in Bijection(T, C) :
           /\ SeedAndClaim(d, C, T, g)
           /\ C \subseteq Claims(SeededRows(Reconciled(view[d])), view[d].delayed)
           /\ \A p \in C : item[p] \in Claimable \cup {"none"}
           /\ \A t \in T : lease[t] = NoPacket /\ work[t].phase = "idle"
           /\ \A t \in T : \A e \in Drivers : \A p \in Packets : <<t, p>> \notin seen[e]
<1> DEFINE ready == Claims(SeededRows(Reconciled(view[d])), view[d].delayed)
<1>1. PICK C \in SUBSET ready, T \in SUBSET FreeTokens :
        \E g \in Bijection(T, C) : SeedAndClaim(d, C, T, g)
  BY Zenon DEF WriteLedger
<1>2. \A p \in ready : p \in Packets /\ item[p] \in Claimable \cup {"none"}
  BY DEF Claims, Heads
<1>3. \A t \in FreeTokens : /\ t \in Tokens /\ lease[t] = NoPacket /\ work[t].phase = "idle"
                            /\ \A e \in Drivers : \A x \in seen[e] : x[1] # t
  BY DEF FreeTokens
<1>4. \A t \in FreeTokens : \A e \in Drivers : \A p \in Packets : <<t, p>> \notin seen[e]
  BY <1>3
<1>5. C \in SUBSET Packets /\ T \in SUBSET Tokens
  BY <1>1, <1>2, <1>3
<1>6. QED
  BY <1>1, <1>2, <1>3, <1>4, <1>5

LEMMA LeaseInvInit == Init => LeaseInv
BY InitType, TranslateRunAssumption
   DEF Init, LeaseInv, ThreadLease, ListedLease, OwnedItemIsLeased, Owned, IdleWork

LEMMA DriveLease ==
  ASSUME LeaseInv, NEW d \in Drivers, Drive(d)
  PROVE  ThreadLease' /\ ListedLease' /\ OwnedItemIsLeased'
<1> USE DEF LeaseInv
<1>1. CASE Tick(d) \/ Sweep(d)
  BY <1>1 DEF Tick, Sweep, ledger, leases, TypeOK, ThreadLease, ListedLease, OwnedItemIsLeased
<1>2. CASE ExpireLeases(d)
  <2>1. \A t \in Tokens : lease'[t] = lease[t] \/ lease'[t] = NoPacket
    BY <1>2 DEF ExpireLeases, Expire, Listed, ListedItems
  <2>2. ThreadLease' /\ ListedLease'
    BY <1>2, <2>1 DEF ExpireLeases, Expire, Listed, ListedItems, TypeOK, ThreadLease, ListedLease
  <2>3. ASSUME NEW p \in Packets, item'[p] \in Owned
        PROVE  \E t \in Tokens : lease'[t] = p
    <3>1. item[p] \in Owned /\ \A t \in Tokens : <<t, p>> \notin seen[d]
      BY <1>2, <2>3 DEF ExpireLeases, Expire, Listed, ListedItems, Owned
    <3>2. PICK t \in Tokens : lease[t] = p
      BY <3>1 DEF OwnedItemIsLeased
    <3>3. ASSUME NEW e \in seen[d], e[1] = t
          PROVE  FALSE
      <4>1. PICK q \in Packets : e = <<t, q>>
        BY <3>3 DEF TypeOK
      <4>2. q = p
        BY <4>1, <3>2, TranslateRunAssumption DEF ListedLease
      <4>3. QED
        BY <3>1, <4>1, <4>2
    <3>4. QED
      BY <1>2, <3>2, <3>3 DEF ExpireLeases, Expire, Listed, ListedItems
  <2>4. QED
    BY <2>2, <2>3 DEF OwnedItemIsLeased
<1>3. CASE WriteLedger(d)
  <2>1. PICK C \in SUBSET Packets, T \in SUBSET Tokens : \E g \in Bijection(T, C) :
          /\ SeedAndClaim(d, C, T, g)
          /\ \A t \in T : lease[t] = NoPacket /\ work[t].phase = "idle"
          /\ \A t \in T : \A e \in Drivers : \A p \in Packets : <<t, p>> \notin seen[e]
    BY <1>3, WriteLedgerPick
  <2>2. PICK g \in Bijection(T, C) : SeedAndClaim(d, C, T, g)
    BY <2>1
  <2>3. /\ g \in [T -> C]
        /\ \A p \in C : \E t \in T : g[t] = p
        /\ \A t \in Tokens : lease'[t] = IF t \in T THEN g[t] ELSE lease[t]
        /\ \A t \in Tokens : \/ work'[t] = work[t]
                             \/ /\ t \in T
                                /\ work'[t] = [phase |-> "claimed", packet |-> g[t], driver |-> d]
        /\ \A p \in Packets : p \notin C /\ item'[p] \in Owned => item'[p] = item[p]
    BY <2>2, SeedAndClaimFacts DEF Owned
  <2>4. ASSUME NEW t \in Tokens, work'[t].phase # "idle"
        PROVE  /\ work'[t].packet \in Packets
               /\ lease'[t] # NoPacket => lease'[t] = work'[t].packet
    <3>1. CASE t \in T
      <4>1. work'[t] = [phase |-> "claimed", packet |-> g[t], driver |-> d]
        BY <2>1, <2>3, <2>4, <3>1
      <4>2. work'[t].packet = g[t] /\ g[t] \in Packets
        BY <2>3, <3>1, <4>1
      <4>3. QED
        BY <2>3, <3>1, <4>2
    <3>2. CASE t \notin T
      BY <2>3, <2>4, <3>2 DEF ThreadLease
    <3>3. QED
      BY <3>1, <3>2
  <2>5. ListedLease'
    BY <1>3, <2>1, <2>3 DEF WriteLedger, ListedLease
  <2>6. OwnedItemIsLeased'
    BY <2>1, <2>3, TranslateRunAssumption DEF OwnedItemIsLeased
  <2>7. QED
    BY <2>4, <2>5, <2>6 DEF ThreadLease
<1>4. CASE GuardrailStops(d) \/ ReadLedger(d) \/ EvaluateStages(d) \/ ApplyVerdict(d)
  BY <1>4 DEF GuardrailStops, ReadLedger, EvaluateStages, ApplyVerdict, ledger, leases,
              ThreadLease, ListedLease, OwnedItemIsLeased
<1>5. QED
  BY <1>1, <1>2, <1>3, <1>4 DEF Drive

\* Completing releases the item a lease covers, and no other.
LEMMA ReleaseFacts ==
  ASSUME TypeOK, NEW t \in Tokens, Held(t), NEW s \in Settled \cup Claimable, Release(t, s, item)
  PROVE  /\ item'[lease[t]] \notin Owned
         /\ \A p \in Packets : p # lease[t] => item'[p] = item[p]
         /\ lease' = [lease EXCEPT ![t] = NoPacket]
BY ItemPartition DEF TypeOK, Held, Release

LEMMA ReleaseLease ==
  ASSUME LeaseInv, NEW t \in Tokens, Held(t), NEW s \in Settled \cup Claimable,
         Release(t, s, item), Ends(t), seen' = seen
  PROVE  ThreadLease' /\ ListedLease' /\ OwnedItemIsLeased'
<1> USE DEF LeaseInv
<1>1. /\ item'[lease[t]] \notin Owned
      /\ \A p \in Packets : p # lease[t] => item'[p] = item[p]
      /\ \A u \in Tokens : lease'[u] = IF u = t THEN NoPacket ELSE lease[u]
  BY ReleaseFacts DEF TypeOK
<1>2. work'[t].phase = "idle" /\ \A u \in Tokens \ {t} : work'[u] = work[u]
  BY EndsType DEF TypeOK
<1>3. ThreadLease'
  BY <1>1, <1>2 DEF ThreadLease
<1>4. ListedLease'
  BY <1>1 DEF ListedLease
<1>5. OwnedItemIsLeased'
  BY <1>1 DEF OwnedItemIsLeased
<1>6. QED
  BY <1>3, <1>4, <1>5

LEMMA ExecuteLease ==
  ASSUME LeaseInv, NEW t \in Tokens, Execute(t)
  PROVE  ThreadLease' /\ ListedLease' /\ OwnedItemIsLeased'
<1> USE DEF LeaseInv
<1>0. {"running", "calling", "answered", "done"} \cup Failing \subseteq Phases
  BY DEF Phases, Failing
<1>1. ASSUME NEW phase \in Phases, GoTo(t, phase), work[t].phase # "idle",
             lease' = lease, seen' = seen,
             \A p \in Packets : item'[p] \in Owned => item[p] \in Owned
      PROVE  ThreadLease' /\ ListedLease' /\ OwnedItemIsLeased'
  <2>1. /\ work'[t].packet = work[t].packet
        /\ \A u \in Tokens \ {t} : work'[u] = work[u]
    BY <1>1, GoToType DEF TypeOK
  <2>2. QED
    BY <1>1, <2>1 DEF ThreadLease, ListedLease, OwnedItemIsLeased
<1>2. CASE Start(t)
  BY <1>0, <1>1, <1>2 DEF Start, drivers, Owned, TypeOK, Held
<1>3. CASE Prepare(t) \/ CallReturns(t) \/ Persist(t)
  BY <1>0, <1>1, <1>3 DEF Prepare, CallReturns, Persist, Commits, ledger, leases, drivers
<1>4. CASE StepError(t)
  <2>1. PICK f \in Failing : GoTo(t, f)
    BY <1>4 DEF StepError
  <2>2. QED
    BY <1>0, <1>1, <1>4, <2>1 DEF StepError, ledger, leases, drivers
<1>5. CASE StartLost(t) \/ PersistLost(t) \/ CompleteLost(t)
  <2>1. work'[t].phase = "idle" /\ \A u \in Tokens \ {t} : work'[u] = work[u]
    BY <1>5, EndsType DEF StartLost, PersistLost, CompleteLost, Discards, TypeOK
  <2>2. QED
    BY <1>5, <2>1 DEF StartLost, PersistLost, CompleteLost, Discards, ledger, leases, drivers,
                      ThreadLease, ListedLease, OwnedItemIsLeased
<1>6. CASE CompleteSuccess(t)
  BY <1>6, ReleaseLease DEF CompleteSuccess, Settled, drivers
<1>7. CASE CompleteFailure(t)
  BY <1>7, ReleaseLease DEF CompleteFailure, Fails, Settled, Claimable, drivers
<1>8. QED
  BY <1>2, <1>3, <1>4, <1>5, <1>6, <1>7 DEF Execute

LEMMA EnvironmentLease ==
  ASSUME LeaseInv, Environment
  PROVE  ThreadLease' /\ ListedLease' /\ OwnedItemIsLeased'
<1> USE DEF LeaseInv, ThreadLease, ListedLease, OwnedItemIsLeased
<1>1. ASSUME NEW t \in Tokens, Heartbeat(t) \/ Lapse(t)
      PROVE  ThreadLease' /\ ListedLease' /\ OwnedItemIsLeased'
  BY <1>1 DEF Heartbeat, Lapse, ledger, drivers
<1>2. ASSUME NEW t \in Tokens, Abandon(t)
      PROVE  ThreadLease' /\ ListedLease' /\ OwnedItemIsLeased'
  <2>1. work'[t].phase = "idle" /\ \A u \in Tokens \ {t} : work'[u] = work[u]
    BY <1>2, EndsType DEF Abandon, TypeOK
  <2>2. QED
    BY <1>2, <2>1 DEF Abandon, ledger, leases, drivers
<1>3. ASSUME NEW p \in Packets, BackoffElapses(p)
      PROVE  ThreadLease' /\ ListedLease' /\ OwnedItemIsLeased'
  BY <1>3 DEF BackoffElapses, leases, drivers
<1>4. ASSUME NEW d \in Drivers, Crash(d)
      PROVE  ThreadLease' /\ ListedLease' /\ OwnedItemIsLeased'
  <2>1. \A t \in Tokens : work'[t] = work[t] \/ work'[t].phase = "idle"
    BY <1>4 DEF Crash, IdleWork
  <2>2. QED
    BY <1>4, <2>1 DEF Crash, ledger, leases, TypeOK
<1>5. ASSUME NEW d \in Drivers, Stop(d)
      PROVE  ThreadLease' /\ ListedLease' /\ OwnedItemIsLeased'
  BY <1>5, StopThreads DEF Stop, ledger, leases, TypeOK
<1>6. CASE OwnershipExpires \/ \E d \in Drivers : Aborts(d)
  <2>1. lease' = lease /\ item' = item /\ work' = work
    BY <1>6 DEF OwnershipExpires, Aborts, ledger, leases
  <2>2. \A d \in Drivers : seen'[d] = seen[d] \/ seen'[d] = {}
    BY <1>6 DEF OwnershipExpires, Aborts, TypeOK
  <2>3. QED
    BY <2>1, <2>2
<1>7. QED
  BY <1>1, <1>2, <1>3, <1>4, <1>5, <1>6 DEF Environment

LEMMA LeaseInvNext == LeaseInv /\ [Next]_vars => LeaseInv'
<1> SUFFICES ASSUME LeaseInv, [Next]_vars
             PROVE  LeaseInv'
  OBVIOUS
<1>1. TypeOK'
  BY NextType DEF LeaseInv
<1>2. CASE Operator \/ UNCHANGED vars
  BY <1>1, <1>2 DEF Operator, vars, ledger, leases, drivers,
                    LeaseInv, ThreadLease, ListedLease, OwnedItemIsLeased
<1>3. QED
  BY <1>1, <1>2, DriveLease, ExecuteLease, EnvironmentLease DEF Next, LeaseInv

\* No owned item is ever without a lease, so the reaper can always find it:
\* with any number of drivers, overlapping reclaims included.
THEOREM OwnedItemAlwaysLeased == Spec => []OwnedItemIsLeased
<1>1. Spec => []LeaseInv
  BY LeaseInvInit, LeaseInvNext, PTL DEF Spec
<1>2. LeaseInv => OwnedItemIsLeased
  BY DEF LeaseInv
<1>3. QED
  BY <1>1, <1>2, PTL

-----------------------------------------------------------------------------
(* Run statuses.                                                           *)

\* No transition leaves a terminal status.
LEMMA TerminalTransition ==
  ASSUME NEW r \in TerminalRun, NEW v
  PROVE  /\ Transition(v, r) = r /\ PausedBySystem(r) = r /\ FailedBySystem(r) = r
         /\ Guardrail(r) = {r}
BY DEF TerminalRun, Transition, PausedBySystem, FailedBySystem, SucceededBySystem, Guardrail,
       CanPause, CanFail, CanSucceed

\* A finished run stays finished, whatever the drivers, the threads and the
\* operator still had under way.
THEOREM FinishedRunStays == Spec => TerminalRunStays
<1>1. ASSUME [Next]_vars, run \in TerminalRun
      PROVE  run' = run
  <2>1. CASE Operator
    BY <1>1, <2>1 DEF Operator, Resume, Pause, Drain, Cancel, TerminalRun,
                      CanResume, CanPause, CanDrain, CanCancel
  <2>2. ASSUME NEW d \in Drivers, Drive(d)
        PROVE  run' = run
    BY <1>1, <2>2, TerminalTransition
       DEF Drive, Tick, Sweep, ExpireLeases, Expire, Listed, ListedItems, GuardrailStops, ReadLedger, WriteLedger,
           EvaluateStages, ApplyVerdict
  <2>3. ASSUME NEW t \in Tokens, Execute(t)
        PROVE  run' = run
    BY <1>1, <2>3, TerminalTransition
       DEF Execute, Start, StartLost, Prepare, CallReturns, StepError, Persist, Commits, PersistLost,
           CompleteSuccess, CompleteFailure, Fails, CompleteLost, Discards
  <2>4. CASE Environment
    BY <1>1, <2>4, TerminalTransition
       DEF Environment, Heartbeat, Lapse, Abandon, BackoffElapses, Crash, Aborts, Stop,
           OwnershipExpires
  <2>5. QED
    BY <1>1, <2>1, <2>2, <2>3, <2>4 DEF Next, vars
<1>2. [Next]_vars => [(run \in TerminalRun) => run' = run]_vars
  BY <1>1
<1>3. QED
  BY <1>2, PTL DEF Spec, TerminalRunStays

-----------------------------------------------------------------------------
(* Evidence: what succeeded was translated.                                *)

\* A thread that is about to record success left a committed translation behind.
DoneThreadTranslated ==
  \A t \in Tokens : work[t].phase = "done" => packet[work[t].packet] = "translated"

\* Work items are never deleted, so a stale read names items that still exist.
ViewIsPast ==
  \A d \in Drivers : \A p \in Packets : view[d].item[p] # "none" => item[p] # "none"

RunDone ==
  \A p \in Packets : packet[p] = "translated" /\ item[p] \notin Owned \cup Claimable

VerdictSound == \A d \in Drivers : verdict[d] = "succeeded" => RunDone

EvidenceInv ==
  /\ LeaseInv
  /\ DoneThreadTranslated /\ SucceededMeansTranslated /\ ViewIsPast
  /\ VerdictSound /\ SucceededRunIsDone

\* A verdict of success is right when it is derived.
LEMMA SucceededVerdict ==
  ASSUME NEW r, NEW bo,
         NEW it \in [Packets -> ItemStatuses \cup {"none"}],
         NEW pk \in [Packets -> {"built", "translated"}],
         VerdictOf(r, it, bo, pk) = "succeeded"
  PROVE  \A p \in Packets : pk[p] = "translated" /\ it[p] \notin Owned \cup Claimable
BY DEF VerdictOf, TranslateSucceeded, Owned, Claimable

\* Only a verdict of success makes a run succeed.
LEMMA SucceedingTransition ==
  ASSUME NEW v, NEW r
  PROVE  /\ Transition(v, r) = "succeeded" => v = "succeeded" \/ r = "succeeded"
         /\ PausedBySystem(r) = "succeeded" => r = "succeeded"
         /\ FailedBySystem(r) = "succeeded" => r = "succeeded"
         /\ "succeeded" \in Guardrail(r) => r = "succeeded"
BY DEF Transition, PausedBySystem, FailedBySystem, SucceededBySystem, Guardrail

\* Steps that write no item, packet, view or verdict, and neither move a thread
\* to its completion nor make the run succeed, disturb no evidence.
LEMMA EvidenceFrame ==
  ASSUME EvidenceInv, item' = item, packet' = packet,
         \A t \in Tokens : work'[t].phase = "done" =>
           work[t].phase = "done" /\ work'[t].packet = work[t].packet,
         \A d \in Drivers : view'[d] = view[d] \/ view'[d] = EmptyView,
         \A d \in Drivers : verdict'[d] = "succeeded" => verdict[d] = "succeeded",
         run' = "succeeded" => run = "succeeded" \/ RunDone
  PROVE  /\ DoneThreadTranslated' /\ SucceededMeansTranslated' /\ ViewIsPast'
         /\ VerdictSound' /\ SucceededRunIsDone'
<1>1. RunDone' = RunDone
  BY DEF RunDone
<1>2. DoneThreadTranslated' /\ SucceededMeansTranslated'
  BY DEF EvidenceInv, DoneThreadTranslated, SucceededMeansTranslated
<1>3. ViewIsPast'
  BY DEF EvidenceInv, ViewIsPast, EmptyView
<1>4. VerdictSound'
  BY <1>1 DEF EvidenceInv, VerdictSound
<1>5. SucceededRunIsDone'
  BY <1>1 DEF EvidenceInv, SucceededRunIsDone, RunDone
<1>6. QED
  BY <1>2, <1>3, <1>4, <1>5

\* An item that is claimed in the step that seeds it is one of a BUILT packet.
LEMMA SeededPacketBuilt ==
  ASSUME EvidenceInv, NEW d \in Drivers,
         NEW p \in Claims(SeededRows(Reconciled(view[d])), view[d].delayed), item[p] = "none"
  PROVE  packet[p] = "built"
<1> DEFINE rows == Reconciled(view[d])
<1>1. p \in Packets /\ SeededRows(rows)[p] \in Claimable
  BY DEF Claims, Heads
<1>2. view[d].item[p] = "none"
  BY <1>1 DEF EvidenceInv, ViewIsPast
<1>3. rows[p] = "none"
  BY <1>1, <1>2 DEF Reconciled, Obsolete, Claimable
<1>4. p \in Frontier(rows)
  BY <1>1, <1>3 DEF SeededRows, Claimable
<1>5. QED
  BY <1>4 DEF Frontier, Heads

LEMMA WriteLedgerEvidence ==
  ASSUME EvidenceInv, NEW d \in Drivers, WriteLedger(d)
  PROVE  /\ DoneThreadTranslated' /\ SucceededMeansTranslated' /\ ViewIsPast'
         /\ VerdictSound' /\ SucceededRunIsDone'
<1>0. TypeOK
  BY DEF EvidenceInv, LeaseInv
<1>1. PICK C \in SUBSET Packets, T \in SUBSET Tokens : \E g \in Bijection(T, C) :
        /\ SeedAndClaim(d, C, T, g)
        /\ C \subseteq Claims(SeededRows(Reconciled(view[d])), view[d].delayed)
        /\ \A p \in C : item[p] \in Claimable \cup {"none"}
  BY <1>0, WriteLedgerPick
<1>2. PICK g \in Bijection(T, C) : SeedAndClaim(d, C, T, g)
  BY <1>1
<1>3. /\ \A t \in Tokens : work'[t] = work[t] \/ work'[t].phase = "claimed"
      /\ \A p \in C : item'[p] = "leased"
      /\ \A p \in Packets \ C : item'[p] = item[p] \/ item'[p] = "cancelled" \/ item'[p] = "pending"
      /\ \A p \in Packets \ C :
           item'[p] = "pending" => p \in Seeds(Reconciled(view[d])) \/ item[p] = "pending"
  <2>1. ASSUME NEW t \in Tokens, work'[t] # work[t]
        PROVE  work'[t].phase = "claimed"
    <3>1. work'[t] = [phase |-> "claimed", packet |-> g[t], driver |-> d]
      BY <1>2, <2>1, SeedAndClaimFacts
    <3>2. QED
      BY <3>1
  <2>2. QED
    BY <1>2, <2>1, SeedAndClaimFacts
<1>4. run' = run /\ packet' = packet /\ verdict' = verdict /\ view' = [view EXCEPT ![d] = EmptyView]
  BY Zenon DEF WriteLedger
<1>5. DoneThreadTranslated'
  BY <1>3, <1>4 DEF EvidenceInv, DoneThreadTranslated
<1>6. SucceededMeansTranslated'
  BY <1>3, <1>4 DEF EvidenceInv, SucceededMeansTranslated
<1>7. ASSUME NEW p \in Packets, item[p] # "none"
      PROVE  item'[p] # "none"
  BY <1>3, <1>7
<1>8. ViewIsPast'
  BY <1>0, <1>4, <1>7 DEF EvidenceInv, ViewIsPast, EmptyView, TypeOK
<1>9. ASSUME RunDone
      PROVE  RunDone'
  <2>1. ASSUME NEW p \in Packets
        PROVE  item'[p] = item[p] \/ item'[p] = "cancelled"
    <3>1. p \notin C
      BY <1>1, <1>9, <2>1, SeededPacketBuilt DEF RunDone
    <3>2. p \notin Seeds(Reconciled(view[d]))
      BY <1>9, <2>1 DEF RunDone, Seeds
    <3>3. QED
      BY <1>3, <3>1, <3>2
  <2>2. QED
    BY <1>4, <1>9, <2>1 DEF RunDone, Owned, Claimable
<1>10. QED
  <2>1. VerdictSound'
    BY <1>4, <1>9 DEF EvidenceInv, VerdictSound
  <2>2. SucceededRunIsDone <=> (run = "succeeded" => RunDone)
    BY DEF SucceededRunIsDone, RunDone
  <2>3. SucceededRunIsDone' <=> (run' = "succeeded" => RunDone')
    BY DEF SucceededRunIsDone, RunDone
  <2>4. SucceededRunIsDone'
    BY <1>4, <1>9, <2>2, <2>3 DEF EvidenceInv
  <2>5. QED
    BY <1>5, <1>6, <1>8, <2>1, <2>4

LEMMA DriveEvidence ==
  ASSUME EvidenceInv, NEW d \in Drivers, Drive(d)
  PROVE  /\ DoneThreadTranslated' /\ SucceededMeansTranslated' /\ ViewIsPast'
         /\ VerdictSound' /\ SucceededRunIsDone'
<1>0. TypeOK
  BY DEF EvidenceInv, LeaseInv
<1>1. CASE Tick(d) \/ Sweep(d)
  BY <1>1, EvidenceFrame DEF Tick, Sweep, ledger
<1>2. CASE ExpireLeases(d)
  <2>1. \A p \in Packets : item'[p] = item[p] \/ (item[p] \in Owned /\ item'[p] = "retryable_failed")
    BY <1>2 DEF ExpireLeases, Expire, Listed, ListedItems
  <2>2. RunDone => RunDone'
    BY <1>2, <2>1 DEF ExpireLeases, Expire, Listed, ListedItems, RunDone
  <2>3. DoneThreadTranslated' /\ SucceededMeansTranslated' /\ ViewIsPast'
    BY <1>2, <2>1 DEF ExpireLeases, Expire, Listed, ListedItems, EvidenceInv, DoneThreadTranslated, SucceededMeansTranslated,
                      ViewIsPast
  <2>4. VerdictSound' /\ SucceededRunIsDone'
    <3>1. run' = run /\ verdict' = verdict
      BY <1>2 DEF ExpireLeases, Expire, Listed, ListedItems
    <3>2. VerdictSound'
      BY <2>2, <3>1 DEF EvidenceInv, VerdictSound
    <3>3. /\ SucceededRunIsDone <=> (run = "succeeded" => RunDone)
          /\ SucceededRunIsDone' <=> (run' = "succeeded" => RunDone')
      BY DEF SucceededRunIsDone, RunDone
    <3>4. QED
      BY <2>2, <3>1, <3>2, <3>3 DEF EvidenceInv
  <2>5. QED
    BY <2>3, <2>4
<1>3. CASE GuardrailStops(d)
  BY <1>3, EvidenceFrame, SucceedingTransition DEF GuardrailStops, ledger
<1>4. CASE ReadLedger(d)
  <2>1. \A e \in Drivers : view'[e] = view[e] \/ view'[e].item = item
    BY <1>0, <1>4 DEF ReadLedger, TypeOK
  <2>2. ViewIsPast'
    BY <1>4, <2>1 DEF ReadLedger, ledger, EvidenceInv, ViewIsPast
  <2>3. QED
    BY <1>4, <2>2 DEF ReadLedger, ledger, EvidenceInv, DoneThreadTranslated,
                      SucceededMeansTranslated, VerdictSound, SucceededRunIsDone, RunDone
<1>5. CASE WriteLedger(d)
  BY <1>5, WriteLedgerEvidence
<1>6. CASE EvaluateStages(d)
  <2>1. \A e \in Drivers : verdict'[e] = verdict[e]
                           \/ verdict'[e] = VerdictOf(run, item, backoff, packet)
    BY <1>0, <1>6 DEF EvaluateStages, TypeOK
  <2>2. VerdictOf(run, item, backoff, packet) = "succeeded" => RunDone
    <3>1. item \in [Packets -> ItemStatuses \cup {"none"}] /\ packet \in [Packets -> {"built", "translated"}]
      BY <1>0 DEF TypeOK
    <3>2. SUFFICES ASSUME VerdictOf(run, item, backoff, packet) = "succeeded"
                   PROVE  RunDone
      OBVIOUS
    <3>3. \A p \in Packets : packet[p] = "translated" /\ item[p] \notin Owned \cup Claimable
      BY <3>1, <3>2, SucceededVerdict
    <3>4. QED
      BY <3>3 DEF RunDone
  <2>3. VerdictSound'
    <3>1. RunDone' = RunDone
      BY <1>6 DEF EvaluateStages, ledger, RunDone
    <3>2. QED
      BY <2>1, <2>2, <3>1 DEF EvidenceInv, VerdictSound
  <2>4. QED
    BY <1>6, <2>3 DEF EvaluateStages, ledger, EvidenceInv, DoneThreadTranslated,
                      SucceededMeansTranslated, ViewIsPast, SucceededRunIsDone, RunDone
<1>7. CASE ApplyVerdict(d)
  <2>1. run' = "succeeded" => run = "succeeded" \/ RunDone
    BY <1>7, SucceedingTransition DEF ApplyVerdict, EvidenceInv, VerdictSound
  <2>2. \A e \in Drivers : verdict'[e] = "succeeded" => verdict[e] = "succeeded"
    BY <1>0, <1>7 DEF ApplyVerdict, TypeOK
  <2>3. QED
    BY <1>7, <2>1, <2>2, EvidenceFrame DEF ApplyVerdict, ledger
<1>8. QED
  BY <1>1, <1>2, <1>3, <1>4, <1>5, <1>6, <1>7 DEF Drive

LEMMA ExecuteEvidence ==
  ASSUME EvidenceInv, NEW t \in Tokens, Execute(t)
  PROVE  /\ DoneThreadTranslated' /\ SucceededMeansTranslated' /\ ViewIsPast'
         /\ VerdictSound' /\ SucceededRunIsDone'
<1>0. TypeOK /\ ThreadLease
  BY DEF EvidenceInv, LeaseInv
<1>1. ASSUME NEW phase \in Phases \ {"done"}, GoTo(t, phase)
      PROVE  \A u \in Tokens : work'[u].phase = "done" => work'[u] = work[u]
  BY <1>0, <1>1, GoToType DEF TypeOK
<1>2. ASSUME Ends(t)
      PROVE  \A u \in Tokens : work'[u].phase = "done" => work'[u] = work[u]
  BY <1>0, <1>2, EndsType DEF TypeOK
<1>3. {"running", "calling", "answered"} \cup Failing \subseteq Phases \ {"done"} /\ "done" \in Phases
  BY DEF Phases, Failing
<1>4. CASE Start(t)
  <2>1. \A u \in Tokens : work'[u].phase = "done" => work'[u] = work[u]
    BY <1>1, <1>3, <1>4 DEF Start
  <2>2. \A p \in Packets : item'[p] = item[p] \/ (item[p] = "leased" /\ item'[p] = "running")
    BY <1>0, <1>4 DEF Start, Held, TypeOK
  <2>3. RunDone => RunDone' /\ run' = run
    BY <1>4, <2>2 DEF Start, RunDone, Owned
  <2>4. DoneThreadTranslated' /\ SucceededMeansTranslated' /\ ViewIsPast'
    BY <1>4, <2>1, <2>2 DEF Start, drivers, EvidenceInv, DoneThreadTranslated,
                            SucceededMeansTranslated, ViewIsPast
  <2>5. VerdictSound'
    BY <1>4, <2>3 DEF Start, drivers, EvidenceInv, VerdictSound
  <2>6. /\ SucceededRunIsDone <=> (run = "succeeded" => RunDone)
        /\ SucceededRunIsDone' <=> (run' = "succeeded" => RunDone')
    BY DEF SucceededRunIsDone, RunDone
  <2>7. run' = run
    BY <1>4 DEF Start
  <2>8. QED
    BY <2>3, <2>4, <2>5, <2>6, <2>7 DEF EvidenceInv
<1>5. CASE Prepare(t)
  <2>1. work[t].packet \in Packets
    BY <1>0, <1>5 DEF Prepare, ThreadLease
  <2>2. CASE packet[work[t].packet] = "built"
    BY <1>1, <1>3, <1>5, <2>2, EvidenceFrame DEF Prepare, ledger, drivers
  <2>3. CASE packet[work[t].packet] # "built"
    <3>1. packet[work[t].packet] = "translated"
      BY <1>0, <2>1, <2>3 DEF TypeOK
    <3>2. GoTo(t, "done")
      BY <1>5, <2>3 DEF Prepare
    <3>3. /\ work'[t].packet = work[t].packet
          /\ \A u \in Tokens \ {t} : work'[u] = work[u]
      BY <1>0, <3>2, GoToType DEF TypeOK, Phases
    <3>4. UNCHANGED <<run, item, packet, view, verdict>>
      BY <1>5 DEF Prepare, ledger, drivers
    <3>5. DoneThreadTranslated'
      BY <3>1, <3>3, <3>4 DEF EvidenceInv, DoneThreadTranslated
    <3>6. SucceededMeansTranslated' /\ ViewIsPast'
      BY <3>4 DEF EvidenceInv, SucceededMeansTranslated, ViewIsPast
    <3>7. VerdictSound' /\ SucceededRunIsDone'
      BY <3>4 DEF EvidenceInv, VerdictSound, SucceededRunIsDone, RunDone
    <3>8. QED
      BY <3>5, <3>6, <3>7 DEF EvidenceInv
  <2>4. QED
    BY <2>2, <2>3
<1>6. CASE CallReturns(t)
  BY <1>1, <1>3, <1>6, EvidenceFrame DEF CallReturns, ledger, drivers
<1>7. CASE StepError(t)
  <2>1. PICK f \in Failing : GoTo(t, f)
    BY <1>7 DEF StepError
  <2>2. QED
    BY <1>1, <1>3, <1>7, <2>1, EvidenceFrame DEF StepError, ledger, drivers
<1>8. CASE Persist(t)
  <2>1. work[t].packet \in Packets
    BY <1>0, <1>8 DEF Persist, Commits, ThreadLease
  <2>2. /\ packet'[work[t].packet] = "translated"
        /\ \A p \in Packets : packet[p] = "translated" => packet'[p] = "translated"
    BY <1>0, <1>8, <2>1 DEF Persist, Commits, TypeOK
  <2>3. /\ work'[t].packet = work[t].packet
        /\ \A u \in Tokens \ {t} : work'[u] = work[u]
    BY <1>0, <1>3, <1>8, GoToType DEF Persist, Commits, TypeOK
  <2>4. ASSUME NEW u \in Tokens, work'[u].phase = "done"
        PROVE  packet'[work'[u].packet] = "translated"
    <3>1. CASE u = t
      BY <2>2, <2>3, <3>1
    <3>2. CASE u # t
      <4>1. work[u].packet \in Packets /\ packet[work[u].packet] = "translated"
        BY <1>0, <2>3, <2>4, <3>2 DEF EvidenceInv, DoneThreadTranslated, ThreadLease
      <4>2. QED
        BY <2>2, <2>3, <3>2, <4>1
    <3>3. QED
      BY <3>1, <3>2
  <2>5. DoneThreadTranslated'
    BY <2>4 DEF DoneThreadTranslated
  <2>6. item' = item /\ view' = view /\ verdict' = verdict /\ run' = run
    BY <1>8 DEF Persist, Commits, drivers
  <2>7. SucceededMeansTranslated' /\ ViewIsPast'
    BY <2>2, <2>6 DEF EvidenceInv, SucceededMeansTranslated, ViewIsPast
  <2>8. RunDone => RunDone'
    BY <2>2, <2>6 DEF RunDone
  <2>9. VerdictSound'
    BY <2>6, <2>8 DEF EvidenceInv, VerdictSound
  <2>10. SucceededRunIsDone'
    BY <2>2, <2>6 DEF EvidenceInv, SucceededRunIsDone
  <2>11. QED
    BY <2>5, <2>7, <2>9, <2>10
<1>9. CASE StartLost(t) \/ PersistLost(t) \/ CompleteLost(t)
  BY <1>2, <1>9, EvidenceFrame
     DEF StartLost, PersistLost, CompleteLost, Discards, ledger, drivers
<1>10. CASE CompleteSuccess(t) \/ CompleteFailure(t)
  <2>1. Held(t) /\ lease[t] \in Packets
    BY <1>0, <1>10 DEF CompleteSuccess, CompleteFailure, Fails, Held, TypeOK
  <2>2. /\ packet' = packet /\ view' = view /\ verdict' = verdict
        /\ Ends(t)
    BY <1>10 DEF CompleteSuccess, CompleteFailure, Fails, drivers
  <2>3. \A p \in Packets : item'[p] = item[p] \/ (item[p] \in Owned /\ item'[p] # "none")
    BY <1>0, <1>10 DEF CompleteSuccess, CompleteFailure, Fails, Release, TypeOK
  <2>4. ASSUME NEW p \in Packets, item'[p] = "succeeded"
        PROVE  packet[p] = "translated"
    <3>1. CASE item[p] = "succeeded"
      BY <3>1 DEF EvidenceInv, SucceededMeansTranslated
    <3>2. CASE item[p] # "succeeded"
      <4>1. CompleteSuccess(t) /\ p = lease[t]
        BY <1>0, <1>10, <2>4, <3>2 DEF CompleteSuccess, CompleteFailure, Fails, Release, TypeOK
      <4>2. work[t].phase = "done" /\ p = work[t].packet
        BY <1>0, <2>1, <4>1 DEF CompleteSuccess, Held, ThreadLease
      <4>3. QED
        BY <4>2 DEF EvidenceInv, DoneThreadTranslated
    <3>3. QED
      BY <3>1, <3>2
  <2>5. DoneThreadTranslated' /\ SucceededMeansTranslated' /\ ViewIsPast'
    BY <1>2, <2>2, <2>3, <2>4 DEF EvidenceInv, DoneThreadTranslated, SucceededMeansTranslated,
                                  ViewIsPast, Owned
  <2>6. RunDone => RunDone'
    BY <2>2, <2>3 DEF RunDone
  <2>7. VerdictSound'
    BY <2>2, <2>6 DEF EvidenceInv, VerdictSound
  <2>8. ASSUME run' = "succeeded", run # "succeeded"
        PROVE  RunDone'
    <3>1. CompleteFailure(t) /\ VerdictOf(run, item', backoff', packet) = "succeeded"
      BY <1>10, <2>8, SucceedingTransition DEF CompleteSuccess, CompleteFailure, Fails
    <3>2. /\ item' \in [Packets -> ItemStatuses \cup {"none"}]
          /\ packet \in [Packets -> {"built", "translated"}]
      BY <1>0, ExecuteType DEF TypeOK
    <3>3. \A p \in Packets : packet[p] = "translated" /\ item'[p] \notin Owned \cup Claimable
      BY <3>1, <3>2, SucceededVerdict
    <3>4. QED
      BY <2>2, <3>3 DEF RunDone
  <2>9. /\ SucceededRunIsDone <=> (run = "succeeded" => RunDone)
        /\ SucceededRunIsDone' <=> (run' = "succeeded" => RunDone')
    BY DEF SucceededRunIsDone, RunDone
  <2>10. QED
    BY <2>5, <2>6, <2>7, <2>8, <2>9 DEF EvidenceInv
<1>11. QED
  BY <1>4, <1>5, <1>6, <1>7, <1>8, <1>9, <1>10 DEF Execute

LEMMA EnvironmentEvidence ==
  ASSUME EvidenceInv, Environment
  PROVE  /\ DoneThreadTranslated' /\ SucceededMeansTranslated' /\ ViewIsPast'
         /\ VerdictSound' /\ SucceededRunIsDone'
<1>0. TypeOK
  BY DEF EvidenceInv, LeaseInv
<1>1. item' = item /\ packet' = packet
  BY DEF Environment, Heartbeat, Lapse, Abandon, BackoffElapses, Crash, Aborts, Stop,
         OwnershipExpires, ledger
<1>2. \A t \in Tokens : StillThere(t)
  BY <1>0, EnvironmentThreads
<1>3. \A d \in Drivers : view'[d] = view[d] \/ view'[d] = EmptyView
  BY <1>0 DEF Environment, Heartbeat, Lapse, Abandon, BackoffElapses, Crash, Aborts, Stop,
              OwnershipExpires, drivers, TypeOK
<1>4. \A d \in Drivers : verdict'[d] = "succeeded" => verdict[d] = "succeeded"
  BY <1>0 DEF Environment, Heartbeat, Lapse, Abandon, BackoffElapses, Crash, Aborts, Stop,
              OwnershipExpires, drivers, TypeOK
<1>5. run' = "succeeded" => run = "succeeded"
  BY SucceedingTransition
     DEF Environment, Heartbeat, Lapse, Abandon, BackoffElapses, Crash, Aborts, Stop,
         OwnershipExpires
<1>6. QED
  BY <1>1, <1>2, <1>3, <1>4, <1>5, EvidenceFrame DEF StillThere

LEMMA EvidenceInvInit == Init => EvidenceInv
BY LeaseInvInit
   DEF Init, EvidenceInv, DoneThreadTranslated, SucceededMeansTranslated, ViewIsPast,
       VerdictSound, SucceededRunIsDone, EmptyView, IdleWork

LEMMA EvidenceInvNext == EvidenceInv /\ [Next]_vars => EvidenceInv'
<1> SUFFICES ASSUME EvidenceInv, [Next]_vars
             PROVE  EvidenceInv'
  OBVIOUS
<1>1. LeaseInv'
  BY LeaseInvNext DEF EvidenceInv
<1>2. CASE Operator
  BY <1>1, <1>2, EvidenceFrame
     DEF Operator, Resume, Pause, Drain, Cancel, ledger, drivers, EvidenceInv
<1>3. CASE UNCHANGED vars
  BY <1>1, <1>3, EvidenceFrame DEF vars, ledger, drivers, EvidenceInv
<1>4. QED
  BY <1>1, <1>2, <1>3, DriveEvidence, ExecuteEvidence, EnvironmentEvidence DEF Next, EvidenceInv

LEMMA EvidenceInvariant == Spec => []EvidenceInv
BY EvidenceInvInit, EvidenceInvNext, PTL DEF Spec

\* A work item succeeds only for a packet with a committed translation.
THEOREM SuccessMeansTranslated == Spec => []SucceededMeansTranslated
<1>1. EvidenceInv => SucceededMeansTranslated
  BY DEF EvidenceInv
<1>2. QED
  BY <1>1, EvidenceInvariant, PTL

\* A run succeeds only when every packet is translated and no work is left, although
\* the evidence was read before the run lock was taken.
THEOREM SuccessfulRunIsDone == Spec => []SucceededRunIsDone
<1>1. EvidenceInv => SucceededRunIsDone
  BY DEF EvidenceInv
<1>2. QED
  BY <1>1, EvidenceInvariant, PTL

-----------------------------------------------------------------------------
(* Exclusive leases, while ticks do not overlap.                           *)

\* Between listing and expiring, an item that is still owned is owned by the
\* lease that was listed.
ReclaimFresh ==
  \A d \in Drivers : pc[d] \in {"expire", "sweep"} =>
    \A t \in Tokens : \A p \in Packets :
      <<t, p>> \in seen[d] /\ item[p] \in Owned => lease[t] = p

\* Between reading the rows and writing them, a claimable item stays claimable.
ViewFresh ==
  \A d \in Drivers : pc[d] = "write" =>
    \A p \in Packets : view[d].item[p] \in Claimable => item[p] \in Claimable

ExclusiveInv == LeaseInv /\ Serial /\ ExclusiveLease /\ ReclaimFresh /\ ViewFresh

LEMMA ExclusiveInvInit == Init => ExclusiveInv
BY LeaseInvInit DEF Init, Serial, ExclusiveInv, ExclusiveLease, ReclaimFresh, ViewFresh

LEMMA DriveExclusive ==
  ASSUME ExclusiveInv, Serial', NEW d \in Drivers, Drive(d)
  PROVE  ExclusiveLease' /\ ReclaimFresh' /\ ViewFresh'
<1> USE DEF ExclusiveInv, LeaseInv
<1> DEFINE Others == \A e \in Drivers \ {d} : pc'[e] = "idle"
<1>a. Others
  <2>1. \A e \in Drivers \ {d} : pc'[e] = pc[e]
    BY DEF Drive, Tick, Sweep, ExpireLeases, Expire, Listed, ListedItems, GuardrailStops, ReadLedger, WriteLedger,
           SeedAndClaim, EvaluateStages, ApplyVerdict, TypeOK
  <2>2. CASE pc[d] # "idle"
    BY <2>1, <2>2 DEF Serial
  <2>3. CASE pc[d] = "idle"
    <3>1. pc'[d] # "idle"
      BY <2>3 DEF Drive, Tick, Sweep, ExpireLeases, Expire, Listed, ListedItems, GuardrailStops, ReadLedger, WriteLedger,
                  EvaluateStages, ApplyVerdict, TypeOK
    <3>2. QED
      BY <3>1 DEF Serial
  <2>4. QED
    BY <2>2, <2>3
<1>0. /\ TypeOK /\ TypeOK' /\ \A e \in Drivers : e = d \/ pc'[e] = "idle"
      /\ \A t \in Tokens : lease[t] # NoPacket => lease[t] \in Packets
  BY <1>a, DriveType DEF TypeOK
<1>1. CASE Tick(d) \/ Sweep(d)
  <2>1. item' = item /\ lease' = lease
    BY <1>1 DEF Tick, Sweep, ledger, leases
  <2>2. \A t \in Tokens : \A p \in Packets : <<t, p>> \in seen'[d] => lease[t] = p
    BY <1>0, <1>1 DEF Tick, Sweep, TypeOK
  <2>3. pc'[d] # "write"
    BY <1>0, <1>1 DEF Tick, Sweep, TypeOK
  <2>4. QED
    BY <1>0, <2>1, <2>2, <2>3 DEF ExclusiveLease, ReclaimFresh, ViewFresh
<1>2. CASE ExpireLeases(d)
  <2>1. pc'[d] \notin {"expire", "sweep", "write"}
    BY <1>0, <1>2 DEF ExpireLeases, Expire, Listed, ListedItems, TypeOK
  <2>2. ASSUME NEW t \in Tokens, lease'[t] # NoPacket
        PROVE  /\ lease'[t] = lease[t] /\ item'[lease[t]] \in Owned
               /\ \A u \in Tokens : lease'[u] = lease[t] => u = t
    <3> DEFINE p == lease[t]
    <3>1. lease'[t] = p /\ p \in Packets /\ \A e \in seen[d] : e[1] # t
      BY <1>0, <1>2, <2>2 DEF ExpireLeases, Expire, Listed, ListedItems
    <3>2. item[p] \in Owned /\ \A u \in Tokens : lease[u] = p => u = t
      BY <1>0, <3>1, TranslateRunAssumption DEF ExclusiveLease
    <3>3. \A u \in Tokens : <<u, p>> \notin seen[d]
      <4>1. SUFFICES ASSUME NEW u \in Tokens, <<u, p>> \in seen[d]
                     PROVE  FALSE
        OBVIOUS
      <4>2. pc[d] \in {"expire", "sweep"}
        BY <1>2 DEF ExpireLeases, Expire, Listed, ListedItems
      <4>3. lease[u] = p
        BY <3>1, <3>2, <4>1, <4>2 DEF ReclaimFresh
      <4>4. QED
        BY <3>1, <3>2, <4>1, <4>3
    <3>4. item'[p] = item[p]
      BY <1>2, <3>1, <3>3 DEF ExpireLeases, Expire, Listed, ListedItems
    <3>5. \A u \in Tokens : lease'[u] = p => u = t
      BY <1>2, <3>1, <3>2, TranslateRunAssumption DEF ExpireLeases, Expire, Listed, ListedItems
    <3>6. QED
      BY <3>1, <3>2, <3>4, <3>5
  <2>3. ExclusiveLease'
    BY <2>2 DEF ExclusiveLease
  <2>4. QED
    BY <1>0, <2>1, <2>3 DEF ReclaimFresh, ViewFresh
<1>3. CASE WriteLedger(d)
  <2>1. PICK C \in SUBSET Packets, T \in SUBSET Tokens : \E g \in Bijection(T, C) :
          /\ SeedAndClaim(d, C, T, g)
          /\ \A p \in C : item[p] \in Claimable \cup {"none"}
    BY <1>0, <1>3, WriteLedgerPick
  <2>2. PICK g \in Bijection(T, C) : SeedAndClaim(d, C, T, g)
    BY <2>1
  <2>3. /\ g \in [T -> C]
        /\ \A t, u \in T : g[t] = g[u] => t = u
        /\ \A t \in Tokens : lease'[t] = IF t \in T THEN g[t] ELSE lease[t]
        /\ \A p \in C : item'[p] = "leased"
    BY <2>2, SeedAndClaimFacts
  <2>4. pc[d] = "write" /\ pc'[d] \in {"idle", "settle"}
    BY <1>0, <1>3, <2>2 DEF WriteLedger, SeedAndClaim, TypeOK
  <2>5. ASSUME NEW p \in Packets, item[p] \in Owned
        PROVE  p \notin C /\ item'[p] = item[p]
    <3>1. p \notin C
      BY <2>1, <2>5 DEF Owned, Claimable
    <3>2. p \notin Obsolete(view[d])
      BY <2>4, <2>5 DEF Obsolete, ViewFresh, Owned, Claimable
    <3>3. p \notin Seeds(Reconciled(view[d]))
      BY <2>5 DEF Seeds, Owned
    <3>4. item'[p] = item[p] \/ item'[p] = "cancelled" \/ item'[p] = "pending"
      BY <2>2, <3>1, SeedAndClaimFacts
    <3>5. item'[p] = "cancelled" => item[p] = "cancelled"
      BY <2>2, <3>1, <3>2, SeedAndClaimFacts
    <3>6. item'[p] = "pending" => item[p] = "pending"
      BY <2>2, <3>1, <3>3, SeedAndClaimFacts
    <3>7. QED
      BY <3>1, <3>4, <3>5, <3>6
  <2>6. ASSUME NEW t \in Tokens, lease'[t] # NoPacket
        PROVE  /\ item'[lease'[t]] \in Owned
               /\ \A u \in Tokens : lease'[u] = lease'[t] => u = t
    <3>1. CASE t \in T
      <4>1. lease'[t] = g[t] /\ g[t] \in C
        BY <2>3, <3>1
      <4>2. \A u \in Tokens \ T : lease[u] # g[t]
        BY <1>0, <2>5, <4>1, TranslateRunAssumption DEF ExclusiveLease
      <4>3. QED
        BY <2>3, <3>1, <4>1, <4>2 DEF Owned
    <3>2. CASE t \notin T
      <4>1. lease'[t] = lease[t] /\ lease[t] \in Packets /\ item[lease[t]] \in Owned
        BY <1>0, <2>3, <2>6, <3>2 DEF ExclusiveLease
      <4>2. lease[t] \notin C /\ item'[lease[t]] = item[lease[t]]
        BY <2>5, <4>1
      <4>3. \A u \in Tokens : lease[u] = lease[t] => u = t
        BY <2>6, <4>1, TranslateRunAssumption DEF ExclusiveLease
      <4>4. QED
        BY <2>3, <3>2, <4>1, <4>2, <4>3
    <3>3. QED
      BY <3>1, <3>2
  <2>7. ExclusiveLease'
    BY <2>6 DEF ExclusiveLease
  <2>8. QED
    BY <1>0, <2>4, <2>7 DEF ReclaimFresh, ViewFresh
<1>4. CASE ReadLedger(d)
  <2>1. item' = item /\ lease' = lease /\ seen' = seen
    BY <1>4 DEF ReadLedger, ledger, leases
  <2>2. pc'[d] = "write" /\ view'[d].item = item
    BY <1>0, <1>4 DEF ReadLedger, TypeOK
  <2>3. QED
    BY <1>0, <2>1, <2>2 DEF ExclusiveLease, ReclaimFresh, ViewFresh
<1>5. CASE GuardrailStops(d) \/ EvaluateStages(d) \/ ApplyVerdict(d)
  <2>1. item' = item /\ lease' = lease
    BY <1>5 DEF GuardrailStops, EvaluateStages, ApplyVerdict, ledger, leases
  <2>2. pc'[d] \in {"idle", "apply"}
    BY <1>0, <1>5 DEF GuardrailStops, EvaluateStages, ApplyVerdict, TypeOK
  <2>3. QED
    BY <1>0, <2>1, <2>2 DEF ExclusiveLease, ReclaimFresh, ViewFresh
<1>6. QED
  BY <1>1, <1>2, <1>3, <1>4, <1>5 DEF Drive

\* Steps that leave leases alone, move owned items only to owned items, and
\* leave a driver where it is or bring it to rest.
LEMMA StillExclusive ==
  ASSUME ExclusiveInv, lease' = lease,
         \A p \in Packets : /\ item'[p] \in Owned <=> item[p] \in Owned
                            /\ item[p] \in Claimable => item'[p] = item[p],
         \A d \in Drivers : \/ pc'[d] = "idle"
                            \/ pc'[d] = pc[d] /\ seen'[d] = seen[d] /\ view'[d] = view[d]
  PROVE  ExclusiveLease' /\ ReclaimFresh' /\ ViewFresh'
<1>1. \A t \in Tokens : lease[t] # NoPacket => lease[t] \in Packets
  BY DEF ExclusiveInv, LeaseInv, TypeOK
<1>2. ExclusiveLease'
  BY <1>1 DEF ExclusiveInv, ExclusiveLease
<1>3. ReclaimFresh'
  BY DEF ExclusiveInv, ReclaimFresh
<1>4. ViewFresh'
  BY DEF ExclusiveInv, ViewFresh
<1>5. QED
  BY <1>2, <1>3, <1>4

LEMMA ReleaseExclusive ==
  ASSUME ExclusiveInv, NEW t \in Tokens, Held(t), NEW s \in Settled \cup Claimable,
         Release(t, s, item), UNCHANGED drivers
  PROVE  ExclusiveLease' /\ ReclaimFresh' /\ ViewFresh'
<1> DEFINE p == lease[t]
<1>1. TypeOK /\ p \in Packets /\ (\A u \in Tokens : lease[u] # NoPacket => lease[u] \in Packets)
  BY DEF ExclusiveInv, LeaseInv, TypeOK, Held
<1>2. /\ item'[p] \notin Owned
      /\ \A q \in Packets : q # p => item'[q] = item[q]
      /\ \A u \in Tokens : lease'[u] = IF u = t THEN NoPacket ELSE lease[u]
  BY <1>1, ReleaseFacts DEF TypeOK
<1>3. item[p] \in Owned /\ \A u \in Tokens : lease[u] = p => u = t
  BY <1>1 DEF ExclusiveInv, ExclusiveLease, Held
<1>4. ExclusiveLease'
  BY <1>1, <1>2, <1>3 DEF ExclusiveInv, ExclusiveLease
<1>5. ReclaimFresh'
  BY <1>1, <1>2, <1>3 DEF ExclusiveInv, ReclaimFresh, drivers
<1>6. ViewFresh'
  BY <1>2, <1>3, ItemPartition DEF ExclusiveInv, ViewFresh, drivers
<1>7. QED
  BY <1>4, <1>5, <1>6

LEMMA ExecuteExclusive ==
  ASSUME ExclusiveInv, NEW t \in Tokens, Execute(t)
  PROVE  ExclusiveLease' /\ ReclaimFresh' /\ ViewFresh'
<1>1. drivers' = drivers
  BY DEF Execute, Start, StartLost, Prepare, CallReturns, StepError, Persist, Commits, PersistLost,
         CompleteSuccess, CompleteLost, CompleteFailure, Fails, Discards
<1>2. pc' = pc /\ seen' = seen /\ view' = view
  BY <1>1 DEF drivers
<1>3. CASE Start(t)
  <2>1. lease[t] \in Packets /\ lease' = lease
    BY <1>3 DEF Start, Held, ExclusiveInv, LeaseInv, TypeOK
  <2>2. \A p \in Packets : item'[p] = item[p] \/ (item[p] = "leased" /\ item'[p] = "running")
    BY <1>3, <2>1 DEF Start, ExclusiveInv, LeaseInv, TypeOK
  <2>3. QED
    BY <1>2, <2>1, <2>2, StillExclusive DEF Owned, Claimable
<1>4. CASE CompleteSuccess(t)
  BY <1>1, <1>4, ReleaseExclusive DEF CompleteSuccess, Settled
<1>5. CASE CompleteFailure(t)
  BY <1>1, <1>5, ReleaseExclusive DEF CompleteFailure, Fails, Settled, Claimable
<1>6. CASE Prepare(t) \/ CallReturns(t) \/ StepError(t) \/ Persist(t) \/ Discards(t)
  <2>1. item' = item /\ lease' = lease
    BY <1>6 DEF Prepare, CallReturns, StepError, Persist, Commits, Discards, ledger, leases
  <2>2. QED
    BY <1>2, <2>1, StillExclusive
<1>7. QED
  BY <1>3, <1>4, <1>5, <1>6 DEF Execute, StartLost, PersistLost, CompleteLost

LEMMA EnvironmentExclusive ==
  ASSUME ExclusiveInv, Environment
  PROVE  ExclusiveLease' /\ ReclaimFresh' /\ ViewFresh'
<1>1. item' = item /\ lease' = lease
  BY DEF Environment, Heartbeat, Lapse, Abandon, BackoffElapses, Crash, Aborts, Stop,
         OwnershipExpires, ledger, leases
<1>2. \A d \in Drivers : \/ pc'[d] = "idle"
                         \/ pc'[d] = pc[d] /\ seen'[d] = seen[d] /\ view'[d] = view[d]
  <2>1. TypeOK
    BY DEF ExclusiveInv, LeaseInv
  <2>2. ASSUME NEW e \in Drivers, Crash(e) \/ Aborts(e)
        PROVE  \A d \in Drivers : \/ pc'[d] = "idle"
                                  \/ pc'[d] = pc[d] /\ seen'[d] = seen[d] /\ view'[d] = view[d]
    BY <2>1, <2>2 DEF Crash, Aborts, TypeOK
  <2>3. ASSUME \/ \E t \in Tokens : Heartbeat(t) \/ Lapse(t) \/ Abandon(t)
               \/ \E p \in Packets : BackoffElapses(p)
               \/ \E d \in Drivers : Stop(d)
               \/ OwnershipExpires
        PROVE  pc' = pc /\ seen' = seen /\ view' = view
    BY <2>3 DEF Heartbeat, Lapse, Abandon, BackoffElapses, Stop, OwnershipExpires, drivers
  <2>4. QED
    BY <2>2, <2>3 DEF Environment
<1>3. QED
  BY <1>1, <1>2, StillExclusive

LEMMA ExclusiveInvNext == ExclusiveInv /\ [Next /\ Serial']_vars => ExclusiveInv'
<1> SUFFICES ASSUME ExclusiveInv, [Next /\ Serial']_vars
             PROVE  ExclusiveInv'
  OBVIOUS
<1>1. LeaseInv'
  BY LeaseInvNext DEF ExclusiveInv
<1>2. CASE Operator \/ UNCHANGED vars
  <2>1. item' = item /\ lease' = lease /\ pc' = pc /\ seen' = seen /\ view' = view
    BY <1>2 DEF Operator, vars, ledger, leases, drivers
  <2>2. QED
    BY <1>1, <2>1, StillExclusive DEF ExclusiveInv, Serial
<1>3. QED
  BY <1>1, <1>2, DriveExclusive, ExecuteExclusive, EnvironmentExclusive DEF Next, ExclusiveInv

\* While ticks do not overlap, a lease is exclusive: a reclaim hands the item on
\* only after the lease that owned it is closed.
THEOREM LeaseIsExclusive == SerialSpec => []ExclusiveLease
<1>1. SerialSpec => []ExclusiveInv
  BY ExclusiveInvInit, ExclusiveInvNext, PTL DEF SerialSpec
<1>2. ExclusiveInv => ExclusiveLease
  BY DEF ExclusiveInv
<1>3. QED
  BY <1>1, <1>2, PTL
\* A settled item is never rewritten: a reclaim, a completion and a claim write
\* only items they find owned or claimable, and a cancellation writes what it
\* read because nobody else reclaims or claims in between.
THEOREM SettledItemsStay == SerialSpec => SettledItemStays
<1>1. ASSUME ExclusiveInv, [Next /\ Serial']_vars
      PROVE  [\A p \in Packets : item[p] \in Settled => item'[p] = item[p]]_vars
  <2> USE DEF ExclusiveInv, LeaseInv
  <2>1. ASSUME NEW d \in Drivers, Drive(d), NEW p \in Packets, item[p] \in Settled
        PROVE  item'[p] = item[p]
    <3>1. item[p] \notin Owned \cup Claimable \cup {"none"}
      BY <2>1, ItemPartition DEF Settled
    <3>2. CASE ExpireLeases(d)
      BY <3>1, <3>2 DEF ExpireLeases, Expire, Listed, ListedItems
    <3>3. CASE WriteLedger(d)
      <4>1. PICK C \in SUBSET Packets, T \in SUBSET Tokens : \E g \in Bijection(T, C) :
              /\ SeedAndClaim(d, C, T, g)
              /\ \A q \in C : item[q] \in Claimable \cup {"none"}
        BY <1>1, <2>1, <3>3, WriteLedgerPick
      <4>2. PICK g \in Bijection(T, C) : SeedAndClaim(d, C, T, g)
        BY <4>1
      <4>3. p \notin C /\ p \notin Obsolete(view[d]) /\ p \notin Seeds(Reconciled(view[d]))
        BY <1>1, <2>1, <3>1, <3>3, <4>1 DEF WriteLedger, ViewFresh, Obsolete, Seeds
      <4>4. item'[p] = item[p] \/ item'[p] = "cancelled" \/ item'[p] = "pending"
        BY <2>1, <4>2, <4>3, SeedAndClaimFacts
      <4>5. item'[p] = "cancelled" => item[p] = "cancelled"
        BY <2>1, <4>2, <4>3, SeedAndClaimFacts
      <4>6. item'[p] = "pending" => item[p] = "pending"
        BY <2>1, <4>2, <4>3, SeedAndClaimFacts
      <4>7. QED
        BY <4>4, <4>5, <4>6
    <3>4. CASE \/ Tick(d) \/ Sweep(d) \/ GuardrailStops(d) \/ ReadLedger(d)
               \/ EvaluateStages(d) \/ ApplyVerdict(d)
      BY <3>4 DEF Tick, Sweep, GuardrailStops, ReadLedger, EvaluateStages, ApplyVerdict, ledger
    <3>5. QED
      BY <2>1, <3>2, <3>3, <3>4 DEF Drive
  <2>2. ASSUME NEW t \in Tokens, Execute(t), NEW p \in Packets, item[p] \in Settled
        PROVE  item'[p] = item[p]
    <3>1. item[p] \notin Owned /\ item[p] # "leased"
      BY <2>2 DEF Settled, Owned
    <3>2. CASE Start(t)
      BY <1>1, <3>1, <3>2 DEF Start, TypeOK
    <3>3. CASE CompleteSuccess(t) \/ CompleteFailure(t)
      BY <1>1, <3>1, <3>3 DEF CompleteSuccess, CompleteFailure, Fails, Release, TypeOK
    <3>4. CASE \/ Prepare(t) \/ CallReturns(t) \/ StepError(t) \/ Persist(t) \/ Discards(t)
      BY <3>4 DEF Prepare, CallReturns, StepError, Persist, Commits, Discards, ledger
    <3>5. QED
      BY <2>2, <3>2, <3>3, <3>4 DEF Execute, StartLost, PersistLost, CompleteLost
  <2>3. CASE Operator \/ Environment \/ UNCHANGED vars
    BY <2>3 DEF Operator, Environment, Heartbeat, Lapse, Abandon, BackoffElapses, Crash,
                Aborts, Stop, OwnershipExpires, vars, ledger
  <2>4. QED
    BY <1>1, <2>1, <2>2, <2>3 DEF Next
<1>2. SerialSpec => []ExclusiveInv
  BY ExclusiveInvInit, ExclusiveInvNext, PTL DEF SerialSpec
<1>3. QED
  BY <1>1, <1>2, PTL DEF SerialSpec, SettledItemStays

-----------------------------------------------------------------------------
(* One committed translation per packet.                                   *)

\* A thread that calls the provider and still holds its lease has a packet to
\* translate.
CallInv ==
  \A t \in Tokens : work[t].phase \in {"calling", "answered"} /\ lease[t] # NoPacket =>
    packet[lease[t]] = "built"

\* The first commit is the one that marks the packet.
CountInv == \A p \in Packets : /\ packet[p] = "built" => translations[p] = 0
                               /\ translations[p] <= 1

CommitInv == ExclusiveInv /\ CallInv /\ CountInv

LEMMA CommitInvInit == Init => CommitInv
BY ExclusiveInvInit DEF Init, CommitInv, CallInv, CountInv, IdleWork

\* A step that commits nothing, closes leases or opens them for threads that
\* have not called, keeps both facts.
LEMMA CommitFrame ==
  ASSUME CommitInv, packet' = packet, translations' = translations,
         \A t \in Tokens :
           \/ lease'[t] = NoPacket
           \/ work'[t].phase \notin {"calling", "answered"}
           \/ /\ lease'[t] = lease[t]
              /\ work[t].phase \in {"calling", "answered"} \/ packet[lease[t]] = "built"
  PROVE  CallInv' /\ CountInv'
BY DEF CommitInv, CallInv, CountInv

LEMMA DriveCommit ==
  ASSUME CommitInv, NEW d \in Drivers, Drive(d)
  PROVE  CallInv' /\ CountInv'
<1>0. TypeOK
  BY DEF CommitInv, ExclusiveInv, LeaseInv
<1>1. packet' = packet /\ translations' = translations
  BY DEF Drive, Tick, Sweep, ExpireLeases, Expire, Listed, ListedItems, GuardrailStops, ReadLedger, WriteLedger,
         EvaluateStages, ApplyVerdict, ledger
<1>2. CASE WriteLedger(d)
  <2>1. PICK C \in SUBSET Packets, T \in SUBSET Tokens : \E g \in Bijection(T, C) :
          /\ SeedAndClaim(d, C, T, g)
          /\ \A t \in T : lease[t] = NoPacket /\ work[t].phase = "idle"
    BY <1>0, <1>2, WriteLedgerPick
  <2>2. PICK g \in Bijection(T, C) : SeedAndClaim(d, C, T, g)
    BY <2>1
  <2>3. ASSUME NEW t \in Tokens
        PROVE  \/ t \in T /\ work'[t].phase \in {"idle", "claimed"}
               \/ t \notin T /\ lease'[t] = lease[t] /\ work'[t] = work[t]
    <3>1. \/ work'[t] = work[t]
          \/ t \in T /\ work'[t] = [phase |-> "claimed", packet |-> g[t], driver |-> d]
      BY <2>2, SeedAndClaimFacts
    <3>2. t \notin T => lease'[t] = lease[t]
      BY <2>2, SeedAndClaimFacts
    <3>3. t \in T => work[t].phase = "idle"
      BY <2>1
    <3>4. QED
      BY <3>1, <3>2, <3>3
  <2>4. QED
    BY <1>1, <2>3, CommitFrame
<1>3. CASE ExpireLeases(d)
  BY <1>1, <1>3, CommitFrame DEF ExpireLeases, Expire, Listed, ListedItems
<1>4. CASE ~WriteLedger(d) /\ ~ExpireLeases(d)
  <2>1. lease' = lease /\ work' = work
    BY <1>4 DEF Drive, Tick, Sweep, GuardrailStops, ReadLedger, EvaluateStages, ApplyVerdict, leases
  <2>2. QED
    BY <1>1, <2>1, CommitFrame
<1>5. QED
  BY <1>2, <1>3, <1>4

LEMMA ExecuteCommit ==
  ASSUME CommitInv, NEW t \in Tokens, Execute(t)
  PROVE  CallInv' /\ CountInv'
<1>0. TypeOK /\ ThreadLease /\ ExclusiveLease
  BY DEF CommitInv, ExclusiveInv, LeaseInv
<1>1. ASSUME NEW phase \in Phases, GoTo(t, phase)
      PROVE  /\ work'[t].phase = phase
             /\ \A u \in Tokens \ {t} : work'[u] = work[u]
  BY <1>0, <1>1, GoToType DEF TypeOK
<1>2. CASE Persist(t)
  <2> DEFINE p == work[t].packet
  <2>1. p \in Packets /\ lease[t] = p /\ p # NoPacket
    BY <1>0, <1>2, TranslateRunAssumption DEF Persist, Commits, Held, ThreadLease
  <2>2. packet[p] = "built" /\ translations[p] = 0
    BY <1>2, <2>1 DEF Persist, Commits, CommitInv, CallInv, CountInv
  <2>3. /\ \A q \in Packets : q # p => packet'[q] = packet[q] /\ translations'[q] = translations[q]
        /\ packet'[p] = "translated" /\ translations'[p] = 1
        /\ lease' = lease
    BY <1>0, <1>2, <2>1, <2>2 DEF Persist, Commits, TypeOK, leases
  <2>4. work'[t].phase = "done" /\ \A u \in Tokens \ {t} : work'[u] = work[u]
    BY <1>1, <1>2 DEF Persist, Commits, Phases
  <2>5. \A u \in Tokens \ {t} : lease[u] # p
    BY <1>0, <2>1 DEF ExclusiveLease
  <2>6. \A u \in Tokens : lease[u] # NoPacket => lease[u] \in Packets
    BY <1>0 DEF TypeOK
  <2>7. CallInv'
    BY <2>3, <2>4, <2>5, <2>6 DEF CommitInv, CallInv
  <2>8. CountInv'
    BY <2>3 DEF CommitInv, CountInv
  <2>9. QED
    BY <2>7, <2>8
<1>3. CASE Prepare(t)
  <2>1. \A phase \in {"calling", "done"} : phase \in Phases
    BY DEF Phases
  <2>2. /\ work'[t].phase = IF packet[work[t].packet] = "built" THEN "calling" ELSE "done"
        /\ \A u \in Tokens \ {t} : work'[u] = work[u]
    BY <1>1, <1>3, <2>1 DEF Prepare
  <2>3. lease[t] # NoPacket => lease[t] = work[t].packet
    BY <1>0, <1>3 DEF Prepare, ThreadLease
  <2>4. packet' = packet /\ translations' = translations /\ lease' = lease
    BY <1>3 DEF Prepare, ledger, leases
  <2>5. QED
    BY <2>2, <2>3, <2>4, CommitFrame
<1>4. CASE Start(t) \/ CallReturns(t) \/ StepError(t)
  <2>1. PICK phase \in Phases : GoTo(t, phase) /\ (phase = "answered" => work[t].phase = "calling")
                                /\ phase # "calling"
    BY <1>4 DEF Start, CallReturns, StepError, Failing, Phases
  <2>2. packet' = packet /\ translations' = translations /\ lease' = lease
    BY <1>4 DEF Start, CallReturns, StepError, ledger, leases
  <2>3. work'[t].phase = phase /\ \A u \in Tokens \ {t} : work'[u] = work[u]
    BY <1>1, <2>1
  <2>4. QED
    BY <2>1, <2>2, <2>3, CommitFrame
<1>5. CASE Discards(t) \/ CompleteSuccess(t) \/ CompleteFailure(t)
  <2>1. work'[t].phase = "idle" /\ \A u \in Tokens \ {t} : work'[u] = work[u]
    BY <1>0, <1>5, EndsType DEF Discards, CompleteSuccess, CompleteFailure, Fails, TypeOK
  <2>2. /\ packet' = packet /\ translations' = translations
        /\ \A u \in Tokens \ {t} : lease'[u] = lease[u]
    BY <1>0, <1>5 DEF Discards, CompleteSuccess, CompleteFailure, Fails, Release, ledger, leases, TypeOK
  <2>3. QED
    BY <2>1, <2>2, CommitFrame
<1>6. QED
  BY <1>2, <1>3, <1>4, <1>5 DEF Execute, StartLost, PersistLost, CompleteLost

LEMMA EnvironmentCommit ==
  ASSUME CommitInv, Environment
  PROVE  CallInv' /\ CountInv'
<1>0. TypeOK
  BY DEF CommitInv, ExclusiveInv, LeaseInv
<1>1. packet' = packet /\ translations' = translations /\ lease' = lease
  BY DEF Environment, Heartbeat, Lapse, Abandon, BackoffElapses, Crash, Aborts, Stop,
         OwnershipExpires, ledger, leases
<1>2. \A t \in Tokens : StillThere(t)
  BY <1>0, EnvironmentThreads
<1>3. QED
  BY <1>1, <1>2, CommitFrame DEF StillThere

LEMMA CommitInvNext == CommitInv /\ [Next /\ Serial']_vars => CommitInv'
<1> SUFFICES ASSUME CommitInv, [Next /\ Serial']_vars
             PROVE  CommitInv'
  OBVIOUS
<1>1. ExclusiveInv'
  BY ExclusiveInvNext DEF CommitInv
<1>2. CASE Operator \/ UNCHANGED vars
  <2>1. packet' = packet /\ translations' = translations /\ lease' = lease /\ work' = work
    BY <1>2 DEF Operator, vars, ledger, leases
  <2>2. QED
    BY <1>1, <2>1, CommitFrame DEF CommitInv
<1>3. QED
  BY <1>1, <1>2, DriveCommit, ExecuteCommit, EnvironmentCommit DEF Next, CommitInv

\* While ticks do not overlap, a packet gets at most one committed translation:
\* a worker whose lease was reclaimed commits nothing.
THEOREM EachPacketTranslatedOnce == SerialSpec => []TranslatedOnce
<1>1. SerialSpec => []CommitInv
  BY CommitInvInit, CommitInvNext, PTL DEF SerialSpec
<1>2. CommitInv => TranslatedOnce
  BY DEF CommitInv, CountInv, TranslatedOnce
<1>3. QED
  BY <1>1, <1>2, PTL
=============================================================================
