---------------------------- MODULE TranslateRun ----------------------------
(***************************************************************************)
(* One TRANSLATE_TARGETED run: the ledger of its work items, the leases    *)
(* that hand them to worker threads, the worker threads themselves and the *)
(* drivers (run loops and supervisor sweeps of executor instances) that    *)
(* reclaim leases, seed and claim items and settle the run.                *)
(*                                                                         *)
(* A step is a database transaction, or the part of one between a plain    *)
(* read and the row lock after which the transaction writes: PostgreSQL    *)
(* runs at READ COMMITTED, so what a driver read before it takes the run   *)
(* lock may be stale when it writes, and is kept in seen, view and verdict.*)
(* Time is not counted: a lease whose expiry has passed is in lapsed, an   *)
(* item whose retry delay has not passed is in backoff.                    *)
(***************************************************************************)
EXTENDS Naturals, FiniteSets, Functions, RunStates

CONSTANTS Packets,      \* packets of the run; each has at most one translate item
          Chapter,      \* the chapter of a packet
          Ordinal,      \* the position of a packet in its chapter
          Tokens,       \* lease tokens; a claim takes one nobody refers to any more
          Drivers,      \* threads that reclaim, seed, claim and settle
          MaxAttempts,  \* max_retry_count_per_work_item, or its default
          MaxParallel,  \* max_parallel_workers, or its default
          MaxFaults,    \* bound: crashes, stalls and unrecorded failures
          NoPacket, NoOwner, Gone

ASSUME TranslateRunAssumption ==
  /\ IsFiniteSet(Packets)
  /\ Chapter \in [Packets -> Packets]   \* a chapter is named by one of its packets
  /\ Ordinal \in [Packets -> Nat]
  /\ \A p, q \in Packets : Chapter[p] = Chapter[q] /\ Ordinal[p] = Ordinal[q] => p = q
  /\ MaxAttempts \in Nat
  /\ MaxParallel \in Nat \ {0}
  /\ MaxFaults \in Nat
  /\ NoPacket \notin Packets \cup Tokens
  /\ NoOwner \notin Drivers /\ Gone \notin Drivers /\ NoOwner # Gone

VARIABLES
  run,           \* document_runs.status
  item,          \* work_items.status by packet; "none" before it is seeded
  attempt,       \* work_items.attempt, saturating where the cap stops telling values apart
  backoff,       \* items whose last failure set retry_backoff and whose delay runs
  packet,        \* translation_packets.status
  translations,  \* committed translation_runs of a packet: 0, 1, or 2 for several
  lease,         \* the packet an ACTIVE worker_leases row covers, NoPacket otherwise
  lapsed,        \* ACTIVE leases whose lease_expires_at has passed
  work,          \* the thread of a token: [phase, packet, driver]
  owner,         \* document_runs.executor_owner
  pc,            \* where a driver is in its tick
  seen,          \* lapsed leases a driver listed before it took the run lock
  view,          \* the item and packet rows a driver read in this tick
  verdict,       \* the transition a driver derived from the evidence it read
  faults

ledger  == <<item, attempt, backoff, packet, translations>>
leases  == <<lease, lapsed>>
drivers == <<owner, pc, seen, view, verdict>>
vars    == <<run, ledger, leases, work, drivers, faults>>

Phases    == {"idle", "claimed", "running", "calling", "answered", "done",
              "retry", "pause", "fatal"}
Failing   == {"retry", "pause", "fatal"}       \* classify_failure's dispositions
Threads   == [phase : Phases, packet : Packets \cup {NoPacket}, driver : Drivers \cup {NoOwner}]
Steps     == {"idle", "expire", "sweep", "scan", "write", "settle", "apply"}
Verdicts  == {"none", "paused", "failed", "succeeded"}
IdleWork  == [phase |-> "idle", packet |-> NoPacket, driver |-> NoOwner]
EmptyView == [item |-> [p \in Packets |-> "none"], built |-> {}, delayed |-> {}]

Init ==
  /\ run = "queued"
  /\ item = [p \in Packets |-> "none"]
  /\ attempt = [p \in Packets |-> 1]
  /\ backoff = {}
  /\ packet = [p \in Packets |-> "built"]
  /\ translations = [p \in Packets |-> 0]
  /\ lease = [t \in Tokens |-> NoPacket]
  /\ lapsed = {}
  /\ work = [t \in Tokens |-> IdleWork]
  /\ owner = NoOwner
  /\ pc = [d \in Drivers |-> "idle"]
  /\ seen = [d \in Drivers |-> {}]
  /\ view = [d \in Drivers |-> EmptyView]
  /\ verdict = [d \in Drivers |-> "none"]
  /\ faults = 0

-----------------------------------------------------------------------------
(* Evidence: what the run may become, read from items and packets.         *)

Inflight(it) == \E p \in Packets : it[p] \in Owned

TranslateFailed(it) == \E p \in Packets : it[p] = "terminal_failed"

\* Mutant: counts finished items only, and forgets packets not seeded yet.
MutSucceededByItems(it, pk) ==
  /\ \E p \in Packets : it[p] = "succeeded"
  /\ \A p \in Packets : it[p] \in {"none", "cancelled", "succeeded"}

TranslateSucceeded(it, pk) ==
  /\ Packets # {}
  /\ \A p \in Packets : pk[p] = "translated"
  /\ \A p \in Packets : it[p] \in {"none", "cancelled", "succeeded"}

VerdictOf(r, it, bo, pk) ==
  IF r \in TerminalRun \cup {"paused"} \/ Inflight(it) THEN "none"
  ELSE IF r = "draining" /\ \E p \in Packets \ bo : it[p] \in Claimable THEN "paused"
  ELSE IF TranslateFailed(it) THEN "failed"
  ELSE IF TranslateSucceeded(it, pk) THEN "succeeded"
  ELSE "none"

\* Mutant: writes the verdict without comparing the status.
MutTransition(v, r) == IF v = "none" THEN r ELSE v

\* The transition itself re-reads the status under the run lock.
Transition(v, r) ==
  CASE v = "paused"    -> PausedBySystem(r)
    [] v = "failed"    -> FailedBySystem(r)
    [] v = "succeeded" -> SucceededBySystem(r)
    [] OTHER           -> r

\* A budget may pause the run, or fail it on consecutive failures.
Guardrail(r) == {r, PausedBySystem(r), FailedBySystem(r)}

-----------------------------------------------------------------------------
(* The operator, through the API.                                          *)

Resume == run \in CanResume /\ run' = "running"
Pause  == run \in CanPause  /\ run' = "paused"
Drain  == run \in CanDrain  /\ run' = "draining"
Cancel == run \in CanCancel /\ run' = "cancelled"

Operator ==
  /\ Resume \/ Pause \/ Drain \/ Cancel
  /\ UNCHANGED <<ledger, leases, work, drivers, faults>>

-----------------------------------------------------------------------------
(* A driver: reclaim, seed and claim, settle.                              *)

\* A run loop renews its ownership of the run before every tick, and the run
\* belongs to one executor instance at a time until that ownership expires.
Tick(d) ==
  /\ pc[d] = "idle" /\ run \in DrivenRun /\ owner \in {NoOwner, d}
  /\ owner' = d
  /\ seen' = [seen EXCEPT ![d] = {<<t, lease[t]>> : t \in lapsed}]
  /\ pc' = [pc EXCEPT ![d] = IF lapsed = {} THEN "scan" ELSE "expire"]
  /\ UNCHANGED <<run, ledger, leases, work, view, verdict, faults>>

\* Mutant: sweeps paused runs, and forgets the finished ones.
MutSweepPaused(d) ==
  /\ pc[d] = "idle" /\ run = "paused" /\ lapsed # {}
  /\ seen' = [seen EXCEPT ![d] = {<<t, lease[t]>> : t \in lapsed}]
  /\ pc' = [pc EXCEPT ![d] = "sweep"]
  /\ UNCHANGED <<run, ledger, leases, work, owner, view, verdict, faults>>

\* The supervisor of any instance sweeps the leases of a run nobody drives.
Sweep(d) ==
  /\ pc[d] = "idle" /\ run \notin DrivenRun /\ lapsed # {}
  /\ seen' = [seen EXCEPT ![d] = {<<t, lease[t]>> : t \in lapsed}]
  /\ pc' = [pc EXCEPT ![d] = "sweep"]
  /\ UNCHANGED <<run, ledger, leases, work, owner, view, verdict, faults>>

\* Closing the listed leases and handing back the items F; the mutants below
\* are two ways to get one of the two wrong.
Expire(d, F, listed) ==
  /\ pc[d] \in {"expire", "sweep"}
  /\ item' = [p \in Packets |-> IF p \in F THEN "retryable_failed" ELSE item[p]]
  /\ lease' = [t \in Tokens |-> IF t \in listed THEN NoPacket ELSE lease[t]]
  /\ lapsed' = lapsed \ listed
  /\ seen' = [seen EXCEPT ![d] = {}]
  /\ pc' = [pc EXCEPT ![d] = IF pc[d] = "expire" THEN "scan" ELSE "idle"]
  /\ UNCHANGED <<run, attempt, backoff, packet, translations, work, owner, view,
                 verdict, faults>>

Listed(d)      == {e[1] : e \in seen[d]}
ListedItems(d) == {p \in Packets : \E t \in Tokens : <<t, p>> \in seen[d]}

\* Mutants: leaves the lease open; ignores that the item was settled meanwhile.
MutLeaseStaysOpen(d) == Expire(d, {p \in ListedItems(d) : item[p] \in Owned}, {})
MutExpireBlind(d)    == Expire(d, ListedItems(d), Listed(d))

\* Holding the run lock.  The listed lease rows are not read again, and the
\* guard on the item does not ask which lease owns it.
ExpireLeases(d) == Expire(d, {p \in ListedItems(d) : item[p] \in Owned}, Listed(d))

GuardrailStops(d) ==
  /\ pc[d] = "scan"
  /\ run' \in {PausedBySystem(run), FailedBySystem(run)}
  /\ pc' = [pc EXCEPT ![d] = "idle"]
  /\ UNCHANGED <<ledger, leases, work, owner, seen, view, verdict, faults>>

ReadLedger(d) ==
  /\ pc[d] = "scan"
  /\ view' = [view EXCEPT ![d] = [item    |-> item,
                                  built   |-> {p \in Packets : packet[p] = "built"},
                                  delayed |-> backoff]]
  /\ pc' = [pc EXCEPT ![d] = "write"]
  /\ UNCHANGED <<run, ledger, leases, work, owner, seen, verdict, faults>>

SameChapter(p) == {q \in Packets : Chapter[q] = Chapter[p]}

\* Mutant: no order within a chapter.
MutNoOrder(S) == S

\* S holds no packet of p's chapter that comes before p.
Heads(S) == {p \in S : \A q \in S \cap SameChapter(p) : Ordinal[p] <= Ordinal[q]}

\* Claimable items of packets that are translated already.
Obsolete(v) == {p \in Packets \ v.built : v.item[p] \in Claimable}

\* The rows of the session after the reconcile pass.  A query that is repeated
\* brings rows the session did not hold, and leaves the others as they were read.
Reconciled(v) ==
  [p \in Packets |-> IF p \in Obsolete(v) THEN "cancelled"
                     ELSE IF v.item[p] = "none" /\ Obsolete(v) # {} THEN item[p]
                     ELSE v.item[p]]

\* One packet per chapter, from chapters without a live item.
Frontier(rows) ==
  Heads({p \in Packets : /\ packet[p] = "built"
                         /\ rows[p] \in {"none", "cancelled"}
                         /\ \A q \in SameChapter(p) : rows[q] \notin Claimable \cup Owned})

\* Seeding skips every packet that has an item in any status.
SeededRows(rows) ==
  [p \in Packets |-> IF p \in Frontier(rows) /\ item[p] = "none" THEN "pending"
                     ELSE IF rows[p] = "none" /\ Frontier(rows) # {} THEN item[p]
                     ELSE rows[p]]

ActiveRows(rows) == {p \in Packets : rows[p] \notin {"none", "cancelled"}}

Seeds(rows) ==
  {p \in Packets : /\ item[p] = "none" /\ packet[p] = "built"
                   /\ p \in Frontier(rows) \/ ActiveRows(SeededRows(rows)) = {}}

\* The items the claim statement accepts: the head of every chapter with no
\* owned item, unless an item failed for good, the run stopped or a delay runs.
\* rows is what the session holds, item what the statement compares.
Claims(rows, delayed) ==
  {p \in Heads({q \in Packets : rows[q] \in Claimable}) :
     /\ run \in {"queued", "running"}
     /\ \A q \in Packets : rows[q] # "terminal_failed"
     /\ \A q \in SameChapter(p) : rows[q] \notin Owned
     /\ p \notin delayed \cap backoff
     /\ item[p] \in Claimable \cup {"none"}}   \* "none": seeded by this step

\* Mutant: forgets what is in flight already.
MutAllSlots(rows) == MaxParallel

Slots(rows) == LET busy == Cardinality({p \in Packets : rows[p] \in Owned})
               IN  IF busy < MaxParallel THEN MaxParallel - busy ELSE 0

FreeTokens == {t \in Tokens : /\ lease[t] = NoPacket /\ work[t].phase = "idle"
                              /\ \A d \in Drivers : \A e \in seen[d] : e[1] # t}

\* This instance starts no second thread for an item while one is alive.
BusyThread(d, p) ==
  \E t \in Tokens : work[t].phase # "idle" /\ work[t].packet = p /\ work[t].driver = d

\* Reconcile, seed and claim the items C for the tokens T, paired by g.
\* Cancelling writes the rows as they were read; seeding and claiming hold the
\* run lock.
SeedAndClaim(d, C, T, g) ==
  LET rows   == Reconciled(view[d])
      active == ActiveRows(SeededRows(rows))
  IN  /\ item' = [p \in Packets |-> IF p \in C THEN "leased"
                                    ELSE IF p \in Obsolete(view[d]) THEN "cancelled"
                                    ELSE IF p \in Seeds(rows) THEN "pending"
                                    ELSE item[p]]
      /\ attempt' = [p \in Packets |->
                       IF p \in C /\ item[p] = "retryable_failed" /\ attempt[p] < MaxAttempts
                       THEN attempt[p] + 1 ELSE attempt[p]]
      /\ backoff' = backoff \ C
      /\ lease' = [t \in Tokens |-> IF t \in T THEN g[t] ELSE lease[t]]
      /\ work' = [t \in Tokens |->
                    IF t \in T /\ ~BusyThread(d, g[t])
                    THEN [phase |-> "claimed", packet |-> g[t], driver |-> d]
                    ELSE work[t]]
      /\ pc' = [pc EXCEPT ![d] =
                  IF C # {} \/ (active = {} /\ \E p \in Packets : packet[p] = "built")
                  THEN "idle" ELSE "settle"]

WriteLedger(d) ==
  LET rows  == SeededRows(Reconciled(view[d]))
      ready == Claims(rows, view[d].delayed)
  IN  /\ pc[d] = "write"
      /\ \E C \in SUBSET ready, T \in SUBSET FreeTokens :
           /\ Cardinality(C) = Cardinality(T) /\ Cardinality(C) <= Slots(rows)
           /\ C = ready \/ Cardinality(C) = Slots(rows)
           /\ \E g \in Bijection(T, C) : SeedAndClaim(d, C, T, g)
      /\ view' = [view EXCEPT ![d] = EmptyView]
      /\ UNCHANGED <<run, packet, translations, lapsed, owner, seen, verdict, faults>>

\* reconcile_run_terminal_state decides without a lock ...
EvaluateStages(d) ==
  LET v == VerdictOf(run, item, backoff, packet)
  IN  /\ pc[d] = "settle"
      /\ verdict' = [verdict EXCEPT ![d] = v]
      /\ pc' = [pc EXCEPT ![d] = IF v = "none" THEN "idle" ELSE "apply"]
      /\ UNCHANGED <<run, ledger, leases, work, owner, seen, view, faults>>

\* ... and the transition checks nothing but the status it then finds.
ApplyVerdict(d) ==
  /\ pc[d] = "apply"
  /\ run' = Transition(verdict[d], run)
  /\ verdict' = [verdict EXCEPT ![d] = "none"]
  /\ pc' = [pc EXCEPT ![d] = "idle"]
  /\ UNCHANGED <<ledger, leases, work, owner, seen, view, faults>>

-----------------------------------------------------------------------------
(* A work thread: start, prepare, call, persist, complete; three            *)
(* transactions and a provider call that no transaction covers.             *)

Held(t) == lease[t] # NoPacket

GoTo(t, phase) == work' = [work EXCEPT ![t].phase = phase]
Ends(t)        == work' = [work EXCEPT ![t] = IdleWork]

\* The lease is gone: nothing is recorded.
Discards(t) ==
  /\ ~Held(t) /\ Ends(t)
  /\ UNCHANGED <<run, ledger, leases, drivers, faults>>

\* Mutants: releases only an item that was started; leaves the lease lapsed.
MutReleaseStarted(t, status, it) ==
  /\ item' = [it EXCEPT ![lease[t]] = IF @ = "running" THEN status ELSE @]
  /\ lease' = [lease EXCEPT ![t] = NoPacket]
  /\ lapsed' = lapsed \ {t}

MutReleaseLapsed(t, status, it) ==
  /\ item' = [it EXCEPT ![lease[t]] = IF @ \in Owned THEN status ELSE @]
  /\ lease' = [lease EXCEPT ![t] = NoPacket]
  /\ UNCHANGED lapsed

Release(t, status, it) ==
  /\ item' = [it EXCEPT ![lease[t]] = IF @ \in Owned THEN status ELSE @]
  /\ lease' = [lease EXCEPT ![t] = NoPacket]
  /\ lapsed' = lapsed \ {t}

Start(t) ==
  /\ work[t].phase = "claimed" /\ Held(t)
  /\ item' = [item EXCEPT ![lease[t]] = IF @ = "leased" THEN "running" ELSE @]
  /\ lapsed' = lapsed \ {t}
  /\ GoTo(t, "running")
  /\ UNCHANGED <<run, attempt, backoff, packet, translations, lease, drivers, faults>>

StartLost(t) == work[t].phase = "claimed" /\ Discards(t)

\* A packet that is no longer BUILT is reported as translated, without a call.
Prepare(t) ==
  /\ work[t].phase = "running"
  /\ GoTo(t, IF packet[work[t].packet] = "built" THEN "calling" ELSE "done")
  /\ UNCHANGED <<run, ledger, leases, drivers, faults>>

CallReturns(t) ==
  /\ work[t].phase = "calling"
  /\ GoTo(t, "answered")
  /\ UNCHANGED <<run, ledger, leases, drivers, faults>>

\* Any step may raise; classify_failure names the disposition, and only the
\* provider side raises what pauses a run.
StepError(t) ==
  /\ work[t].phase \in {"claimed", "running", "calling", "answered", "done"}
  /\ \E f \in Failing :
       /\ f = "pause" => work[t].phase \in {"running", "calling", "answered"}
       /\ GoTo(t, f)
  /\ UNCHANGED <<run, ledger, leases, drivers, faults>>

\* The translation of p is in the ledger.
Commits(p) ==
  /\ packet' = [packet EXCEPT ![p] = "translated"]
  /\ translations' = [translations EXCEPT ![p] = IF @ < 2 THEN @ + 1 ELSE @]

\* Mutants: does not look for the lease; loses the result.
MutPersistUnlocked(t) ==
  /\ work[t].phase = "answered"
  /\ Commits(work[t].packet)
  /\ GoTo(t, "done")
  /\ UNCHANGED <<run, item, attempt, backoff, leases, drivers, faults>>
MutPersistNothing(t) ==
  /\ work[t].phase = "answered" /\ Held(t)
  /\ GoTo(t, "done")
  /\ UNCHANGED <<run, ledger, leases, drivers, faults>>

\* The result is committed under the lock of the lease row.
Persist(t) ==
  /\ work[t].phase = "answered" /\ Held(t)
  /\ Commits(work[t].packet)
  /\ GoTo(t, "done")
  /\ UNCHANGED <<run, item, attempt, backoff, leases, drivers, faults>>

PersistLost(t) == work[t].phase = "answered" /\ Discards(t)

CompleteSuccess(t) ==
  /\ work[t].phase = "done" /\ Held(t)
  /\ Release(t, "succeeded", item)
  /\ run' \in Guardrail(run)
  /\ Ends(t)
  /\ UNCHANGED <<attempt, backoff, packet, translations, drivers, faults>>

CompleteLost(t) == work[t].phase \in {"done"} \cup Failing /\ Discards(t)

\* A failed thread settles its item, and the run in the same transaction.
Fails(t, again) ==
  LET f == work[t].phase
      p == lease[t]
  IN  /\ f \in Failing /\ Held(t)
      /\ Release(t, IF again THEN "retryable_failed" ELSE "terminal_failed", item)
      /\ backoff' = IF f = "retry" /\ again /\ item[p] \in Owned THEN backoff \cup {p} ELSE backoff
      /\ run' = IF f = "pause" THEN PausedBySystem(run)
                ELSE Transition(VerdictOf(run, item', backoff', packet), run)
      /\ Ends(t)
      /\ UNCHANGED <<attempt, packet, translations, drivers, faults>>

\* Mutant: retries without a cap.
MutRetryForever(t) == Fails(t, work[t].phase # "fatal")

\* A failure that pauses the run spends no retry.
CompleteFailure(t) ==
  Fails(t, \/ work[t].phase = "pause"
           \/ work[t].phase = "retry" /\ attempt[lease[t]] < MaxAttempts)

Heartbeat(t) ==
  /\ work[t].phase \in {"running", "calling", "answered"}
  /\ t \in lapsed /\ item[lease[t]] \in Owned
  /\ lapsed' = lapsed \ {t}
  /\ UNCHANGED <<run, ledger, lease, work, drivers, faults>>

-----------------------------------------------------------------------------
(* Time and failures.                                                      *)

Fault == faults < MaxFaults /\ faults' = faults + 1

\* Heartbeats renew the lease of a live thread, so only a fault lets it lapse.
Lapse(t) ==
  /\ Held(t) /\ t \notin lapsed
  /\ lapsed' = lapsed \cup {t}
  /\ IF work[t].phase = "idle" THEN UNCHANGED faults ELSE Fault
  /\ UNCHANGED <<run, ledger, lease, work, drivers>>

BackoffElapses(p) ==
  /\ p \in backoff
  /\ backoff' = backoff \ {p}
  /\ UNCHANGED <<run, item, attempt, packet, translations, leases, work, drivers, faults>>

\* Recording the failure failed, the executor stopped before the thread of a
\* committed claim was started, or its process exits under a thread that
\* lingers: the lease stays until it expires.
Abandon(t) ==
  /\ \/ work[t].phase \in Failing \cup {"claimed"}
     \/ work[t].phase # "idle" /\ work[t].driver = NoOwner
  /\ Fault /\ Ends(t)
  /\ UNCHANGED <<run, ledger, leases, drivers>>

\* The process of a driver dies with its threads.
Crash(d) ==
  /\ pc[d] # "idle" \/ owner = d \/ \E t \in Tokens : work[t].driver = d
  /\ Fault
  /\ work' = [t \in Tokens |-> IF work[t].driver = d THEN IdleWork ELSE work[t]]
  /\ owner' = IF owner = d THEN Gone ELSE owner
  /\ pc' = [pc EXCEPT ![d] = "idle"]
  /\ seen' = [seen EXCEPT ![d] = {}]
  /\ view' = [view EXCEPT ![d] = EmptyView]
  /\ verdict' = [verdict EXCEPT ![d] = "none"]
  /\ UNCHANGED <<run, ledger, leases>>

\* A tick raises: a database error ends it, anything else fails the run too.
Aborts(d) ==
  /\ pc[d] # "idle"
  /\ Fault
  /\ run' \in {run} \cup (IF pc[d] = "sweep" THEN {} ELSE {FailedBySystem(run)})
  /\ pc' = [pc EXCEPT ![d] = "idle"]
  /\ seen' = [seen EXCEPT ![d] = {}]
  /\ view' = [view EXCEPT ![d] = EmptyView]
  /\ verdict' = [verdict EXCEPT ![d] = "none"]
  /\ UNCHANGED <<ledger, leases, work, owner>>

\* stop() waits for the tick and hands the run over.  Work threads may linger,
\* and no executor started later knows of them.  A tick that outlives the wait
\* is a stalled one: OwnershipExpires.
Stop(d) ==
  /\ owner = d /\ pc[d] = "idle"
  /\ owner' = NoOwner
  /\ work' = [t \in Tokens |-> IF work[t].driver = d THEN [work[t] EXCEPT !.driver = NoOwner]
                              ELSE work[t]]
  /\ UNCHANGED <<run, ledger, leases, pc, seen, view, verdict, faults>>

\* Nobody renews the ownership of a run that is not driven; a driver that is
\* alive loses it by stalling for its whole lifetime.
OwnershipExpires ==
  /\ owner # NoOwner
  /\ owner' = NoOwner
  /\ IF owner = Gone \/ run \notin DrivenRun THEN UNCHANGED faults ELSE Fault
  /\ UNCHANGED <<run, ledger, leases, work, pc, seen, view, verdict>>

-----------------------------------------------------------------------------
Drive(d) == \/ Tick(d) \/ Sweep(d) \/ ExpireLeases(d) \/ GuardrailStops(d)
            \/ ReadLedger(d) \/ WriteLedger(d) \/ EvaluateStages(d) \/ ApplyVerdict(d)

Execute(t) == \/ Start(t) \/ StartLost(t) \/ Prepare(t) \/ CallReturns(t) \/ StepError(t)
              \/ Persist(t) \/ PersistLost(t) \/ CompleteSuccess(t) \/ CompleteFailure(t)
              \/ CompleteLost(t)

Environment == \/ \E t \in Tokens : Heartbeat(t) \/ Lapse(t) \/ Abandon(t)
               \/ \E p \in Packets : BackoffElapses(p)
               \/ \E d \in Drivers : Crash(d) \/ Aborts(d) \/ Stop(d)
               \/ OwnershipExpires

Next == \/ Operator
        \/ \E d \in Drivers : Drive(d)
        \/ \E t \in Tokens : Execute(t)
        \/ Environment

Spec == Init /\ [][Next]_vars

\* One driver at a time is in a tick: a new owner starts after the ticks of the
\* last one, whose threads may still run.
Serial == \A d, e \in Drivers : pc[d] # "idle" /\ pc[e] # "idle" => d = e

SerialSpec == Init /\ [][Next /\ Serial']_vars

\* A run loop ticks, a thread runs, a delay and the lease of a dead thread
\* elapse.  Nothing is assumed of the operator, of heartbeats or of failures.
Fairness ==
  /\ \A d \in Drivers : WF_vars(Drive(d))
  /\ \A t \in Tokens : /\ WF_vars(Execute(t))
                       /\ WF_vars(work[t].phase = "idle" /\ Lapse(t))
  /\ \A p \in Packets : WF_vars(BackoffElapses(p))
  /\ WF_vars(owner = Gone /\ OwnershipExpires)

FairSpec == Spec /\ Fairness

-----------------------------------------------------------------------------
(* Properties.  Those of the first group are properties of Spec, whatever    *)
(* the drivers do; those of the second are properties of SerialSpec.        *)

\* Every variable has its type.
TypeOK ==
  /\ run \in RunStatuses
  /\ item \in [Packets -> ItemStatuses \cup {"none"}]
  /\ attempt \in [Packets -> Nat]
  /\ backoff \subseteq Packets
  /\ packet \in [Packets -> {"built", "translated"}]
  /\ translations \in [Packets -> 0..2]
  /\ lease \in [Tokens -> Packets \cup {NoPacket}]
  /\ lapsed \subseteq {t \in Tokens : lease[t] # NoPacket}
  /\ work \in [Tokens -> Threads]
  /\ owner \in Drivers \cup {NoOwner, Gone}
  /\ pc \in [Drivers -> Steps]
  /\ seen \in [Drivers -> SUBSET (Tokens \X Packets)]
  /\ view \in [Drivers -> [item : [Packets -> ItemStatuses \cup {"none"}],
                           built : SUBSET Packets, delayed : SUBSET Packets]]
  /\ verdict \in [Drivers -> Verdicts]
  /\ faults \in Nat

\* A succeeded work item stands for a committed translation: no completion is
\* recorded by a thread whose result was discarded (complete_translate_success).
SucceededMeansTranslated ==
  \A p \in Packets : item[p] = "succeeded" => packet[p] = "translated"

\* A run that succeeded left no packet to translate and no item that a worker
\* owns or could claim, whatever the evidence missed between the unlocked read
\* and the transition (reconcile_run_terminal_state).
SucceededRunIsDone ==
  run = "succeeded" => \A p \in Packets : /\ packet[p] = "translated"
                                          /\ item[p] \notin Owned \cup Claimable

\* No step brings a finished run back: guardrails, stale verdicts, late failures
\* and the operator all compare the status under the run lock (_transition).
TerminalRunStays == [][(run \in TerminalRun) => run' = run]_vars

\* Chapters are translated in order and by one worker at a time, so that a packet
\* sees its predecessors translated (_plan_translate_frontier).
ChapterOrder ==
  \A p \in Packets : \A q \in SameChapter(p) :
    /\ packet[p] = "translated" /\ Ordinal[q] < Ordinal[p] => packet[q] = "translated"
    /\ {item[p], item[q]} \subseteq Owned => p = q

\* An owned item has an ACTIVE lease: with none no reaper would ever find it, and
\* the item, its chapter and the run would hang (expire_lease, release_work_item).
OwnedItemIsLeased == \A p \in Packets : item[p] \in Owned => \E t \in Tokens : lease[t] = p

\* An ACTIVE lease covers an item that is owned, and no other lease covers it: a
\* reclaim "waits for the commit instead of handing the work item to another
\* worker mid-write" (lock_active_lease).
ExclusiveLease ==
  \A t \in Tokens : lease[t] # NoPacket =>
    /\ item[lease[t]] \in Owned
    /\ \A u \in Tokens : lease[u] = lease[t] => u = t

\* "A worker whose lease is reclaimed mid-execution must not commit its results"
\* (tests/test_executor_lease_loss.py): a packet gets one committed translation.
TranslatedOnce == \A p \in Packets : translations[p] <= 1

\* No more items are owned than the run may have workers (max_parallel_workers).
ParallelLimit == Cardinality({p \in Packets : item[p] \in Owned}) <= MaxParallel

\* An outcome is final: a reclaim that lost the race against a completion, or a
\* completion that lost it against a reclaim, never rewrites a settled item.
SettledItemStays == [][\A p \in Packets : item[p] \in Settled => item'[p] = item[p]]_vars

\* An owned item is released, whether its thread finishes, fails, dies or loses
\* its lease, and whatever becomes of the run meanwhile.
OwnedItemIsReleased == \A p \in Packets : item[p] \in Owned ~> item[p] \notin Owned

\* A driven run comes to rest: every packet is translated, an item fails for
\* good, or the run is paused, drained or cancelled.
DrivenRunRests == run \in DrivenRun ~> run \notin DrivenRun

\* What the leases promise: a packet changes hands only by being free in between
\* and its holder commits it, once.
HolderOf(p) == IF \E t \in Tokens : lease[t] = p THEN CHOOSE t \in Tokens : lease[t] = p ELSE NoPacket
Promise == INSTANCE LeasedTranslation WITH
             NoHolder <- NoPacket,
             holder <- [p \in Packets |-> HolderOf(p)],
             done <- {p \in Packets : packet[p] = "translated"}
KeepsPromise == Promise!Spec
=============================================================================
