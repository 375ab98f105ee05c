----------------------------- MODULE RunControl -----------------------------
(***************************************************************************)
(* The runs of one document: how the operator and the system start, stop   *)
(* and retry them, and the clocks by which the budget guardrails measure   *)
(* them.  TranslateRun looks inside one run; here a run is its status, its *)
(* accounting and the number of its items in flight.                       *)
(*                                                                         *)
(* Every transition locks the run row, so it is one step.  The guardrails  *)
(* and the checks of a retry read without the lock: what they found waits  *)
(* in guard and in retrying, and may be stale when it is used.             *)
(***************************************************************************)
EXTENDS Naturals, FiniteSets, RunStates

CONSTANTS Runs,         \* rows of document_runs, of one document
          Requests,     \* API requests that may retry a run
          WallClock,    \* max_wall_clock_seconds
          NoProgress,   \* max_no_progress_seconds
          MaxFailures,  \* max_consecutive_failures
          MaxTime,      \* bound: the clock stops there
          MaxInflight,  \* bound: items in flight in a run
          NoRun, Never

ASSUME RunControlAssumption ==
  /\ WallClock \in Nat /\ NoProgress \in Nat /\ MaxFailures \in Nat
  /\ MaxTime \in Nat /\ MaxInflight \in Nat
  /\ NoRun \notin Runs /\ Never \notin Nat

VARIABLES
  now,
  status,     \* document_runs.status; "none" before the row is inserted
  started,    \* started_at
  created,    \* created_at
  account,    \* of status_detail_json: pause_accounting, last_progress, control_counters
  inflight,   \* leased and running work items
  guard,      \* the stop reason a run loop derived and has not applied yet
  retrying,   \* the run a retry request has checked and not yet replaced ...
  detail,     \* ... and the accounting it read
  worked,     \* history: time not paused since the run started or was created
  quiet,      \* history: time not paused since the run's last success, resume or start
  skewed      \* history: runs with an accounting that no longer follows their time

rows    == <<status, started, created, account>>
request == <<retrying, detail>>
history == <<worked, quiet, skewed>>
vars    == <<now, rows, inflight, guard, request, history>>

Times   == Nat \cup {Never}
Account == [pausedAt : Times, pausedTotal : Nat, resumedAt : Times, progressAt : Times,
            failures : Nat]
Reasons == {"none", "wall_clock", "no_progress", "failures"}
Fresh   == [pausedAt |-> Never, pausedTotal |-> 0, resumedAt |-> Never,
            progressAt |-> Never, failures |-> 0]

Init ==
  /\ now = 0
  /\ status = [r \in Runs |-> "none"]
  /\ started = [r \in Runs |-> Never]
  /\ created = [r \in Runs |-> 0]
  /\ account = [r \in Runs |-> Fresh]
  /\ inflight = [r \in Runs |-> 0]
  /\ guard = [r \in Runs |-> "none"]
  /\ retrying = [q \in Requests |-> NoRun]
  /\ detail = [q \in Requests |-> Fresh]
  /\ worked = [r \in Runs |-> 0]
  /\ quiet = [r \in Runs |-> 0]
  /\ skewed = {}

-----------------------------------------------------------------------------
(* Transitions.                                                            *)

ActiveRun == {"queued", "running", "draining"}

\* uq_document_runs_active_per_document: an insert or a transition that would
\* make a second run of the document active fails.
\* Mutant: a paused run counts as active when it is resumed.
MutSlotFree(r) == status[r] = "paused" \/ \A q \in Runs \ {r} : status[q] \notin ActiveRun

SlotFree(r) == \A q \in Runs \ {r} : status[q] \notin ActiveRun

Minus(a, b) == IF a > b THEN a - b ELSE 0

PausedFor(a) == IF a.pausedAt = Never THEN 0 ELSE Minus(now, a.pausedAt)

\* Mutant: a resume does not credit the pause.
MutAccounted(a, from, to) ==
  IF to = "paused" THEN [a EXCEPT !.pausedAt = now]
  ELSE IF to = "running" /\ from = "paused" THEN
    [a EXCEPT !.pausedAt = Never, !.resumedAt = now, !.failures = 0]
  ELSE a

Accounted(a, from, to) ==
  IF to = "paused" THEN [a EXCEPT !.pausedAt = now]
  ELSE IF to = "running" /\ from = "paused" THEN
    [a EXCEPT !.pausedTotal = @ + PausedFor(a), !.pausedAt = Never,
              !.resumedAt = now, !.failures = 0]
  ELSE a

\* What the transition of r to another status does to its row.
Transition(r, to) ==
  /\ to \in ActiveRun => SlotFree(r)
  /\ status' = [status EXCEPT ![r] = to]
  /\ started' = [started EXCEPT ![r] = IF to = "running" /\ @ = Never THEN now ELSE @]
  /\ account' = [account EXCEPT ![r] = Accounted(@, status[r], to)]
  /\ worked' = [worked EXCEPT ![r] = IF to = "running" /\ started[r] = Never THEN 0 ELSE @]
  /\ quiet' = [quiet EXCEPT ![r] = IF to = "running" THEN 0 ELSE @]
  /\ skewed' = IF \/ status[r] = "paused" /\ to = "draining"
                  \/ to = "paused" /\ started[r] = Never
               THEN skewed \cup {r} ELSE skewed
  /\ UNCHANGED created

From(r, allowed, to) ==
  /\ status[r] \in allowed
  /\ Transition(r, to)
  /\ UNCHANGED <<now, inflight, guard, request>>

Pause(r)  == From(r, CanPause, "paused")
Resume(r) == From(r, CanResume, "running")
Drain(r)  == From(r, CanDrain, "draining")
Cancel(r) == From(r, CanCancel, "cancelled")

\* A row inserted as QUEUED and, except by POST /runs, started in the same
\* transaction.
Row(r, a, to) ==
  /\ created' = [created EXCEPT ![r] = now]
  /\ started' = [started EXCEPT ![r] = IF to = "running" THEN now ELSE Never]
  /\ account' = [account EXCEPT ![r] = a]
  /\ UNCHANGED <<now, inflight, guard, worked, quiet>>

Insert(r, a, to) ==
  /\ status[r] = "none" /\ SlotFree(r)
  /\ status' = [status EXCEPT ![r] = to]
  /\ Row(r, a, to)

Create(r) ==
  /\ \E to \in {"queued", "running"} : Insert(r, Fresh, to)
  /\ UNCHANGED <<request, skewed>>

\* retry_run reads the row and counts the items in flight ...
CheckRetry(q, r) ==
  /\ retrying[q] = NoRun
  /\ status[r] \in {"failed", "cancelled", "paused"} /\ inflight[r] = 0
  /\ retrying' = [retrying EXCEPT ![q] = r]
  /\ detail' = [detail EXCEPT ![q] = account[r]]
  /\ UNCHANGED <<now, rows, inflight, guard, history>>

Answer(q) ==
  /\ retrying[q] # NoRun
  /\ retrying' = [retrying EXCEPT ![q] = NoRun]
  /\ detail' = [detail EXCEPT ![q] = Fresh]

\* Mutant: copies the counters only.
MutInherited(a) == [failures |-> 0]

\* The detail of the new run is that of the old one with its counters reset.
Inherited(a) == [a EXCEPT !.failures = 0]

\* ... and then inserts the new run ...
Retry(q, r) ==
  /\ Answer(q)
  /\ Insert(r, Inherited(detail[q]), "running")
  /\ skewed' = skewed \cup {r}

\* ... unless another run is active by then, or the budget is used up.
RetryRefused(q) == Answer(q) /\ UNCHANGED <<now, rows, inflight, guard, history>>

\* An active run whose stage failed and whose workers have been silent is failed
\* first, which takes its lock for the rest of the retry.
RetryStale(p, r) ==
  /\ status[p] \in ActiveRun \cap CanFail /\ inflight[p] = 0 /\ SlotFree(p)
  /\ status[r] = "none"
  /\ status' = [status EXCEPT ![p] = "failed", ![r] = "running"]
  /\ Row(r, Inherited(account[p]), "running")
  /\ skewed' = skewed \cup {r}
  /\ UNCHANGED request

-----------------------------------------------------------------------------
(* The guardrails of a run's loop.                                         *)

Later(a, b) == IF a > b THEN a ELSE b

Since(r) == IF started[r] = Never THEN created[r] ELSE started[r]

Elapsed(r) == Minus(now - Since(r), account[r].pausedTotal)

\* Mutant: the window does not restart at a resume.
MutLastProgress(r) ==
  IF account[r].progressAt = Never THEN Since(r) ELSE account[r].progressAt

LastProgress(r) ==
  LET a    == account[r]
      last == IF a.progressAt = Never THEN Since(r) ELSE a.progressAt
  IN  IF a.resumedAt = Never THEN last ELSE Later(a.resumedAt, last)

Due(r) ==
  CASE Elapsed(r) >= WallClock                -> "wall_clock"
    [] /\ Elapsed(r) < WallClock
       /\ now - LastProgress(r) >= NoProgress -> "no_progress"
    [] /\ Elapsed(r) < WallClock
       /\ now - LastProgress(r) < NoProgress
       /\ account[r].failures >= MaxFailures  -> "failures"
    [] OTHER                                  -> "none"

\* Mutant: a draining run is not guarded.
MutBeginTick(r) ==
  /\ status[r] = "running" /\ guard[r] = "none"
  /\ guard' = [guard EXCEPT ![r] = "ticking"]
  /\ UNCHANGED <<now, rows, inflight, request, history>>

\* A loop finds its run driven ...
BeginTick(r) ==
  /\ status[r] \in DrivenRun /\ guard[r] = "none"
  /\ guard' = [guard EXCEPT ![r] = "ticking"]
  /\ UNCHANGED <<now, rows, inflight, request, history>>

\* ... reads the run's accounting ...
ReadAccount(r) ==
  /\ guard[r] = "ticking"
  /\ guard' = [guard EXCEPT ![r] = Due(r)]
  /\ UNCHANGED <<now, rows, inflight, request, history>>

\* ... and stops the run, if its status still allows it.
Stops(r, allowed, to) ==
  IF status[r] \in allowed THEN Transition(r, to) ELSE UNCHANGED <<rows, history>>

ApplyGuard(r) ==
  /\ guard[r] \in {"wall_clock", "no_progress", "failures"}
  /\ IF guard[r] = "failures" THEN Stops(r, CanFail, "failed") ELSE Stops(r, CanPause, "paused")
  /\ guard' = [guard EXCEPT ![r] = "none"]
  /\ UNCHANGED <<now, inflight, request>>

-----------------------------------------------------------------------------
(* What the executor does to a run, in outline.                            *)

\* Claims are made in running runs, under the run lock.
Claim(r) ==
  /\ status[r] = "running" /\ inflight[r] < MaxInflight
  /\ inflight' = [inflight EXCEPT ![r] = @ + 1]
  /\ UNCHANGED <<now, rows, guard, request, history>>

\* A worker may finish whatever the run has become.
Succeed(r) ==
  /\ inflight[r] > 0
  /\ inflight' = [inflight EXCEPT ![r] = @ - 1]
  /\ account' = [account EXCEPT ![r] = [@ EXCEPT !.progressAt = now, !.failures = 0]]
  /\ quiet' = [quiet EXCEPT ![r] = 0]
  /\ UNCHANGED <<now, status, started, created, guard, request, worked, skewed>>

Failed(a) == [a EXCEPT !.failures = IF @ < MaxFailures THEN @ + 1 ELSE @]

Fail(r) ==
  /\ inflight[r] > 0
  /\ inflight' = [inflight EXCEPT ![r] = @ - 1]
  /\ account' = [account EXCEPT ![r] = Failed(@)]
  /\ UNCHANGED <<now, status, started, created, guard, request, history>>

\* A failure of the provider's side pauses the run in the same transaction.
FailAndPause(r) ==
  /\ inflight[r] > 0 /\ status[r] \in CanPause
  /\ inflight' = [inflight EXCEPT ![r] = @ - 1]
  /\ status' = [status EXCEPT ![r] = "paused"]
  /\ account' = [account EXCEPT ![r] = Accounted(Failed(@), status[r], "paused")]
  /\ skewed' = IF started[r] = Never THEN skewed \cup {r} ELSE skewed
  /\ UNCHANGED <<now, started, created, guard, request, worked, quiet>>

\* A lease that lapses counts neither as progress nor as a failure.
Expire(r) ==
  /\ inflight[r] > 0
  /\ inflight' = [inflight EXCEPT ![r] = @ - 1]
  /\ UNCHANGED <<now, rows, guard, request, history>>

\* The outcome of a run that has nothing in flight, decided and applied in one
\* step: TranslateRun says which outcome, and what becomes of a stale one.
Settle(r) ==
  /\ status[r] \in DrivenRun /\ inflight[r] = 0
  /\ \/ \E to \in {"succeeded", "succeeded_with_warnings"} : From(r, CanSucceed, to)
     \/ From(r, CanFail, "failed")
     \/ status[r] = "draining" /\ From(r, CanPause, "paused")

\* Time that passes counts as work unless the run is paused or has ended.
TimePasses ==
  /\ now < MaxTime
  /\ now' = now + 1
  /\ worked' = [r \in Runs |-> IF status[r] \in ActiveRun THEN worked[r] + 1 ELSE worked[r]]
  /\ quiet' = [r \in Runs |-> IF status[r] \in ActiveRun THEN quiet[r] + 1 ELSE quiet[r]]
  /\ UNCHANGED <<rows, inflight, guard, request, skewed>>

-----------------------------------------------------------------------------
Operator(r) == Create(r) \/ Pause(r) \/ Resume(r) \/ Drain(r) \/ Cancel(r)

Loop(r) == BeginTick(r) \/ ReadAccount(r) \/ ApplyGuard(r)

Execute(r) == Claim(r) \/ Succeed(r) \/ Fail(r) \/ FailAndPause(r) \/ Expire(r) \/ Settle(r)

Next ==
  \/ \E r \in Runs : Operator(r) \/ Loop(r) \/ Execute(r)
  \/ \E q \in Requests : RetryRefused(q) \/ \E r \in Runs : CheckRetry(q, r) \/ Retry(q, r)
  \/ \E p, r \in Runs : RetryStale(p, r)
  \/ TimePasses

Spec == Init /\ [][Next]_vars

\* The loop of a driven run keeps ticking.
FairSpec == Spec /\ \A r \in Runs : WF_vars(Loop(r))

-----------------------------------------------------------------------------
(* Properties.                                                             *)

\* Every variable has its type.
TypeOK ==
  /\ now \in Nat
  /\ status \in [Runs -> RunStatuses \cup {"none"}]
  /\ started \in [Runs -> Times] /\ created \in [Runs -> Nat]
  /\ account \in [Runs -> Account]
  /\ inflight \in [Runs -> Nat]
  /\ guard \in [Runs -> Reasons \cup {"ticking"}]
  /\ retrying \in [Requests -> Runs \cup {NoRun}]
  /\ detail \in [Requests -> Account]
  /\ worked \in [Runs -> Nat] /\ quiet \in [Runs -> Nat]
  /\ skewed \subseteq Runs

\* The wall clock of an active run that was started before it was first paused,
\* resumed from its pauses and is no retry measures its work and nothing else
\* (enforce_budget_guardrails, _apply_pause_accounting).
ClockMeasuresWork ==
  \A r \in Runs \ skewed : status[r] \in ActiveRun => Elapsed(r) = worked[r]

\* Such a run is stopped by a clock only when it is due: it worked as long as its
\* budget allows, or was active for the whole window since its last success,
\* resume or start.
GuardIsDue ==
  [][\A r \in Runs \ skewed : status[r] \in ActiveRun /\ guard'[r] # guard[r] =>
       /\ guard'[r] = "wall_clock" => worked[r] >= WallClock
       /\ guard'[r] = "no_progress" => quiet[r] >= NoProgress]_vars

\* A driven run does not go on for ever on a spent budget, whatever happens between
\* the read of its accounting and the transition.
SpentRunStops ==
  \A r \in Runs :
    (status[r] \in DrivenRun /\ worked[r] >= WallClock /\ r \notin skewed)
      ~> status[r] \notin DrivenRun

\* At most one run of the document takes on work: while a run is active no other
\* claims an item, whatever a retry or a resume found before it wrote
\* (uq_document_runs_active_per_document).
OneRunTakesWork ==
  [][\A r, q \in Runs : r # q /\ status[q] \in ActiveRun => inflight'[r] <= inflight[r]]_vars
=============================================================================
