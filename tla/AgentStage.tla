------------------------------ MODULE AgentStage ------------------------------
(***************************************************************************)
(* One agent stage of a run: its work items, the agent turns they drive,   *)
(* the tool calls of a turn, the approvals people decide, and the threads  *)
(* that run the turn between them.                                         *)
(*                                                                         *)
(* A step is one transaction of the kernel or of the executor; between     *)
(* them the model is sampled with no transaction open.  A decision reads   *)
(* its approval before it locks the turn, so it is two steps.  Leases are  *)
(* reclaimed in one step: TranslateRun is about what can happen inside it. *)
(* At most one item of the stage is unsettled, and item is that one.       *)
(***************************************************************************)
EXTENDS Naturals, FiniteSets, Sequences, RunStates

CONSTANTS Calls,          \* tool calls the model may ask for in a turn
          Irreversible,   \* those whose tool needs a person's approval
          Workers,        \* threads, each with a lease of its own
          People,         \* who decide approvals
          MaxSteps,       \* max_steps of a new turn's budget
          MaxAttempts,    \* max_retry_count_per_work_item, or its default
          MaxExtensions,  \* bound: budget extensions granted to a turn
          MaxFaults,      \* bound: lost leases, crashes, pauses and resumes
          Nothing

ASSUME AgentStageAssumption ==
  /\ Irreversible \subseteq Calls
  /\ Calls \cap Nat = {} /\ Nothing \notin Calls
  /\ MaxSteps \in Nat \ {0} /\ MaxAttempts \in Nat \ {0}
  /\ MaxExtensions \in Nat /\ MaxFaults \in Nat

VARIABLES
  run,        \* document_runs.status
  advisory,   \* the stage's agent is one of ADVISORY_AGENT_KINDS; never changes
  item,       \* the latest work item: [status, attempt, turn]; turn is resume_turn_id or 0
  delayed,    \* its retry_backoff runs
  degraded,   \* an item of the stage succeeded with degraded = True
  lease,      \* threads whose lease is ACTIVE
  worker,     \* a thread: [phase, turn]
  opened,     \* the number of turns opened; the latest turn is the last one
  turn,       \* agent_turns: [status, steps, allowed]
  approval,   \* approvals.status of an irreversible call
  extension,  \* approvals.status of the budget extensions of a turn, in order
  result,     \* TOOL_RESULT items of a call; "again" stands for a second one
  deciding,   \* the approval a person read as pending and is deciding: [turn, what]
  faults

items  == <<item, delayed, degraded, advisory>>
books  == <<approval, extension, result>>
vars   == <<run, items, lease, worker, opened, turn, books, deciding, faults>>

Turns == 1..(MaxFaults + 1)    \* every turn but the first replaces one lost to a fault

TurnStatuses == {"none", "running", "awaiting_approval", "paused", "succeeded",
                 "failed", "cancelled"}
Phases    == {"idle", "claimed", "prepare", "sample", "done", "failing", "broken"}
IdleThread == [phase |-> "idle", turn |-> 0]
NoItem     == [status |-> "none", attempt |-> 1, turn |-> 0]
NoTurn     == [status |-> "none", steps |-> 0, allowed |-> MaxSteps]

Init ==
  /\ run = "running"
  /\ advisory \in BOOLEAN
  /\ item = NoItem
  /\ delayed = FALSE
  /\ degraded = FALSE
  /\ lease = {}
  /\ worker = [w \in Workers |-> IdleThread]
  /\ opened = 0
  /\ turn = [t \in Turns |-> NoTurn]
  /\ approval = [t \in Turns |-> [c \in Calls |-> "none"]]
  /\ extension = [t \in Turns |-> <<>>]
  /\ result = [t \in Turns |-> [c \in Calls |-> "none"]]
  /\ deciding = [a \in People |-> Nothing]
  /\ faults = 0

Fault == faults < MaxFaults /\ faults' = faults + 1

LatestTurn == IF opened = 0 THEN "none" ELSE turn[opened].status

-----------------------------------------------------------------------------
(* The run loop.                                                           *)

StageStatus(it, deg) ==
  IF it.status = "none" THEN "not_started"
  ELSE IF LatestTurn = "failed" THEN (IF deg THEN "succeeded" ELSE "failed")
  ELSE IF it.status = "terminal_failed" THEN "failed"
  ELSE IF it.status = "succeeded" /\ LatestTurn \in {"none", "succeeded"} THEN "succeeded"
  ELSE "running"

\* Every planned stage is required, and no item may be in flight.
Reconciled(r, it, deg) ==
  IF r = "running" /\ it.status \notin Owned /\ StageStatus(it, deg) = "failed"
  THEN FailedBySystem(r) ELSE r

\* Mutant: takes up no turn that was decided.
MutCanSeed == item.status \in {"none", "succeeded"} /\ LatestTurn = "none"

CanSeed == /\ item.status \in {"none", "succeeded"}
           /\ LatestTurn \in {"none", "running"}

\* No turn yet, or a turn resumed after a decision.
Seed ==
  /\ run = "running" /\ CanSeed
  /\ item' = [status |-> "pending", attempt |-> 1, turn |-> opened]
  /\ delayed' = FALSE
  /\ UNCHANGED <<run, advisory, degraded, lease, worker, opened, turn, books, deciding, faults>>

Claim(w) ==
  /\ run = "running" /\ item.status \in Claimable /\ ~delayed
  /\ worker[w] = IdleThread /\ w \notin lease
  /\ item' = [item EXCEPT !.status = "leased",
                          !.attempt = IF item.status = "retryable_failed" THEN @ + 1 ELSE @]
  /\ lease' = lease \cup {w}
  /\ worker' = [worker EXCEPT ![w].phase = "claimed"]
  /\ UNCHANGED <<run, advisory, delayed, degraded, opened, turn, books, deciding, faults>>

\* The tick found nothing to seed or claim.
Reconcile ==
  /\ run = "running" /\ ~CanSeed
  /\ ~(item.status \in Claimable /\ ~delayed)
  /\ run' = Reconciled(run, item, degraded)
  /\ UNCHANGED <<items, lease, worker, opened, turn, books, deciding, faults>>

DelayElapses ==
  /\ delayed /\ delayed' = FALSE
  /\ UNCHANGED <<run, advisory, item, degraded, lease, worker, opened, turn, books, deciding, faults>>

\* A lease expires: its thread died, or lives on without it.
Reclaim(w) ==
  /\ w \in lease
  /\ lease' = lease \ {w}
  /\ item' = [item EXCEPT !.status = IF @ \in Owned THEN "retryable_failed" ELSE @]
  /\ IF worker[w].phase = "idle" THEN UNCHANGED faults ELSE Fault
  /\ UNCHANGED <<run, advisory, delayed, degraded, worker, opened, turn, books, deciding>>

Crash(w) ==
  /\ worker[w].phase # "idle" /\ Fault
  /\ worker' = [worker EXCEPT ![w] = IdleThread]
  /\ UNCHANGED <<run, items, lease, opened, turn, books, deciding>>

Pause == /\ run = "running" /\ Fault
         /\ run' = "paused"
         /\ UNCHANGED <<items, lease, worker, opened, turn, books, deciding>>

Resume == /\ run = "paused" /\ run' = "running"
          /\ UNCHANGED <<items, lease, worker, opened, turn, books, deciding, faults>>

-----------------------------------------------------------------------------
(* A thread.  Every transaction but fail()'s asserts the lease first.      *)

GoTo(w, phase) == worker' = [worker EXCEPT ![w].phase = phase]

Discards(w) ==
  /\ worker[w].phase # "idle"
  /\ w \notin lease
  /\ worker' = [worker EXCEPT ![w] = IdleThread]
  /\ UNCHANGED <<run, items, lease, opened, turn, books, deciding, faults>>

\* The item is started; a resumed one drives its turn, any other opens a new one.
OpenTurn(w) ==
  /\ worker[w].phase = "claimed" /\ w \in lease
  /\ item' = [item EXCEPT !.status = "running"]
  /\ IF item.turn # 0
     THEN /\ worker' = [worker EXCEPT ![w] = [phase |-> "prepare", turn |-> item.turn]]
          /\ UNCHANGED <<opened, turn>>
     ELSE /\ opened' = opened + 1
          /\ turn' = [turn EXCEPT ![opened + 1].status = "running"]
          /\ worker' = [worker EXCEPT ![w] = [phase |-> "prepare", turn |-> opened + 1]]
  /\ UNCHANGED <<run, advisory, delayed, degraded, lease, books, deciding, faults>>

Answer(r, how) == IF r = "none" THEN how ELSE "again"

\* Mutant: runs a call of which it finds an approval, result or no result.
MutSettleTwice(t) ==
  [c \in Calls |-> CASE approval[t][c] = "approved" -> Answer(result[t][c], "ran")
                     [] approval[t][c] = "rejected" -> Answer(result[t][c], "refused")
                     [] OTHER                       -> result[t][c]]

\* Decided calls without a result run, or are reported to the model as rejected.
SettledCalls(t) ==
  [c \in Calls |-> IF result[t][c] # "none" THEN result[t][c]
                   ELSE CASE approval[t][c] = "approved" -> "ran"
                          [] approval[t][c] = "rejected" -> "refused"
                          [] OTHER                       -> "none"]

Undecided(t) == {c \in Calls : approval[t][c] = "pending"}

\* Mutant: one step too many.
MutExhausted(t) == turn[t].steps > turn[t].allowed

Exhausted(t) == turn[t].steps >= turn[t].allowed

\* Reads the ledger: settles the decided calls, files a budget request when the
\* budget is spent, or lets the model be sampled.
Prepare(w) ==
  LET t == worker[w].turn
  IN  /\ worker[w].phase = "prepare" /\ w \in lease
      /\ IF turn[t].status # "running"
         THEN /\ GoTo(w, IF turn[t].status = "failed" THEN "broken" ELSE "done")
              /\ UNCHANGED <<turn, books>>
         ELSE IF \E c \in Undecided(t) : result[t][c] = "none"
         THEN /\ turn' = [turn EXCEPT ![t].status = "awaiting_approval"]
              /\ \E S \in SUBSET Calls :   \* the decided calls before the first undecided one
                   result' = [result EXCEPT ![t] = [c \in Calls |-> IF c \in S THEN SettledCalls(t)[c]
                                                                   ELSE @[c]]]
              /\ GoTo(w, "done")
              /\ UNCHANGED <<approval, extension>>
         ELSE /\ result' = [result EXCEPT ![t] = SettledCalls(t)]
              /\ IF Exhausted(t)
                 THEN /\ turn' = [turn EXCEPT ![t].status = "paused"]
                      /\ extension' = [extension EXCEPT ![t] = Append(@, "pending")]
                      /\ GoTo(w, "done")
                 ELSE GoTo(w, "sample") /\ UNCHANGED <<turn, extension>>
              /\ UNCHANGED approval
      /\ UNCHANGED <<run, items, lease, opened, deciding, faults>>

\* The model stops calling tools ...
Finish(t) ==
  /\ turn' = [turn EXCEPT ![t].status = "succeeded", ![t].steps = @ + 1]
  /\ UNCHANGED books

\* Mutant: an irreversible call does not stop the turn.
MutAct(t, asked) ==
  /\ turn' = [turn EXCEPT ![t].steps = @ + 1]
  /\ approval' = [approval EXCEPT ![t] = [c \in Calls |-> IF c \in asked \cap Irreversible
                                                         THEN "pending" ELSE @[c]]]
  /\ result' = [result EXCEPT ![t] = [c \in Calls |-> IF c \in asked THEN Answer(@[c], "ran")
                                                     ELSE @[c]]]
  /\ UNCHANGED extension

\* ... or asks for some; those that need a person file their requests together.
Act(t, asked) ==
  LET waiting == asked \cap Irreversible
  IN  /\ turn' = [turn EXCEPT ![t].steps = @ + 1,
                              ![t].status = IF waiting = {} THEN @ ELSE "awaiting_approval"]
      /\ approval' = [approval EXCEPT ![t] = [c \in Calls |-> IF c \in waiting THEN "pending"
                                                             ELSE @[c]]]
      /\ result' = [result EXCEPT ![t] = [c \in Calls |-> IF c \in asked \ waiting
                                                         THEN Answer(@[c], "ran") ELSE @[c]]]
      /\ UNCHANGED extension

\* Records the step under the lock of the turn, whose status it does not compare.
Apply(w) ==
  LET t == worker[w].turn
  IN  /\ worker[w].phase = "sample" /\ w \in lease
      /\ \/ Finish(t) /\ GoTo(w, "done")
         \/ \E asked \in SUBSET {c \in Calls : result[t][c] = "none" /\ approval[t][c] = "none"} :
              /\ asked # {}
              /\ Act(t, asked)
              /\ GoTo(w, IF asked \cap Irreversible = {} THEN "prepare" ELSE "done")
      /\ UNCHANGED <<run, items, lease, opened, deciding, faults>>

\* A step raises and its transaction, if any, is rolled back.  An exception out of
\* the kernel fails the turn: fail() asks neither for the lease nor for the status.
Raise(w) ==
  /\ worker[w].phase \in {"claimed", "prepare", "sample", "done"}
  /\ Fault
  /\ turn' = IF worker[w].phase \in {"prepare", "sample"}
             THEN [turn EXCEPT ![worker[w].turn].status = "failed"] ELSE turn
  /\ GoTo(w, "failing")
  /\ UNCHANGED <<run, items, lease, opened, books, deciding>>

Completes(w, status) ==
  /\ w \in lease
  /\ lease' = lease \ {w}
  /\ item' = [item EXCEPT !.status = status]
  /\ worker' = [worker EXCEPT ![w] = IdleThread]

\* The turn stopped: finished, waiting or cancelled.
Complete(w) ==
  /\ worker[w].phase = "done"
  /\ Completes(w, "succeeded")
  /\ UNCHANGED <<run, advisory, delayed, degraded, opened, turn, books, deciding, faults>>

\* The repair agent finished, and blockers are left.
BlockersLeft(w) ==
  /\ worker[w].phase = "done" /\ ~advisory
  /\ turn[worker[w].turn].status = "succeeded"
  /\ GoTo(w, "broken")
  /\ UNCHANGED <<run, items, lease, opened, turn, books, deciding, faults>>

\* classify_failure names the disposition f; what the stage itself raises is never
\* retried.  An advisory agent that may not be
\* retried degrades its stage; any other failure settles the run as well.
FailItem(w) ==
  /\ worker[w].phase \in {"failing", "broken"}
  /\ \E f \in IF worker[w].phase = "broken" THEN {"fatal"} ELSE {"retry", "pause", "fatal"} :
       LET again == f = "retry" /\ item.attempt < MaxAttempts
       IN  IF advisory /\ f # "pause" /\ ~again
           THEN /\ Completes(w, "succeeded")
                /\ degraded' = TRUE
                /\ UNCHANGED <<run, delayed>>
           ELSE /\ Completes(w, IF again \/ f = "pause" THEN "retryable_failed" ELSE "terminal_failed")
                /\ delayed' = again
                /\ run' = IF f = "pause" THEN PausedBySystem(run) ELSE Reconciled(run, item', degraded)
                /\ UNCHANGED degraded
  /\ UNCHANGED <<advisory, opened, turn, books, deciding, faults>>

-----------------------------------------------------------------------------
(* People.                                                                 *)

\* The approval is read without a lock and must be pending then.
Consider(a) ==
  /\ deciding[a] = Nothing
  /\ \E t \in Turns :
       \E x \in Undecided(t) \cup {n \in DOMAIN extension[t] : extension[t][n] = "pending"} :
         deciding' = [deciding EXCEPT ![a] = [turn |-> t, what |-> x]]
  /\ UNCHANGED <<run, items, lease, worker, opened, turn, books, faults>>

\* Mutant: counts the approval it has just decided as pending.
MutDecideCall(t, c, verb) ==
  /\ approval' = [approval EXCEPT ![t][c] = verb]
  /\ turn' = [turn EXCEPT ![t].status = IF @ = "awaiting_approval" /\ Undecided(t) = {}
                                        THEN "running" ELSE @]
  /\ UNCHANGED extension

\* The turn resumes when the last request of its step is decided.
DecideCall(t, c, verb) ==
  /\ approval' = [approval EXCEPT ![t][c] = verb]
  /\ turn' = [turn EXCEPT ![t].status =
                IF @ = "awaiting_approval" /\ Undecided(t) \subseteq {c} THEN "running" ELSE @]
  /\ UNCHANGED extension

\* Mutant: writes the decision into the status.
MutDecideBudget(t, n, verb) ==
  /\ verb = "approved" => n <= MaxExtensions
  /\ extension' = [extension EXCEPT ![t][n] = verb]
  /\ turn' = [turn EXCEPT ![t].status = verb]
  /\ UNCHANGED approval

\* A budget decision writes the status whatever it is by now, and adds as much
\* again to the budget.
DecideBudget(t, n, verb) ==
  /\ verb = "approved" => n <= MaxExtensions
  /\ extension' = [extension EXCEPT ![t][n] = verb]
  /\ turn' = [turn EXCEPT ![t].status = IF verb = "approved" THEN "running" ELSE "cancelled",
                          ![t].allowed = IF verb = "approved" THEN @ + @ ELSE @]
  /\ UNCHANGED approval

\* Writes the decision on what was read, and locks the turn.
Decide(a) ==
  /\ deciding[a] # Nothing
  /\ \E verb \in {"approved", "rejected"} :
       IF deciding[a].what \in Calls THEN DecideCall(deciding[a].turn, deciding[a].what, verb)
       ELSE DecideBudget(deciding[a].turn, deciding[a].what, verb)
  /\ deciding' = [deciding EXCEPT ![a] = Nothing]
  /\ UNCHANGED <<run, items, lease, worker, opened, result, faults>>

-----------------------------------------------------------------------------
RunLoop == Seed \/ Reconcile \/ \E w \in Workers : Claim(w)

Thread(w) == \/ Discards(w) \/ OpenTurn(w) \/ Prepare(w) \/ Apply(w)
             \/ Raise(w) \/ Complete(w) \/ BlockersLeft(w) \/ FailItem(w)

Next == \/ RunLoop \/ DelayElapses \/ Pause \/ Resume
        \/ \E w \in Workers : Thread(w) \/ Reclaim(w) \/ Crash(w)
        \/ \E a \in People : Consider(a) \/ Decide(a)

Spec == Init /\ [][Next]_vars

\* The run loop ticks, threads run, the lease of a dead thread expires and a
\* delay passes.  Nothing is assumed of people, or of failures.
Fairness == /\ WF_vars(RunLoop) /\ WF_vars(DelayElapses)
            /\ \A w \in Workers : /\ WF_vars(Thread(w))
                                  /\ WF_vars(worker[w].phase = "idle" /\ Reclaim(w))

FairSpec == Spec /\ Fairness

-----------------------------------------------------------------------------
\* Every variable has its type.
TypeOK ==
  /\ run \in {"running", "paused", "failed"}
  /\ item \in [status : ItemStatuses \cup {"none"}, attempt : Nat \ {0}, turn : 0..(MaxFaults + 1)]
  /\ advisory \in BOOLEAN /\ delayed \in BOOLEAN /\ degraded \in BOOLEAN
  /\ lease \subseteq Workers
  /\ worker \in [Workers -> [phase : Phases, turn : 0..(MaxFaults + 1)]]
  /\ opened \in 0..(MaxFaults + 1)
  /\ turn \in [Turns -> [status : TurnStatuses, steps : Nat, allowed : Nat]]
  /\ approval \in [Turns -> [Calls -> {"none", "pending", "approved", "rejected"}]]
  /\ extension \in [Turns -> Seq({"pending", "approved", "rejected"})]
  /\ result \in [Turns -> [Calls -> {"none", "ran", "refused", "again"}]]
  /\ \A a \in People : deciding[a] # Nothing =>
       deciding[a] \in [turn : Turns, what : Calls \cup Nat]
  /\ faults \in Nat

\* "every call the model made gets a result", and only one: a tool does not run
\* again when its turn is resumed, retried, or decided twice (_settle_pending_tool_calls).
OneResultPerCall == \A t \in Turns : \A c \in Calls : result[t][c] # "again"

\* No irreversible tool runs in a step before which its approval was not granted,
\* whoever drives the turn (_execute_call, ApprovalService.decide).
ApprovedBeforeItRuns ==
  [][\A t \in Turns : \A c \in Irreversible :
       result[t][c] # "ran" /\ result'[t][c] = "ran" => approval[t][c] = "approved"]_vars

\* A turn makes no more steps than its budget allows, extensions included.
StepsWithinBudget == \A t \in Turns : turn[t].steps <= turn[t].allowed

\* A turn that waits has an open request: with none nobody could wake it, and its
\* stage would wait with it (ApprovalService.decide resumes on the last decision).
WaitingTurnCanBeWoken ==
  \A t \in Turns :
    /\ turn[t].status = "awaiting_approval" => Undecided(t) # {}
    /\ turn[t].status = "paused" => \E n \in DOMAIN extension[t] : extension[t][n] = "pending"

\* A decided turn is picked up: the latest turn does not stay RUNNING while the
\* run loop runs, whatever becomes of its thread (_process_agent_stage).
LatestTurnMoves ==
  \A t \in Turns :
    (t = opened /\ turn[t].status = "running" /\ run = "running")
      ~> (t # opened \/ turn[t].status # "running" \/ run # "running")

\* "Agents whose failure degrades the run instead of failing it"
\* (document_run_executor.py): the stage of an advisory agent never fails the run.
AdvisoryNeverSinksRun == advisory => run # "failed"
=============================================================================
