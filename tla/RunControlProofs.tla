-------------------------- MODULE RunControlProofs --------------------------
(***************************************************************************)
(* Theorems about RunControl, for any number of runs, requests and ticks.  *)
(***************************************************************************)
EXTENDS RunControl, TLAPS

USE RunControlAssumption

-----------------------------------------------------------------------------
(* Types.                                                                  *)

\* A pause lasts a natural number of ticks.
LEMMA PausedForType ==
  ASSUME now \in Nat, NEW a \in Account
  PROVE  /\ PausedFor(a) \in Nat
         /\ a.pausedAt # Never /\ a.pausedAt <= now => PausedFor(a) = now - a.pausedAt
BY DEF PausedFor, Minus, Account, Times

\* The accounting of a transition keeps its type.
LEMMA AccountedType ==
  ASSUME now \in Nat, NEW a \in Account, NEW from, NEW to
  PROVE  Accounted(a, from, to) \in Account
<1>1. PausedFor(a) \in Nat
  BY PausedForType
<1>2. CASE to = "paused"
  BY <1>2 DEF Accounted, Account, Times
<1>3. CASE to # "paused" /\ to = "running" /\ from = "paused"
  <2>1. a.pausedTotal + PausedFor(a) \in Nat
    BY <1>1 DEF Account
  <2>2. QED
    BY <1>3, <2>1 DEF Accounted, Account, Times
<1>4. CASE to # "paused" /\ ~(to = "running" /\ from = "paused")
  BY <1>4 DEF Accounted
<1>5. QED
  BY <1>2, <1>3, <1>4

\* So does that of a success or a failure.
LEMMA CountedType ==
  ASSUME NEW a \in Account, NEW n \in Nat
  PROVE  /\ [a EXCEPT !.progressAt = n, !.failures = 0] \in Account
         /\ Failed(a) \in Account
<1>1. [a EXCEPT !.progressAt = n, !.failures = 0] \in Account
  BY DEF Account, Times
<1>2. (IF a.failures < MaxFailures THEN a.failures + 1 ELSE a.failures) \in Nat
  BY DEF Account
<1>3. Failed(a) \in Account
  BY <1>2 DEF Account, Failed
<1>4. QED
  BY <1>1, <1>3

\* A retry inherits an accounting.
LEMMA InheritedType ==
  ASSUME NEW a \in Account
  PROVE  Inherited(a) \in Account
BY DEF Inherited, Account

\* A transition to a status of the run keeps the types of the rows.
LEMMA TransitionType ==
  ASSUME TypeOK, NEW r \in Runs, NEW to \in RunStatuses, Transition(r, to)
  PROVE  /\ status' \in [Runs -> RunStatuses \cup {"none"}]
         /\ started' \in [Runs -> Times] /\ created' \in [Runs -> Nat]
         /\ account' \in [Runs -> Account]
         /\ worked' \in [Runs -> Nat] /\ quiet' \in [Runs -> Nat]
         /\ skewed' \subseteq Runs
<1>1. Accounted(account[r], status[r], to) \in Account
  BY AccountedType DEF TypeOK
<1>2. account' \in [Runs -> Account]
  BY <1>1 DEF Transition, TypeOK
<1>3. started' \in [Runs -> Times]
  BY DEF Transition, TypeOK, Times
<1>4. QED
  BY <1>2, <1>3 DEF Transition, TypeOK

\* Every variable keeps its type.
LEMMA TypeStep ==
  ASSUME TypeOK, [Next]_vars
  PROVE  TypeOK'
<1> USE DEF TypeOK
<1>1. ASSUME NEW r \in Runs, NEW S, NEW to \in RunStatuses, From(r, S, to)
      PROVE  TypeOK'
  BY <1>1, TransitionType DEF From, request
<1>2. ASSUME NEW r \in Runs, Create(r)
      PROVE  TypeOK'
  <2>1. Fresh \in Account
    BY DEF Fresh, Account, Times
  <2>2. QED
    BY <1>2, <2>1 DEF Create, Insert, Row, RunStatuses, Times, request
<1>3. ASSUME NEW r \in Runs, Operator(r)
      PROVE  TypeOK'
  BY <1>1, <1>2, <1>3 DEF Operator, Pause, Resume, Drain, Cancel, RunStatuses
<1>4. ASSUME NEW r \in Runs, Loop(r)
      PROVE  TypeOK'
  <2>1. CASE BeginTick(r)
    BY <2>1 DEF BeginTick, rows, request, history
  <2>2. CASE ReadAccount(r)
    <3>1. Due(r) \in Reasons
      BY DEF Due, Reasons
    <3>2. QED
      BY <2>2, <3>1 DEF ReadAccount, rows, request, history
  <2>3. CASE ApplyGuard(r)
    <3>1. CASE UNCHANGED <<rows, history>>
      BY <2>3, <3>1 DEF ApplyGuard, Reasons, rows, request, history
    <3>2. CASE Transition(r, "paused") \/ Transition(r, "failed")
      BY <2>3, <3>2, TransitionType DEF ApplyGuard, Reasons, RunStatuses, request
    <3>3. QED
      BY <2>3, <3>1, <3>2 DEF ApplyGuard, Stops
  <2>4. QED
    BY <1>4, <2>1, <2>2, <2>3 DEF Loop
<1>5. ASSUME NEW r \in Runs, Execute(r)
      PROVE  TypeOK'
  <2>1. /\ [account[r] EXCEPT !.progressAt = now, !.failures = 0] \in Account
        /\ Failed(account[r]) \in Account
    BY CountedType
  <2>2. CASE Claim(r) \/ Expire(r)
    BY <2>2 DEF Claim, Expire, rows, request, history
  <2>3. CASE Succeed(r)
    <3>1. account' \in [Runs -> Account]
      BY <2>1, <2>3 DEF Succeed
    <3>2. QED
      BY <2>3, <3>1 DEF Succeed, request
  <2>4. CASE Fail(r)
    BY <2>1, <2>4 DEF Fail, request, history
  <2>5. CASE FailAndPause(r)
    <3>1. Accounted(Failed(account[r]), status[r], "paused") \in Account
      BY <2>1, AccountedType
    <3>2. QED
      BY <2>5, <3>1 DEF FailAndPause, RunStatuses, request
  <2>6. CASE Settle(r)
    BY <1>1, <2>6 DEF Settle, RunStatuses
  <2>7. QED
    BY <1>5, <2>2, <2>3, <2>4, <2>5, <2>6 DEF Execute
<1>6. ASSUME NEW q \in Requests, RetryRefused(q)
      PROVE  TypeOK'
  <2>1. Fresh \in Account
    BY DEF Fresh, Account, Times
  <2>2. QED
    BY <1>6, <2>1 DEF RetryRefused, Answer, rows, history
<1>7. ASSUME NEW q \in Requests, NEW r \in Runs, CheckRetry(q, r)
      PROVE  TypeOK'
  BY <1>7 DEF CheckRetry, rows, history
<1>8. ASSUME NEW q \in Requests, NEW r \in Runs, Retry(q, r)
      PROVE  TypeOK'
  <2>1. /\ retrying[q] \in Runs /\ Fresh \in Account
        /\ Inherited(detail[q]) \in Account
    BY <1>8, InheritedType DEF Retry, Answer, Fresh, Account, Times
  <2>2. QED
    BY <1>8, <2>1 DEF Retry, Answer, Insert, Row, RunStatuses, Times
<1>9. ASSUME NEW p \in Runs, NEW r \in Runs, RetryStale(p, r)
      PROVE  TypeOK'
  <2>1. Inherited(account[p]) \in Account
    BY InheritedType
  <2>2. QED
    BY <1>9, <2>1 DEF RetryStale, Row, RunStatuses, Times, request
<1>10. CASE TimePasses
  BY <1>10 DEF TimePasses, rows, request
<1>11. CASE UNCHANGED vars
  BY <1>11 DEF vars, rows, request, history
<1>12. QED
  BY <1>3, <1>4, <1>5, <1>6, <1>7, <1>8, <1>9, <1>10, <1>11 DEF Next

\* TypeOK is an invariant of RunControl: the sums of pauses stay natural numbers
\* whatever the order of transitions (_apply_pause_accounting).
THEOREM TypeCorrect == Spec => []TypeOK
<1>1. Init => TypeOK
  BY DEF Init, TypeOK, Fresh, Account, Times, Reasons
<1>2. TypeOK /\ [Next]_vars => TypeOK'
  BY TypeStep
<1>3. QED
  BY <1>1, <1>2, PTL DEF Spec

-----------------------------------------------------------------------------
(* The clocks.                                                             *)

\* What a run's accounting names lies in the past.
Past(r) ==
  /\ Since(r) <= now
  /\ account[r].progressAt # Never => account[r].progressAt <= now
  /\ account[r].resumedAt # Never => account[r].resumedAt <= now

\* A run that was never started has nothing on its account; a queued run was not.
Unstarted(r) ==
  /\ status[r] = "queued" => started[r] = Never
  /\ started[r] = Never =>
       /\ status[r] # "running" /\ inflight[r] = 0
       /\ account[r].pausedTotal = 0
       /\ account[r].resumedAt = Never /\ account[r].progressAt = Never

\* The clocks of an active run show the work and the standstill of its history,
\* the clock of a paused run stands.
Balanced(r) ==
  /\ status[r] = "none" => started[r] = Never /\ worked[r] = 0 /\ quiet[r] = 0
  /\ status[r] \in ActiveRun =>
       /\ Since(r) + account[r].pausedTotal + worked[r] = now
       /\ LastProgress(r) + quiet[r] = now
  /\ status[r] = "paused" =>
       /\ started[r] # Never /\ account[r].pausedAt # Never /\ account[r].pausedAt <= now
       /\ Since(r) + account[r].pausedTotal + worked[r] = account[r].pausedAt

Sound(r) == Past(r) /\ Unstarted(r) /\ Balanced(r)

ClockInv == TypeOK /\ \A r \in Runs \ skewed : Sound(r)

\* A run that a step does not touch stays sound.
LEMMA SoundFrame ==
  ASSUME NEW r \in Runs, Sound(r), now' = now,
         status'[r] = status[r], started'[r] = started[r], created'[r] = created[r],
         account'[r] = account[r], inflight'[r] = inflight[r],
         worked'[r] = worked[r], quiet'[r] = quiet[r]
  PROVE  Sound(r)'
BY DEF Sound, Past, Unstarted, Balanced, Since, LastProgress, Later

\* A transition keeps the clocks sound, or marks the run.
LEMMA SoundTransition ==
  ASSUME ClockInv, NEW r \in Runs, NEW to \in RunStatuses, Transition(r, to),
         now' = now, inflight' = inflight, to # "queued",
         status[r] \in ActiveRun \cup {"paused"},
         to = "running" => status[r] \in CanResume,
         to = "paused" => status[r] \in ActiveRun
  PROVE  \A q \in Runs \ skewed' : Sound(q)'
<1>1. TypeOK
  BY DEF ClockInv
<1>2. ASSUME NEW q \in Runs \ skewed', q # r
      PROVE  Sound(q)'
  <2>1. Sound(q)
    BY <1>2 DEF ClockInv, Transition
  <2>2. QED
    BY <1>1, <1>2, <2>1, SoundFrame DEF Transition, TypeOK
<1>3. ASSUME r \notin skewed'
      PROVE  Sound(r)'
  <2>1. /\ Sound(r)
        /\ ~(status[r] = "paused" /\ to = "draining")
        /\ ~(to = "paused" /\ started[r] = Never)
    BY <1>3 DEF ClockInv, Transition
  <2>2. /\ status'[r] = to
        /\ started'[r] = IF to = "running" /\ started[r] = Never THEN now ELSE started[r]
        /\ created'[r] = created[r]
        /\ account'[r] = Accounted(account[r], status[r], to)
        /\ worked'[r] = IF to = "running" /\ started[r] = Never THEN 0 ELSE worked[r]
        /\ quiet'[r] = IF to = "running" THEN 0 ELSE quiet[r]
        /\ inflight'[r] = inflight[r]
    BY <1>1 DEF Transition, TypeOK
  <2>3. /\ account[r] \in Account /\ started[r] \in Times /\ created[r] \in Nat
        /\ worked[r] \in Nat /\ quiet[r] \in Nat /\ now \in Nat
    BY <1>1 DEF TypeOK
  <2>4. CASE to = "paused"
    <3>1. account'[r] = [account[r] EXCEPT !.pausedAt = now]
      BY <2>2, <2>4 DEF Accounted
    <3>2. QED
      BY <2>1, <2>2, <2>3, <2>4, <3>1
         DEF Sound, Past, Unstarted, Balanced, Since, LastProgress, Later, ActiveRun, Account, Times
  <2>5. CASE to = "running" /\ status[r] = "paused"
    <3>1. PausedFor(account[r]) = now - account[r].pausedAt
      BY <2>1, <2>3, <2>5, PausedForType DEF Sound, Balanced
    <3>2. account'[r] = [account[r] EXCEPT !.pausedTotal = @ + (now - account[r].pausedAt),
                                           !.pausedAt = Never, !.resumedAt = now, !.failures = 0]
      BY <2>2, <2>5, <3>1 DEF Accounted
    <3>3. /\ account'[r].pausedTotal = account[r].pausedTotal + (now - account[r].pausedAt)
          /\ account'[r].resumedAt = now
          /\ account'[r].progressAt = account[r].progressAt
      BY <2>3, <3>2 DEF Account
    <3>4. started'[r] = started[r] /\ started[r] # Never
      BY <2>1, <2>2, <2>5 DEF Sound, Balanced
    <3>5. Since(r)' = Since(r) /\ LastProgress(r)' = now
      BY <2>1, <2>2, <2>3, <3>3, <3>4
         DEF Sound, Past, Since, LastProgress, Later, Account, Times
    <3>6. /\ worked'[r] = worked[r] /\ quiet'[r] = 0
          /\ Since(r) + account[r].pausedTotal + worked[r] = account[r].pausedAt
          /\ account[r].pausedAt \in Nat /\ Since(r) \in Nat /\ account[r].pausedTotal \in Nat
      BY <2>1, <2>2, <2>3, <2>5, <3>4 DEF Sound, Balanced, Since, Account, Times
    <3>7. QED
      BY <2>1, <2>2, <2>3, <2>5, <3>3, <3>4, <3>5, <3>6
         DEF Sound, Past, Unstarted, Balanced, ActiveRun
  <2>6. CASE to = "running" /\ status[r] # "paused"
    <3>1. account'[r] = account[r]
      BY <2>2, <2>6 DEF Accounted
    <3>2. status[r] = "queued" /\ started[r] = Never
      BY <2>1, <2>6 DEF CanResume, Sound, Unstarted
    <3>3. /\ started'[r] = now /\ worked'[r] = 0 /\ quiet'[r] = 0
          /\ account[r].pausedTotal = 0
          /\ account[r].resumedAt = Never /\ account[r].progressAt = Never
      BY <2>1, <2>2, <2>6, <3>2 DEF Sound, Unstarted
    <3>4. Since(r)' = now /\ LastProgress(r)' = now
      BY <2>3, <3>1, <3>3 DEF Since, LastProgress
    <3>5. QED
      BY <2>2, <2>3, <2>6, <3>1, <3>3, <3>4 DEF Sound, Past, Unstarted, Balanced, ActiveRun
  <2>7. CASE to \notin {"paused", "running"}
    <3>1. account'[r] = account[r] /\ started'[r] = started[r] /\ worked'[r] = worked[r]
          /\ quiet'[r] = quiet[r]
      BY <2>2, <2>7 DEF Accounted
    <3>2. to \in ActiveRun => status[r] \in ActiveRun
      BY <2>1, <2>7 DEF ActiveRun
    <3>3. Since(r)' = Since(r) /\ LastProgress(r)' = LastProgress(r)
      BY <2>2, <3>1 DEF Since, LastProgress, Later
    <3>4. QED
      BY <2>1, <2>2, <2>7, <3>1, <3>2, <3>3 DEF Sound, Past, Unstarted, Balanced, RunStatuses
  <2>8. QED
    BY <2>4, <2>5, <2>6, <2>7
<1>4. QED
  BY <1>2, <1>3

\* The clocks stay sound in every step.
LEMMA SoundStep ==
  ASSUME ClockInv, TypeOK', Next
  PROVE  \A r \in Runs \ skewed' : Sound(r)'
<1>1. TypeOK
  BY DEF ClockInv
<1>2. ASSUME UNCHANGED <<rows, now, worked, quiet>>, skewed \subseteq skewed',
             \A q \in Runs : started[q] = Never => inflight'[q] <= inflight[q]
      PROVE  \A q \in Runs \ skewed' : Sound(q)'
  <2>1. ASSUME NEW q \in Runs \ skewed'
        PROVE  Sound(q)'
    <3>1. Sound(q) /\ inflight[q] \in Nat /\ inflight'[q] \in Nat
      BY <1>1, <1>2, <2>1 DEF ClockInv, TypeOK
    <3>2. Since(q)' = Since(q) /\ LastProgress(q)' = LastProgress(q)
      BY <1>2 DEF rows, Since, LastProgress, Later
    <3>3. QED
      BY <1>2, <3>1, <3>2 DEF rows, Sound, Past, Unstarted, Balanced
  <2>2. QED
    BY <2>1
<1>3. ASSUME NEW r \in Runs, NEW S, NEW to \in RunStatuses, From(r, S, to),
             to # "queued", S \subseteq ActiveRun \cup {"paused"},
             to = "running" => S \subseteq CanResume, to = "paused" => S \subseteq ActiveRun
      PROVE  \A q \in Runs \ skewed' : Sound(q)'
  BY <1>3, SoundTransition DEF From
<1>4. ASSUME NEW r \in Runs, NEW a \in Account, NEW to \in {"queued", "running"},
             Insert(r, a, to),
             skewed \subseteq skewed', r \notin skewed' => a = Fresh
      PROVE  \A q \in Runs \ skewed' : Sound(q)'
  <2>1. ASSUME NEW q \in Runs \ skewed', q # r
        PROVE  Sound(q)'
    <3>1. Sound(q)
      BY <1>4, <2>1 DEF ClockInv
    <3>2. QED
      BY <1>1, <1>4, <2>1, <3>1, SoundFrame DEF Insert, Row, TypeOK
  <2>2. ASSUME r \notin skewed'
        PROVE  Sound(r)'
    <3>1. Sound(r) /\ status[r] = "none" /\ now \in Nat
      BY <1>1, <1>4, <2>2 DEF ClockInv, Insert, Row, TypeOK
    <3>2. /\ status'[r] = to /\ created'[r] = now /\ account'[r] = Fresh
          /\ started'[r] = IF to = "running" THEN now ELSE Never
          /\ worked'[r] = 0 /\ quiet'[r] = 0 /\ inflight'[r] = 0 /\ now' = now
      BY <1>1, <1>4, <2>2, <3>1 DEF Insert, Row, TypeOK, Sound, Balanced, Unstarted
    <3>3. Since(r)' = now /\ LastProgress(r)' = now
      BY <3>1, <3>2 DEF Since, LastProgress, Fresh
    <3>4. QED
      BY <1>4, <3>1, <3>2, <3>3 DEF Sound, Past, Unstarted, Balanced, Fresh
  <2>3. QED
    BY <2>1, <2>2
<1>5. ASSUME NEW r \in Runs, Operator(r)
      PROVE  \A q \in Runs \ skewed' : Sound(q)'
  <2>1. CASE Create(r)
    <3>1. Fresh \in Account
      BY DEF Fresh, Account, Times
    <3>2. QED
      BY <1>4, <2>1, <3>1 DEF Create
  <2>2. CASE Pause(r)
    BY <1>3, <2>2 DEF Pause, CanPause, ActiveRun, RunStatuses
  <2>3. CASE Resume(r)
    BY <1>3, <2>3 DEF Resume, CanResume, ActiveRun, RunStatuses
  <2>4. CASE Drain(r)
    BY <1>3, <2>4 DEF Drain, CanDrain, ActiveRun, RunStatuses
  <2>5. CASE Cancel(r)
    BY <1>3, <2>5 DEF Cancel, CanCancel, ActiveRun, RunStatuses
  <2>6. QED
    BY <1>5, <2>1, <2>2, <2>3, <2>4, <2>5 DEF Operator
<1>6. ASSUME NEW r \in Runs, Loop(r)
      PROVE  \A q \in Runs \ skewed' : Sound(q)'
  <2>1. CASE UNCHANGED <<now, rows, inflight, history>>
    BY <1>1, <1>2, <2>1 DEF history, TypeOK
  <2>2. CASE ApplyGuard(r) /\ ~UNCHANGED <<rows, history>>
    <3>1. CASE guard[r] = "failures"
      BY <2>2, <3>1, SoundTransition
         DEF ApplyGuard, Stops, CanFail, ActiveRun, RunStatuses
    <3>2. CASE guard[r] # "failures"
      BY <2>2, <3>2, SoundTransition
         DEF ApplyGuard, Stops, CanPause, ActiveRun, RunStatuses
    <3>3. QED
      BY <3>1, <3>2
  <2>3. QED
    BY <1>6, <2>1, <2>2 DEF Loop, BeginTick, ReadAccount, ApplyGuard
<1>7. ASSUME NEW r \in Runs, Claim(r) \/ Expire(r)
      PROVE  \A q \in Runs \ skewed' : Sound(q)'
  <2>1. CASE Expire(r)
    BY <1>1, <1>2, <2>1 DEF Expire, history, TypeOK
  <2>2. CASE Claim(r)
    <3>1. ASSUME NEW q \in Runs \ skewed'
          PROVE  Sound(q)'
      <4>1. Sound(q)
        BY <2>2, <3>1 DEF ClockInv, Claim, history
      <4>2. Since(q)' = Since(q) /\ LastProgress(q)' = LastProgress(q)
        BY <2>2 DEF Claim, rows, Since, LastProgress, Later
      <4>3. q # r => inflight'[q] = inflight[q]
        BY <1>1, <2>2 DEF Claim, TypeOK
      <4>4. QED
        BY <2>2, <4>1, <4>2, <4>3 DEF Claim, rows, history, Sound, Past, Unstarted, Balanced
    <3>2. QED
      BY <3>1
  <2>3. QED
    BY <1>7, <2>1, <2>2
<1>8. ASSUME NEW r \in Runs, Succeed(r)
      PROVE  \A q \in Runs \ skewed' : Sound(q)'
  <2>1. ASSUME NEW q \in Runs \ skewed', q # r
        PROVE  Sound(q)'
    BY <1>1, <1>8, <2>1, SoundFrame DEF Succeed, ClockInv, TypeOK
  <2>2. ASSUME r \notin skewed'
        PROVE  Sound(r)'
    <3>1. /\ Sound(r) /\ now \in Nat /\ account[r] \in Account /\ inflight[r] # 0
          /\ started[r] \in Times /\ created[r] \in Nat
      BY <1>1, <1>8, <2>2 DEF Succeed, ClockInv, TypeOK
    <3>2. started[r] # Never
      BY <3>1 DEF Sound, Unstarted
    <3>3. account'[r] = [account[r] EXCEPT !.progressAt = now, !.failures = 0]
      BY <1>1, <1>8 DEF Succeed, TypeOK
    <3>4. /\ account'[r].progressAt = now
          /\ account'[r].resumedAt = account[r].resumedAt
          /\ account'[r].pausedAt = account[r].pausedAt
          /\ account'[r].pausedTotal = account[r].pausedTotal
      BY <3>1, <3>3 DEF Account
    <3>5. /\ status'[r] = status[r] /\ started'[r] = started[r] /\ created'[r] = created[r]
          /\ worked'[r] = worked[r] /\ now' = now /\ quiet'[r] = 0
      BY <1>1, <1>8 DEF Succeed, TypeOK
    <3>6. Since(r)' = Since(r) /\ LastProgress(r)' = now
      BY <3>1, <3>4, <3>5 DEF Since, LastProgress, Later, Sound, Past, Account, Times
    <3>7. QED
      BY <3>1, <3>2, <3>4, <3>5, <3>6 DEF Sound, Past, Unstarted, Balanced
  <2>3. QED
    BY <2>1, <2>2
<1>9. ASSUME NEW r \in Runs, Fail(r)
      PROVE  \A q \in Runs \ skewed' : Sound(q)'
  <2>1. ASSUME NEW q \in Runs \ skewed', q # r
        PROVE  Sound(q)'
    BY <1>1, <1>9, <2>1, SoundFrame DEF Fail, history, ClockInv, TypeOK
  <2>2. ASSUME r \notin skewed'
        PROVE  Sound(r)'
    <3>1. /\ Sound(r) /\ account[r] \in Account /\ inflight[r] # 0
      BY <1>1, <1>9, <2>2 DEF Fail, history, ClockInv, TypeOK
    <3>2. started[r] # Never
      BY <3>1 DEF Sound, Unstarted
    <3>3. account'[r] = Failed(account[r])
      BY <1>1, <1>9 DEF Fail, TypeOK
    <3>4. /\ account'[r].progressAt = account[r].progressAt
          /\ account'[r].resumedAt = account[r].resumedAt
          /\ account'[r].pausedAt = account[r].pausedAt
          /\ account'[r].pausedTotal = account[r].pausedTotal
      BY <3>1, <3>3 DEF Account, Failed
    <3>5. /\ status'[r] = status[r] /\ started'[r] = started[r] /\ created'[r] = created[r]
          /\ worked'[r] = worked[r] /\ now' = now /\ quiet'[r] = quiet[r]
      BY <1>9 DEF Fail, history
    <3>6. Since(r)' = Since(r) /\ LastProgress(r)' = LastProgress(r)
      BY <3>4, <3>5 DEF Since, LastProgress, Later
    <3>7. QED
      BY <3>1, <3>2, <3>4, <3>5, <3>6 DEF Sound, Past, Unstarted, Balanced
  <2>3. QED
    BY <2>1, <2>2
<1>10. ASSUME NEW r \in Runs, FailAndPause(r)
       PROVE  \A q \in Runs \ skewed' : Sound(q)'
  <2>1. ASSUME NEW q \in Runs \ skewed', q # r
        PROVE  Sound(q)'
    BY <1>1, <1>10, <2>1, SoundFrame DEF FailAndPause, ClockInv, TypeOK
  <2>2. ASSUME r \notin skewed'
        PROVE  Sound(r)'
    <3>1. /\ Sound(r) /\ account[r] \in Account /\ started[r] # Never
          /\ status[r] \in ActiveRun /\ now \in Nat
      BY <1>1, <1>10, <2>2 DEF FailAndPause, ClockInv, TypeOK, CanPause, ActiveRun
    <3>2. account'[r] = [Failed(account[r]) EXCEPT !.pausedAt = now]
      BY <1>1, <1>10 DEF FailAndPause, TypeOK, Accounted
    <3>3. Failed(account[r]) \in Account
      BY <3>1, CountedType
    <3>4. /\ account'[r].progressAt = account[r].progressAt
          /\ account'[r].resumedAt = account[r].resumedAt
          /\ account'[r].pausedAt = now
          /\ account'[r].pausedTotal = account[r].pausedTotal
      BY <3>1, <3>2, <3>3 DEF Account, Failed
    <3>5. /\ status'[r] = "paused" /\ started'[r] = started[r] /\ created'[r] = created[r]
          /\ worked'[r] = worked[r] /\ now' = now /\ quiet'[r] = quiet[r]
      BY <1>1, <1>10 DEF FailAndPause, TypeOK
    <3>6. Since(r)' = Since(r)
      BY <3>5 DEF Since
    <3>7. now # Never
      BY <3>1
    <3>8. QED
      BY <3>1, <3>4, <3>5, <3>6, <3>7 DEF Sound, Past, Unstarted, Balanced, ActiveRun
  <2>3. QED
    BY <2>1, <2>2
<1>11. ASSUME NEW r \in Runs, Settle(r)
       PROVE  \A q \in Runs \ skewed' : Sound(q)'
  <2>1. CASE \E to \in {"succeeded", "succeeded_with_warnings"} : From(r, CanSucceed, to)
    BY <1>3, <2>1 DEF CanSucceed, ActiveRun, RunStatuses
  <2>2. CASE From(r, CanFail, "failed")
    BY <1>3, <2>2 DEF CanFail, ActiveRun, RunStatuses
  <2>3. CASE From(r, CanPause, "paused")
    BY <1>3, <2>3 DEF CanPause, ActiveRun, RunStatuses
  <2>4. QED
    BY <1>11, <2>1, <2>2, <2>3 DEF Settle
<1>12. ASSUME NEW q \in Requests, RetryRefused(q) \/ \E r \in Runs : CheckRetry(q, r)
       PROVE  \A r \in Runs \ skewed' : Sound(r)'
  BY <1>1, <1>2, <1>12 DEF RetryRefused, Answer, CheckRetry, history, TypeOK
<1>13. ASSUME NEW q \in Requests, NEW r \in Runs, Retry(q, r)
       PROVE  \A s \in Runs \ skewed' : Sound(s)'
  <2>1. Inherited(detail[q]) \in Account
    BY <1>1, InheritedType DEF TypeOK
  <2>2. r \in skewed'
    BY <1>13 DEF Retry
  <2>3. QED
    BY <1>4, <1>13, <2>1, <2>2 DEF Retry
<1>14. ASSUME NEW p \in Runs, NEW r \in Runs, RetryStale(p, r)
       PROVE  \A q \in Runs \ skewed' : Sound(q)'
  <2>1. ASSUME NEW q \in Runs \ skewed'
        PROVE  Sound(q)'
    <3>1. Sound(q) /\ q # r
      BY <1>14, <2>1 DEF RetryStale, ClockInv
    <3>2. /\ started'[q] = started[q] /\ created'[q] = created[q]
          /\ account'[q] = account[q] /\ inflight'[q] = inflight[q] /\ now' = now
          /\ worked'[q] = worked[q] /\ quiet'[q] = quiet[q]
          /\ status'[q] = IF q = p THEN "failed" ELSE status[q]
      BY <1>1, <1>14, <3>1 DEF RetryStale, Row, TypeOK
    <3>3. CASE q # p
      BY <3>1, <3>2, <3>3, SoundFrame
    <3>4. CASE q = p
      BY <3>1, <3>2, <3>4 DEF Sound, Past, Unstarted, Balanced, Since, ActiveRun
    <3>5. QED
      BY <3>3, <3>4
  <2>2. QED
    BY <2>1
<1>15. CASE TimePasses
  <2>1. ASSUME NEW q \in Runs \ skewed'
        PROVE  Sound(q)'
    <3>1. /\ Sound(q) /\ now \in Nat /\ now' = now + 1
          /\ account[q] \in Account /\ started[q] \in Times /\ created[q] \in Nat
          /\ worked[q] \in Nat /\ quiet[q] \in Nat
      BY <1>1, <1>15, <2>1 DEF TimePasses, ClockInv, TypeOK
    <3>2. Since(q)' = Since(q) /\ LastProgress(q)' = LastProgress(q)
      BY <1>15 DEF TimePasses, rows, Since, LastProgress, Later
    <3>3. /\ worked'[q] = IF status[q] \in ActiveRun THEN worked[q] + 1 ELSE worked[q]
          /\ quiet'[q] = IF status[q] \in ActiveRun THEN quiet[q] + 1 ELSE quiet[q]
      BY <1>15 DEF TimePasses
    <3>4. Since(q) \in Nat /\ (status[q] \in ActiveRun => LastProgress(q) \in Nat)
      BY <3>1 DEF Since, LastProgress, Later, Account, Times
    <3>5. Past(q)'
      BY <1>15, <3>1, <3>2, <3>4 DEF TimePasses, rows, Sound, Past, Account, Times
    <3>6. Unstarted(q)'
      BY <1>15, <3>1 DEF TimePasses, rows, Sound, Unstarted
    <3>7. Balanced(q)'
      BY <1>15, <3>1, <3>2, <3>3, <3>4
         DEF TimePasses, rows, Sound, Balanced, ActiveRun, Account, Times
    <3>8. QED
      BY <3>5, <3>6, <3>7 DEF Sound
  <2>2. QED
    BY <2>1
<1>16. QED
  BY <1>5, <1>6, <1>7, <1>8, <1>9, <1>10, <1>11, <1>12, <1>13, <1>14, <1>15 DEF Next, Execute

LEMMA ClockInvariant == Spec => []ClockInv
<1>1. Init => ClockInv
  <2>1. Init => TypeOK
    BY DEF Init, TypeOK, Fresh, Account, Times, Reasons
  <2>2. ASSUME Init, NEW r \in Runs
        PROVE  Sound(r)
    <3>1. /\ status[r] = "none" /\ started[r] = Never /\ created[r] = 0 /\ now = 0
          /\ account[r] = Fresh /\ inflight[r] = 0 /\ worked[r] = 0 /\ quiet[r] = 0
      BY <2>2 DEF Init
    <3>2. QED
      BY <3>1 DEF Sound, Past, Unstarted, Balanced, Since, Fresh, ActiveRun
  <2>3. QED
    BY <2>1, <2>2 DEF ClockInv
<1>2. ClockInv /\ [Next]_vars => ClockInv'
  <2>1. ASSUME ClockInv, Next
        PROVE  ClockInv'
    <3>1. TypeOK'
      BY <2>1, TypeStep DEF ClockInv
    <3>2. QED
      BY <2>1, <3>1, SoundStep DEF ClockInv
  <2>2. ASSUME ClockInv, UNCHANGED vars
        PROVE  ClockInv'
    <3>1. TypeOK'
      BY <2>2, TypeStep DEF ClockInv
    <3>2. ASSUME NEW r \in Runs \ skewed'
          PROVE  Sound(r)'
      BY <2>2, <3>2, SoundFrame DEF ClockInv, vars, rows, history
    <3>3. QED
      BY <3>1, <3>2 DEF ClockInv
  <2>3. QED
    BY <2>1, <2>2
<1>3. QED
  BY <1>1, <1>2, PTL DEF Spec

\* The wall clock of an unmarked run shows the time it worked, however often the
\* run was paused and resumed (_apply_pause_accounting, enforce_budget_guardrails).
THEOREM WallClockIsWork == Spec => []ClockMeasuresWork
<1>1. ClockInv => ClockMeasuresWork
  <2>1. ASSUME ClockInv, NEW r \in Runs \ skewed, status[r] \in ActiveRun
        PROVE  Elapsed(r) = worked[r]
    <3>1. /\ Since(r) + account[r].pausedTotal + worked[r] = now
          /\ Since(r) \in Nat /\ account[r].pausedTotal \in Nat /\ worked[r] \in Nat /\ now \in Nat
      BY <2>1 DEF ClockInv, TypeOK, Sound, Balanced, Since, Account, Times
    <3>2. QED
      BY <3>1 DEF Elapsed, Minus
  <2>2. QED
    BY <2>1 DEF ClockMeasuresWork
<1>2. QED
  BY <1>1, ClockInvariant, PTL

\* Only the read of its accounting gives a run a stop reason.
LEMMA VerdictIsRead ==
  ASSUME TypeOK, Next, NEW r \in Runs, guard'[r] # guard[r], guard'[r] \notin {"none", "ticking"}
  PROVE  guard'[r] = Due(r)
<1>1. guard' # guard
  OBVIOUS
<1>2. ASSUME NEW q \in Runs, Loop(q)
      PROVE  guard'[r] = Due(r)
  <2>1. CASE BeginTick(q)
    BY <2>1 DEF BeginTick, TypeOK
  <2>2. CASE ReadAccount(q)
    BY <2>2 DEF ReadAccount, TypeOK
  <2>3. CASE ApplyGuard(q)
    BY <2>3 DEF ApplyGuard, TypeOK
  <2>4. QED
    BY <1>2, <2>1, <2>2, <2>3 DEF Loop
<1>3. ASSUME NEW q \in Runs
      PROVE  ~Operator(q) /\ ~Execute(q)
  <2>1. ~Operator(q)
    BY <1>1 DEF Operator, Pause, Resume, Drain, Cancel, From, Create, Insert, Row
  <2>2. ~Execute(q)
    BY <1>1 DEF Execute, Claim, Succeed, Fail, FailAndPause, Expire, Settle, From
  <2>3. QED
    BY <2>1, <2>2
<1>4. ASSUME NEW q \in Requests, NEW s \in Runs
      PROVE  ~RetryRefused(q) /\ ~CheckRetry(q, s) /\ ~Retry(q, s)
  BY <1>1 DEF RetryRefused, CheckRetry, Retry, Insert, Row
<1>5. ~TimePasses /\ \A p, s \in Runs : ~RetryStale(p, s)
  BY <1>1 DEF TimePasses, RetryStale, Row
<1>6. QED
  BY <1>2, <1>3, <1>4, <1>5 DEF Next

\* A clock stops an unmarked run only when it is due (enforce_budget_guardrails).
THEOREM GuardStopsWhenDue == Spec => GuardIsDue
<1> DEFINE Rightly ==
      \A r \in Runs \ skewed : status[r] \in ActiveRun /\ guard'[r] # guard[r] =>
        /\ guard'[r] = "wall_clock" => worked[r] >= WallClock
        /\ guard'[r] = "no_progress" => quiet[r] >= NoProgress
<1>1. ClockInv /\ [Next]_vars => [Rightly]_vars
  <2>1. ASSUME ClockInv, Next, NEW r \in Runs \ skewed, status[r] \in ActiveRun,
               guard'[r] # guard[r], guard'[r] \in {"wall_clock", "no_progress"}
        PROVE  /\ guard'[r] = "wall_clock" => worked[r] >= WallClock
               /\ guard'[r] = "no_progress" => quiet[r] >= NoProgress
    <3>1. guard'[r] = Due(r)
      BY <2>1, VerdictIsRead DEF ClockInv
    <3>2. /\ Since(r) + account[r].pausedTotal + worked[r] = now
          /\ LastProgress(r) + quiet[r] = now
          /\ Since(r) \in Nat /\ account[r].pausedTotal \in Nat
          /\ worked[r] \in Nat /\ quiet[r] \in Nat /\ now \in Nat
      BY <2>1 DEF ClockInv, TypeOK, Sound, Balanced, Since, Account, Times
    <3>3. LastProgress(r) \in Nat
      BY <2>1, <3>2 DEF ClockInv, TypeOK, LastProgress, Later, Account, Times
    <3>4. Elapsed(r) = worked[r] /\ now - LastProgress(r) = quiet[r]
      BY <3>2, <3>3 DEF Elapsed, Minus
    <3>5. /\ Due(r) = "wall_clock" => Elapsed(r) >= WallClock
          /\ Due(r) = "no_progress" => now - LastProgress(r) >= NoProgress
      BY DEF Due
    <3>6. QED
      BY <3>1, <3>4, <3>5
  <2>2. QED
    BY <2>1
<1>2. Spec => [][Rightly]_vars
  BY <1>1, ClockInvariant, PTL DEF Spec
<1>3. QED
  BY <1>2 DEF GuardIsDue

-----------------------------------------------------------------------------
(* The slot of the document.                                               *)

OneActive ==
  \A r, q \in Runs : status[r] \in ActiveRun /\ status[q] \in ActiveRun => r = q

\* A step that changes the status of one run, and makes it active only when the
\* slot is free, leaves at most one active.
LEMMA SlotKept ==
  ASSUME TypeOK, OneActive, NEW r \in Runs, NEW to,
         status' = [status EXCEPT ![r] = to],
         to \in ActiveRun => SlotFree(r)
  PROVE  OneActive'
BY DEF TypeOK, OneActive, SlotFree

LEMMA OneActiveStep ==
  ASSUME TypeOK, OneActive, [Next]_vars
  PROVE  OneActive'
<1>1. ASSUME UNCHANGED status
      PROVE  OneActive'
  BY <1>1 DEF OneActive
<1>2. ASSUME NEW r \in Runs, NEW to, Transition(r, to)
      PROVE  OneActive'
  BY <1>2, SlotKept DEF Transition
<1>3. ASSUME NEW r \in Runs, NEW a, NEW to, Insert(r, a, to)
      PROVE  OneActive'
  BY <1>3, SlotKept DEF Insert
<1>4. ASSUME NEW r \in Runs, Operator(r)
      PROVE  OneActive'
  BY <1>2, <1>3, <1>4 DEF Operator, Create, Pause, Resume, Drain, Cancel, From
<1>5. ASSUME NEW r \in Runs, Loop(r)
      PROVE  OneActive'
  BY <1>1, <1>2, <1>5 DEF Loop, BeginTick, ReadAccount, ApplyGuard, Stops, rows
<1>6. ASSUME NEW r \in Runs, Execute(r)
      PROVE  OneActive'
  <2>1. CASE FailAndPause(r)
    BY <2>1, SlotKept DEF FailAndPause, ActiveRun
  <2>2. CASE Settle(r)
    BY <1>2, <2>2 DEF Settle, From
  <2>3. CASE Claim(r) \/ Succeed(r) \/ Fail(r) \/ Expire(r)
    BY <1>1, <2>3 DEF Claim, Succeed, Fail, Expire, rows
  <2>4. QED
    BY <1>6, <2>1, <2>2, <2>3 DEF Execute
<1>7. ASSUME NEW q \in Requests, NEW r \in Runs,
             RetryRefused(q) \/ CheckRetry(q, r) \/ Retry(q, r)
      PROVE  OneActive'
  BY <1>1, <1>3, <1>7 DEF RetryRefused, CheckRetry, Retry, rows
<1>8. ASSUME NEW q \in Requests, RetryRefused(q)
      PROVE  OneActive'
  BY <1>1, <1>8 DEF RetryRefused, rows
<1>9. ASSUME NEW p \in Runs, NEW r \in Runs, RetryStale(p, r)
      PROVE  OneActive'
  <2>1. \A q \in Runs : status'[q] \in ActiveRun => q = r
    BY <1>9 DEF RetryStale, SlotFree, ActiveRun, TypeOK
  <2>2. QED
    BY <2>1 DEF OneActive, ActiveRun
<1>10. CASE TimePasses \/ UNCHANGED vars
  BY <1>1, <1>10 DEF TimePasses, vars, rows
<1>11. QED
  BY <1>4, <1>5, <1>6, <1>7, <1>8, <1>9, <1>10 DEF Next

\* While a run of the document is active no other run takes on work, however many
\* runs and requests there are (uq_document_runs_active_per_document).
THEOREM OnlyOneRunTakesWork == Spec => OneRunTakesWork
<1> DEFINE Alone ==
      \A r, q \in Runs : r # q /\ status[q] \in ActiveRun => inflight'[r] <= inflight[r]
<1>1. Init => TypeOK /\ OneActive
  BY DEF Init, TypeOK, Fresh, Account, Times, Reasons, OneActive, ActiveRun
<1>2. TypeOK /\ OneActive /\ [Next]_vars => (TypeOK /\ OneActive)'
  BY TypeStep, OneActiveStep
<1>3. TypeOK /\ OneActive /\ [Next]_vars => [Alone]_vars
  <2>1. ASSUME TypeOK, OneActive, Next, NEW r \in Runs, NEW q \in Runs,
               r # q, status[q] \in ActiveRun
        PROVE  inflight'[r] <= inflight[r]
    <3>1. inflight[r] \in Nat /\ status[r] # "running"
      BY <2>1 DEF TypeOK, OneActive, ActiveRun
    <3>2. CASE UNCHANGED inflight
      BY <3>1, <3>2
    <3>3. CASE \E s \in Runs : Claim(s)
      BY <2>1, <3>1, <3>3 DEF Claim, TypeOK
    <3>4. CASE \E s \in Runs : inflight' = [inflight EXCEPT ![s] = @ - 1]
      BY <2>1, <3>1, <3>4 DEF TypeOK
    <3>5. ASSUME NEW s \in Runs, Operator(s) \/ Loop(s)
          PROVE  UNCHANGED inflight
      BY <3>5 DEF Operator, Pause, Resume, Drain, Cancel, From, Create, Insert, Row,
                  Loop, BeginTick, ReadAccount, ApplyGuard
    <3>6. ASSUME NEW s \in Runs, Execute(s)
          PROVE  Claim(s) \/ UNCHANGED inflight \/ inflight' = [inflight EXCEPT ![s] = @ - 1]
      BY <3>6 DEF Execute, Succeed, Fail, FailAndPause, Expire, Settle, From
    <3>7. ASSUME NEW s \in Requests, NEW p \in Runs,
                 RetryRefused(s) \/ CheckRetry(s, p) \/ Retry(s, p)
          PROVE  UNCHANGED inflight
      BY <3>7 DEF RetryRefused, CheckRetry, Retry, Insert, Row
    <3>8. TimePasses \/ (\E p, s \in Runs : RetryStale(p, s)) => UNCHANGED inflight
      BY DEF TimePasses, RetryStale, Row
    <3>9. QED
      BY <2>1, <3>2, <3>3, <3>4, <3>5, <3>6, <3>7, <3>8 DEF Next
  <2>2. QED
    BY <2>1
<1>4. Spec => [][Alone]_vars
  BY <1>1, <1>2, <1>3, PTL DEF Spec
<1>5. QED
  BY <1>4 DEF OneRunTakesWork
=============================================================================
