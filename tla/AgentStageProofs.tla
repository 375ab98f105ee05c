--------------------------- MODULE AgentStageProofs ---------------------------
(***************************************************************************)
(* Proofs about AgentStage: whatever number of threads drive the turns of  *)
(* a stage and of people decide their approvals, a tool call gets one      *)
(* result, an irreversible one is approved before it runs, a turn stays    *)
(* within its budget, and a turn that waits can be woken.                  *)
(***************************************************************************)
EXTENDS AgentStage, TLAPS, SequenceTheorems

Driving == {"prepare", "sample", "done", "broken"}

\* At most one thread holds a lease, and it holds the item.
OneHolder ==
  /\ \A v, w \in lease : v = w
  /\ lease # {} => item.status \in Owned

\* A thread that drives a turn drives one that was opened.
KnownTurns ==
  /\ item.turn <= opened
  /\ \A w \in Workers : worker[w].phase \in Driving => worker[w].turn \in 1..opened

\* An item without a turn to resume opens one at each attempt, and a fault lies
\* between two attempts.
TurnsCostFaults ==
  /\ faults <= MaxFaults
  /\ opened <= faults + 1
  /\ item.turn = 0 /\ item.status \in {"none"} \cup Claimable => opened <= faults
  /\ item.turn = 0 => \A w \in lease :
       worker[w].phase \in {"idle", "claimed", "failing"} => opened <= faults

\* A budget request that is being decided was filed.
KnownRequests ==
  \A a \in People : deciding[a] # Nothing /\ deciding[a].what \notin Calls =>
    deciding[a].what \in DOMAIN extension[deciding[a].turn]

Structure == TypeOK /\ OneHolder /\ KnownTurns /\ TurnsCostFaults /\ KnownRequests

-----------------------------------------------------------------------------
(* Type correctness and the structure of a stage.                          *)

\* The run is left running, is paused or fails.
LEMMA RunType ==
  ASSUME TypeOK, NEW it, NEW deg
  PROVE  /\ Reconciled(run, it, deg) \in {"running", "paused", "failed"}
         /\ PausedBySystem(run) \in {"running", "paused", "failed"}
BY DEF TypeOK, Reconciled, PausedBySystem, FailedBySystem, CanPause, CanFail

\* A thread that moves on keeps its turn.
LEMMA GoToType ==
  ASSUME TypeOK, NEW w \in Workers, NEW phase \in Phases, GoTo(w, phase)
  PROVE  /\ worker' \in [Workers -> [phase : Phases, turn : 0..(MaxFaults + 1)]]
         /\ worker'[w].phase = phase /\ worker'[w].turn = worker[w].turn
         /\ \A v \in Workers \ {w} : worker'[v] = worker[v]
BY DEF TypeOK, GoTo

Items == [status : ItemStatuses \cup {"none"}, attempt : Nat \ {0}, turn : 0..(MaxFaults + 1)]

\* An item whose status changes keeps the turn it resumes.
LEMMA StatusType ==
  ASSUME NEW it \in Items, NEW s \in ItemStatuses, NEW new, new = [it EXCEPT !.status = s]
  PROVE  new \in Items /\ new.status = s /\ new.turn = it.turn /\ new.attempt = it.attempt
BY DEF Items

\* A completed item is the same one with another status, and its thread is idle.
LEMMA CompletesType ==
  ASSUME TypeOK, NEW w \in Workers, NEW status \in ItemStatuses, Completes(w, status)
  PROVE  /\ worker' \in [Workers -> [phase : Phases, turn : 0..(MaxFaults + 1)]]
         /\ worker'[w] = IdleThread
         /\ \A v \in Workers \ {w} : worker'[v] = worker[v]
         /\ item' \in Items
         /\ item'.status = status /\ item'.turn = item.turn
         /\ w \in lease /\ lease' = lease \ {w}
<1>1. item \in Items
  BY DEF TypeOK, Items
<1>2. /\ item' \in Items
      /\ item'.status = status /\ item'.turn = item.turn
  BY <1>1, StatusType DEF Completes
<1>3. /\ worker' \in [Workers -> [phase : Phases, turn : 0..(MaxFaults + 1)]]
      /\ worker'[w] = IdleThread
      /\ \A v \in Workers \ {w} : worker'[v] = worker[v]
  BY AgentStageAssumption DEF TypeOK, Completes, IdleThread, Phases
<1>4. QED
  BY <1>2, <1>3 DEF Completes

LEMMA InitStructure == Init => Structure
<1> SUFFICES ASSUME Init PROVE Structure
  OBVIOUS
<1>1. TypeOK
  <2>1. NoItem \in Items
    BY AgentStageAssumption DEF NoItem, Items
  <2>2. NoTurn \in [status : TurnStatuses, steps : Nat, allowed : Nat]
    BY AgentStageAssumption DEF NoTurn, TurnStatuses
  <2>3. IdleThread \in [phase : Phases, turn : 0..(MaxFaults + 1)]
    BY AgentStageAssumption DEF IdleThread, Phases
  <2>4. << >> \in Seq({"pending", "approved", "rejected"})
    OBVIOUS
  <2>5. /\ turn \in [Turns -> [status : TurnStatuses, steps : Nat, allowed : Nat]]
        /\ worker \in [Workers -> [phase : Phases, turn : 0..(MaxFaults + 1)]]
        /\ extension \in [Turns -> Seq({"pending", "approved", "rejected"})]
    BY <2>2, <2>3, <2>4 DEF Init
  <2>6. item \in Items /\ lease \subseteq Workers /\ opened \in 0..(MaxFaults + 1)
    BY AgentStageAssumption, <2>1 DEF Init
  <2>7. QED
    BY <2>5, <2>6 DEF Init, TypeOK, Items
<1>2. OneHolder /\ KnownTurns /\ TurnsCostFaults /\ KnownRequests
  BY AgentStageAssumption
     DEF Init, OneHolder, KnownTurns, TurnsCostFaults, KnownRequests, NoItem, IdleThread, Driving
<1>3. QED
  BY <1>1, <1>2 DEF Structure

LEMMA LoopStructure ==
  ASSUME Structure, \/ Seed \/ Reconcile \/ DelayElapses \/ Pause \/ Resume
  PROVE  Structure'
<1> USE AgentStageAssumption DEF Structure
<1>1. CASE Seed
  <2>1. lease = {}
    BY <1>1 DEF Seed, CanSeed, OneHolder, Owned
  <2>2. item' = [status |-> "pending", attempt |-> 1, turn |-> opened]
    BY <1>1 DEF Seed
  <2>3. opened \in 0..(MaxFaults + 1)
    BY DEF TypeOK
  <2>4. item' \in Items /\ item'.turn = opened
    BY <2>2, <2>3 DEF Items, ItemStatuses
  <2>5. TypeOK'
    BY <1>1, <2>4 DEF Seed, TypeOK, Items, books
  <2>6. OneHolder' /\ KnownTurns' /\ KnownRequests'
    BY <1>1, <2>1, <2>3, <2>4 DEF Seed, OneHolder, KnownTurns, KnownRequests, books
  <2>7. TurnsCostFaults'
    BY <1>1, <2>1, <2>3, <2>4 DEF Seed, TypeOK, TurnsCostFaults
  <2>8. QED
    BY <2>5, <2>6, <2>7
<1>2. CASE Reconcile
  BY <1>2, RunType DEF Reconcile, TypeOK, OneHolder, KnownTurns, TurnsCostFaults, KnownRequests, items, books
<1>3. CASE DelayElapses
  BY <1>3 DEF DelayElapses, TypeOK, OneHolder, KnownTurns, TurnsCostFaults, KnownRequests, books
<1>4. CASE Pause
  BY <1>4 DEF Pause, Fault, TypeOK, OneHolder, KnownTurns, TurnsCostFaults, KnownRequests, items, books
<1>5. CASE Resume
  BY <1>5 DEF Resume, TypeOK, OneHolder, KnownTurns, TurnsCostFaults, KnownRequests, items, books
<1>6. QED
  BY <1>1, <1>2, <1>3, <1>4, <1>5

LEMMA LeaseStructure ==
  ASSUME Structure, NEW w \in Workers, \/ Claim(w) \/ Reclaim(w) \/ Crash(w) \/ Discards(w)
  PROVE  Structure'
<1> USE AgentStageAssumption DEF Structure
<1>0. item \in Items
  BY DEF TypeOK, Items
<1>1. CASE Claim(w)
  <2> DEFINE n == IF item.status = "retryable_failed" THEN item.attempt + 1 ELSE item.attempt
  <2>0. n \in Nat \ {0}
    BY <1>0 DEF Items
  <2>1. item' = [status |-> "leased", attempt |-> n, turn |-> item.turn]
    BY <1>0, <1>1 DEF Claim, Items
  <2>2. item' \in Items /\ item'.status = "leased" /\ item'.turn = item.turn
    BY <1>0, <2>0, <2>1 DEF Items, ItemStatuses
  <2>3. lease = {} /\ lease' = {w}
    BY <1>1 DEF Claim, OneHolder, Owned, Claimable
  <2>4. /\ worker' \in [Workers -> [phase : Phases, turn : 0..(MaxFaults + 1)]]
        /\ worker'[w].phase = "claimed"
        /\ \A v \in Workers \ {w} : worker'[v] = worker[v]
    <3>1. GoTo(w, "claimed")
      BY <1>1 DEF Claim, GoTo
    <3>2. QED
      BY <3>1, GoToType DEF Phases
  <2>5. TypeOK'
    BY <1>1, <2>2, <2>3, <2>4 DEF Claim, TypeOK, Items, books
  <2>6. OneHolder'
    BY <2>2, <2>3 DEF OneHolder, Owned
  <2>7. KnownTurns' /\ KnownRequests'
    BY <1>1, <2>2, <2>4 DEF Claim, KnownTurns, KnownRequests, books, Driving
  <2>8. TurnsCostFaults'
    BY <1>1, <2>2, <2>3, <2>4 DEF Claim, TurnsCostFaults, Claimable
  <2>9. QED
    BY <2>5, <2>6, <2>7, <2>8
<1>2. CASE Reclaim(w)
  <2>1. item.status \in Owned /\ lease' = {}
    BY <1>2 DEF Reclaim, OneHolder
  <2>2. item' = [item EXCEPT !.status = "retryable_failed"]
    BY <1>2, <2>1 DEF Reclaim
  <2>3. item' \in Items /\ item'.turn = item.turn
    BY <1>0, <2>2, StatusType DEF ItemStatuses
  <2>4. TypeOK'
    BY <1>2, <2>1, <2>3 DEF Reclaim, Fault, TypeOK, Items, books
  <2>5. OneHolder' /\ KnownTurns' /\ KnownRequests'
    BY <1>2, <2>1, <2>3 DEF Reclaim, OneHolder, KnownTurns, KnownRequests, books
  <2>6. TurnsCostFaults'
    BY <1>2, <2>1, <2>3 DEF Reclaim, Fault, TypeOK, TurnsCostFaults
  <2>7. QED
    BY <2>4, <2>5, <2>6
<1>3. CASE Crash(w)
  BY <1>3 DEF Crash, Fault, TypeOK, OneHolder, KnownTurns, TurnsCostFaults, KnownRequests, items, books,
              IdleThread, Phases, Driving
<1>4. CASE Discards(w)
  BY <1>4 DEF Discards, TypeOK, OneHolder, KnownTurns, TurnsCostFaults, KnownRequests, items, books,
              IdleThread, Phases, Driving
<1>5. QED
  BY <1>1, <1>2, <1>3, <1>4

AllResults == [Turns -> [Calls -> {"none", "ran", "refused", "again"}]]
AllTurns == [Turns -> [status : TurnStatuses, steps : Nat, allowed : Nat]]

\* The four ways a turn is written.
LEMMA StatusWrite ==
  ASSUME TypeOK, NEW t \in Turns, NEW s \in TurnStatuses, turn' = [turn EXCEPT ![t].status = s]
  PROVE  /\ turn' \in AllTurns
         /\ turn'[t].status = s /\ turn'[t].steps = turn[t].steps /\ turn'[t].allowed = turn[t].allowed
         /\ \A u \in Turns \ {t} : turn'[u] = turn[u]
BY DEF TypeOK, AllTurns

LEMMA StepWrite ==
  ASSUME TypeOK, NEW t \in Turns, NEW s \in TurnStatuses,
         \/ turn' = [turn EXCEPT ![t].status = s, ![t].steps = @ + 1]
         \/ turn' = [turn EXCEPT ![t].steps = @ + 1, ![t].status = s]
  PROVE  /\ turn' \in AllTurns
         /\ turn'[t].status = s /\ turn'[t].steps = turn[t].steps + 1 /\ turn'[t].allowed = turn[t].allowed
         /\ \A u \in Turns \ {t} : turn'[u] = turn[u]
<1>1. turn \in AllTurns /\ turn[t].steps \in Nat
  BY DEF TypeOK, AllTurns
<1>2. turn' = [turn EXCEPT ![t] = [status |-> s, steps |-> turn[t].steps + 1, allowed |-> turn[t].allowed]]
  <2>1. CASE turn' = [turn EXCEPT ![t].status = s, ![t].steps = @ + 1]
    BY <1>1, <2>1 DEF AllTurns
  <2>2. CASE turn' = [turn EXCEPT ![t].steps = @ + 1, ![t].status = s]
    BY <1>1, <2>2 DEF AllTurns
  <2>3. QED
    BY <2>1, <2>2
<1>3. QED
  BY <1>1, <1>2 DEF AllTurns

LEMMA BudgetWrite ==
  ASSUME TypeOK, NEW t \in Turns, NEW s \in TurnStatuses, NEW m \in Nat,
         turn' = [turn EXCEPT ![t].status = s, ![t].allowed = m]
  PROVE  /\ turn' \in AllTurns
         /\ turn'[t].status = s /\ turn'[t].steps = turn[t].steps /\ turn'[t].allowed = m
         /\ \A u \in Turns \ {t} : turn'[u] = turn[u]
BY DEF TypeOK, AllTurns

\* Nothing but phases, turns and requests changes while a turn is driven.
LEMMA DrivenStructure ==
  ASSUME Structure, NEW w \in Workers, w \in lease, NEW phase \in Driving,
         worker[w].phase \in Driving, GoTo(w, phase),
         UNCHANGED <<run, items, lease, opened, deciding, faults>>,
         \A t \in Turns : DOMAIN extension[t] \subseteq DOMAIN extension'[t]
  PROVE  OneHolder' /\ KnownTurns' /\ TurnsCostFaults' /\ KnownRequests'
<1> USE DEF Structure
<1>1. /\ worker'[w].phase = phase /\ worker'[w].turn = worker[w].turn
      /\ \A v \in Workers \ {w} : worker'[v] = worker[v]
  BY GoToType DEF Driving, Phases
<1>2. OneHolder' /\ KnownTurns'
  BY <1>1 DEF OneHolder, KnownTurns, items
<1>3. lease \subseteq {w}
  BY DEF OneHolder
<1>4. TurnsCostFaults'
  BY <1>1, <1>3 DEF TurnsCostFaults, items, Driving
<1>5. KnownRequests'
  BY DEF KnownRequests, TypeOK
<1>6. QED
  BY <1>2, <1>4, <1>5

\* Settling the decided calls keeps the type of the results.
LEMMA SettledType ==
  ASSUME TypeOK, NEW t \in Turns
  PROVE  SettledCalls(t) \in [Calls -> {"none", "ran", "refused"} \cup {"again"}]
BY DEF TypeOK, SettledCalls

LEMMA OpenTurnStructure ==
  ASSUME Structure, NEW w \in Workers, OpenTurn(w)
  PROVE  Structure'
<1> USE AgentStageAssumption DEF Structure
<1>1. item' = [item EXCEPT !.status = "running"] /\ item \in Items
  BY DEF OpenTurn, TypeOK, Items
<1>2. item' \in Items /\ item'.status = "running" /\ item'.turn = item.turn
  BY <1>1, StatusType DEF ItemStatuses
<1>3. w \in lease /\ lease = {w} /\ worker[w].phase = "claimed"
  BY DEF OpenTurn, OneHolder
<1>4. PICK n \in 1..opened' : worker' = [worker EXCEPT ![w] = [phase |-> "prepare", turn |-> n]]
  BY DEF OpenTurn, TypeOK, Items, KnownTurns
<1>5. /\ opened' \in 0..(MaxFaults + 1) /\ opened <= opened'
      /\ opened' <= faults + 1
      /\ turn' \in AllTurns
  <2>1. CASE item.turn # 0
    BY <2>1 DEF OpenTurn, TypeOK, AllTurns, TurnsCostFaults
  <2>2. CASE item.turn = 0
    <3>1. opened' = opened + 1 /\ turn' = [turn EXCEPT ![opened'].status = "running"]
      BY <2>2 DEF OpenTurn
    <3>2. opened \in Nat /\ opened <= faults /\ faults <= MaxFaults /\ faults \in Nat
      BY <1>3, <2>2 DEF TypeOK, TurnsCostFaults
    <3>3. opened' \in Turns
      BY <3>1, <3>2 DEF Turns
    <3>4. turn' \in AllTurns
      BY <3>1, <3>3, StatusWrite DEF TurnStatuses
    <3>5. QED
      BY <3>1, <3>2, <3>4
  <2>3. QED
    BY <2>1, <2>2
<1>6. /\ worker' \in [Workers -> [phase : Phases, turn : 0..(MaxFaults + 1)]]
      /\ worker'[w] = [phase |-> "prepare", turn |-> n]
      /\ \A v \in Workers \ {w} : worker'[v] = worker[v]
  BY <1>4, <1>5 DEF TypeOK, Phases
<1>7. TypeOK'
  BY <1>2, <1>5, <1>6 DEF OpenTurn, TypeOK, Items, books, AllTurns
<1>8. OneHolder' /\ KnownRequests'
  BY <1>2, <1>3 DEF OpenTurn, OneHolder, Owned, KnownRequests, books
<1>9. KnownTurns'
  BY <1>2, <1>4, <1>5, <1>6 DEF KnownTurns, TypeOK
<1>10. TurnsCostFaults'
  BY <1>2, <1>3, <1>5, <1>6 DEF OpenTurn, TurnsCostFaults, Claimable
<1>11. QED
  BY <1>7, <1>8, <1>9, <1>10

LEMMA PrepareStructure ==
  ASSUME Structure, NEW w \in Workers, Prepare(w)
  PROVE  Structure'
<1> DEFINE t == worker[w].turn
<1> USE AgentStageAssumption DEF Structure
<1>1. w \in lease /\ worker[w].phase = "prepare" /\ t \in Turns
  BY DEF Prepare, KnownTurns, TypeOK, Driving, Turns
<1>2. PICK phase \in Driving : GoTo(w, phase)
  BY DEF Prepare, Driving
<1>3. UNCHANGED <<run, items, lease, opened, deciding, faults, approval>>
  BY DEF Prepare, books
<1>4. turn' \in AllTurns
  <2>1. \/ turn' = turn
        \/ turn' = [turn EXCEPT ![t].status = "awaiting_approval"]
        \/ turn' = [turn EXCEPT ![t].status = "paused"]
    BY DEF Prepare
  <2>2. QED
    BY <1>1, <2>1, StatusWrite DEF TypeOK, AllTurns, TurnStatuses
<1>5. result' \in AllResults
  <2>1. \/ result' = result
        \/ result' = [result EXCEPT ![t] = SettledCalls(t)]
        \/ \E S \in SUBSET Calls :
             result' = [result EXCEPT ![t] = [c \in Calls |-> IF c \in S THEN SettledCalls(t)[c]
                                                            ELSE result[t][c]]]
    BY DEF Prepare, books
  <2>2. SettledCalls(t) \in [Calls -> {"none", "ran", "refused", "again"}]
    BY <1>1, SettledType
  <2>3. ASSUME NEW R \in [Calls -> {"none", "ran", "refused", "again"}],
               result' = [result EXCEPT ![t] = R]
        PROVE  result' \in AllResults
    BY <2>3, <1>1 DEF TypeOK, AllResults
  <2>4. \A S \in SUBSET Calls :
          [c \in Calls |-> IF c \in S THEN SettledCalls(t)[c] ELSE result[t][c]]
            \in [Calls -> {"none", "ran", "refused", "again"}]
    BY <1>1, <2>2 DEF TypeOK
  <2>5. QED
    BY <2>1, <2>2, <2>3, <2>4 DEF TypeOK, AllResults
<1>6. /\ extension' \in [Turns -> Seq({"pending", "approved", "rejected"})]
      /\ \A u \in Turns : DOMAIN extension[u] \subseteq DOMAIN extension'[u]
  <2>1. \/ extension' = extension
        \/ extension' = [extension EXCEPT ![t] = Append(@, "pending")]
    BY DEF Prepare, books
  <2>2. /\ extension[t] \in Seq({"pending", "approved", "rejected"})
        /\ Append(extension[t], "pending") \in Seq({"pending", "approved", "rejected"})
        /\ DOMAIN extension[t] \subseteq DOMAIN Append(extension[t], "pending")
    BY <1>1, AppendProperties DEF TypeOK
  <2>3. CASE extension' = extension
    BY <2>3 DEF TypeOK
  <2>4. CASE extension' = [extension EXCEPT ![t] = Append(@, "pending")]
    BY <1>1, <2>2, <2>4 DEF TypeOK
  <2>5. QED
    BY <2>1, <2>3, <2>4
<1>7. TypeOK'
  BY <1>2, <1>3, <1>4, <1>5, <1>6, GoToType DEF TypeOK, AllTurns, AllResults, items, Driving, Phases
<1>8. OneHolder' /\ KnownTurns' /\ TurnsCostFaults' /\ KnownRequests'
  BY <1>1, <1>2, <1>3, <1>6, DrivenStructure DEF Driving
<1>9. QED
  BY <1>7, <1>8

\* A step adds one to the steps of the turn; the calls it asks for had neither a
\* result nor a request, and those of an irreversible tool get a request.
LEMMA ApplyEffect ==
  ASSUME TypeOK, NEW w \in Workers, worker[w].turn \in Turns, Apply(w)
  PROVE  LET t == worker[w].turn
         IN  /\ turn' \in AllTurns /\ result' \in AllResults
             /\ approval' \in [Turns -> [Calls -> {"none", "pending", "approved", "rejected"}]]
             /\ turn'[t].steps = turn[t].steps + 1 /\ turn'[t].allowed = turn[t].allowed
             /\ \A u \in Turns \ {t} : turn'[u] = turn[u] /\ approval'[u] = approval[u] /\ result'[u] = result[u]
             /\ turn'[t].status \in {"awaiting_approval", "succeeded", turn[t].status}
             /\ \A c \in Calls : result'[t][c] = result[t][c] \/ (result[t][c] = "none" /\ result'[t][c] = "ran" /\ c \notin Irreversible)
             /\ \A c \in Calls : approval[t][c] = "pending" => approval'[t][c] = "pending"
             /\ turn'[t].status = "awaiting_approval" =>
                  \/ turn[t].status = "awaiting_approval" /\ approval'[t] = approval[t]
                  \/ \E c \in Calls : approval'[t][c] = "pending"
<1> DEFINE t == worker[w].turn
<1>1. CASE Finish(t)
  <2>1. turn' = [turn EXCEPT ![t].status = "succeeded", ![t].steps = @ + 1] /\ UNCHANGED books
    BY <1>1 DEF Finish
  <2>2. QED
    BY <2>1, StepWrite DEF TypeOK, books, AllResults, TurnStatuses
<1>2. ASSUME NEW asked \in SUBSET {c \in Calls : result[t][c] = "none" /\ approval[t][c] = "none"},
             Act(t, asked)
      PROVE  /\ turn' \in AllTurns /\ result' \in AllResults
             /\ approval' \in [Turns -> [Calls -> {"none", "pending", "approved", "rejected"}]]
             /\ turn'[t].steps = turn[t].steps + 1 /\ turn'[t].allowed = turn[t].allowed
             /\ \A u \in Turns \ {t} : turn'[u] = turn[u] /\ approval'[u] = approval[u] /\ result'[u] = result[u]
             /\ turn'[t].status \in {"awaiting_approval", turn[t].status}
             /\ \A c \in Calls : result'[t][c] = result[t][c] \/ (result[t][c] = "none" /\ result'[t][c] = "ran" /\ c \notin Irreversible)
             /\ \A c \in Calls : approval[t][c] = "pending" => approval'[t][c] = "pending"
             /\ turn'[t].status = "awaiting_approval" =>
                  \/ turn[t].status = "awaiting_approval" /\ approval'[t] = approval[t]
                  \/ \E c \in Calls : approval'[t][c] = "pending"
  <2> DEFINE waiting == asked \cap Irreversible
             status  == IF waiting = {} THEN turn[t].status ELSE "awaiting_approval"
  <2>1. status \in TurnStatuses
    BY DEF TypeOK, TurnStatuses
  <2>2. turn' = [turn EXCEPT ![t].steps = @ + 1, ![t].status = status]
    BY <1>2 DEF Act
  <2>3. /\ turn' \in AllTurns
        /\ turn'[t].status = status /\ turn'[t].steps = turn[t].steps + 1 /\ turn'[t].allowed = turn[t].allowed
        /\ \A u \in Turns \ {t} : turn'[u] = turn[u]
    <3> HIDE DEF status
    <3>1. QED
      BY <2>1, <2>2, StepWrite
  <2>4. approval' = [approval EXCEPT ![t] = [c \in Calls |-> IF c \in waiting THEN "pending" ELSE approval[t][c]]]
    BY <1>2 DEF Act, TypeOK
  <2>5. result' = [result EXCEPT ![t] = [c \in Calls |-> IF c \in asked \ waiting THEN "ran" ELSE result[t][c]]]
    <3>1. \A c \in asked : result[t][c] = "none"
      OBVIOUS
    <3>2. result' = [result EXCEPT ![t] = [c \in Calls |-> IF c \in asked \ waiting
                                             THEN Answer(result[t][c], "ran") ELSE result[t][c]]]
      BY <1>2 DEF Act
    <3>3. [c \in Calls |-> IF c \in asked \ waiting THEN Answer(result[t][c], "ran") ELSE result[t][c]]
          = [c \in Calls |-> IF c \in asked \ waiting THEN "ran" ELSE result[t][c]]
      BY <3>1 DEF Answer
    <3>4. QED
      BY <3>2, <3>3
  <2>6. /\ approval' \in [Turns -> [Calls -> {"none", "pending", "approved", "rejected"}]]
        /\ approval'[t] = [c \in Calls |-> IF c \in waiting THEN "pending" ELSE approval[t][c]]
        /\ \A u \in Turns \ {t} : approval'[u] = approval[u]
    BY <2>4 DEF TypeOK
  <2>7. /\ result' \in AllResults
        /\ result'[t] = [c \in Calls |-> IF c \in asked \ waiting THEN "ran" ELSE result[t][c]]
        /\ \A u \in Turns \ {t} : result'[u] = result[u]
    BY <2>5 DEF TypeOK, AllResults
  <2>8. status = "awaiting_approval" =>
          \/ turn[t].status = "awaiting_approval" /\ approval'[t] = approval[t]
          \/ \E c \in Calls : approval'[t][c] = "pending"
    <3>1. CASE waiting = {}
      BY <2>6, <3>1 DEF TypeOK
    <3>2. CASE waiting # {}
      BY <2>6, <3>2
    <3>3. QED
      BY <3>1, <3>2
  <2>9. QED
    <3> HIDE DEF status
    <3>1. status = turn[t].status \/ status = "awaiting_approval"
      BY DEF status
    <3>2. QED
      BY <2>3, <2>6, <2>7, <2>8, <3>1
<1>3. QED
  BY <1>1, <1>2 DEF Apply

LEMMA ApplyStructure ==
  ASSUME Structure, NEW w \in Workers, Apply(w)
  PROVE  Structure'
<1> DEFINE t == worker[w].turn
<1> USE AgentStageAssumption DEF Structure
<1>1. w \in lease /\ worker[w].phase = "sample" /\ t \in Turns
  BY DEF Apply, KnownTurns, TypeOK, Driving, Turns
<1>2. PICK phase \in Driving : GoTo(w, phase)
  BY DEF Apply, Driving
<1>3. UNCHANGED <<run, items, lease, opened, deciding, faults, extension>>
  BY DEF Apply, Finish, Act, books
<1>4. turn' \in AllTurns
  BY <1>1, ApplyEffect
<1>5. result' \in AllResults /\ approval' \in [Turns -> [Calls -> {"none", "pending", "approved", "rejected"}]]
  BY <1>1, ApplyEffect
<1>6. TypeOK'
  BY <1>2, <1>3, <1>4, <1>5, GoToType DEF TypeOK, AllTurns, AllResults, items, Driving, Phases
<1>7. OneHolder' /\ KnownTurns' /\ TurnsCostFaults' /\ KnownRequests'
  BY <1>1, <1>2, <1>3, DrivenStructure DEF Driving
<1>8. QED
  BY <1>6, <1>7

LEMMA EndStructure ==
  ASSUME Structure, NEW w \in Workers, \/ Raise(w) \/ Complete(w) \/ BlockersLeft(w) \/ FailItem(w)
  PROVE  Structure'
<1> USE AgentStageAssumption DEF Structure
<1>1. CASE Raise(w)
  <2>1. GoTo(w, "failing") /\ UNCHANGED <<run, items, lease, opened, books, deciding>>
    BY <1>1 DEF Raise
  <2>2. faults' = faults + 1 /\ faults < MaxFaults
    BY <1>1 DEF Raise, Fault
  <2>3. turn' \in AllTurns
    <3>1. CASE worker[w].phase \in {"prepare", "sample"}
      <4>1. turn' = [turn EXCEPT ![worker[w].turn].status = "failed"]
        BY <1>1, <3>1 DEF Raise
      <4>2. worker[w].turn \in Turns
        BY <3>1 DEF KnownTurns, Driving, TypeOK, Turns
      <4>3. QED
        BY <4>1, <4>2, StatusWrite DEF TurnStatuses
    <3>2. CASE worker[w].phase \notin {"prepare", "sample"}
      BY <1>1, <3>2 DEF Raise, TypeOK, AllTurns
    <3>3. QED
      BY <3>1, <3>2
  <2>4. /\ worker' \in [Workers -> [phase : Phases, turn : 0..(MaxFaults + 1)]]
        /\ worker'[w].phase = "failing"
        /\ \A v \in Workers \ {w} : worker'[v] = worker[v]
    BY <2>1, GoToType DEF Phases
  <2>5. TypeOK'
    BY <2>1, <2>2, <2>3, <2>4 DEF TypeOK, AllTurns, items, books
  <2>6. OneHolder' /\ KnownTurns' /\ KnownRequests'
    BY <2>1, <2>4 DEF OneHolder, KnownTurns, KnownRequests, items, books, Driving
  <2>7. TurnsCostFaults'
    BY <2>1, <2>2 DEF TypeOK, TurnsCostFaults, items
  <2>8. QED
    BY <2>5, <2>6, <2>7
<1>2. CASE Complete(w)
  <2>1. Completes(w, "succeeded") /\ UNCHANGED <<run, advisory, delayed, degraded, opened, turn, books, deciding, faults>>
    BY <1>2 DEF Complete
  <2>2. /\ worker' \in [Workers -> [phase : Phases, turn : 0..(MaxFaults + 1)]]
        /\ worker'[w] = IdleThread
        /\ \A v \in Workers \ {w} : worker'[v] = worker[v]
        /\ item' \in Items /\ item'.status = "succeeded" /\ item'.turn = item.turn
        /\ w \in lease /\ lease' = lease \ {w}
    BY <2>1, CompletesType DEF ItemStatuses
  <2>3. lease' = {}
    BY <2>2 DEF OneHolder
  <2>4. TypeOK'
    BY <2>1, <2>2 DEF TypeOK, Items, books
  <2>5. OneHolder' /\ KnownTurns' /\ KnownRequests'
    BY <2>1, <2>2, <2>3 DEF OneHolder, KnownTurns, KnownRequests, books, IdleThread, Driving
  <2>6. TurnsCostFaults'
    BY <2>1, <2>2, <2>3 DEF TurnsCostFaults, Claimable
  <2>7. QED
    BY <2>4, <2>5, <2>6
<1>3. CASE BlockersLeft(w)
  BY <1>3, GoToType DEF BlockersLeft, TypeOK, OneHolder, KnownTurns, TurnsCostFaults, KnownRequests, items, books,
     Phases, Driving
<1>4. CASE FailItem(w)
  <2>1. PICK status \in {"succeeded", "retryable_failed", "terminal_failed"} :
          /\ Completes(w, status)
          /\ status = "retryable_failed" => worker[w].phase = "failing"
    BY <1>4 DEF FailItem
  <2>2. /\ degraded' \in BOOLEAN /\ delayed' \in BOOLEAN
        /\ run' \in {"running", "paused", "failed"}
    BY <1>4, RunType DEF FailItem, TypeOK, Reconciled, PausedBySystem, FailedBySystem, CanPause, CanFail
  <2>3. UNCHANGED <<advisory, opened, turn, books, deciding, faults>>
    BY <1>4 DEF FailItem
  <2>4. /\ worker' \in [Workers -> [phase : Phases, turn : 0..(MaxFaults + 1)]]
        /\ worker'[w] = IdleThread
        /\ \A v \in Workers \ {w} : worker'[v] = worker[v]
        /\ item' \in Items /\ item'.status = status /\ item'.turn = item.turn
        /\ w \in lease /\ lease' = lease \ {w}
    BY <2>1, CompletesType DEF ItemStatuses
  <2>5. lease' = {}
    BY <2>4 DEF OneHolder
  <2>6. TypeOK'
    BY <2>2, <2>3, <2>4 DEF TypeOK, Items, books
  <2>7. OneHolder' /\ KnownTurns' /\ KnownRequests'
    BY <2>3, <2>4, <2>5 DEF OneHolder, KnownTurns, KnownRequests, books, IdleThread, Driving
  <2>8. TurnsCostFaults'
    BY <2>1, <2>3, <2>4, <2>5 DEF TurnsCostFaults, Claimable
  <2>9. QED
    BY <2>6, <2>7, <2>8
<1>5. QED
  BY <1>1, <1>2, <1>3, <1>4

\* A decision answers one request, and wakes or cancels the turn only if no other
\* request of its calls is open.
LEMMA DecideEffect ==
  ASSUME Structure, NEW a \in People, Decide(a)
  PROVE  LET t == deciding[a].turn
         IN  /\ t \in Turns
             /\ turn' \in AllTurns
             /\ approval' \in [Turns -> [Calls -> {"none", "pending", "approved", "rejected"}]]
             /\ extension' \in [Turns -> Seq({"pending", "approved", "rejected"})]
             /\ \A u \in Turns : DOMAIN extension'[u] = DOMAIN extension[u]
             /\ \A u \in Turns \ {t} : turn'[u] = turn[u] /\ approval'[u] = approval[u] /\ extension'[u] = extension[u]
             /\ turn'[t].steps = turn[t].steps /\ turn'[t].allowed >= turn[t].allowed
             /\ turn'[t].status = "awaiting_approval" =>
                  turn[t].status = "awaiting_approval" /\ \E c \in Calls : approval'[t][c] = "pending"
             /\ turn'[t].status = "paused" => turn[t].status = "paused" /\ extension'[t] = extension[t]
<1> USE AgentStageAssumption DEF Structure
<1> DEFINE t == deciding[a].turn
           x == deciding[a].what
<1>1. t \in Turns /\ x \in Calls \cup Nat /\ (x \notin Calls => x \in DOMAIN extension[t])
  BY DEF Decide, TypeOK, KnownRequests
<1>2. PICK verb \in {"approved", "rejected"} :
        IF x \in Calls THEN DecideCall(t, x, verb) ELSE DecideBudget(t, x, verb)
  BY DEF Decide
<1>3. CASE x \in Calls
  <2> DEFINE s == IF turn[t].status = "awaiting_approval" /\ Undecided(t) \subseteq {x}
                  THEN "running" ELSE turn[t].status
  <2>1. s \in TurnStatuses
    BY <1>1 DEF TypeOK, TurnStatuses
  <2>2. turn' = [turn EXCEPT ![t].status = s] /\ extension' = extension
    BY <1>2, <1>3 DEF DecideCall
  <2>3. approval' = [approval EXCEPT ![t][x] = verb]
    BY <1>2, <1>3 DEF DecideCall
  <2>4. /\ turn' \in AllTurns
        /\ turn'[t].status = s /\ turn'[t].steps = turn[t].steps /\ turn'[t].allowed = turn[t].allowed
        /\ \A u \in Turns \ {t} : turn'[u] = turn[u]
    <3> HIDE DEF s
    <3>1. QED
      BY <1>1, <2>1, <2>2, StatusWrite
  <2>5. /\ approval' \in [Turns -> [Calls -> {"none", "pending", "approved", "rejected"}]]
        /\ \A u \in Turns \ {t} : approval'[u] = approval[u]
        /\ \A c \in Calls \ {x} : approval'[t][c] = approval[t][c]
    BY <1>1, <1>3, <2>3 DEF TypeOK
  <2>6. s = "awaiting_approval" =>
          turn[t].status = "awaiting_approval" /\ \E c \in Calls : approval'[t][c] = "pending"
    BY <1>1, <2>5 DEF Undecided
  <2>7. turn[t].allowed \in Nat
    BY <1>1 DEF TypeOK
  <2>8. s = "paused" => turn[t].status = "paused"
    OBVIOUS
  <2>9. /\ extension' \in [Turns -> Seq({"pending", "approved", "rejected"})]
        /\ \A u \in Turns : extension'[u] = extension[u]
    BY <2>2 DEF TypeOK
  <2>10. turn'[t].allowed >= turn[t].allowed
    BY <2>4, <2>7
  <2>11. turn'[t].status = "awaiting_approval" =>
           turn[t].status = "awaiting_approval" /\ \E c \in Calls : approval'[t][c] = "pending"
    <3> HIDE DEF s
    <3>1. QED
      BY <2>4, <2>6
  <2>12. turn'[t].status = "paused" => turn[t].status = "paused" /\ extension'[t] = extension[t]
    <3> HIDE DEF s
    <3>1. QED
      BY <1>1, <2>4, <2>8, <2>9
  <2>13. QED
    <3> HIDE DEF s, t
    <3>1. QED
      BY <1>1, <2>4, <2>5, <2>9, <2>10, <2>11, <2>12 DEF t
<1>4. CASE x \notin Calls
  <2> DEFINE s == IF verb = "approved" THEN "running" ELSE "cancelled"
             m == IF verb = "approved" THEN turn[t].allowed + turn[t].allowed ELSE turn[t].allowed
  <2>1. s \in TurnStatuses /\ m \in Nat /\ m >= turn[t].allowed
    BY <1>1 DEF TypeOK, TurnStatuses
  <2>2. turn' = [turn EXCEPT ![t].status = s, ![t].allowed = m] /\ approval' = approval
    BY <1>2, <1>4 DEF DecideBudget
  <2>3. extension' = [extension EXCEPT ![t] = [extension[t] EXCEPT ![x] = verb]]
    BY <1>2, <1>4 DEF DecideBudget
  <2>4. /\ turn' \in AllTurns
        /\ turn'[t].status = s /\ turn'[t].steps = turn[t].steps /\ turn'[t].allowed = m
        /\ \A u \in Turns \ {t} : turn'[u] = turn[u]
    <3> HIDE DEF s, m
    <3>1. QED
      BY <1>1, <2>1, <2>2, BudgetWrite
  <2>5. /\ extension[t] \in Seq({"pending", "approved", "rejected"})
        /\ [extension[t] EXCEPT ![x] = verb] \in Seq({"pending", "approved", "rejected"})
        /\ DOMAIN [extension[t] EXCEPT ![x] = verb] = DOMAIN extension[t]
    <3>1. extension[t] \in Seq({"pending", "approved", "rejected"})
      BY <1>1 DEF TypeOK
    <3>2. x \in 1..Len(extension[t])
      BY <1>1, <1>4, <3>1
    <3>3. QED
      BY <3>1, <3>2, ExceptSeq
  <2>6. /\ extension' \in [Turns -> Seq({"pending", "approved", "rejected"})]
        /\ \A u \in Turns : DOMAIN extension'[u] = DOMAIN extension[u]
        /\ \A u \in Turns \ {t} : extension'[u] = extension[u]
    BY <1>1, <2>3, <2>5 DEF TypeOK
  <2>7. s # "awaiting_approval" /\ s # "paused"
    OBVIOUS
  <2>8. /\ approval' \in [Turns -> [Calls -> {"none", "pending", "approved", "rejected"}]]
        /\ \A u \in Turns : approval'[u] = approval[u]
    BY <2>2 DEF TypeOK
  <2>9. turn'[t].allowed >= turn[t].allowed
    BY <2>1, <2>4
  <2>10. turn'[t].status # "awaiting_approval" /\ turn'[t].status # "paused"
    <3> HIDE DEF s
    <3>1. QED
      BY <2>4, <2>7
  <2>11. QED
    <3> HIDE DEF s, m, t
    <3>1. QED
      BY <1>1, <2>4, <2>6, <2>8, <2>9, <2>10 DEF t
<1>5. QED
  BY <1>3, <1>4

LEMMA PeopleStructure ==
  ASSUME Structure, NEW a \in People, Consider(a) \/ Decide(a)
  PROVE  Structure'
<1> USE AgentStageAssumption DEF Structure
<1>1. CASE Consider(a)
  BY <1>1 DEF Consider, TypeOK, OneHolder, KnownTurns, TurnsCostFaults, KnownRequests, items, books, Undecided
<1>2. CASE Decide(a)
  <2>2. UNCHANGED <<run, items, lease, worker, opened, result, faults>>
    BY <1>2 DEF Decide
  <2>3. turn' \in AllTurns
    BY <1>2, DecideEffect
  <2>4. approval' \in [Turns -> [Calls -> {"none", "pending", "approved", "rejected"}]]
    BY <1>2, DecideEffect
  <2>5. /\ extension' \in [Turns -> Seq({"pending", "approved", "rejected"})]
        /\ \A u \in Turns : DOMAIN extension'[u] = DOMAIN extension[u]
    BY <1>2, DecideEffect
  <2>6. \A b \in People : deciding'[b] # Nothing => deciding'[b] = deciding[b]
    BY <1>2 DEF Decide, TypeOK
  <2>7. TypeOK'
    BY <2>2, <2>3, <2>4, <2>5, <2>6 DEF TypeOK, AllTurns, items
  <2>8. OneHolder' /\ KnownTurns' /\ TurnsCostFaults' /\ KnownRequests'
    BY <2>2, <2>5, <2>6 DEF TypeOK, OneHolder, KnownTurns, TurnsCostFaults, KnownRequests, items
  <2>9. QED
    BY <2>7, <2>8
<1>3. QED
  BY <1>1, <1>2

\* Every step preserves the structure of the stage.
LEMMA StructureStep ==
  ASSUME Structure, [Next]_vars
  PROVE  Structure'
<1>1. CASE UNCHANGED vars
  BY <1>1 DEF vars, items, books, Structure, TypeOK, OneHolder, KnownTurns, TurnsCostFaults, KnownRequests
<1>2. CASE RunLoop \/ DelayElapses \/ Pause \/ Resume
  BY <1>2, LoopStructure, LeaseStructure DEF RunLoop
<1>3. CASE \E w \in Workers : Thread(w) \/ Reclaim(w) \/ Crash(w)
  BY <1>3, LeaseStructure, OpenTurnStructure, PrepareStructure, ApplyStructure, EndStructure DEF Thread
<1>4. CASE \E a \in People : Consider(a) \/ Decide(a)
  BY <1>4, PeopleStructure
<1>5. QED
  BY <1>1, <1>2, <1>3, <1>4 DEF Next

THEOREM StructureAlways == Spec => []Structure
<1>1. Structure /\ [Next]_vars => Structure'
  BY StructureStep
<1>2. QED
  BY InitStructure, <1>1, PTL DEF Spec

\* In every reachable state the variables have their types (TypeOK).
THEOREM TypeCorrect == Spec => []TypeOK
<1>1. Structure => TypeOK
  BY DEF Structure
<1>2. QED
  BY StructureAlways, <1>1, PTL

-----------------------------------------------------------------------------
(* What a step does to a turn, its calls and its requests.                 *)

\* A thread that samples the model has a step left.
SampleInBudget ==
  \A w \in lease : worker[w].phase = "sample" =>
    turn[worker[w].turn].steps < turn[worker[w].turn].allowed

\* A call that gets a result had none; an irreversible one was approved.
CallStep(t) ==
  \A c \in Calls :
    \/ result'[t][c] = result[t][c]
    \/ /\ result[t][c] = "none" /\ result'[t][c] # "again"
       /\ c \in Irreversible /\ result'[t][c] = "ran" => approval[t][c] = "approved"

\* A step is added only if one is left, and the budget is not cut.
BudgetStep(t) ==
  /\ turn'[t].allowed >= turn[t].allowed
  /\ \/ turn'[t].steps = turn[t].steps
     \/ turn'[t].steps = turn[t].steps + 1 /\ turn[t].steps < turn[t].allowed

\* A turn that starts to wait has an open request; one that goes on waiting keeps
\* those it has.
WaitStep(t) ==
  /\ turn'[t].status = "awaiting_approval" =>
       \/ \E c \in Calls : approval'[t][c] = "pending"
       \/ turn[t].status = "awaiting_approval" /\ approval'[t] = approval[t]
  /\ turn'[t].status = "paused" =>
       \/ \E n \in DOMAIN extension'[t] : extension'[t][n] = "pending"
       \/ turn[t].status = "paused" /\ extension'[t] = extension[t]

TurnStep == \A t \in Turns : CallStep(t) /\ BudgetStep(t) /\ WaitStep(t)

\* Steps that touch no turn, and those that only change a status.
LEMMA QuietStep ==
  ASSUME TypeOK, UNCHANGED <<turn, books>>
  PROVE  TurnStep
BY DEF TypeOK, TurnStep, CallStep, BudgetStep, WaitStep, books

LEMMA StatusStep ==
  ASSUME TypeOK, NEW t \in Turns, NEW s \in TurnStatuses \ {"awaiting_approval", "paused"},
         turn' = [turn EXCEPT ![t].status = s], UNCHANGED books
  PROVE  TurnStep /\ \A u \in Turns : turn'[u].steps = turn[u].steps /\ turn'[u].allowed = turn[u].allowed
<1>1. /\ turn'[t].status = s /\ turn'[t].steps = turn[t].steps /\ turn'[t].allowed = turn[t].allowed
      /\ \A u \in Turns \ {t} : turn'[u] = turn[u]
  BY StatusWrite
<1>2. \A u \in Turns : turn[u].allowed \in Nat
  BY DEF TypeOK
<1>3. QED
  BY <1>1, <1>2 DEF TurnStep, CallStep, BudgetStep, WaitStep, books

\* Decided calls get the result of the decision.
LEMMA SettledEffect ==
  ASSUME TypeOK, NEW t \in Turns, NEW c \in Calls
  PROVE  \/ SettledCalls(t)[c] = result[t][c]
         \/ /\ result[t][c] = "none" /\ SettledCalls(t)[c] # "again"
            /\ SettledCalls(t)[c] = "ran" => approval[t][c] = "approved"
BY DEF TypeOK, SettledCalls

LEMMA PrepareTurnStep ==
  ASSUME Structure, NEW w \in Workers, Prepare(w)
  PROVE  /\ TurnStep
         /\ \A u \in Turns : turn'[u].steps = turn[u].steps /\ turn'[u].allowed = turn[u].allowed
         /\ worker'[w].phase = "sample" =>
              turn[worker[w].turn].steps < turn[worker[w].turn].allowed
<1> DEFINE t == worker[w].turn
<1> USE AgentStageAssumption DEF Structure
<1>1. t \in Turns /\ TypeOK /\ UNCHANGED approval
  BY DEF Prepare, KnownTurns, TypeOK, Driving, Turns, books
<1>2. \A u \in Turns : CallStep(u)
  <2>1. \/ result' = result
        \/ result' = [result EXCEPT ![t] = SettledCalls(t)]
        \/ \E S \in SUBSET Calls :
             result' = [result EXCEPT ![t] = [c \in Calls |-> IF c \in S THEN SettledCalls(t)[c]
                                                            ELSE result[t][c]]]
    BY DEF Prepare, books
  <2>2. \A u \in Turns \ {t} : result'[u] = result[u]
    BY <1>1, <2>1 DEF TypeOK
  <2>3. \A c \in Calls : result'[t][c] = result[t][c] \/ result'[t][c] = SettledCalls(t)[c]
    <3>1. ASSUME NEW R, result' = [result EXCEPT ![t] = R]
          PROVE  result'[t] = R
      BY <1>1, <3>1 DEF TypeOK
    <3>2. CASE result' = result
      BY <3>2
    <3>3. CASE result' = [result EXCEPT ![t] = SettledCalls(t)]
      BY <3>1, <3>3
    <3>4. ASSUME NEW S \in SUBSET Calls,
                 result' = [result EXCEPT ![t] = [c \in Calls |-> IF c \in S THEN SettledCalls(t)[c]
                                                                 ELSE result[t][c]]]
          PROVE  \A c \in Calls : result'[t][c] = result[t][c] \/ result'[t][c] = SettledCalls(t)[c]
      <4>1. result'[t] = [c \in Calls |-> IF c \in S THEN SettledCalls(t)[c] ELSE result[t][c]]
        BY <3>1, <3>4
      <4>2. QED
        BY <4>1
    <3>5. QED
      BY <2>1, <3>2, <3>3, <3>4
  <2>4. QED
    BY <1>1, <2>2, <2>3, SettledEffect DEF CallStep
<1>3. \/ turn' = turn /\ extension' = extension
      \/ /\ turn' = [turn EXCEPT ![t].status = "awaiting_approval"] /\ extension' = extension
         /\ \E c \in Calls : approval[t][c] = "pending"
      \/ /\ turn' = [turn EXCEPT ![t].status = "paused"]
         /\ extension' = [extension EXCEPT ![t] = Append(extension[t], "pending")]
  BY DEF Prepare, books, Undecided
<1>4. /\ \A u \in Turns : turn'[u].steps = turn[u].steps /\ turn'[u].allowed = turn[u].allowed
      /\ \A u \in Turns : WaitStep(u)
  <2>1. CASE turn' = turn /\ extension' = extension
    BY <1>1, <2>1 DEF WaitStep
  <2>2. CASE /\ turn' = [turn EXCEPT ![t].status = "awaiting_approval"] /\ extension' = extension
             /\ \E c \in Calls : approval[t][c] = "pending"
    BY <1>1, <2>2, StatusWrite DEF WaitStep, TurnStatuses
  <2>3. CASE /\ turn' = [turn EXCEPT ![t].status = "paused"]
             /\ extension' = [extension EXCEPT ![t] = Append(extension[t], "pending")]
    <3>1. /\ turn'[t].status = "paused"
          /\ \A u \in Turns : turn'[u].steps = turn[u].steps /\ turn'[u].allowed = turn[u].allowed
          /\ \A u \in Turns \ {t} : turn'[u] = turn[u]
      BY <1>1, <2>3, StatusWrite DEF TurnStatuses
    <3>2. /\ extension'[t] = Append(extension[t], "pending")
          /\ \A u \in Turns \ {t} : extension'[u] = extension[u]
      BY <1>1, <2>3 DEF TypeOK
    <3>3. extension[t] \in Seq({"pending", "approved", "rejected"})
      BY <1>1 DEF TypeOK
    <3>4. \E n \in DOMAIN extension'[t] : extension'[t][n] = "pending"
      BY <3>2, <3>3, AppendProperties
    <3>5. QED
      BY <1>1, <3>1, <3>2, <3>4 DEF WaitStep
  <2>4. QED
    BY <1>3, <2>1, <2>2, <2>3
<1>5. \A u \in Turns : turn[u].allowed \in Nat
  BY <1>1 DEF TypeOK
<1>6. worker'[w].phase = "sample" => turn[t].steps < turn[t].allowed
  <2>1. CASE GoTo(w, "sample") /\ ~Exhausted(t)
    BY <1>1, <2>1 DEF Exhausted, TypeOK
  <2>2. CASE GoTo(w, "done") \/ GoTo(w, "broken")
    BY <1>1, <2>2 DEF GoTo, TypeOK
  <2>3. QED
    BY <2>1, <2>2 DEF Prepare
<1>7. QED
  BY <1>2, <1>4, <1>5, <1>6 DEF TurnStep, BudgetStep

LEMMA ApplyTurnStep ==
  ASSUME Structure, SampleInBudget, NEW w \in Workers, Apply(w)
  PROVE  TurnStep
<1> DEFINE t == worker[w].turn
<1> USE AgentStageAssumption DEF Structure
<1>0. TypeOK
  OBVIOUS
<1>1. w \in lease /\ worker[w].phase = "sample" /\ t \in Turns
  BY DEF Apply, KnownTurns, TypeOK, Driving, Turns
<1>2. /\ turn'[t].steps = turn[t].steps + 1 /\ turn'[t].allowed = turn[t].allowed
      /\ \A u \in Turns \ {t} : turn'[u] = turn[u] /\ approval'[u] = approval[u] /\ result'[u] = result[u]
      /\ turn'[t].status \in {"awaiting_approval", "succeeded", turn[t].status}
      /\ \A c \in Calls : result'[t][c] = result[t][c] \/ (result[t][c] = "none" /\ result'[t][c] = "ran" /\ c \notin Irreversible)
      /\ turn'[t].status = "awaiting_approval" =>
           (turn[t].status = "awaiting_approval" /\ approval'[t] = approval[t])
             \/ \E c \in Calls : approval'[t][c] = "pending"
  BY <1>0, <1>1, ApplyEffect
<1>3. extension' = extension
  BY DEF Apply, Finish, Act, books
<1>4. \A u \in Turns : turn[u].allowed \in Nat
  BY <1>0 DEF TypeOK
<1>5. \A u \in Turns : CallStep(u)
  BY <1>1, <1>2 DEF CallStep
<1>6. \A u \in Turns : BudgetStep(u)
  BY <1>1, <1>2, <1>4 DEF BudgetStep, SampleInBudget
<1>7. \A u \in Turns : WaitStep(u)
  BY <1>1, <1>2, <1>3 DEF WaitStep
<1>8. QED
  BY <1>5, <1>6, <1>7 DEF TurnStep

LEMMA DecideTurnStep ==
  ASSUME Structure, NEW a \in People, Decide(a)
  PROVE  /\ TurnStep
         /\ \A u \in Turns : turn'[u].steps = turn[u].steps /\ turn'[u].allowed >= turn[u].allowed
<1> DEFINE t == deciding[a].turn
<1>1. /\ t \in Turns
      /\ \A u \in Turns \ {t} : turn'[u] = turn[u] /\ approval'[u] = approval[u] /\ extension'[u] = extension[u]
      /\ turn'[t].steps = turn[t].steps /\ turn'[t].allowed >= turn[t].allowed
      /\ turn'[t].status = "awaiting_approval" =>
           turn[t].status = "awaiting_approval" /\ \E c \in Calls : approval'[t][c] = "pending"
      /\ turn'[t].status = "paused" => turn[t].status = "paused" /\ extension'[t] = extension[t]
  BY DecideEffect
<1>2. result' = result
  BY DEF Decide
<1>3. \A u \in Turns : turn[u].allowed \in Nat
  BY DEF Structure, TypeOK
<1>4. QED
  BY <1>1, <1>2, <1>3 DEF TurnStep, CallStep, BudgetStep, WaitStep

LEMMA OpenTurnStep ==
  ASSUME Structure, NEW w \in Workers, OpenTurn(w)
  PROVE  TurnStep /\ \A u \in Turns : turn'[u].steps = turn[u].steps /\ turn'[u].allowed = turn[u].allowed
<1> USE AgentStageAssumption DEF Structure
<1>1. CASE item.turn # 0
  <2>1. UNCHANGED <<turn, books>>
    BY <1>1 DEF OpenTurn
  <2>2. QED
    BY <2>1, QuietStep
<1>2. CASE item.turn = 0
  <2>1. turn' = [turn EXCEPT ![opened + 1].status = "running"] /\ UNCHANGED books
    BY <1>2 DEF OpenTurn
  <2>2. w \in lease /\ worker[w].phase = "claimed" /\ opened \in Nat /\ faults \in Nat
    BY DEF OpenTurn, TypeOK
  <2>3. opened <= faults /\ faults <= MaxFaults
    BY <1>2, <2>2 DEF TurnsCostFaults
  <2>4. opened + 1 \in Turns
    BY <2>2, <2>3 DEF Turns
  <2>5. QED
    BY <2>1, <2>4, StatusStep DEF TurnStatuses
<1>3. QED
  BY <1>1, <1>2

LEMMA RaiseTurnStep ==
  ASSUME Structure, NEW w \in Workers, Raise(w)
  PROVE  TurnStep /\ \A u \in Turns : turn'[u].steps = turn[u].steps /\ turn'[u].allowed = turn[u].allowed
<1> USE AgentStageAssumption DEF Structure
<1>1. CASE worker[w].phase \in {"prepare", "sample"}
  <2>1. turn' = [turn EXCEPT ![worker[w].turn].status = "failed"] /\ UNCHANGED books
    BY <1>1 DEF Raise
  <2>2. worker[w].turn \in Turns
    BY <1>1 DEF KnownTurns, Driving, TypeOK, Turns
  <2>3. QED
    BY <2>1, <2>2, StatusStep DEF TurnStatuses
<1>2. CASE worker[w].phase \notin {"prepare", "sample"}
  <2>1. UNCHANGED <<turn, books>>
    BY <1>2 DEF Raise
  <2>2. QED
    BY <2>1, QuietStep
<1>3. QED
  BY <1>1, <1>2

\* A thread that samples keeps the step it has, unless it takes it.
LEMMA SampleKeeps ==
  ASSUME Structure, Structure', SampleInBudget,
         \A u \in Turns : turn'[u].steps = turn[u].steps /\ turn'[u].allowed >= turn[u].allowed,
         NEW w \in lease, worker'[w] = worker[w], worker'[w].phase = "sample"
  PROVE  turn'[worker'[w].turn].steps < turn'[worker'[w].turn].allowed
<1> DEFINE t == worker[w].turn
<1>1. t \in Turns
  BY DEF Structure, KnownTurns, Driving, TypeOK, Turns
<1>2. turn[t].steps < turn[t].allowed
  BY DEF SampleInBudget
<1>3. /\ turn'[t].steps = turn[t].steps /\ turn'[t].allowed >= turn[t].allowed
      /\ turn[t].steps \in Nat /\ turn[t].allowed \in Nat
  BY <1>1 DEF Structure, TypeOK
<1>4. turn'[t].allowed \in Nat
  BY <1>1 DEF Structure, TypeOK
<1>5. QED
  BY <1>2, <1>3, <1>4

\* Every step is one of a turn, and leaves a step to the thread that samples.
LEMMA StageStep ==
  ASSUME Structure, SampleInBudget, [Next]_vars
  PROVE  TurnStep /\ SampleInBudget'
<1> USE DEF Structure
<1>1. Structure'
  BY StructureStep
<1>2. \A u \in Turns : turn[u].allowed \in Nat
  BY DEF TypeOK
<1>3. ASSUME UNCHANGED <<turn, books>>,
             \A v \in lease' : worker'[v].phase = "sample" => v \in lease /\ worker'[v] = worker[v]
      PROVE  TurnStep /\ SampleInBudget'
  <2>1. TurnStep
    BY <1>3, QuietStep
  <2>2. \A u \in Turns : turn'[u].steps = turn[u].steps /\ turn'[u].allowed >= turn[u].allowed
    BY <1>2, <1>3
  <2>3. SampleInBudget'
    BY <1>1, <1>3, <2>2, SampleKeeps DEF SampleInBudget
  <2>4. QED
    BY <2>1, <2>3
<1>4. ASSUME NEW w \in Workers,
             lease' \subseteq lease, \A v \in Workers \ {w} : worker'[v] = worker[v],
             \A u \in Turns : turn'[u].steps = turn[u].steps /\ turn'[u].allowed >= turn[u].allowed,
             w \in lease' /\ worker'[w].phase = "sample" =>
               turn'[worker'[w].turn].steps < turn'[worker'[w].turn].allowed
      PROVE  SampleInBudget'
  <2> SUFFICES ASSUME NEW v \in lease', worker'[v].phase = "sample"
               PROVE  turn'[worker'[v].turn].steps < turn'[worker'[v].turn].allowed
    BY DEF SampleInBudget
  <2>1. CASE v = w
    BY <1>4, <2>1
  <2>2. CASE v # w
    <3>1. v \in lease /\ worker'[v] = worker[v]
      BY <1>4, <2>2 DEF TypeOK
    <3>2. QED
      BY <1>1, <1>4, <3>1, SampleKeeps
  <2>3. QED
    BY <2>1, <2>2
<1>5. CASE UNCHANGED vars \/ Seed \/ Reconcile \/ DelayElapses \/ Pause \/ Resume
  BY <1>3, <1>5 DEF vars, items, books, Seed, Reconcile, DelayElapses, Pause, Resume
<1>6. ASSUME NEW w \in Workers,
             \/ Claim(w) \/ Reclaim(w) \/ Crash(w) \/ Discards(w)
             \/ Complete(w) \/ BlockersLeft(w) \/ FailItem(w)
      PROVE  TurnStep /\ SampleInBudget'
  <2>1. UNCHANGED <<turn, books>>
    BY <1>6 DEF Claim, Reclaim, Crash, Discards, Complete, BlockersLeft, FailItem, Completes, GoTo, books, items
  <2>2. \/ /\ lease' \subseteq lease /\ worker' = worker
        \/ /\ lease' \subseteq lease \cup {w}
           /\ \E th : th.phase # "sample" /\ worker' = [worker EXCEPT ![w] = th]
    <3>1. CASE Claim(w)
      <4>1. worker' = [worker EXCEPT ![w] = [worker[w] EXCEPT !.phase = "claimed"]]
        BY <3>1 DEF Claim
      <4>2. [worker[w] EXCEPT !.phase = "claimed"].phase # "sample"
        BY DEF TypeOK
      <4>3. lease' \subseteq lease \cup {w}
        BY <3>1 DEF Claim
      <4>4. QED
        BY <4>1, <4>2, <4>3
    <3>2. CASE Reclaim(w)
      BY <3>2 DEF Reclaim
    <3>3. CASE Crash(w) \/ Discards(w)
      BY <3>3 DEF Crash, Discards, IdleThread
    <3>4. CASE Complete(w)
      BY <3>4 DEF Complete, Completes, IdleThread
    <3>5. CASE BlockersLeft(w)
      BY <3>5 DEF BlockersLeft, GoTo, TypeOK
    <3>6. CASE FailItem(w)
      BY <3>6 DEF FailItem, Completes, IdleThread
    <3>7. QED
      BY <1>6, <3>1, <3>2, <3>3, <3>4, <3>5, <3>6
  <2>3. \A v \in lease' : worker'[v].phase = "sample" => v \in lease /\ worker'[v] = worker[v]
    BY <2>2 DEF TypeOK
  <2>4. QED
    BY <1>3, <2>1, <2>3
<1>7. ASSUME NEW w \in Workers, OpenTurn(w)
      PROVE  TurnStep /\ SampleInBudget'
  <2>1. TurnStep /\ \A u \in Turns : turn'[u].steps = turn[u].steps /\ turn'[u].allowed >= turn[u].allowed
    BY <1>2, <1>7, OpenTurnStep
  <2>2. PICK n : worker' = [worker EXCEPT ![w] = [phase |-> "prepare", turn |-> n]]
    BY <1>7 DEF OpenTurn
  <2>3. lease' = lease
    BY <1>7 DEF OpenTurn
  <2>4. worker'[w].phase = "prepare" /\ \A v \in Workers \ {w} : worker'[v] = worker[v]
    BY <2>2 DEF TypeOK
  <2>5. QED
    BY <1>4, <2>1, <2>3, <2>4
<1>8. ASSUME NEW w \in Workers, Prepare(w)
      PROVE  TurnStep /\ SampleInBudget'
  <2>1. /\ TurnStep
        /\ \A u \in Turns : turn'[u].steps = turn[u].steps /\ turn'[u].allowed = turn[u].allowed
        /\ worker'[w].phase = "sample" =>
             turn[worker[w].turn].steps < turn[worker[w].turn].allowed
    BY <1>8, PrepareTurnStep
  <2>2. PICK phase \in Phases : GoTo(w, phase)
    BY <1>8 DEF Prepare, Phases
  <2>3. worker'[w].turn = worker[w].turn /\ \A v \in Workers \ {w} : worker'[v] = worker[v]
    BY <2>2, GoToType
  <2>4. lease' = lease /\ worker[w].turn \in Turns
    BY <1>8, AgentStageAssumption DEF Prepare, KnownTurns, TypeOK, Driving, Turns
  <2>5. \A u \in Turns : turn'[u].steps = turn[u].steps /\ turn'[u].allowed >= turn[u].allowed
    BY <1>2, <2>1
  <2>6. worker'[w].phase = "sample" => turn'[worker'[w].turn].steps < turn'[worker'[w].turn].allowed
    BY <2>1, <2>3, <2>4
  <2>7. QED
    BY <1>4, <2>1, <2>3, <2>4, <2>5, <2>6
<1>9. ASSUME NEW w \in Workers, Apply(w)
      PROVE  TurnStep /\ SampleInBudget'
  <2>1. TurnStep
    BY <1>9, ApplyTurnStep
  <2>2. lease' = lease /\ lease = {w}
    BY <1>9 DEF Apply, OneHolder
  <2>3. PICK phase \in {"done", "prepare"} : GoTo(w, phase)
    BY <1>9 DEF Apply
  <2>4. worker'[w].phase # "sample"
    BY <2>3, GoToType DEF Phases
  <2>5. QED
    BY <2>1, <2>2, <2>4 DEF SampleInBudget
<1>10. ASSUME NEW w \in Workers, Raise(w)
       PROVE  TurnStep /\ SampleInBudget'
  <2>1. TurnStep /\ \A u \in Turns : turn'[u].steps = turn[u].steps /\ turn'[u].allowed >= turn[u].allowed
    BY <1>2, <1>10, RaiseTurnStep
  <2>2. lease' = lease /\ GoTo(w, "failing")
    BY <1>10 DEF Raise
  <2>3. worker'[w].phase = "failing" /\ \A v \in Workers \ {w} : worker'[v] = worker[v]
    BY <2>2, GoToType DEF Phases
  <2>4. QED
    BY <1>4, <2>1, <2>2, <2>3
<1>11. ASSUME NEW a \in People, Consider(a) \/ Decide(a)
       PROVE  TurnStep /\ SampleInBudget'
  <2>1. UNCHANGED <<lease, worker>>
    BY <1>11 DEF Consider, Decide
  <2>2. CASE Consider(a)
    BY <1>3, <2>1, <2>2 DEF Consider
  <2>3. CASE Decide(a)
    <3>1. TurnStep /\ \A u \in Turns : turn'[u].steps = turn[u].steps /\ turn'[u].allowed >= turn[u].allowed
      BY <2>3, DecideTurnStep
    <3>2. \A v \in lease' : worker'[v].phase = "sample" =>
            turn'[worker'[v].turn].steps < turn'[worker'[v].turn].allowed
      BY <1>1, <2>1, <3>1, SampleKeeps
    <3>3. QED
      BY <3>1, <3>2 DEF SampleInBudget
  <2>4. QED
    BY <1>11, <2>2, <2>3
<1>12. QED
  BY <1>5, <1>6, <1>7, <1>8, <1>9, <1>10, <1>11 DEF Next, RunLoop, Thread

-----------------------------------------------------------------------------
(* The properties of a stage.                                              *)

Inductive == Structure /\ SampleInBudget

LEMMA InductiveAlways == Spec => []Inductive
<1>1. Init => Inductive
  BY InitStructure DEF Inductive, SampleInBudget, Init
<1>2. Inductive /\ [Next]_vars => Inductive'
  BY StructureStep, StageStep DEF Inductive
<1>3. QED
  BY <1>1, <1>2, PTL DEF Spec

\* No tool call gets a second result (OneResultPerCall), whatever is lost, retried or
\* decided meanwhile: a result is written only where there was none.
THEOREM OneResult == Spec => []OneResultPerCall
<1>1. Init => OneResultPerCall
  BY DEF Init, OneResultPerCall
<1>2. ASSUME Inductive, [Next]_vars, OneResultPerCall
      PROVE  OneResultPerCall'
  <2>1. TurnStep
    BY <1>2, StageStep DEF Inductive
  <2>2. QED
    BY <1>2, <2>1 DEF OneResultPerCall, TurnStep, CallStep
<1>3. QED
  BY <1>1, <1>2, InductiveAlways, PTL DEF Spec

\* No irreversible call runs before its approval is granted (ApprovedBeforeItRuns).
THEOREM Approved == Spec => ApprovedBeforeItRuns
<1>1. ASSUME Inductive, [Next]_vars
      PROVE  [\A t \in Turns : \A c \in Irreversible :
                result[t][c] # "ran" /\ result'[t][c] = "ran" => approval[t][c] = "approved"]_vars
  <2>1. TurnStep
    BY <1>1, StageStep DEF Inductive
  <2>2. Irreversible \subseteq Calls
    BY AgentStageAssumption
  <2>3. QED
    BY <2>1, <2>2 DEF TurnStep, CallStep
<1>2. QED
  BY <1>1, InductiveAlways, PTL DEF Spec, ApprovedBeforeItRuns

\* No turn makes more steps than its budget allows (StepsWithinBudget): the one
\* thread that may add a step checked the budget under the same lease.
THEOREM WithinBudget == Spec => []StepsWithinBudget
<1>1. Init => StepsWithinBudget
  BY AgentStageAssumption DEF Init, StepsWithinBudget, NoTurn
<1>2. ASSUME Inductive, [Next]_vars, StepsWithinBudget
      PROVE  StepsWithinBudget'
  <2>1. TurnStep /\ Structure'
    BY <1>2, StructureStep, StageStep DEF Inductive
  <2>2. \A t \in Turns : /\ turn[t].steps \in Nat /\ turn[t].allowed \in Nat
                         /\ turn'[t].steps \in Nat /\ turn'[t].allowed \in Nat
    BY <1>2, <2>1 DEF Inductive, Structure, TypeOK
  <2>3. QED
    BY <1>2, <2>1, <2>2 DEF StepsWithinBudget, TurnStep, BudgetStep
<1>3. QED
  BY <1>1, <1>2, InductiveAlways, PTL DEF Spec

\* A turn that waits has an open request somebody can decide (WaitingTurnCanBeWoken),
\* whatever two people decide from what they read at the same time.
THEOREM CanBeWoken == Spec => []WaitingTurnCanBeWoken
<1>1. Init => WaitingTurnCanBeWoken
  BY DEF Init, WaitingTurnCanBeWoken, NoTurn
<1>2. ASSUME Inductive, [Next]_vars, WaitingTurnCanBeWoken
      PROVE  WaitingTurnCanBeWoken'
  <2>1. TurnStep
    BY <1>2, StageStep DEF Inductive
  <2>2. QED
    BY <1>2, <2>1 DEF WaitingTurnCanBeWoken, TurnStep, WaitStep, Undecided
<1>3. QED
  BY <1>1, <1>2, InductiveAlways, PTL DEF Spec
=============================================================================
