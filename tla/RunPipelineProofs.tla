-------------------------- MODULE RunPipelineProofs --------------------------
(***************************************************************************)
(* Proofs about RunPipeline: for any number of packets, any plan and any   *)
(* number of failures, review and export threads never share the packets   *)
(* with the translate frontier, the two exports are never there to be      *)
(* claimed together, a run that is over has no work in flight, one that    *)
(* succeeded is complete, and what is delivered is delivered in order.     *)
(***************************************************************************)
EXTENDS RunPipeline, WellFoundedInduction, TLAPS

LaneStatuses == {"none", "cancelled", "leased"} \cup Claimable \cup Settled
StageItems   == {"none", "leased"} \cup Claimable \cup Settled

RunsHere     == {"running", "draining", "paused", "failed", "succeeded"}

Typed ==
  /\ run \in RunsHere
  /\ {"translate", "review"} \cup ExportStages \subseteq plan
  /\ lane \in [Packets -> LaneStatuses]
  /\ item \in [Stages -> StageItems]

-----------------------------------------------------------------------------
(* The stages.                                                             *)

LEMMA StagesAre ==
  Stages = {"structure_review", "terminology", "model_review", "review",
            "repair", "bilingual_html", "merged_html", "export_review"}
<1>1. DOMAIN FullPipeline = 1..9
  BY DEF FullPipeline
<1>2. \A i \in 1..9 : i = 1 \/ i = 2 \/ i = 3 \/ i = 4 \/ i = 5 \/ i = 6 \/ i = 7 \/ i = 8 \/ i = 9
  OBVIOUS
<1>3. /\ FullPipeline[1] = "structure_review" /\ FullPipeline[2] = "terminology"
      /\ FullPipeline[3] = "translate" /\ FullPipeline[4] = "model_review"
      /\ FullPipeline[5] = "review" /\ FullPipeline[6] = "repair"
      /\ FullPipeline[7] = "bilingual_html" /\ FullPipeline[8] = "merged_html"
      /\ FullPipeline[9] = "export_review"
  BY DEF FullPipeline
<1>4. 1 \in 1..9 /\ 2 \in 1..9 /\ 3 \in 1..9 /\ 4 \in 1..9 /\ 5 \in 1..9 /\ 6 \in 1..9
      /\ 7 \in 1..9 /\ 8 \in 1..9 /\ 9 \in 1..9
  OBVIOUS
<1>5. {FullPipeline[i] : i \in DOMAIN FullPipeline} =
        {"structure_review", "terminology", "translate", "model_review", "review",
         "repair", "bilingual_html", "merged_html", "export_review"}
  BY <1>1, <1>2, <1>3, <1>4
<1>6. QED
  BY <1>5 DEF Stages

\* Writers of packets start only when the translation is done ...
LEMMA WritersWait ==
  ASSUME NEW s \in {"model_review", "review"} \cup ExportStages, Typed, CanStart(s)
  PROVE  TranslateStatus = "succeeded"
<1>1. "translate" \in Upstream[s] \cap plan
  BY DEF Upstream, ExportStages, Typed
<1>2. QED
  BY <1>1 DEF CanStart, StageStatus

\* ... and no packet is leased then.
LEMMA DoneIsQuiet ==
  ASSUME Typed, TranslateStatus = "succeeded"
  PROVE  \A p \in Packets : lane[p] # "leased"
BY DEF TranslateStatus, Active

\* The second export starts when the first is done.
LEMMA MergedWaits ==
  ASSUME Typed, CanStart("merged_html")
  PROVE  item["bilingual_html"] = "succeeded"
<1>1. "bilingual_html" \in Upstream["merged_html"] \cap plan
  BY DEF Upstream, ExportStages, Typed
<1>2. StageStatus("bilingual_html") = "succeeded"
  BY <1>1 DEF CanStart
<1>3. StageStatus("bilingual_html") = ItemStatus(item["bilingual_html"])
  BY DEF StageStatus, AgentStages
<1>4. item["bilingual_html"] \in StageItems
  BY StagesAre DEF Typed
<1>5. QED
  BY <1>2, <1>3, <1>4 DEF ItemStatus, StageItems, Claimable, Settled

-----------------------------------------------------------------------------
(* What a step does to the work items.                                     *)

\* An item is seeded or claimed by a visit of the loop, or its thread ends.
Moves(s, status) ==
  /\ Put(s, status) /\ UNCHANGED <<plan, lane>>
  /\ \/ status = "pending" /\ CanStart(s) /\ run \in DrivenRun /\ run' = run
        /\ (s \in AgentStages \/ item[s] = "none")
     \/ status = "leased" /\ item[s] \in Claimable /\ run \in DrivenRun /\ run' = run
        /\ (CanStart(s) \/ (s \in ExportStages /\ \E e \in ExportStages : CanStart(e)))
     \/ status \in Claimable \cup Settled /\ item[s] = "leased"

\* Packets are leased by a visit only, when no downstream thread has a lease.
Frontiers ==
  /\ UNCHANGED <<plan, item>> /\ lane' \in [Packets -> LaneStatuses]
  /\ \/ run \in DrivenRun /\ ~DownstreamInFlight /\ run' = run
     \/ (\E p \in Packets : lane[p] = "leased") /\ \A p \in Packets : lane'[p] = "leased" => lane[p] = "leased"

\* The outcome is drawn when nothing is in flight.
Judged ==
  \/ run' = run
  \/ run' \notin TerminalRun
  \/ /\ ~InFlight' /\ UNCHANGED <<plan, degraded>>
     /\ run' = "succeeded" => (\A s \in plan : StageStatus(s) = "succeeded")'

\* The ways an outcome is drawn.
LEMMA OutcomeBranches ==
  ASSUME NEW r
  PROVE  \/ Outcome(r) = r
         \/ ~InFlight /\ r \in DrivenRun /\ Outcome(r) = PausedBySystem(r)
         \/ ~InFlight /\ r \in DrivenRun /\ Outcome(r) = FailedBySystem(r)
         \/ /\ ~InFlight /\ r \in DrivenRun /\ Outcome(r) = SucceededBySystem(r)
            /\ \A s \in plan : StageStatus(s) = "succeeded"
BY DEF Outcome

LEMMA SystemMoves ==
  ASSUME NEW r \in RunsHere
  PROVE  /\ PausedBySystem(r) \in RunsHere /\ (PausedBySystem(r) = r \/ PausedBySystem(r) \notin TerminalRun)
         /\ FailedBySystem(r) \in RunsHere /\ (FailedBySystem(r) = r \/ FailedBySystem(r) = "failed")
         /\ SucceededBySystem(r) \in RunsHere
BY DEF RunsHere, PausedBySystem, FailedBySystem, SucceededBySystem, CanPause, CanFail, CanSucceed, TerminalRun

\* The outcome is the status the run has, no terminal one, or one drawn when
\* nothing is in flight.
Drawn(r) ==
  /\ Outcome(r) \in RunsHere
  /\ \/ Outcome(r) = r
     \/ Outcome(r) \notin TerminalRun
     \/ ~InFlight /\ (Outcome(r) = "succeeded" => \A s \in plan : StageStatus(s) = "succeeded")

LEMMA OutcomeIs == \A r \in RunsHere : Drawn(r)
<1> SUFFICES ASSUME NEW r \in RunsHere PROVE Drawn(r)
  OBVIOUS
<1> USE DEF Drawn
<1>1. CASE Outcome(r) = r
  BY <1>1
<1>2. CASE ~InFlight /\ r \in DrivenRun /\ Outcome(r) = PausedBySystem(r)
  BY <1>2, SystemMoves
<1>3. CASE ~InFlight /\ r \in DrivenRun /\ Outcome(r) = FailedBySystem(r)
  BY <1>3, SystemMoves
<1>4. CASE /\ ~InFlight /\ r \in DrivenRun /\ Outcome(r) = SucceededBySystem(r)
           /\ \A s \in plan : StageStatus(s) = "succeeded"
  BY <1>4, SystemMoves
<1>5. QED
  BY <1>1, <1>2, <1>3, <1>4, OutcomeBranches

\* The same of the state a step leads to.
LEMMA NextOutcomeIs == (\A r \in RunsHere : Drawn(r))'
BY OutcomeIs, PTL

\* A write to one item keeps the types.
LEMMA PutType ==
  ASSUME Typed, NEW s \in Stages, NEW status \in StageItems, Put(s, status)
  PROVE  /\ item' \in [Stages -> StageItems] /\ item'[s] = status
         /\ \A e \in Stages \ {s} : item'[e] = item[e]
BY DEF Typed, Put

Still == UNCHANGED <<plan, lane, item>>

\* Every step keeps the types, judges the run as above, and moves one item, or
\* packets, or neither.
Shape == /\ run' \in RunsHere /\ Judged
         /\ Still \/ Frontiers \/ \E s \in Stages, status \in StageItems : Moves(s, status)

LEMMA ClaimsShape ==
  ASSUME Typed, NEW s \in Stages, run \in DrivenRun, Claims(s),
         CanStart(s) \/ (s \in ExportStages /\ \E e \in ExportStages : CanStart(e))
  PROVE  Shape
<1>1. run' = run /\ UNCHANGED <<plan, lane>>
  BY DEF Claims
<1>2. CASE run = "running"
  <2>1. Moves(s, "leased")
    BY <1>1, <1>2 DEF Claims, Moves
  <2>2. QED
    BY <1>1, <2>1 DEF Shape, Judged, Typed, StageItems
<1>3. CASE run # "running"
  <2>1. Still
    BY <1>1, <1>3 DEF Claims, Still
  <2>2. QED
    BY <1>1, <2>1 DEF Shape, Judged, Typed
<1>4. QED
  BY <1>2, <1>3

LEMMA SeedsShape ==
  ASSUME Typed, NEW s \in Stages, run \in DrivenRun, Seeds(s), CanStart(s),
         s \in AgentStages \/ item[s] = "none"
  PROVE  Shape
<1>1. Moves(s, "pending") /\ run' = run
  BY DEF Seeds, Moves
<1>2. QED
  BY <1>1 DEF Shape, Judged, Typed, StageItems, Claimable

LEMMA QuietShape ==
  ASSUME Typed, NEW s, Quiet(s)
  PROVE  Shape
BY DEF Quiet, work, Shape, Judged, Typed, Still

LEMMA VisitShape ==
  ASSUME Typed,
         \/ \E s \in AgentStages : VisitAgent(s)
         \/ VisitReview
         \/ \E s \in ExportStages : VisitExport(s)
  PROVE  Shape
<1>1. ASSUME NEW s \in AgentStages, VisitAgent(s)
      PROVE  Shape
  <2>1. s \in Stages /\ run \in DrivenRun
    BY <1>1, StagesAre DEF AgentStages, VisitAgent, Visit
  <2>2. QED
    BY <1>1, <2>1, ClaimsShape, SeedsShape, QuietShape DEF VisitAgent
<1>2. CASE VisitReview
  <2>1. "review" \in Stages /\ run \in DrivenRun
    BY <1>2, StagesAre DEF VisitReview, Visit
  <2>2. QED
    BY <1>2, <2>1, ClaimsShape, SeedsShape, QuietShape DEF VisitReview
<1>3. ASSUME NEW s \in ExportStages, VisitExport(s)
      PROVE  Shape
  <2>1. ExportStages \subseteq Stages /\ run \in DrivenRun
    BY <1>3, StagesAre DEF ExportStages, VisitExport, Visit
  <2>2. CASE ~CanStart(s)
    BY <1>3, <2>2, QuietShape DEF VisitExport
  <2>3. CASE CanStart(s) /\ ClaimExport(s)
    <3>1. PICK e \in ExportStages : Claims(e)
      BY <2>3 DEF ClaimExport
    <3>2. QED
      BY <2>1, <2>3, <3>1, ClaimsShape
  <2>4. CASE CanStart(s) /\ item[s] = "none" /\ Seeds(s)
    BY <2>1, <2>4, SeedsShape
  <2>5. CASE Quiet(s)
    BY <2>5, QuietShape
  <2>6. QED
    BY <1>3, <2>2, <2>3, <2>4, <2>5 DEF VisitExport
<1>4. QED
  BY <1>1, <1>2, <1>3

LEMMA TranslateShape ==
  ASSUME Typed, VisitTranslate
  PROVE  Shape
<1>1. UNCHANGED <<run, plan, item>> /\ run \in DrivenRun
  BY DEF VisitTranslate, Visit
<1>2. CASE (AgentStages \cap plan # {} /\ ~CanStart("translate")) \/ DownstreamInFlight
  <2>1. UNCHANGED lane
    BY <1>2 DEF VisitTranslate
  <2>2. QED
    BY <1>1, <2>1 DEF Shape, Judged, Typed, Still
<1>3. CASE ~((AgentStages \cap plan # {} /\ ~CanStart("translate")) \/ DownstreamInFlight)
  <2> DEFINE rows  == Seeded(Obsoleted, Frontier(Obsoleted))
             built == {p \in Packets : text[p] = "built"}
             ready == {p \in Packets : rows[p] \in Claimable}
  <2>1. ASSUME NEW L \in [Packets -> LaneStatuses], NEW S
        PROVE  Seeded(L, S) \in [Packets -> LaneStatuses]
    BY DEF Seeded, LaneStatuses, Claimable
  <2>2. Obsoleted \in [Packets -> LaneStatuses]
    BY DEF Obsoleted, Typed, LaneStatuses
  <2>3. rows \in [Packets -> LaneStatuses]
    BY <2>1, <2>2
  <2>4. Seeded(rows, built) \in [Packets -> LaneStatuses]
    BY <2>1, <2>3
  <2>5. \A p \in Packets : [rows EXCEPT ![p] = "leased"] \in [Packets -> LaneStatuses]
    BY <2>3 DEF LaneStatuses
  <2>6. \/ lane' = Seeded(rows, built)
        \/ \E p \in Packets : lane' = [rows EXCEPT ![p] = "leased"]
        \/ lane' = rows
    <3> HIDE DEF rows, built
    <3>1. QED
      BY <1>3 DEF VisitTranslate, rows, built
  <2>7. lane' \in [Packets -> LaneStatuses]
    <3> HIDE DEF rows, built
    <3>1. QED
      BY <2>3, <2>4, <2>5, <2>6
  <2>8. QED
    BY <1>1, <1>3, <2>7 DEF Shape, Judged, Typed, Frontiers
<1>4. QED
  BY <1>2, <1>3

\* A packet's thread ends.
LEMMA PacketShape ==
  ASSUME Typed, NEW p \in Packets, \/ FinishPacket(p) \/ FailPacket(p) \/ ReclaimPacket(p)
  PROVE  Shape
<1>1. UNCHANGED <<plan, item, degraded>> /\ lane[p] = "leased"
  BY DEF FinishPacket, FailPacket, ReclaimPacket
<1>2. PICK status \in Claimable \cup Settled : lane' = [lane EXCEPT ![p] = status]
  BY DEF FinishPacket, FailPacket, ReclaimPacket, Failed, Claimable, Settled
<1>3. lane' \in [Packets -> LaneStatuses] /\ \A q \in Packets : lane'[q] = "leased" => lane[q] = "leased"
  BY <1>1, <1>2 DEF Typed, LaneStatuses, Claimable, Settled
<1>4. Frontiers
  BY <1>1, <1>3 DEF Frontiers
<1>5. run' \in RunsHere /\ Judged
  <2>1. CASE FinishPacket(p) \/ ReclaimPacket(p)
    BY <2>1 DEF FinishPacket, ReclaimPacket, Judged, Typed
  <2>2. CASE FailPacket(p)
    <3>1. \E r \in {run} : run' = Outcome(r)' \/ run' = PausedBySystem(r)
      BY <2>2 DEF FailPacket
    <3>2. PICK r \in RunsHere : r = run /\ (run' = Outcome(r)' \/ run' = PausedBySystem(r))
      BY <3>1 DEF Typed
    <3>3. QED
      BY <1>1, <3>2, NextOutcomeIs, SystemMoves DEF Judged, Drawn
  <2>3. QED
    BY <2>1, <2>2
<1>6. QED
  BY <1>4, <1>5 DEF Shape

\* A stage's thread ends.
LEMMA StageShape ==
  ASSUME Typed, NEW s \in Stages,
         \/ FinishStage(s) \/ FailStage(s) \/ ReclaimStage(s)
         \/ s \in AgentStages /\ (FinishTurn(s) \/ GiveUp(s))
  PROVE  Shape
<1>1. UNCHANGED <<plan, lane>> /\ item[s] = "leased"
  BY DEF FinishStage, FailStage, ReclaimStage, FinishTurn, GiveUp
<1>2. PICK status \in Claimable \cup Settled : Put(s, status)
  BY DEF FinishStage, FailStage, ReclaimStage, FinishTurn, GiveUp, Failed, Claimable, Settled
<1>3. Moves(s, status) /\ status \in StageItems
  BY <1>1, <1>2 DEF Moves, StageItems
<1>4. run' \in RunsHere /\ Judged
  <2>1. CASE run' = run
    BY <2>1 DEF Judged, Typed
  <2>2. CASE FailStage(s)
    <3>1. \E r \in {run} : run' = Outcome(r)' \/ run' = PausedBySystem(r)
      BY <2>2 DEF FailStage
    <3>2. PICK r \in RunsHere : r = run /\ (run' = Outcome(r)' \/ run' = PausedBySystem(r))
      BY <3>1 DEF Typed
    <3>3. UNCHANGED <<plan, degraded>>
      BY <2>2 DEF FailStage
    <3>4. QED
      BY <3>2, <3>3, NextOutcomeIs, SystemMoves DEF Judged, Drawn
  <2>3. QED
    BY <2>1, <2>2 DEF FinishStage, ReclaimStage, FinishTurn, GiveUp
<1>5. QED
  BY <1>3, <1>4 DEF Shape

\* The loop draws the outcome, or people act.
LEMMA OtherShape ==
  ASSUME Typed,
         \/ Reconcile \/ Pause \/ Drain \/ Resume \/ UNCHANGED vars
         \/ \E p \in Packets : Edit(p)
         \/ \E s \in AgentStages : Decide(s)
  PROVE  Shape
<1>1. Still
  BY DEF Reconcile, Pause, Drain, Resume, vars, work, Edit, Decide, Still
<1>2. CASE Reconcile
  <2>1. run' = Outcome(run) /\ UNCHANGED <<plan, text, lane, item, turn, degraded>>
    BY <1>2 DEF Reconcile, work
  <2>2. Drawn(run) /\ run \in RunsHere
    BY OutcomeIs DEF Typed
  <2>3. InFlight' = InFlight
    BY <2>1 DEF InFlight
  <2>4. (\A s \in plan : StageStatus(s) = "succeeded")' = (\A s \in plan : StageStatus(s) = "succeeded")
    BY <2>1 DEF StageStatus, TranslateStatus, Active, AgentStatus
  <2>5. run' \in RunsHere /\ Judged
    BY <2>1, <2>2, <2>3, <2>4 DEF Drawn, Judged
  <2>6. QED
    BY <1>1, <2>5 DEF Shape
<1>3. CASE Pause \/ Drain \/ Resume
  BY <1>1, <1>3 DEF Pause, Drain, Resume, Shape, Judged, RunsHere, TerminalRun
<1>4. CASE run' = run
  BY <1>1, <1>4 DEF Shape, Judged, Typed
<1>5. QED
  BY <1>2, <1>3, <1>4 DEF vars, Edit, Decide

LEMMA StepShape ==
  ASSUME Typed, [Next]_vars
  PROVE  Shape
<1>1. AgentStages \subseteq Stages
  BY StagesAre DEF AgentStages
<1>2. CASE RunLoop
  BY <1>2, VisitShape, TranslateShape, OtherShape DEF RunLoop
<1>3. CASE Thread
  <2>1. CASE \E p \in Packets : FinishPacket(p) \/ FailPacket(p)
    BY <2>1, PacketShape
  <2>2. CASE \E s \in Stages : FinishStage(s) \/ FailStage(s)
    BY <2>2, StageShape
  <2>3. CASE \E s \in AgentStages : FinishTurn(s) \/ GiveUp(s)
    BY <1>1, <2>3, StageShape
  <2>4. QED
    BY <1>3, <2>1, <2>2, <2>3 DEF Thread
<1>4. CASE \E p \in Packets : ReclaimPacket(p)
  BY <1>4, PacketShape
<1>5. CASE \E s \in Stages : ReclaimStage(s)
  BY <1>5, StageShape
<1>6. CASE \/ Pause \/ Drain \/ Resume \/ UNCHANGED vars
           \/ \E p \in Packets : Edit(p)
           \/ \E s \in AgentStages : Decide(s)
  BY <1>6, OtherShape
<1>7. QED
  BY <1>2, <1>3, <1>4, <1>5, <1>6 DEF Next

-----------------------------------------------------------------------------
(* The properties.                                                         *)

LEMMA InitTyped == Init => Typed
<1> SUFFICES ASSUME Init PROVE Typed
  OBVIOUS
<1>1. run \in RunsHere /\ {"translate", "review"} \cup ExportStages \subseteq plan
  BY DEF Init, RunsHere
<1>2. lane \in [Packets -> LaneStatuses] /\ item \in [Stages -> StageItems]
  BY DEF Init, LaneStatuses, StageItems
<1>3. QED
  BY <1>1, <1>2 DEF Typed

LEMMA TypedStep ==
  ASSUME Typed, [Next]_vars
  PROVE  Typed'
<1>1. Shape
  BY StepShape
<1>2. CASE Still
  BY <1>1, <1>2 DEF Shape, Still, Typed
<1>3. CASE Frontiers
  BY <1>1, <1>3 DEF Shape, Frontiers, Typed
<1>4. ASSUME NEW s \in Stages, NEW status \in StageItems, Moves(s, status)
      PROVE  Typed'
  BY <1>1, <1>4, PutType DEF Shape, Moves, Typed
<1>5. QED
  BY <1>1, <1>2, <1>3, <1>4 DEF Shape

LEMMA TypedAlways == Spec => []Typed
<1>1. Typed /\ [Next]_vars => Typed'
  BY TypedStep
<1>2. QED
  BY InitTyped, <1>1, PTL DEF Spec

\* A thread that writes packets downstream and one of the frontier never have leases
\* together (OneWriterOfPackets): the downstream one starts when every packet's item
\* is done, the frontier's when no downstream thread has a lease.
THEOREM OneWriter == Spec => []OneWriterOfPackets
<1>1. Init => OneWriterOfPackets
  BY DEF Init, OneWriterOfPackets
<1>2. ASSUME Typed, [Next]_vars, OneWriterOfPackets
      PROVE  OneWriterOfPackets'
  <2>1. Shape
    BY <1>2, StepShape
  <2>2. CASE Still
    BY <1>2, <2>2 DEF Still, OneWriterOfPackets
  <2>3. CASE Frontiers
    <3>1. {"model_review", "review"} \cup ExportStages \subseteq Stages
      BY StagesAre DEF ExportStages
    <3>2. QED
      BY <1>2, <2>3, <3>1 DEF Frontiers, DownstreamInFlight, OneWriterOfPackets
  <2>4. ASSUME NEW s \in Stages, NEW status \in StageItems, Moves(s, status)
        PROVE  OneWriterOfPackets'
    <3>1. /\ item'[s] = status /\ \A e \in Stages \ {s} : item'[e] = item[e]
          /\ lane' = lane
      BY <1>2, <2>4, PutType DEF Moves
    <3>2. {"model_review", "review"} \cup ExportStages \subseteq Stages
      BY StagesAre DEF ExportStages
    <3>3. CASE status = "leased" /\ s \in {"model_review", "review"} \cup ExportStages
      <4>1. \E z \in {"model_review", "review"} \cup ExportStages : CanStart(z)
        BY <2>4, <3>3 DEF Moves, Claimable, Settled
      <4>2. \A p \in Packets : lane[p] # "leased"
        BY <1>2, <4>1, WritersWait, DoneIsQuiet
      <4>3. QED
        BY <3>1, <4>2 DEF OneWriterOfPackets
    <3>4. CASE ~(status = "leased" /\ s \in {"model_review", "review"} \cup ExportStages)
      BY <1>2, <3>1, <3>2, <3>4 DEF OneWriterOfPackets
    <3>5. QED
      BY <3>3, <3>4
  <2>5. QED
    BY <2>1, <2>2, <2>3, <2>4 DEF Shape
<1>3. QED
  BY <1>1, <1>2, TypedAlways, PTL DEF Spec

\* Nobody works for a run that is over (EndedRunIsQuiet): it ends when nothing is in
\* flight, and only a driven run makes leases.
THEOREM EndedQuiet == Spec => []EndedRunIsQuiet
<1>1. Init => EndedRunIsQuiet
  BY DEF Init, EndedRunIsQuiet, TerminalRun
<1>2. ASSUME Typed, [Next]_vars, EndedRunIsQuiet
      PROVE  EndedRunIsQuiet'
  <2>1. Shape
    BY <1>2, StepShape
  <2>2. CASE run' # run
    BY <2>1, <2>2 DEF Shape, Judged, EndedRunIsQuiet
  <2>3. CASE run' = run /\ run \notin TerminalRun
    BY <2>3 DEF EndedRunIsQuiet
  <2>4. CASE run' = run /\ run \in TerminalRun
    <3>1. ~InFlight /\ run \notin DrivenRun
      BY <1>2, <2>4 DEF EndedRunIsQuiet, TerminalRun, DrivenRun
    <3>2. ~Frontiers
      BY <3>1 DEF Frontiers, InFlight
    <3>3. \A s \in Stages, status \in StageItems : ~Moves(s, status)
      BY <3>1 DEF Moves, InFlight
    <3>4. Still
      BY <2>1, <3>2, <3>3 DEF Shape
    <3>5. QED
      BY <3>1, <3>4 DEF Still, InFlight, EndedRunIsQuiet
  <2>5. QED
    BY <2>2, <2>3, <2>4
<1>3. QED
  BY <1>1, <1>2, TypedAlways, PTL DEF Spec

\* The second export has an item only when the first is done.
MergedAfterBilingual == item["merged_html"] # "none" => item["bilingual_html"] = "succeeded"

\* At most one export is there to be claimed (OneExportAtATime), so that the claim,
\* which does not name the export's type, gets the one that was seeded.
THEOREM OneExport == Spec => []OneExportAtATime
<1>1. Init => MergedAfterBilingual
  <2>1. "merged_html" \in Stages
    BY StagesAre
  <2>2. QED
    BY <2>1 DEF Init, MergedAfterBilingual
<1>2. ASSUME Typed, [Next]_vars, MergedAfterBilingual
      PROVE  MergedAfterBilingual'
  <2>1. Shape
    BY <1>2, StepShape
  <2>2. CASE Still \/ Frontiers
    BY <1>2, <2>2 DEF Still, Frontiers, MergedAfterBilingual
  <2>3. ASSUME NEW s \in Stages, NEW status \in StageItems, Moves(s, status)
        PROVE  MergedAfterBilingual'
    <3>1. item'[s] = status /\ \A e \in Stages \ {s} : item'[e] = item[e]
      BY <1>2, <2>3, PutType DEF Moves
    <3>2. {"merged_html", "bilingual_html"} \subseteq Stages \ AgentStages
      BY StagesAre DEF AgentStages
    <3>3. CASE s = "merged_html"
      <4>1. item["merged_html"] # "none" \/ CanStart("merged_html")
        BY <2>3, <3>2, <3>3 DEF Moves, Claimable
      <4>2. item["bilingual_html"] = "succeeded"
        BY <1>2, <4>1, MergedWaits DEF MergedAfterBilingual
      <4>3. QED
        BY <3>1, <3>2, <3>3, <4>2 DEF MergedAfterBilingual
    <3>4. CASE s = "bilingual_html"
      <4>1. item["bilingual_html"] # "succeeded"
        BY <2>3, <3>2, <3>4 DEF Moves, Claimable
      <4>2. QED
        BY <1>2, <3>1, <3>2, <3>4, <4>1 DEF MergedAfterBilingual
    <3>5. CASE s \notin {"merged_html", "bilingual_html"}
      BY <1>2, <3>1, <3>2, <3>5 DEF MergedAfterBilingual
    <3>6. QED
      BY <3>3, <3>4, <3>5
  <2>4. QED
    BY <2>1, <2>2, <2>3 DEF Shape
<1>3. MergedAfterBilingual => OneExportAtATime
  BY DEF MergedAfterBilingual, OneExportAtATime, ExportStages, Claimable, Owned
<1>4. QED
  BY <1>1, <1>2, <1>3, TypedAlways, PTL DEF Spec

\* A run that becomes succeeded is complete (SucceededRunIsComplete): every packet is
\* translated, and so is done every stage that was not given up.
THEOREM SucceededComplete == Spec => SucceededRunIsComplete
<1>1. ASSUME Typed, [Next]_vars
      PROVE  [run # "succeeded" /\ run' = "succeeded" =>
                /\ \A p \in Packets : text'[p] = "translated"
                /\ \A s \in plan \ ({"translate"} \cup degraded) : item'[s] = "succeeded"]_vars
  <2> SUFFICES ASSUME run # "succeeded" /\ run' = "succeeded"
               PROVE  /\ \A p \in Packets : text'[p] = "translated"
                      /\ \A s \in plan \ ({"translate"} \cup degraded) : item'[s] = "succeeded"
    OBVIOUS
  <2>1. Shape
    BY <1>1, StepShape
  <2>2. (\A s \in plan : StageStatus(s) = "succeeded")' /\ UNCHANGED <<plan, degraded>>
    BY <2>1 DEF Shape, Judged, TerminalRun
  <2>3. TranslateStatus' = "succeeded"
    BY <1>1, <2>2 DEF StageStatus, Typed
  <2>4. \A p \in Packets : text'[p] = "translated"
    BY <2>3 DEF TranslateStatus
  <2>5. ASSUME NEW s \in plan \ ({"translate"} \cup degraded)
        PROVE  item'[s] = "succeeded"
    <3>1. StageStatus(s)' = "succeeded" /\ s \notin degraded'
      BY <2>2
    <3>2. CASE s \in AgentStages
      <4>1. AgentStatus(s)' = "succeeded"
        BY <2>5, <3>1, <3>2 DEF StageStatus
      <4>2. ItemStatus(item'[s]) = "succeeded"
        BY <3>1, <4>1 DEF AgentStatus
      <4>3. QED
        BY <4>2 DEF ItemStatus
    <3>3. CASE s \notin AgentStages
      <4>1. ItemStatus(item'[s]) = "succeeded"
        BY <2>5, <3>1, <3>3 DEF StageStatus
      <4>2. QED
        BY <4>1 DEF ItemStatus
    <3>4. QED
      BY <3>2, <3>3
  <2>6. QED
    BY <2>4, <2>5
<1>2. QED
  BY <1>1, TypedAlways, PTL DEF Spec, SucceededRunIsComplete

-----------------------------------------------------------------------------
(* Where the loop stands, and the other variables.                         *)

LEMMA LeastIsMember ==
  ASSUME NEW S, S \subseteq Nat, S # {}
  PROVE  Min(S) \in S
<1> DEFINE R == {ss \in Nat \X Nat : ss[1] < ss[2]}
<1>1. IsWellFoundedOn(R, Nat)
  BY NatLessThanWellFounded DEF OpToRel
<1>2. \A x, y \in Nat : y < x => <<y, x>> \in R
  OBVIOUS
<1> HIDE DEF R
<1>3. PICK x \in S : \A y \in S : ~(<<y, x>> \in R)
  BY <1>1, WFMin
<1>4. \A y \in S : x <= y
  <2>1. SUFFICES ASSUME NEW y \in S
                 PROVE  x <= y
    OBVIOUS
  <2>2. x \in Nat /\ y \in Nat /\ ~(y < x)
    BY <1>2, <1>3
  <2>3. QED
    BY <2>2
<1>5. QED
  BY <1>3, <1>4 DEF Min

\* A tick visits stages of the plan, and reconciles last.
LEMMA VisitsAre ==
  /\ Visits \subseteq 1..10 /\ 10 \in Visits
  /\ \A i \in Visits : TickOrder[i] = "reconcile" <=> i = 10
<1>1. DOMAIN TickOrder = 1..10 /\ TickOrder[10] = "reconcile"
  BY DEF TickOrder
<1>2. \A i \in 1..10 : i = 1 \/ i = 2 \/ i = 3 \/ i = 4 \/ i = 5 \/ i = 6 \/ i = 7 \/ i = 8 \/ i = 9 \/ i = 10
  OBVIOUS
<1>3. /\ TickOrder[1] # "reconcile" /\ TickOrder[2] # "reconcile" /\ TickOrder[3] # "reconcile"
      /\ TickOrder[4] # "reconcile" /\ TickOrder[5] # "reconcile" /\ TickOrder[6] # "reconcile"
      /\ TickOrder[7] # "reconcile" /\ TickOrder[8] # "reconcile" /\ TickOrder[9] # "reconcile"
  BY DEF TickOrder
<1>4. 10 \in Visits
  BY <1>1 DEF Visits
<1>5. \A i \in 1..10 : TickOrder[i] = "reconcile" <=> i = 10
  BY <1>1, <1>2, <1>3
<1>6. QED
  BY <1>1, <1>4, <1>5 DEF Visits

LEMMA RestartStep == Min(Visits) \in Visits
<1>1. Visits \subseteq Nat /\ Visits # {}
  BY VisitsAre
<1>2. QED
  BY <1>1, LeastIsMember

LEMMA AdvanceStep ==
  ASSUME at \in Visits, TickOrder[at] # "reconcile"
  PROVE  Min({i \in Visits : i > at}) \in Visits
<1> DEFINE later == {i \in Visits : i > at}
<1>1. at \in 1..10 /\ at # 10
  BY VisitsAre
<1>2. 10 \in later /\ later \subseteq Nat /\ later \subseteq Visits
  <2>1. Visits \subseteq Nat /\ 10 \in Visits /\ 10 > at
    BY <1>1, VisitsAre
  <2>2. QED
    BY <2>1
<1> HIDE DEF later
<1>3. Min(later) \in later
  BY <1>2, LeastIsMember
<1>4. QED
  BY <1>2, <1>3 DEF later

\* A visit goes on with the tick, or begins it again.
LEMMA LoopStep ==
  ASSUME at \in Visits, RunLoop
  PROVE  /\ UNCHANGED <<plan, text, turn, degraded, edits, faults>>
         /\ at' \in Visits
<1>1. UNCHANGED <<plan, text, turn, degraded, edits, faults>>
  BY DEF RunLoop, VisitAgent, VisitTranslate, VisitReview, Reconcile, VisitExport, Claims, ClaimExport,
         Seeds, Quiet, work
<1>2. /\ TickOrder[at] # "reconcile" => at' \in {Min(Visits), Min({i \in Visits : i > at})}
      /\ TickOrder[at] = "reconcile" => at' = Min(Visits)
  <2>1. ASSUME NEW s \in AgentStages, VisitAgent(s)
        PROVE  TickOrder[at] # "reconcile" /\ (Restart \/ Advance)
    BY <2>1 DEF VisitAgent, Visit, AgentStages, Claims, Seeds, Quiet
  <2>2. CASE VisitReview
    <3>1. TickOrder[at] # "reconcile" /\ (Restart \/ Advance)
      BY <2>2 DEF VisitReview, Visit, Claims, Seeds, Quiet
    <3>2. QED
      BY <3>1 DEF Restart, Advance
  <2>3. CASE VisitTranslate
    <3>1. TickOrder[at] # "reconcile" /\ (Restart \/ Advance)
      BY <2>3 DEF VisitTranslate, Visit
    <3>2. QED
      BY <3>1 DEF Restart, Advance
  <2>4. ASSUME NEW s \in ExportStages, VisitExport(s)
        PROVE  TickOrder[at] # "reconcile" /\ (Restart \/ Advance)
    BY <2>4 DEF VisitExport, Visit, ExportStages, ClaimExport, Claims, Seeds, Quiet
  <2>5. CASE Reconcile
    <3>1. TickOrder[at] = "reconcile" /\ Restart
      BY <2>5 DEF Reconcile, Visit
    <3>2. QED
      BY <3>1 DEF Restart
  <2>6. QED
    BY <2>1, <2>2, <2>3, <2>4, <2>5 DEF RunLoop, Restart, Advance
<1>3. QED
  BY <1>1, <1>2, RestartStep, AdvanceStep

TurnStatuses == {"none", "running", "waiting", "succeeded", "failed", "cancelled"}
Texts        == {"built", "translated", "invalidated"}

\* Every other step leaves the loop where it is, or begins its tick again.
LEMMA OtherStep ==
  ASSUME TypeOK, [Next]_vars, ~RunLoop
  PROVE  /\ at' \in {at, Min(Visits)}
         /\ text' \in [Packets -> Texts] /\ turn' \in [AgentStages -> TurnStatuses]
         /\ degraded \subseteq degraded' /\ degraded' \subseteq Advisory
         /\ edits' \in Nat /\ faults' \in Nat
<1>0. /\ text \in [Packets -> Texts] /\ turn \in [AgentStages -> TurnStatuses]
      /\ degraded \subseteq Advisory /\ edits \in Nat /\ faults \in Nat
  BY DEF TypeOK, Texts, TurnStatuses
<1>1. ASSUME NEW p \in Packets, FinishPacket(p) \/ FailPacket(p) \/ ReclaimPacket(p)
      PROVE  /\ UNCHANGED <<at, turn, degraded, edits>> /\ faults' \in {faults, faults + 1}
             /\ text' \in [Packets -> Texts]
  <2>1. \E t \in Texts : text' = [text EXCEPT ![p] = t] \/ text' = text
    BY <1>0, <1>1 DEF FinishPacket, FailPacket, ReclaimPacket, Texts
  <2>2. QED
    BY <1>0, <1>1, <2>1 DEF FinishPacket, FailPacket, ReclaimPacket, Fault
<1>2. ASSUME NEW s \in Stages, FinishStage(s) \/ FailStage(s) \/ ReclaimStage(s)
      PROVE  /\ UNCHANGED <<at, text, degraded, edits>> /\ faults' \in {faults, faults + 1}
             /\ turn' \in [AgentStages -> TurnStatuses]
  <2>1. turn' = turn \/ (s \in AgentStages /\ \E t \in TurnStatuses : turn' = [turn EXCEPT ![s] = t])
    BY <1>0, <1>2 DEF FinishStage, FailStage, ReclaimStage, TurnStatuses
  <2>2. QED
    BY <1>0, <1>2, <2>1 DEF FinishStage, FailStage, ReclaimStage, Fault
<1>3. ASSUME NEW s \in AgentStages, FinishTurn(s) \/ GiveUp(s) \/ Decide(s)
      PROVE  /\ UNCHANGED <<at, text, edits>> /\ faults' \in {faults, faults + 1}
             /\ turn' \in [AgentStages -> TurnStatuses]
             /\ degraded \subseteq degraded' /\ degraded' \subseteq Advisory
  <2>1. \E t \in TurnStatuses : turn' = [turn EXCEPT ![s] = t]
    BY <1>0, <1>3 DEF FinishTurn, GiveUp, Decide, TurnStatuses
  <2>2. QED
    BY <1>0, <1>3, <2>1 DEF FinishTurn, GiveUp, Decide, Fault
<1>4. ASSUME NEW p \in Packets, Edit(p)
      PROVE  /\ UNCHANGED <<at, turn, degraded, faults>> /\ edits' = edits + 1
             /\ text' \in [Packets -> Texts]
  <2>1. \E t \in Texts : text' = [text EXCEPT ![p] = t]
    BY <1>4 DEF Edit, Texts
  <2>2. QED
    BY <1>0, <1>4, <2>1 DEF Edit, work
<1>5. CASE Pause \/ Drain
  BY <1>0, <1>5 DEF Pause, Drain, Fault, work
<1>6. CASE Resume
  BY <1>0, <1>6 DEF Resume, Restart, work
<1>7. CASE UNCHANGED vars
  BY <1>0, <1>7 DEF vars, work
<1>8. QED
  BY <1>0, <1>1, <1>2, <1>3, <1>4, <1>5, <1>6, <1>7 DEF Next, Thread

LEMMA InitTypeOK == Init => TypeOK
<1>1. SUFFICES ASSUME Init
               PROVE  TypeOK
  OBVIOUS
<1>2. plan \subseteq Stages \cup {"translate"}
  <2>1. PICK asked \in Requests : plan = asked \cup {"translate", "review"} \cup ExportStages
    BY <1>1 DEF Init
  <2>2. asked \subseteq AgentStages
    BY <2>1, RunPipelineAssumption
  <2>3. QED
    BY <2>1, <2>2, StagesAre DEF AgentStages, ExportStages
<1>3. at \in Visits
  BY <1>1, RestartStep DEF Init
<1>4. text \in [Packets -> Texts] /\ turn \in [AgentStages -> TurnStatuses]
  BY <1>1 DEF Init, Texts, TurnStatuses
<1>5. Typed
  BY <1>1, InitTyped
<1>6. QED
  BY <1>1, <1>2, <1>3, <1>4, <1>5 DEF Init, TypeOK, Typed, Texts, TurnStatuses, RunsHere,
                                      LaneStatuses, StageItems

LEMMA TypeOKStep ==
  ASSUME TypeOK, Typed, [Next]_vars
  PROVE  TypeOK'
<1>1. Typed' /\ plan' = plan
  BY TypedStep, StepShape DEF Shape, Still, Frontiers, Moves
<1>2. Visits' = Visits
  BY <1>1 DEF Visits
<1>3. /\ at' \in Visits /\ text' \in [Packets -> Texts] /\ turn' \in [AgentStages -> TurnStatuses]
      /\ degraded' \subseteq Advisory /\ edits' \in Nat /\ faults' \in Nat
  BY LoopStep, OtherStep, RestartStep DEF TypeOK, Texts, TurnStatuses
<1>4. QED
  BY <1>1, <1>2, <1>3 DEF TypeOK, Typed, Texts, TurnStatuses, RunsHere, LaneStatuses, StageItems

\* Every variable keeps its type: no visit leaves the plan or runs off the end of a tick.
THEOREM TypeCorrect == Spec => []TypeOK
<1>1. TypeOK /\ Typed /\ [Next]_vars => TypeOK'
  BY TypeOKStep
<1>2. QED
  BY InitTypeOK, <1>1, TypedAlways, PTL DEF Spec

-----------------------------------------------------------------------------
(* Delivery in order.                                                      *)

\* A stage that will not run again: it was given up, or its item and its turn ended.
Finished(s) == \/ s \in degraded
               \/ item[s] = "succeeded" /\ (s \in AgentStages => turn[s] = "succeeded")

\* An item that succeeds leaves a turn behind that ended, waits or was decided on.
TurnsSettle ==
  \A s \in AgentStages : item[s] = "succeeded" /\ s \notin degraded => turn[s] \notin {"none", "failed"}

\* Whatever a stage's gate asked for when the stage was seeded still holds.
GatesHold ==
  \A s \in Stages : item[s] # "none" => \A u \in (Upstream[s] \cap plan) \ {"translate"} : Finished(u)

OrderInv == TypeOK /\ Typed /\ TurnsSettle /\ GatesHold

\* What a step does to one agent stage.
TurnMoves(s) ==
  \/ item'[s] = item[s] /\ turn'[s] = turn[s]
  \/ item[s] = "leased" /\ (item'[s] = "succeeded" => s \in degraded' \/ turn'[s] \in {"succeeded", "waiting"})
  \/ item'[s] # "succeeded" /\ (item[s] \in Claimable \/ item[s] = "none" \/ turn[s] \in {"none", "running"})
  \/ item'[s] = item[s] /\ turn[s] = "waiting" /\ turn'[s] \in {"running", "cancelled"}

LEMMA LoopTurns ==
  ASSUME Typed, RunLoop, NEW s \in AgentStages
  PROVE  TurnMoves(s)
<1>0. s \in Stages /\ turn' = turn /\ item \in [Stages -> StageItems]
  <2>1. turn' = turn
    BY DEF RunLoop, VisitAgent, VisitTranslate, VisitReview, Reconcile, VisitExport, Claims, ClaimExport,
           Seeds, Quiet, work
  <2>2. QED
    BY <2>1, StagesAre DEF AgentStages, Typed
<1>1. CASE item' = item
  BY <1>0, <1>1 DEF TurnMoves
<1>2. ASSUME NEW e \in Stages, Put(e, "leased"), item[e] \in Claimable
      PROVE  TurnMoves(s)
  BY <1>0, <1>2 DEF TurnMoves, Put
<1>3. ASSUME NEW e \in Stages, Put(e, "pending"), e \in AgentStages => ToSeed(e)
      PROVE  TurnMoves(s)
  BY <1>0, <1>3 DEF TurnMoves, Put, ToSeed
<1>4. \/ item' = item
      \/ \E e \in Stages : Put(e, "leased") /\ item[e] \in Claimable
      \/ \E e \in Stages : Put(e, "pending") /\ (e \in AgentStages => ToSeed(e))
  <2>1. AgentStages \subseteq Stages /\ ExportStages \subseteq Stages \ AgentStages
        /\ "review" \in Stages \ AgentStages
    BY StagesAre DEF AgentStages, ExportStages
  <2>2. ASSUME NEW e \in AgentStages, VisitAgent(e)
        PROVE  \/ item' = item
               \/ Put(e, "leased") /\ item[e] \in Claimable
               \/ Put(e, "pending") /\ ToSeed(e)
    BY <2>2 DEF VisitAgent, Quiet, Claims, Seeds, work
  <2>3. CASE VisitReview
    <3>1. \/ item' = item
          \/ Put("review", "leased") /\ item["review"] \in Claimable
          \/ Put("review", "pending")
      BY <2>3 DEF VisitReview, Quiet, Claims, Seeds, work
    <3>2. QED
      BY <2>1, <3>1
  <2>4. ASSUME NEW e \in ExportStages, VisitExport(e)
        PROVE  \/ item' = item
               \/ \E x \in ExportStages : Put(x, "leased") /\ item[x] \in Claimable
               \/ Put(e, "pending")
    BY <2>4 DEF VisitExport, Quiet, ClaimExport, Claims, Seeds, work
  <2>5. CASE VisitTranslate \/ Reconcile
    BY <2>5 DEF VisitTranslate, Reconcile, work
  <2>6. CASE \E e \in AgentStages : VisitAgent(e)
    BY <2>1, <2>2, <2>6
  <2>7. CASE \E e \in ExportStages : VisitExport(e)
    BY <2>1, <2>4, <2>7
  <2>8. QED
    BY <2>3, <2>5, <2>6, <2>7 DEF RunLoop
<1>5. QED
  BY <1>1, <1>2, <1>3, <1>4

LEMMA TurnShape ==
  ASSUME TypeOK, Typed, [Next]_vars, NEW s \in AgentStages
  PROVE  TurnMoves(s) /\ degraded \subseteq degraded'
<1>0. /\ s \in Stages /\ AgentStages \subseteq Stages /\ item \in [Stages -> StageItems]
      /\ turn \in [AgentStages -> TurnStatuses]
  BY StagesAre DEF AgentStages, Typed, TypeOK, TurnStatuses
<1>1. CASE RunLoop
  BY <1>1, LoopTurns, LoopStep DEF TypeOK
<1>2. ASSUME NEW e \in Stages, FinishStage(e) \/ FailStage(e) \/ ReclaimStage(e)
      PROVE  TurnMoves(s)
  <2>1. CASE e = s
    <3>1. item[s] = "leased" /\ ~FinishStage(e)
      BY <1>2, <2>1 DEF FinishStage, FailStage, ReclaimStage
    <3>2. \E f \in Failed : Put(s, f)
      BY <1>2, <2>1, <3>1 DEF FailStage, ReclaimStage, Failed
    <3>3. item'[s] # "succeeded"
      BY <1>0, <3>2 DEF Put, Failed
    <3>4. QED
      BY <3>1, <3>3 DEF TurnMoves
  <2>2. CASE e # s
    <3>1. \E f \in StageItems : Put(e, f)
      BY <1>2 DEF FinishStage, FailStage, ReclaimStage, Failed, StageItems, Claimable, Settled
    <3>2. turn' = turn \/ (e \in AgentStages /\ \E t \in TurnStatuses : turn' = [turn EXCEPT ![e] = t])
      BY <1>0, <1>2 DEF FinishStage, FailStage, ReclaimStage, TurnStatuses
    <3>3. item'[s] = item[s] /\ turn'[s] = turn[s]
      BY <1>0, <2>2, <3>1, <3>2 DEF Put
    <3>4. QED
      BY <3>3 DEF TurnMoves
  <2>3. QED
    BY <2>1, <2>2
<1>3. ASSUME NEW e \in AgentStages, FinishTurn(e) \/ GiveUp(e) \/ Decide(e)
      PROVE  TurnMoves(s)
  <2>1. \E t \in TurnStatuses : turn' = [turn EXCEPT ![e] = t]
    BY <1>0, <1>3 DEF FinishTurn, GiveUp, Decide, TurnStatuses
  <2>2. Put(e, "succeeded") \/ item' = item
    BY <1>3 DEF FinishTurn, GiveUp, Decide
  <2>3. CASE e # s
    <3>1. item'[s] = item[s] /\ turn'[s] = turn[s]
      BY <1>0, <2>1, <2>2, <2>3 DEF Put
    <3>2. QED
      BY <3>1 DEF TurnMoves
  <2>4. CASE e = s /\ FinishTurn(e)
    <3>1. item[s] = "leased" /\ turn'[s] \in {"succeeded", "waiting"}
      BY <1>0, <2>4 DEF FinishTurn
    <3>2. QED
      BY <3>1 DEF TurnMoves
  <2>5. CASE e = s /\ GiveUp(e)
    <3>1. item[s] = "leased" /\ s \in degraded'
      BY <2>5 DEF GiveUp
    <3>2. QED
      BY <3>1 DEF TurnMoves
  <2>6. CASE e = s /\ Decide(e)
    <3>1. item'[s] = item[s] /\ turn[s] = "waiting" /\ turn'[s] \in {"running", "cancelled"}
      BY <1>0, <2>6 DEF Decide
    <3>2. QED
      BY <3>1 DEF TurnMoves
  <2>7. QED
    BY <1>3, <2>3, <2>4, <2>5, <2>6
<1>4. ASSUME NEW p \in Packets, FinishPacket(p) \/ FailPacket(p) \/ ReclaimPacket(p) \/ Edit(p)
      PROVE  TurnMoves(s)
  BY <1>4 DEF FinishPacket, FailPacket, ReclaimPacket, Edit, work, TurnMoves
<1>5. CASE Pause \/ Drain \/ Resume \/ UNCHANGED vars
  BY <1>5 DEF Pause, Drain, Resume, vars, work, TurnMoves
<1>6. TurnMoves(s)
  BY <1>1, <1>2, <1>3, <1>4, <1>5 DEF Next, Thread
<1>7. CASE ~RunLoop
  BY <1>6, <1>7, OtherStep
<1>8. QED
  BY <1>1, <1>6, <1>7

\* A stage that is finished stays so.
LEMMA FinishedStays ==
  ASSUME OrderInv, [Next]_vars, NEW u \in Stages, Finished(u)
  PROVE  Finished(u)'
<1>1. CASE u \in degraded
  <2>1. "repair" \in AgentStages
    BY DEF AgentStages
  <2>2. degraded \subseteq degraded'
    BY <2>1, TurnShape DEF OrderInv
  <2>3. QED
    BY <1>1, <2>2 DEF Finished
<1>2. CASE u \in AgentStages /\ item[u] = "succeeded" /\ turn[u] = "succeeded"
  <2>1. TurnMoves(u)
    BY <1>2, TurnShape DEF OrderInv
  <2>2. item'[u] = "succeeded" /\ turn'[u] = "succeeded"
    BY <1>2, <2>1 DEF TurnMoves, Claimable
  <2>3. QED
    BY <2>2 DEF Finished
<1>3. CASE u \notin AgentStages /\ item[u] = "succeeded"
  <2>1. Shape
    BY StepShape DEF OrderInv
  <2>2. ASSUME NEW s \in Stages, NEW status \in StageItems, Moves(s, status)
        PROVE  item'[u] = "succeeded"
    <3>1. s # u
      BY <1>3, <2>2 DEF Moves, Claimable
    <3>2. QED
      BY <1>3, <2>2, <3>1, PutType DEF Moves, OrderInv
  <2>3. item'[u] = "succeeded"
    BY <1>3, <2>1, <2>2 DEF Shape, Still, Frontiers
  <2>4. QED
    BY <1>3, <2>3 DEF Finished
<1>4. QED
  BY <1>1, <1>2, <1>3 DEF Finished

\* A gate sees a stage succeeded only when it is finished, and then it does.
LEMMA GateSeesFinished ==
  ASSUME OrderInv, NEW u \in Stages
  PROVE  /\ StageStatus(u) = "succeeded" => Finished(u)
         /\ Finished(u) => StageStatus(u) = "succeeded" \/ u \in degraded
<1>1. u # "translate" /\ item[u] \in StageItems
  BY StagesAre DEF OrderInv, Typed
<1>2. ItemStatus(item[u]) = "succeeded" <=> item[u] = "succeeded"
  BY <1>1 DEF ItemStatus, StageItems, Claimable, Settled
<1>3. CASE u \in AgentStages
  <2>1. StageStatus(u) = AgentStatus(u) /\ turn[u] \in TurnStatuses
    BY <1>1, <1>3 DEF StageStatus, OrderInv, TypeOK, TurnStatuses
  <2>2. ASSUME AgentStatus(u) = "succeeded", u \notin degraded
        PROVE  item[u] = "succeeded" /\ turn[u] = "succeeded"
    <3>1. item[u] = "succeeded"
      BY <1>2, <2>2 DEF AgentStatus
    <3>2. turn[u] \notin {"waiting", "running", "cancelled"}
      BY <2>2, <3>1 DEF AgentStatus
    <3>3. turn[u] \notin {"none", "failed"}
      BY <1>3, <2>2, <3>1 DEF OrderInv, TurnsSettle
    <3>4. QED
      BY <2>1, <3>1, <3>2, <3>3 DEF TurnStatuses
  <2>3. ASSUME item[u] = "succeeded", turn[u] = "succeeded"
        PROVE  AgentStatus(u) = "succeeded"
    BY <1>2, <2>3 DEF AgentStatus
  <2>4. QED
    BY <1>3, <2>1, <2>2, <2>3 DEF Finished
<1>4. CASE u \notin AgentStages
  BY <1>1, <1>2, <1>4 DEF StageStatus, Finished, OrderInv, TypeOK, Advisory
<1>5. QED
  BY <1>3, <1>4

LEMMA OrderInvInit == Init => OrderInv
<1> SUFFICES ASSUME Init
             PROVE  OrderInv
  OBVIOUS
<1>1. \A s \in Stages : item[s] = "none"
  BY DEF Init
<1>2. AgentStages \subseteq Stages
  BY StagesAre DEF AgentStages
<1>3. TurnsSettle /\ GatesHold
  BY <1>1, <1>2 DEF TurnsSettle, GatesHold
<1>4. QED
  BY <1>3, InitTyped, InitTypeOK DEF OrderInv

LEMMA OrderInvStep ==
  ASSUME OrderInv, [Next]_vars
  PROVE  OrderInv'
<1>0. TypeOK' /\ Typed' /\ plan' = plan
  BY TypeOKStep, TypedStep, StepShape DEF OrderInv, Shape, Still, Frontiers, Moves
<1>1. TurnsSettle'
  <2>1. SUFFICES ASSUME NEW s \in AgentStages, item'[s] = "succeeded", s \notin degraded'
                 PROVE  turn'[s] \notin {"none", "failed"}
    BY DEF TurnsSettle
  <2>2. TurnMoves(s) /\ s \notin degraded
    BY <2>1, TurnShape DEF OrderInv
  <2>3. item[s] = "succeeded" => turn[s] \notin {"none", "failed"}
    BY <2>2 DEF OrderInv, TurnsSettle
  <2>4. QED
    BY <2>1, <2>2, <2>3 DEF TurnMoves
<1>2. GatesHold'
  <2>1. SUFFICES ASSUME NEW s \in Stages, item'[s] # "none",
                        NEW u \in (Upstream[s] \cap plan) \ {"translate"}
                 PROVE  Finished(u)'
    BY <1>0 DEF GatesHold
  <2>2. u \in Stages
    BY <2>1 DEF OrderInv, TypeOK
  <2>3. CASE item[s] # "none"
    BY <2>1, <2>2, <2>3, FinishedStays DEF OrderInv, GatesHold
  <2>4. CASE item[s] = "none"
    <3>1. CanStart(s)
      <4>1. Shape
        BY StepShape DEF OrderInv
      <4>2. ~Still /\ ~Frontiers
        BY <2>1, <2>4 DEF Still, Frontiers
      <4>3. PICK e \in Stages, status \in StageItems : Moves(e, status)
        BY <4>1, <4>2 DEF Shape
      <4>4. e = s
        BY <2>1, <2>4, <4>3, PutType DEF OrderInv, Moves
      <4>5. QED
        BY <2>4, <4>3, <4>4 DEF Moves, Claimable
    <3>2. StageStatus(u) = "succeeded"
      BY <2>1, <3>1 DEF CanStart
    <3>3. QED
      BY <2>2, <3>2, GateSeesFinished, FinishedStays
  <2>5. QED
    BY <2>3, <2>4
<1>3. QED
  BY <1>0, <1>1, <1>2 DEF OrderInv

LEMMA OrderInvariant == Spec => []OrderInv
<1>1. OrderInv /\ [Next]_vars => OrderInv'
  BY OrderInvStep
<1>2. QED
  BY OrderInvInit, <1>1, PTL DEF Spec

LEMMA DeliveryIs ==
  /\ DOMAIN Delivery = 1..6
  /\ Delivery[1] = "model_review" /\ Delivery[2] = "review" /\ Delivery[3] = "repair"
  /\ Delivery[4] = "bilingual_html" /\ Delivery[5] = "merged_html" /\ Delivery[6] = "export_review"
<1>1. Delivery = [i \in 1..6 |-> FullPipeline[i + 3]]
  BY DEF Delivery
<1>2. QED
  BY <1>1 DEF FullPipeline

\* A stage that has an item found every earlier one of the delivery finished,
\* those that its own gate does not name through the gates of those it names.
LEMMA EarlierFinished ==
  ASSUME OrderInv, NEW i \in DOMAIN Delivery, NEW j \in DOMAIN Delivery, i < j,
         Delivery[i] \in plan, item[Delivery[j]] # "none"
  PROVE  Finished(Delivery[i])
<1>1. /\ {"model_review", "review", "repair", "bilingual_html", "merged_html", "export_review"} \subseteq Stages
      /\ {"review", "bilingual_html", "merged_html"} \cap AgentStages = {}
      /\ {"review", "bilingual_html", "merged_html"} \cap Advisory = {}
      /\ {"review", "bilingual_html", "merged_html"} \subseteq plan
  BY StagesAre DEF AgentStages, Advisory, ExportStages, OrderInv, Typed
<1>2. /\ Finished("review") => item["review"] = "succeeded"
      /\ Finished("bilingual_html") => item["bilingual_html"] = "succeeded"
  BY <1>1 DEF Finished, OrderInv, TypeOK
<1>3. ASSUME NEW s \in Stages, NEW u \in Upstream[s], item[s] # "none", u \in plan, u # "translate"
      PROVE  Finished(u)
  BY <1>3 DEF OrderInv, GatesHold
<1>4. /\ item["review"] # "none" /\ "model_review" \in plan => Finished("model_review")
      /\ item["repair"] # "none" => Finished("review")
      /\ item["bilingual_html"] # "none" => /\ Finished("review")
                                            /\ "repair" \in plan => Finished("repair")
      /\ item["merged_html"] # "none" => /\ Finished("review") /\ Finished("bilingual_html")
                                         /\ "repair" \in plan => Finished("repair")
      /\ item["export_review"] # "none" => Finished("bilingual_html") /\ Finished("merged_html")
  BY <1>1, <1>3 DEF Upstream
<1>5. /\ i = 1 \/ i = 2 \/ i = 3 \/ i = 4 \/ i = 5
      /\ j = 2 \/ j = 3 \/ j = 4 \/ j = 5 \/ j = 6
  BY DeliveryIs
<1>6. QED
  BY <1>2, <1>4, <1>5, DeliveryIs

\* What starts finds every earlier stage of the delivery finished or given up
\* (DeliveryInOrder): a stage is claimed only when it was seeded, its gate held
\* then, and what a gate has seen finished is never opened again.
THEOREM DeliveredInOrder == Spec => DeliveryInOrder
<1> DEFINE InOrder ==
      \A i, j \in DOMAIN Delivery :
        i < j /\ Delivery[i] \in plan /\ item[Delivery[j]] # "leased" /\ item'[Delivery[j]] = "leased"
          => StageStatus(Delivery[i]) = "succeeded" \/ Delivery[i] \in degraded
<1>1. ASSUME OrderInv, [Next]_vars
      PROVE  [InOrder]_vars
  <2>1. SUFFICES ASSUME NEW i \in DOMAIN Delivery, NEW j \in DOMAIN Delivery, i < j,
                        Delivery[i] \in plan, item[Delivery[j]] # "leased", item'[Delivery[j]] = "leased"
                 PROVE  StageStatus(Delivery[i]) = "succeeded" \/ Delivery[i] \in degraded
    OBVIOUS
  <2>2. Delivery[i] \in Stages /\ Delivery[j] \in Stages
    <3>1. i \in 1..6 /\ j \in 1..6
      BY DeliveryIs
    <3>2. QED
      BY <3>1, DeliveryIs, StagesAre
  <2>3. item[Delivery[j]] # "none"
    <3>1. Shape
      BY <1>1, StepShape DEF OrderInv
    <3>2. ~Still /\ ~Frontiers
      BY <2>1 DEF Still, Frontiers
    <3>3. PICK s \in Stages, status \in StageItems : Moves(s, status)
      BY <3>1, <3>2 DEF Shape
    <3>4. s = Delivery[j] /\ status = "leased"
      BY <1>1, <2>1, <2>2, <3>3, PutType DEF OrderInv, Moves
    <3>5. QED
      BY <2>1, <3>3, <3>4 DEF Moves, Claimable, Settled
  <2>4. Finished(Delivery[i])
    BY <1>1, <2>1, <2>3, EarlierFinished
  <2>5. QED
    BY <1>1, <2>2, <2>4, GateSeesFinished
<1>2. QED
  BY <1>1, OrderInvariant, PTL DEF Spec, DeliveryInOrder
=============================================================================
