----------------------------- MODULE RunPipeline -----------------------------
(***************************************************************************)
(* The stages of a translate_full run: the plan a request asks for, the    *)
(* gate in front of each stage, the run loop that visits them, the         *)
(* evidence that says how far each one is, and the outcome of the run.     *)
(*                                                                         *)
(* A step is one visit of the loop, or the transaction that completes a    *)
(* work item.  What a thread does in between is in TranslateRun (packets), *)
(* AgentStage (turns) and IssueLedger (review); here a lease is held, lost *)
(* or completed.  The book is one chapter, hence one lane of packets;      *)
(* retry delays are left out, and so are budgets.                          *)
(***************************************************************************)
EXTENDS Integers, Sequences, FiniteSetsExt, RunStates

CONSTANTS Packets,     \* packets of the document, by ordinal
          Requests,    \* the sets of optional stages a request may ask for
          MaxEdits,    \* bound: edits of the structure or of the text
          MaxFaults    \* bound: failures, lost leases, pauses and drains

FullPipeline == <<"structure_review", "terminology", "translate", "model_review", "review",
                  "repair", "bilingual_html", "merged_html", "export_review">>

Stages       == {FullPipeline[i] : i \in DOMAIN FullPipeline} \ {"translate"}
AgentStages  == {"structure_review", "terminology", "model_review", "repair", "export_review"}
Advisory     == AgentStages \ {"repair"}
ExportStages == {"bilingual_html", "merged_html"}

ASSUME RunPipelineAssumption ==
  /\ Packets \subseteq Nat /\ Packets # {}
  /\ Requests \subseteq SUBSET AgentStages
  /\ MaxEdits \in Nat /\ MaxFaults \in Nat

VARIABLES
  run,       \* document_runs.status
  plan,      \* the stages of the run's plan; never changes
  text,      \* translation_packets.status
  lane,      \* status of the TRANSLATE item of a packet
  item,      \* status of the latest work item of any other stage
  turn,      \* status of the latest turn of an agent stage; "waiting" for a person
  degraded,  \* agent stages that an advisory agent gave up
  at,        \* the place in TickOrder of the stage the run loop visits next
  edits, faults

work == <<lane, item, turn, degraded>>
vars == <<run, plan, text, work, at, edits, faults>>

\* A tick of _run_loop: the agent stages come first, and only planned ones are visited.
TickOrder == <<"structure_review", "terminology", "model_review", "repair", "export_review",
               "translate", "review", "bilingual_html", "merged_html", "reconcile">>
Visits    == {i \in DOMAIN TickOrder : TickOrder[i] \in plan \cup {"reconcile"}}

Init ==
  /\ run = "running"
  /\ \E asked \in Requests :
       plan = asked \cup {"translate", "review"} \cup ExportStages
  /\ text \in [Packets -> {"built", "translated"}]     \* what earlier runs left
  /\ lane = [p \in Packets |-> "none"]
  /\ item = [s \in Stages |-> "none"]
  /\ turn = [s \in AgentStages |-> "none"]
  /\ degraded = {}
  /\ at = Min(Visits)
  /\ edits = 0 /\ faults = 0

Fault == faults < MaxFaults /\ faults' = faults + 1

-----------------------------------------------------------------------------
(* Evidence: StageStatusCalculator.                                        *)

ItemStatus(i) == CASE i = "none"            -> "not_started"
                   [] i = "terminal_failed" -> "failed"
                   [] i = "succeeded"       -> "succeeded"
                   [] OTHER                 -> "running"

Active == {p \in Packets : lane[p] \notin {"none", "cancelled"}}

\* Mutant: counts work items only.
MutTranslateStatus ==
  IF \E p \in Active : lane[p] = "terminal_failed" THEN "failed"
  ELSE IF \A p \in Active : lane[p] = "succeeded" THEN "succeeded" ELSE "running"

TranslateStatus ==
  IF \E p \in Active : lane[p] = "terminal_failed" THEN "failed"
  ELSE IF /\ \A p \in Packets : text[p] = "translated"
          /\ \A p \in Active : lane[p] = "succeeded"
       THEN "succeeded" ELSE "running"

\* Judged by the latest turn, once the stage has an item.
AgentStatus(s) ==
  IF item[s] = "none" THEN "not_started"
  ELSE IF turn[s] = "failed" THEN (IF s \in degraded THEN "succeeded" ELSE "failed")
  ELSE IF turn[s] \in {"waiting", "running", "cancelled"} /\ item[s] = "succeeded" THEN "running"
  ELSE ItemStatus(item[s])

StageStatus(s) == IF s = "translate" THEN TranslateStatus
                  ELSE IF s \in AgentStages THEN AgentStatus(s) ELSE ItemStatus(item[s])

-----------------------------------------------------------------------------
(* StageGateKeeper.                                                        *)

\* Mutant: exports do not wait for the repair agent.
MutUpstream == [structure_review |-> {},
                terminology      |-> {"structure_review"},
                translate        |-> {"terminology"},
                model_review     |-> {"translate"},
                review           |-> {"translate", "model_review"},
                repair           |-> {"review"},
                bilingual_html   |-> {"translate", "review"},
                merged_html      |-> {"translate", "review", "bilingual_html"},
                export_review    |-> {"bilingual_html", "merged_html"}]

Upstream == [structure_review |-> {},
             terminology      |-> {"structure_review"},
             translate        |-> {"terminology"},
             model_review     |-> {"translate"},
             review           |-> {"translate", "model_review"},
             repair           |-> {"review"},
             bilingual_html   |-> {"translate", "review", "repair"},
             merged_html      |-> {"translate", "review", "repair", "bilingual_html"},
             export_review    |-> {"bilingual_html", "merged_html"}]

\* Mutant: the second export does not wait for the first.
MutCanStart(s) ==
  \A u \in Upstream[s] \cap plan :
    StageStatus(u) = "succeeded" \/ (s = "merged_html" /\ u = "bilingual_html")

\* Only the stages of the run's own plan are waited for.
CanStart(s) == \A u \in Upstream[s] \cap plan : StageStatus(u) = "succeeded"

-----------------------------------------------------------------------------
(* reconcile_run_terminal_state, classify_run_outcome.  Every planned      *)
(* stage is required, and a full run makes no items for other stages.      *)

InFlight  == (\E p \in Packets : lane[p] = "leased") \/ (\E s \in Stages : item[s] = "leased")
Waiting   == (\E p \in Packets : lane[p] \in Claimable) \/ (\E s \in Stages : item[s] \in Claimable)

\* Mutant: does not look for leases.
MutOutcome(r) ==
  IF r \notin DrivenRun THEN r
  ELSE IF r = "draining" /\ Waiting THEN PausedBySystem(r)
  ELSE IF \E s \in plan : StageStatus(s) = "failed" THEN FailedBySystem(r)
  ELSE IF \A s \in plan : StageStatus(s) = "succeeded" THEN SucceededBySystem(r)
  ELSE r

Outcome(r) ==
  IF r \notin DrivenRun \/ InFlight THEN r
  ELSE IF r = "draining" /\ Waiting THEN PausedBySystem(r)
  ELSE IF \E s \in plan : StageStatus(s) = "failed" THEN FailedBySystem(r)
  ELSE IF \A s \in plan : StageStatus(s) = "succeeded" THEN SucceededBySystem(r)
  ELSE r

-----------------------------------------------------------------------------
(* The run loop.  A visit that seeds or claims begins the tick again.      *)

Visit(s) == run \in DrivenRun /\ TickOrder[at] = s
Restart  == at' = Min(Visits)

\* Mutant: stages that are not planned are visited too.
MutAdvance == at' = at + 1

Advance == at' = Min({i \in Visits : i > at})

Quiet(s) ==
  /\ Advance
  /\ UNCHANGED <<run, plan, text, work, edits, faults>>

Put(s, status) == item' = [item EXCEPT ![s] = status]

\* Claims are refused while the run drains.
Claims(s) ==
  /\ item[s] \in Claimable
  /\ IF run = "running" THEN Put(s, "leased") /\ Restart ELSE Advance /\ UNCHANGED item
  /\ UNCHANGED <<run, plan, text, lane, turn, degraded, edits, faults>>

Seeds(s) == /\ Put(s, "pending") /\ Restart
            /\ UNCHANGED <<run, plan, text, lane, turn, degraded, edits, faults>>

\* Mutant: a resumed turn is not taken up again.
MutToSeed(s) == item[s] \in {"none", "succeeded"} /\ turn[s] = "none"

\* No turn yet, or one that a decision has resumed.
ToSeed(s) == item[s] \in {"none", "succeeded"} /\ turn[s] \in {"none", "running"}

VisitAgent(s) ==
  /\ Visit(s)
  /\ IF ~CanStart(s) THEN Quiet(s)
     ELSE \/ Claims(s)
          \/ ToSeed(s) /\ Seeds(s)
          \/ item[s] \notin Claimable /\ ~ToSeed(s) /\ Quiet(s)

VisitReview ==
  /\ Visit("review")
  /\ IF ~CanStart("review") THEN Quiet("review")
     ELSE \/ Claims("review")
          \/ item["review"] = "none" /\ Seeds("review")
          \/ item["review"] \notin Claimable \cup {"none"} /\ Quiet("review")

\* claim_next_work_item asks for an EXPORT item of the run, whichever its export type.
ClaimExport(s) == \E e \in ExportStages : Claims(e)

VisitExport(s) ==
  /\ Visit(s)
  /\ IF ~CanStart(s) THEN Quiet(s)
     ELSE \/ item[s] \in Claimable /\ ClaimExport(s)
          \/ item[s] = "none" /\ Seeds(s)
          \/ item[s] \notin Claimable \cup {"none"} /\ Quiet(s)

\* Mutant: exports re-open nothing.
MutDownstreamInFlight == item["review"] = "leased"

\* A downstream thread owns the packets it re-opens.
DownstreamInFlight == \E s \in Stages : item[s] = "leased"

\* Items left behind by a packet that is translated by now.
Obsoleted == [p \in Packets |-> IF lane[p] \in Claimable /\ text[p] = "translated"
                                THEN "cancelled" ELSE lane[p]]

Frontier(rows) ==
  LET free == {p \in Packets : text[p] = "built" /\ rows[p] \in {"none", "cancelled"}}
  IN  IF \E p \in Packets : rows[p] \in Claimable \cup Owned THEN {}
      ELSE {p \in free : \A q \in free : p <= q}

\* A packet that has an item, cancelled or not, gets no second one.
Seeded(rows, some) == [p \in Packets |-> IF p \in some /\ rows[p] = "none" THEN "pending" ELSE rows[p]]

ActiveIn(rows) == {p \in Packets : rows[p] \notin {"none", "cancelled"}}

\* Frontier, claims and the first seeding, in one transaction.
VisitTranslate ==
  /\ Visit("translate")
  /\ UNCHANGED <<run, plan, text, item, turn, degraded, edits, faults>>
  /\ IF (AgentStages \cap plan # {} /\ ~CanStart("translate")) \/ DownstreamInFlight
     THEN Advance /\ UNCHANGED lane
     ELSE LET rows  == Seeded(Obsoleted, Frontier(Obsoleted))
              built == {p \in Packets : text[p] = "built"}
              ready == {p \in Packets : rows[p] \in Claimable}
          IN  IF ActiveIn(rows) = {}
              THEN /\ lane' = Seeded(rows, built)
                   /\ IF built # {} THEN Restart ELSE Advance
              ELSE IF /\ \A p \in Packets : rows[p] # "terminal_failed"
                      /\ ready # {} /\ run = "running"
              THEN /\ \E p \in ready : lane' = [rows EXCEPT ![p] = "leased"]
                   /\ Restart
              ELSE lane' = rows /\ Advance

\* The loop looked at every stage; it waits, or it is over.
Reconcile ==
  /\ Visit("reconcile")
  /\ run' = Outcome(run) /\ Restart
  /\ UNCHANGED <<plan, text, work, edits, faults>>

RunLoop == \/ \E s \in AgentStages : VisitAgent(s)
           \/ VisitTranslate \/ VisitReview \/ Reconcile
           \/ \E s \in ExportStages : VisitExport(s)

-----------------------------------------------------------------------------
(* Threads: a held lease is completed.                                     *)

\* A packet that is not BUILT any more is left as it is.
FinishPacket(p) ==
  /\ lane[p] = "leased"
  /\ lane' = [lane EXCEPT ![p] = "succeeded"]
  /\ text' = [text EXCEPT ![p] = IF @ = "built" THEN "translated" ELSE @]
  /\ UNCHANGED <<run, plan, item, turn, degraded, at, edits, faults>>

\* Review and export.  Followups are translated before they commit.
FinishStage(s) ==
  /\ s \in Stages \ AgentStages /\ item[s] = "leased"
  /\ Put(s, "succeeded")
  /\ UNCHANGED <<run, plan, text, lane, turn, degraded, at, edits, faults>>

\* The turn ends, or waits for a decision: the item succeeds either way.
FinishTurn(s) ==
  /\ item[s] = "leased"
  /\ Put(s, "succeeded")
  /\ \E t \in {"succeeded", "waiting"} : turn' = [turn EXCEPT ![s] = t]
  /\ UNCHANGED <<run, plan, text, lane, degraded, at, edits, faults>>

\* An advisory agent that may not try again; its turn failed, if there was one.
GiveUp(s) ==
  /\ s \in Advisory /\ item[s] = "leased" /\ Fault
  /\ Put(s, "succeeded")
  /\ degraded' = degraded \cup {s}
  /\ \E t \in {turn[s], "failed"} : turn' = [turn EXCEPT ![s] = t]
  /\ UNCHANGED <<run, plan, text, lane, at, edits>>

Failed == {"retryable_failed", "terminal_failed"}

\* A failure settles the run in its own transaction, or pauses it.
FailPacket(p) ==
  /\ lane[p] = "leased" /\ Fault
  /\ \E f \in Failed : lane' = [lane EXCEPT ![p] = f]
  /\ UNCHANGED <<plan, text, item, turn, degraded, at, edits>>
  /\ \E r \in {run} : \/ run' = Outcome(r)'
                      \/ lane'[p] = "retryable_failed" /\ run' = PausedBySystem(r)

FailStage(s) ==
  /\ item[s] = "leased" /\ Fault
  /\ \E f \in Failed : Put(s, f) /\ (s \in Advisory => f = "retryable_failed")
  /\ IF s \in AgentStages
     THEN \E t \in {turn[s], "failed", "succeeded"} : turn' = [turn EXCEPT ![s] = t]
     ELSE UNCHANGED turn
  /\ UNCHANGED <<plan, text, lane, degraded, at, edits>>
  /\ \E r \in {run} : \/ run' = Outcome(r)'
                      \/ item'[s] = "retryable_failed" /\ run' = PausedBySystem(r)

\* The lease expires.  The packet may be translated already, the turn opened.
ReclaimPacket(p) ==
  /\ lane[p] = "leased" /\ Fault
  /\ lane' = [lane EXCEPT ![p] = "retryable_failed"]
  /\ \E t \in {text[p], IF text[p] = "built" THEN "translated" ELSE text[p]} :
       text' = [text EXCEPT ![p] = t]
  /\ UNCHANGED <<run, plan, item, turn, degraded, at, edits>>

ReclaimStage(s) ==
  /\ item[s] = "leased" /\ Fault
  /\ Put(s, "retryable_failed")
  /\ IF s \in AgentStages
     THEN \E t \in {turn[s], "running", "waiting", "succeeded"} : turn' = [turn EXCEPT ![s] = t]
     ELSE UNCHANGED turn
  /\ UNCHANGED <<run, plan, text, lane, degraded, at, edits>>

Thread == \/ \E p \in Packets : FinishPacket(p) \/ FailPacket(p)
          \/ \E s \in Stages : FinishStage(s) \/ FailStage(s)
          \/ \E s \in AgentStages : FinishTurn(s) \/ GiveUp(s)

-----------------------------------------------------------------------------
(* People.                                                                 *)

\* ApprovalService.decide: the turn resumes, or its budget request is turned down.
Decide(s) ==
  /\ turn[s] = "waiting"
  /\ \E t \in {"running", "cancelled"} : turn' = [turn EXCEPT ![s] = t]
  /\ UNCHANGED <<run, plan, text, lane, item, degraded, at, edits, faults>>

\* A fork of the parse revision rebuilds a packet, or retires one whose blocks are gone.
Edit(p) ==
  /\ run \notin TerminalRun /\ edits < MaxEdits /\ edits' = edits + 1
  /\ \E t \in {"built", "invalidated"} \ {text[p]} : text' = [text EXCEPT ![p] = t]
  /\ UNCHANGED <<run, plan, work, at, faults>>

Pause  == /\ run \in CanPause /\ Fault /\ run' = "paused"
          /\ UNCHANGED <<plan, text, work, at, edits>>

Drain  == /\ run \in CanDrain /\ Fault /\ run' = "draining"
          /\ UNCHANGED <<plan, text, work, at, edits>>

\* A new thread of the executor drives the run.
Resume == /\ run = "paused" /\ run' = "running" /\ Restart
          /\ UNCHANGED <<plan, text, work, edits, faults>>

Next == \/ RunLoop \/ Thread \/ Pause \/ Drain \/ Resume
        \/ \E p \in Packets : ReclaimPacket(p) \/ Edit(p)
        \/ \E s \in Stages : ReclaimStage(s)
        \/ \E s \in AgentStages : Decide(s)

Spec == Init /\ [][Next]_vars

\* The loop ticks and threads run, or their leases expire.  Nothing is assumed of people.
FairSpec == Spec /\ WF_vars(RunLoop)
            /\ \A p \in Packets : WF_vars(FinishPacket(p))
            /\ \A s \in Stages : WF_vars(FinishStage(s) \/ (s \in AgentStages /\ FinishTurn(s)))

-----------------------------------------------------------------------------
\* Every variable has its type.
TypeOK ==
  /\ run \in {"running", "draining", "paused", "failed", "succeeded"}
  /\ plan \subseteq Stages \cup {"translate"}
  /\ text \in [Packets -> {"built", "translated", "invalidated"}]
  /\ lane \in [Packets -> {"none", "cancelled", "leased"} \cup Claimable \cup Settled]
  /\ item \in [Stages -> {"none", "leased"} \cup Claimable \cup Settled]
  /\ turn \in [AgentStages -> {"none", "running", "waiting", "succeeded", "failed", "cancelled"}]
  /\ degraded \subseteq Advisory
  /\ at \in Visits
  /\ edits \in Nat /\ faults \in Nat

\* "A review or export thread owns the packets it re-opens ...; seeding them here as
\* well would translate the same packet twice" (_process_translate_stage): such a
\* thread and a packet of the frontier are never in flight together, in either order.
OneWriterOfPackets ==
  \A p \in Packets : lane[p] = "leased" =>
    \A s \in {"model_review", "review"} \cup ExportStages : item[s] # "leased"

\* Delivery runs in the order of FullPipeline although a gate names only some of the
\* stages before it: what starts finds every earlier stage of the plan finished, or
\* given up (STAGE_DEPENDENCIES).
Delivery == SubSeq(FullPipeline, 4, 9)

DeliveryInOrder ==
  [][\A i, j \in DOMAIN Delivery :
       i < j /\ Delivery[i] \in plan /\ item[Delivery[j]] # "leased" /\ item'[Delivery[j]] = "leased"
         => StageStatus(Delivery[i]) = "succeeded" \/ Delivery[i] \in degraded]_vars

\* Nobody works for a run that is over (reconcile_run_terminal_state).
EndedRunIsQuiet == run \in TerminalRun => ~InFlight

\* "all work_items can be SUCCEEDED while hundreds of BUILT packets remain unseeded -
\* and the run was wrongly marked succeeded" (run_execution.py): not any more.  The
\* item of a stage that was given up may be left unfinished.
SucceededRunIsComplete ==
  [][run # "succeeded" /\ run' = "succeeded" =>
       /\ \A p \in Packets : text'[p] = "translated"
       /\ \A s \in plan \ ({"translate"} \cup degraded) : item'[s] = "succeeded"]_vars

\* The claim for an export does not ask for its type, so at most one of the two may be
\* there to be claimed (_process_export_stage).
OneExportAtATime ==
  \A s \in ExportStages : item[s] \in Claimable \cup Owned =>
    \A e \in ExportStages \ {s} : item[e] \notin Claimable \cup Owned

\* A driven run ends or pauses, unless it waits for a person, or a packet that had its
\* work item was opened again.
Parked == \/ \E s \in AgentStages \cap plan : turn[s] \in {"waiting", "cancelled"}
          \/ \E p \in Packets : text[p] = "invalidated" \/ (text[p] = "built" /\ lane[p] \in Settled)

RunSettles == run \in DrivenRun ~> run \notin DrivenRun \/ Parked

\* "Its blocks are gone (invalidated); nothing is left to translate in it"
\* (parse_revision_fork.py): a packet without blocks keeps no run from ending.
OrphanHoldsNoRun ==
  (run = "running" /\ \A p \in Packets : text[p] \in {"translated", "invalidated"})
    ~> (run # "running" \/ \E p \in Packets : text[p] = "built")
=============================================================================
