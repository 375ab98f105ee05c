------------------------------ MODULE IssueLedger ------------------------------
(***************************************************************************)
(* The issue ledger of a chapter and those who write it: the review stage  *)
(* of a run with its automatic repairs, operators who execute an action    *)
(* through the API, and people who triage, close and reopen issues.        *)
(*                                                                         *)
(* A review stage is one transaction that retranslates and reviews again   *)
(* and again; it works on the rows it read first, and its commit writes    *)
(* the columns it changed over whatever others committed meanwhile.  A     *)
(* request of the API is one step: what it reads is never stale here.      *)
(***************************************************************************)
EXTENDS Naturals, FiniteSets

CONSTANTS Issues,        \* problems the rule-based review can find in the chapter
          Packets,
          PacketOf,      \* the packet an issue's repair retranslates
          Blocking,      \* issues that block the export
          FollowUps,     \* issues of a type the review repairs on its own
          Concepts,      \* those of type UNLOCKED_KEY_CONCEPT
          Briefs,        \* issues of type STALE_CHAPTER_BRIEF
          MaxFollowUps,  \* max_auto_followup_attempts
          MaxRounds,     \* max_rounds of the blocker repair
          MaxRequests,   \* bound: requests of operators and people
          Nothing

RepeatFailureLimit == 2

ASSUME IssueLedgerAssumption ==
  /\ PacketOf \in [Issues -> Packets]
  /\ Blocking \subseteq Issues /\ FollowUps \subseteq Issues
  /\ Concepts \subseteq FollowUps \ Blocking
  /\ Briefs \subseteq Issues \ (FollowUps \cup Blocking)
  /\ MaxFollowUps \in Nat /\ MaxRounds \in Nat \ {0} /\ MaxRequests \in Nat

VARIABLES
  ledger,    \* the committed rows: [issue, action, packet, proposal, chapter, defects, failures]
  lockable,  \* the concepts the resolver can lock
  stage,     \* the review stage's transaction, or Nothing
  requests

vars == <<ledger, lockable, stage, requests>>

Active == {"open", "triaged"}
IssueStatuses == Active \cup {"absent", "resolved", "wontfix"}

\* decided: decided_by is set.  by: who made the last event of its history.
Row == [status: IssueStatuses, decided: BOOLEAN, by: {"system", "human"}]
Unseen == [status |-> "absent", decided |-> FALSE, by |-> "system"]

Ledger == [issue:    [Issues -> Row],
           action:   [Issues -> {"none", "planned", "completed"}],
           packet:   [Packets -> {"translated", "invalidated"}],
           proposal: [Packets -> {"proposed", "committed", "rejected"}],
           chapter:  {"packet_built", "review_required", "qa_checked"},
           defects:  SUBSET Issues,
           failures: [Issues -> 0..RepeatFailureLimit + 1]]

Stage == [phase: {"review", "followup", "repair", "round", "final"},
          read: Ledger, now: Ledger,
          runs: 0..MaxFollowUps, tried: SUBSET Issues,
          round: 0..MaxRounds, fixed: SUBSET Issues, todo: SUBSET Issues]

Init ==
  \E found \in SUBSET Issues :
    /\ ledger = [issue    |-> [i \in Issues |-> Unseen],
                 action   |-> [i \in Issues |-> "none"],
                 packet   |-> [p \in Packets |-> "translated"],
                 proposal |-> [p \in Packets |-> "proposed"],
                 chapter  |-> "packet_built",
                 defects  |-> found,
                 failures |-> [i \in Issues |-> 0]]
    /\ lockable \in SUBSET Concepts
    /\ stage = Nothing
    /\ requests = 0

-----------------------------------------------------------------------------
(* One detection pass over the rows a session holds.                       *)

HumanDecided(row) == row.decided /\ row.status \in {"wontfix", "resolved"}

\* Mutant: a sighting opens whatever is closed.
MutSighted(row) ==
  IF row.status \in Active /\ (row.status = "open" \/ row.decided) THEN row
  ELSE [status |-> "open", decided |-> FALSE, by |-> "system"]

Sighted(row) ==
  IF \/ row.status \in {"absent", "resolved"} /\ ~HumanDecided(row)
     \/ row.status = "triaged" /\ ~row.decided
  THEN [status |-> "open", decided |-> FALSE, by |-> "system"]
  ELSE row

\* Mutant: resolves only what is open.
MutMissed(row) == IF row.status = "open"
                  THEN [row EXCEPT !.status = "resolved", !.by = "system"] ELSE row

\* decided_by stays.
Missed(row) == IF row.status \in Active
               THEN [row EXCEPT !.status = "resolved", !.by = "system"] ELSE row

\* A sighting plans the action again: a completed one finished before this pass.
Synced(rows) ==
  [rows EXCEPT
     !.issue  = [i \in Issues |-> IF i \in rows.defects THEN Sighted(@[i]) ELSE Missed(@[i])],
     !.action = [i \in Issues |-> IF i \in rows.defects THEN "planned" ELSE @[i]]]

ActiveIn(rows) == {i \in Issues : rows.issue[i].status \in Active}

\* review_chapter: the ledger, the chapter's verdict, and its pending memory.
Reviewed(rows) ==
  LET synced  == Synced(rows)
      blocked == ActiveIn(synced) \cap rows.defects \cap Blocking
  IN [synced EXCEPT
        !.chapter  = IF blocked = {} THEN "qa_checked" ELSE "review_required",
        !.proposal = [p \in Packets |->
           IF @[p] # "proposed" THEN @[p]
           ELSE IF blocked = {} THEN "committed"
           ELSE IF \E i \in blocked : PacketOf[i] = p THEN "rejected" ELSE "proposed"]]

Executable(rows, i) == rows.action[i] = "planned" /\ rows.issue[i].status \in Active

\* Mutant: the action is left running.
MutExecuted(rows, i) ==
  [rows EXCEPT
     !.issue[i]  = [@ EXCEPT !.status = "triaged", !.by = "system"],
     !.action[i] = "running",
     !.packet[PacketOf[i]]   = "invalidated",
     !.proposal[PacketOf[i]] = IF @ = "proposed" THEN "rejected" ELSE @]

\* The issue awaits validation, the packet and its pending memory are gone.
Executed(rows, i) ==
  [rows EXCEPT
     !.issue[i]  = [@ EXCEPT !.status = "triaged", !.by = "system"],
     !.action[i] = "completed",
     !.packet[PacketOf[i]]   = "invalidated",
     !.proposal[PacketOf[i]] = IF @ = "proposed" THEN "rejected" ELSE @]

\* Retranslated with a new brief, termbase or hints, and reviewed: found is
\* what the review sees in the chapter now.
Rerun(rows, i, found) ==
  Reviewed([rows EXCEPT !.packet[PacketOf[i]] = "translated",
                        !.proposal[PacketOf[i]] = "proposed",
                        !.defects = found])

\* An automatic repair, and the audit event that counts it if it did not help.
Repaired(rows, i, found) ==
  LET after == Rerun(Executed(rows, i), i, found)
  IN IF after.issue[i].status = "resolved" THEN after
     ELSE [after EXCEPT !.failures[i] = IF @ > RepeatFailureLimit THEN @ ELSE @ + 1]

\* A commit writes the columns that changed since they were read.
Column(old, read, now) == IF now = read THEN old ELSE now
Committed(read, now) ==
  [issue    |-> [i \in Issues |-> [f \in {"status", "decided", "by"} |->
                   Column(ledger.issue[i][f], read.issue[i][f], now.issue[i][f])]],
   action   |-> [i \in Issues |-> Column(ledger.action[i], read.action[i], now.action[i])],
   packet   |-> [p \in Packets |-> Column(ledger.packet[p], read.packet[p], now.packet[p])],
   proposal |-> [p \in Packets |-> Column(ledger.proposal[p], read.proposal[p], now.proposal[p])],
   chapter  |-> Column(ledger.chapter, read.chapter, now.chapter),
   defects  |-> Column(ledger.defects, read.defects, now.defects),
   failures |-> [i \in Issues |-> Column(ledger.failures[i], read.failures[i], now.failures[i])]]

-----------------------------------------------------------------------------
(* The review stage: a review with follow-ups, the rounds that repair      *)
(* blockers, and a last review if they repaired any.                       *)

InPhase(ph) == stage # Nothing /\ stage.phase = ph

Begin ==
  /\ stage = Nothing
  /\ stage' = [phase |-> "review", read |-> ledger, now |-> ledger,
               runs |-> 0, tried |-> {}, round |-> 0, fixed |-> {}, todo |-> {}]
  /\ UNCHANGED <<ledger, lockable, requests>>

\* A chapter with an untranslated packet is skipped.
Complete(rows) == \A p \in Packets : rows.packet[p] = "translated"

Review ==
  /\ InPhase("review")
  /\ stage' = [stage EXCEPT
       !.now   = IF Complete(@) THEN Reviewed(@) ELSE @,
       !.phase = IF Complete(stage.now) THEN "followup" ELSE "repair"]
  /\ UNCHANGED <<ledger, lockable, requests>>

\* Issues two repairs of which left unresolved are held for a person.
Held(rows, i) == rows.failures[i] >= RepeatFailureLimit

\* Mutant: the hold counts only this run's attempts.
MutFollowUpCandidates ==
  {i \in FollowUps \ stage.tried : i \in ActiveIn(stage.now) \cap stage.now.defects}

FollowUpCandidates ==
  {i \in FollowUps \ stage.tried :
     i \in ActiveIn(stage.now) \cap stage.now.defects /\ ~Held(stage.now, i)}

\* Tried in place of a concept that cannot be locked, on the same packet.
BriefFor(i) == {b \in Briefs \ stage.tried :
                  b \in ActiveIn(stage.now) \cap stage.now.defects /\ PacketOf[b] = PacketOf[i]}

\* What a follow-up of i executes; nothing if its concept cannot be locked and
\* no brief stands in: the loop goes round again.
Chosen(i) == IF i \in Concepts \ lockable THEN BriefFor(i) ELSE {i}

\* Mutant: an attempt is not recorded.
MutFollowUp ==
  /\ InPhase("followup") /\ stage.runs < MaxFollowUps
  /\ \E i \in FollowUpCandidates : \E j \in Chosen(i), found \in SUBSET Issues :
       stage' = [stage EXCEPT !.now = Repaired(@, j, found)]
  /\ UNCHANGED <<ledger, lockable, requests>>

\* Which candidate is tried first is left open.
FollowUp ==
  /\ InPhase("followup") /\ stage.runs < MaxFollowUps
  /\ \E i \in FollowUpCandidates : \E j \in Chosen(i), found \in SUBSET Issues :
       stage' = [stage EXCEPT !.now = Repaired(@, j, found),
                              !.tried = @ \cup {j}, !.runs = @ + 1]
  /\ UNCHANGED <<ledger, lockable, requests>>

EndFollowUps ==
  /\ InPhase("followup")
  /\ stage.runs = MaxFollowUps \/ FollowUpCandidates = {}
  /\ stage' = [stage EXCEPT !.phase = "repair"]
  /\ UNCHANGED <<ledger, lockable, requests>>

RepairCandidates == {i \in Blocking \ stage.fixed :
                       i \in ActiveIn(stage.now) /\ stage.now.action[i] = "planned"}

\* A round takes one action of each packet; those held are left out after that.
Rounds == {r \in SUBSET RepairCandidates :
             \A p \in {PacketOf[i] : i \in RepairCandidates} :
               Cardinality({i \in r : PacketOf[i] = p}) = 1}

StartRound ==
  /\ InPhase("repair") /\ stage.round < MaxRounds
  /\ \E r \in Rounds :
       LET todo == {i \in r : ~Held(stage.now, i)}
       IN /\ todo # {}
          /\ stage' = [stage EXCEPT !.phase = "round", !.round = @ + 1, !.todo = todo]
  /\ UNCHANGED <<ledger, lockable, requests>>

\* An earlier repair of the round may have closed the issue: then execute()
\* raises, and the stage loses everything it did.
RepairOne ==
  /\ InPhase("round")
  /\ \E i \in stage.todo, found \in SUBSET Issues :
       stage' = IF Executable(stage.now, i)
                THEN [stage EXCEPT !.now = Repaired(@, i, found),
                                   !.fixed = @ \cup {i}, !.todo = @ \ {i},
                                   !.phase = IF stage.todo = {i} THEN "repair" ELSE "round"]
                ELSE Nothing
  /\ UNCHANGED <<ledger, lockable, requests>>

\* No blocker, no new action, only held ones, or the last round.
EndRepair ==
  /\ InPhase("repair")
  /\ \/ stage.round = MaxRounds
     \/ RepairCandidates = {}
     \/ \E r \in Rounds : \A i \in r : Held(stage.now, i)
  /\ stage' = [stage EXCEPT !.phase = "final",
                  !.now = IF stage.fixed # {} /\ Complete(@) THEN Reviewed(@) ELSE @]
  /\ UNCHANGED <<ledger, lockable, requests>>

Commit ==
  /\ InPhase("final")
  /\ ledger' = Committed(stage.read, stage.now)
  /\ stage' = Nothing
  /\ UNCHANGED <<lockable, requests>>

\* A provider error, a lost lease, a crash: the transaction rolls back.
Abort ==
  /\ stage # Nothing /\ stage' = Nothing
  /\ UNCHANGED <<ledger, lockable, requests>>

-----------------------------------------------------------------------------
(* Operators and people.                                                   *)

Requested == requests < MaxRequests /\ requests' = requests + 1

\* POST /actions/{id}/execute invalidates the packet; with run_followup it also
\* retranslates and reviews it.
Execute(i) ==
  /\ Requested /\ Executable(ledger, i)
  /\ \/ ledger' = Executed(ledger, i)
     \/ \E found \in SUBSET Issues : ledger' = Rerun(Executed(ledger, i), i, found)
  /\ UNCHANGED <<lockable, stage>>

Transitions == [open     |-> {"triaged", "wontfix", "resolved"},
                triaged  |-> {"wontfix", "resolved", "open"},
                resolved |-> {"open"},
                wontfix  |-> {"open"},
                absent   |-> {}]

\* POST /issues/{id}/transition: a reopened issue's action is planned again.
Decide(i, to) ==
  /\ Requested /\ to \in Transitions[ledger.issue[i].status]
  /\ ledger' = [ledger EXCEPT
       !.issue[i]  = [status |-> to, decided |-> TRUE, by |-> "human"],
       !.action[i] = IF to = "open" /\ @ # "none" THEN "planned" ELSE @]
  /\ UNCHANGED <<lockable, stage>>

-----------------------------------------------------------------------------
StageStep == \/ Review \/ FollowUp \/ EndFollowUps \/ StartRound \/ RepairOne
             \/ EndRepair \/ Commit

Next ==
  \/ Begin \/ StageStep \/ Abort
  \/ \E i \in Issues : Execute(i)
  \/ \E i \in Issues, to \in IssueStatuses : Decide(i, to)

Spec == Init /\ [][Next]_vars

\* The stage's thread keeps running.
FairSpec == Spec /\ WF_vars(StageStep)

-----------------------------------------------------------------------------
(* Properties.                                                             *)

\* Every row, every transaction and every request is in its domain.
TypeOK ==
  /\ ledger \in Ledger
  /\ lockable \subseteq Concepts
  /\ requests \in 0..MaxRequests
  /\ stage = Nothing \/ stage \in Stage

\* No issue is repaired automatically a third time after two repairs, of any
\* runs, that left it unresolved.  A brief that stands in for a concept is not
\* put to the hold.
RepeatedFailuresAreHeld ==
  \A i \in Issues \ Briefs : ledger.failures[i] <= RepeatFailureLimit

\* What the stage is about to commit agrees with itself: the chapter passes
\* exactly when no blocking issue of it is open or triaged.
VerdictMatchesIssues ==
  InPhase("final") /\ Complete(stage.now) =>
    (stage.now.chapter = "qa_checked" <=> ActiveIn(stage.now) \cap Blocking = {})

\* A transaction leaves the status of an issue it read as closed by a person.
HumanClosureStands ==
  [][/\ InPhase("final") /\ ledger' # ledger /\ stage' = Nothing
     => \A i \in Issues : HumanDecided(stage.read.issue[i]) =>
          ledger'.issue[i].status = ledger.issue[i].status]_vars

\* The stage goes round forever on a concept it can neither lock nor replace.
Spinning ==
  /\ InPhase("followup") /\ stage.runs < MaxFollowUps
  /\ FollowUpCandidates # {}
  /\ \A i \in FollowUpCandidates : Chosen(i) = {}

\* A review stage ends, unless it spins.
StageEndsOrSpins == []<>(stage = Nothing \/ Spinning)
=============================================================================
