--------------------------- MODULE IssueLedgerProofs ---------------------------
(***************************************************************************)
(* What the automatic repairs of a chapter's issues never do, whatever the *)
(* number of its issues and packets and whoever decides meanwhile.         *)
(***************************************************************************)
EXTENDS IssueLedger, TLAPS

-----------------------------------------------------------------------------
(* The inductive invariant.                                                *)

\* What is to be repaired in a round is a blocker that the hold does not cover.
TodoNotHeld ==
  stage # Nothing /\ stage.phase = "round" =>
    stage.todo \subseteq Blocking /\ \A i \in stage.todo : ~Held(stage.now, i)

\* Committed or not, no failure is counted beyond the limit.
HeldInv ==
  /\ TypeOK /\ TodoNotHeld
  /\ RepeatedFailuresAreHeld
  /\ stage # Nothing => \A i \in Issues \ Briefs : stage.now.failures[i] <= RepeatFailureLimit

\* The verdict on the rows a session holds is that of its last detection.
Agrees(rows) == rows.chapter = "qa_checked" <=> ActiveIn(rows) \cap Blocking = {}

VerdictInv ==
  stage # Nothing /\ stage.phase # "review" /\ Complete(stage.now) => Agrees(stage.now)

\* The stage holds the row of a closure by a person as it read it.
ClosureInv ==
  stage # Nothing =>
    \A i \in Issues : HumanDecided(stage.read.issue[i]) => stage.now.issue[i] = stage.read.issue[i]

LedgerInv == HeldInv /\ VerdictInv /\ ClosureInv

-----------------------------------------------------------------------------
(* What the operators on rows return.                                      *)

LEMMA RowTypes ==
  ASSUME NEW row \in Row
  PROVE  /\ Sighted(row) \in Row /\ Missed(row) \in Row
         /\ HumanDecided(row) => Sighted(row) = row /\ Missed(row) = row
         /\ Missed(row).status \notin Active
<1>1. /\ row = [status |-> row.status, decided |-> row.decided, by |-> row.by]
      /\ row.status \in IssueStatuses /\ row.decided \in BOOLEAN
  BY DEF Row
<1>2. Sighted(row) \in Row /\ Missed(row) \in Row
  BY DEF Sighted, Missed, Row, IssueStatuses, Active
<1>3. HumanDecided(row) => Sighted(row) = row /\ Missed(row) = row
  BY DEF HumanDecided, Sighted, Missed, Active
<1>4. Missed(row).status \notin Active
  BY DEF Missed, Row, Active
<1>5. QED
  BY <1>2, <1>3, <1>4

\* A detection pass keeps what people closed, and resolves what it does not see.
LEMMA SyncedRows ==
  ASSUME NEW rows \in Ledger
  PROVE  /\ Synced(rows) \in Ledger
         /\ Synced(rows).defects = rows.defects /\ Synced(rows).failures = rows.failures
         /\ \A i \in Issues :
              /\ HumanDecided(rows.issue[i]) => Synced(rows).issue[i] = rows.issue[i]
              /\ i \notin rows.defects => Synced(rows).issue[i].status \notin Active
<1>1. /\ rows.issue \in [Issues -> Row] /\ rows.defects \subseteq Issues
      /\ rows.action \in [Issues -> {"none", "planned", "completed"}]
  BY DEF Ledger
<1> DEFINE issue  == [i \in Issues |-> IF i \in rows.defects THEN Sighted(rows.issue[i])
                                                             ELSE Missed(rows.issue[i])]
           action == [i \in Issues |-> IF i \in rows.defects THEN "planned" ELSE rows.action[i]]
<1>2. issue \in [Issues -> Row] /\ action \in [Issues -> {"none", "planned", "completed"}]
  BY <1>1, RowTypes
<1>3. Synced(rows) = [rows EXCEPT !.issue = issue, !.action = action]
  BY DEF Synced
<1>4. \A i \in Issues :
        /\ HumanDecided(rows.issue[i]) => issue[i] = rows.issue[i]
        /\ i \notin rows.defects => issue[i].status \notin Active
  BY <1>1, RowTypes
<1> HIDE DEF issue, action
<1>5. /\ Synced(rows) \in Ledger /\ Synced(rows).issue = issue
      /\ Synced(rows).defects = rows.defects /\ Synced(rows).failures = rows.failures
  BY <1>2, <1>3 DEF Ledger
<1>6. QED
  BY <1>4, <1>5

\* A review decides the chapter by the blockers that are active after it.
LEMMA ReviewedRows ==
  ASSUME NEW rows \in Ledger
  PROVE  /\ Reviewed(rows) \in Ledger /\ Agrees(Reviewed(rows))
         /\ Reviewed(rows).failures = rows.failures
         /\ \A i \in Issues : HumanDecided(rows.issue[i]) => Reviewed(rows).issue[i] = rows.issue[i]
<1>a. PICK synced : synced = Synced(rows)
  OBVIOUS
<1> DEFINE blocked  == ActiveIn(synced) \cap rows.defects \cap Blocking
           verdict  == IF blocked = {} THEN "qa_checked" ELSE "review_required"
           proposal == [p \in Packets |->
                          IF synced.proposal[p] # "proposed" THEN synced.proposal[p]
                          ELSE IF blocked = {} THEN "committed"
                          ELSE IF \E i \in blocked : PacketOf[i] = p THEN "rejected" ELSE "proposed"]
<1>1. /\ synced \in Ledger /\ synced.failures = rows.failures
      /\ \A i \in Issues :
           /\ HumanDecided(rows.issue[i]) => synced.issue[i] = rows.issue[i]
           /\ i \notin rows.defects => synced.issue[i].status \notin Active
  BY <1>a, SyncedRows
<1>2. proposal \in [Packets -> {"proposed", "committed", "rejected"}]
  <2>1. synced.proposal \in [Packets -> {"proposed", "committed", "rejected"}]
    BY <1>1 DEF Ledger
  <2>2. QED
    BY <2>1
<1>3. verdict \in {"qa_checked", "review_required"} /\ (verdict = "qa_checked" <=> blocked = {})
  OBVIOUS
<1>4. Reviewed(rows) = [synced EXCEPT !.chapter = verdict, !.proposal = proposal]
  BY <1>a DEF Reviewed
<1>5. blocked = ActiveIn(synced) \cap Blocking
  BY <1>1 DEF ActiveIn
<1> HIDE DEF blocked, verdict, proposal
<1>6. /\ Reviewed(rows) \in Ledger /\ Reviewed(rows).chapter = verdict
      /\ Reviewed(rows).issue = synced.issue /\ Reviewed(rows).failures = rows.failures
  <2>1. synced \in Ledger /\ synced.failures = rows.failures
    BY <1>1
  <2>2. verdict \in {"packet_built", "review_required", "qa_checked"}
    BY <1>3
  <2>3. ASSUME NEW r \in Ledger, NEW c \in {"packet_built", "review_required", "qa_checked"},
               NEW q \in [Packets -> {"proposed", "committed", "rejected"}]
        PROVE  [r EXCEPT !.chapter = c, !.proposal = q] \in Ledger
    BY DEF Ledger
  <2>4. [synced EXCEPT !.chapter = verdict, !.proposal = proposal] \in Ledger
    BY <1>2, <2>1, <2>2, <2>3
  <2>5. Reviewed(rows).issue = synced.issue /\ Reviewed(rows).failures = synced.failures
    BY <1>4, <2>1 DEF Ledger
  <2>6. Reviewed(rows).chapter = verdict
    BY <1>4, <2>1 DEF Ledger
  <2>7. QED
    BY <1>4, <2>1, <2>4, <2>5, <2>6
<1>7. Agrees(Reviewed(rows))
  BY <1>3, <1>5, <1>6 DEF Agrees, ActiveIn
<1>8. QED
  BY <1>1, <1>6, <1>7

LEMMA ExecutedRows ==
  ASSUME NEW rows \in Ledger, NEW i \in Issues
  PROVE  /\ Executed(rows, i) \in Ledger /\ Executed(rows, i).failures = rows.failures
         /\ \A j \in Issues \ {i} : Executed(rows, i).issue[j] = rows.issue[j]
<1> DEFINE issue    == [rows.issue EXCEPT ![i] = [@ EXCEPT !.status = "triaged", !.by = "system"]]
           action   == [rows.action EXCEPT ![i] = "completed"]
           packet   == [rows.packet EXCEPT ![PacketOf[i]] = "invalidated"]
           proposal == [rows.proposal EXCEPT ![PacketOf[i]] = IF @ = "proposed" THEN "rejected" ELSE @]
<1>1. /\ rows.issue \in [Issues -> Row] /\ rows.packet \in [Packets -> {"translated", "invalidated"}]
      /\ rows.action \in [Issues -> {"none", "planned", "completed"}]
      /\ rows.proposal \in [Packets -> {"proposed", "committed", "rejected"}]
      /\ PacketOf[i] \in Packets
  BY IssueLedgerAssumption DEF Ledger
<1>2. issue \in [Issues -> Row]
  <2>1. [rows.issue[i] EXCEPT !.status = "triaged", !.by = "system"] \in Row
    <3>1. rows.issue[i] \in Row
      BY <1>1
    <3>2. QED
      BY <3>1 DEF Row, IssueStatuses, Active
  <2>2. QED
    BY <1>1, <2>1
<1>3. /\ action \in [Issues -> {"none", "planned", "completed"}]
      /\ packet \in [Packets -> {"translated", "invalidated"}]
      /\ proposal \in [Packets -> {"proposed", "committed", "rejected"}]
  BY <1>1
<1>4. \A j \in Issues \ {i} : issue[j] = rows.issue[j]
  BY <1>1
<1>5. Executed(rows, i) =
        [rows EXCEPT !.issue = issue, !.action = action, !.packet = packet, !.proposal = proposal]
  BY DEF Executed
<1> HIDE DEF issue, action, packet, proposal
<1>6. /\ Executed(rows, i) \in Ledger /\ Executed(rows, i).issue = issue
      /\ Executed(rows, i).failures = rows.failures
  BY <1>2, <1>3, <1>5 DEF Ledger
<1>7. QED
  BY <1>4, <1>6

LEMMA RerunRows ==
  ASSUME NEW rows \in Ledger, NEW i \in Issues, NEW found \in SUBSET Issues
  PROVE  /\ Rerun(rows, i, found) \in Ledger /\ Agrees(Rerun(rows, i, found))
         /\ Rerun(rows, i, found).failures = rows.failures
         /\ \A j \in Issues : HumanDecided(rows.issue[j]) => Rerun(rows, i, found).issue[j] = rows.issue[j]
<1> DEFINE packet   == [rows.packet EXCEPT ![PacketOf[i]] = "translated"]
           proposal == [rows.proposal EXCEPT ![PacketOf[i]] = "proposed"]
           again    == [rows EXCEPT !.packet = packet, !.proposal = proposal, !.defects = found]
<1>1. /\ packet \in [Packets -> {"translated", "invalidated"}]
      /\ proposal \in [Packets -> {"proposed", "committed", "rejected"}]
  BY DEF Ledger
<1>2. Rerun(rows, i, found) = Reviewed(again)
  BY DEF Rerun
<1> HIDE DEF packet, proposal
<1>3. again \in Ledger /\ again.issue = rows.issue /\ again.failures = rows.failures
  BY <1>1 DEF Ledger
<1> HIDE DEF again
<1>4. QED
  BY <1>2, <1>3, ReviewedRows

\* A repair counts one failure, of the issue it is for, and touches no issue
\* that a person closed.
LEMMA RepairedRows ==
  ASSUME NEW rows \in Ledger, NEW i \in Issues, NEW found \in SUBSET Issues
  PROVE  /\ Repaired(rows, i, found) \in Ledger /\ Agrees(Repaired(rows, i, found))
         /\ Repaired(rows, i, found).failures[i] \in
              {rows.failures[i], IF rows.failures[i] > RepeatFailureLimit THEN rows.failures[i]
                                                                           ELSE rows.failures[i] + 1}
         /\ \A j \in Issues \ {i} :
              /\ Repaired(rows, i, found).failures[j] = rows.failures[j]
              /\ HumanDecided(rows.issue[j]) => Repaired(rows, i, found).issue[j] = rows.issue[j]
<1>a. PICK after : after = Rerun(Executed(rows, i), i, found)
  OBVIOUS
<1>1. /\ Executed(rows, i) \in Ledger /\ Executed(rows, i).failures = rows.failures
      /\ \A j \in Issues \ {i} : Executed(rows, i).issue[j] = rows.issue[j]
  BY ExecutedRows
<1>2. /\ after \in Ledger /\ Agrees(after) /\ after.failures = rows.failures
      /\ \A j \in Issues \ {i} : HumanDecided(rows.issue[j]) => after.issue[j] = rows.issue[j]
  BY <1>a, <1>1, RerunRows
<1> DEFINE more == [after.failures EXCEPT ![i] = IF @ > RepeatFailureLimit THEN @ ELSE @ + 1]
<1>3. rows.failures \in [Issues -> 0..RepeatFailureLimit + 1]
  BY DEF Ledger
<1>4. /\ more \in [Issues -> 0..RepeatFailureLimit + 1]
      /\ more[i] = IF rows.failures[i] > RepeatFailureLimit THEN rows.failures[i] ELSE rows.failures[i] + 1
      /\ \A j \in Issues \ {i} : more[j] = rows.failures[j]
  BY <1>2, <1>3 DEF RepeatFailureLimit
<1>5. Repaired(rows, i, found) = IF after.issue[i].status = "resolved" THEN after
                                 ELSE [after EXCEPT !.failures = more]
  BY <1>a DEF Repaired
<1> HIDE DEF more
<1>6. CASE after.issue[i].status = "resolved"
  BY <1>2, <1>5, <1>6
<1>7. CASE after.issue[i].status # "resolved"
  <2>1. /\ Repaired(rows, i, found) \in Ledger /\ Repaired(rows, i, found).failures = more
        /\ Repaired(rows, i, found).issue = after.issue
        /\ Repaired(rows, i, found).chapter = after.chapter
    BY <1>2, <1>4, <1>5, <1>7 DEF Ledger
  <2>2. Agrees(Repaired(rows, i, found))
    BY <1>2, <2>1 DEF Agrees, ActiveIn
  <2>3. QED
    BY <1>2, <1>4, <2>1, <2>2
<1>8. QED
  BY <1>6, <1>7

-----------------------------------------------------------------------------
(* Every step keeps the invariant.                                         *)

\* A step of the stage that leaves the ledger alone keeps what is said of it.
LEMMA StageFrame ==
  ASSUME LedgerInv, UNCHANGED <<ledger, lockable, requests>>, stage' \in Stage,
         VerdictInv', ClosureInv', TodoNotHeld',
         \A i \in Issues \ Briefs : stage'.now.failures[i] <= RepeatFailureLimit
  PROVE  LedgerInv'
BY DEF LedgerInv, HeldInv, TypeOK, RepeatedFailuresAreHeld

\* A step that leaves the stage alone keeps what is said of the stage.
LEMMA LedgerFrame ==
  ASSUME LedgerInv, ledger' \in Ledger, ledger'.failures = ledger.failures,
         lockable' = lockable, requests' \in 0..MaxRequests, stage' \in {stage, Nothing}
  PROVE  LedgerInv'
BY DEF LedgerInv, HeldInv, TypeOK, TodoNotHeld, RepeatedFailuresAreHeld, VerdictInv, ClosureInv

LEMMA BeginStep ==
  ASSUME LedgerInv, Begin
  PROVE  LedgerInv'
<1>1. stage' = [phase |-> "review", read |-> ledger, now |-> ledger,
                runs |-> 0, tried |-> {}, round |-> 0, fixed |-> {}, todo |-> {}]
      /\ UNCHANGED <<ledger, lockable, requests>>
  BY DEF Begin
<1>2. stage' \in Stage
  BY <1>1, IssueLedgerAssumption DEF LedgerInv, HeldInv, TypeOK, Stage
<1>3. VerdictInv' /\ ClosureInv' /\ TodoNotHeld'
  BY <1>1 DEF VerdictInv, ClosureInv, TodoNotHeld
<1>4. \A i \in Issues \ Briefs : stage'.now.failures[i] <= RepeatFailureLimit
  BY <1>1 DEF LedgerInv, HeldInv, RepeatedFailuresAreHeld
<1>5. QED
  BY <1>1, <1>2, <1>3, <1>4, StageFrame

\* Reviewing once more what the stage holds.
LEMMA ReviewAgain ==
  ASSUME LedgerInv, stage # Nothing, NEW phase \in {"followup", "repair", "final"},
         UNCHANGED <<ledger, lockable, requests>>,
         stage' = [stage EXCEPT !.now = Reviewed(@), !.phase = phase]
  PROVE  LedgerInv'
<1>1. stage \in Stage /\ stage.now \in Ledger
  BY DEF LedgerInv, HeldInv, TypeOK, Stage
<1>2. /\ Reviewed(stage.now) \in Ledger /\ Agrees(Reviewed(stage.now))
      /\ Reviewed(stage.now).failures = stage.now.failures
      /\ \A i \in Issues : HumanDecided(stage.now.issue[i])
                             => Reviewed(stage.now).issue[i] = stage.now.issue[i]
  BY <1>1, ReviewedRows
<1>3. /\ stage' \in Stage /\ stage'.now = Reviewed(stage.now) /\ stage'.phase = phase
      /\ stage'.read = stage.read
  BY <1>1, <1>2 DEF Stage
<1>4. VerdictInv' /\ TodoNotHeld'
  BY <1>2, <1>3 DEF VerdictInv, TodoNotHeld, Agrees, ActiveIn
<1>5. ClosureInv'
  BY <1>2, <1>3 DEF LedgerInv, ClosureInv
<1>6. \A i \in Issues \ Briefs : stage'.now.failures[i] <= RepeatFailureLimit
  BY <1>2, <1>3 DEF LedgerInv, HeldInv
<1>7. QED
  BY <1>3, <1>4, <1>5, <1>6, StageFrame

\* A step of the stage that only leads to its next phase.
LEMMA NextPhase ==
  ASSUME LedgerInv, stage # Nothing, UNCHANGED <<ledger, lockable, requests>>,
         NEW phase \in {"followup", "repair", "final"},
         stage' = [stage EXCEPT !.phase = phase],
         stage.phase # "review" \/ ~Complete(stage.now)
  PROVE  LedgerInv'
<1>1. stage \in Stage
  BY DEF LedgerInv, HeldInv, TypeOK
<1>2. /\ stage' \in Stage /\ stage'.now = stage.now /\ stage'.phase = phase
      /\ stage'.read = stage.read
  BY <1>1 DEF Stage
<1>3. VerdictInv' /\ TodoNotHeld'
  BY <1>2 DEF LedgerInv, VerdictInv, TodoNotHeld, Agrees, ActiveIn, Complete
<1>4. ClosureInv'
  BY <1>2 DEF LedgerInv, ClosureInv
<1>5. \A i \in Issues \ Briefs : stage'.now.failures[i] <= RepeatFailureLimit
  BY <1>2 DEF LedgerInv, HeldInv
<1>6. QED
  BY <1>2, <1>3, <1>4, <1>5, StageFrame

LEMMA PhaseSteps ==
  ASSUME LedgerInv, Review \/ EndFollowUps \/ EndRepair
  PROVE  LedgerInv'
<1>0. stage \in Stage \/ stage = Nothing
  BY DEF LedgerInv, HeldInv, TypeOK
<1>1. CASE Review
  <2>1. stage # Nothing /\ stage \in Stage /\ stage.phase = "review" /\ UNCHANGED <<ledger, lockable, requests>>
    BY <1>0, <1>1 DEF Review, InPhase
  <2>2. CASE Complete(stage.now)
    <3>1. stage' = [stage EXCEPT !.now = Reviewed(@), !.phase = "followup"]
      BY <1>1, <2>2 DEF Review
    <3>2. QED
      BY <2>1, <3>1, ReviewAgain
  <2>3. CASE ~Complete(stage.now)
    <3>1. stage' = [stage EXCEPT !.now = stage.now, !.phase = "repair"]
      BY <1>1, <2>3 DEF Review
    <3>2. stage' = [stage EXCEPT !.phase = "repair"]
      BY <2>1, <3>1 DEF Stage
    <3>3. QED
      BY <2>1, <2>3, <3>2, NextPhase
  <2>4. QED
    BY <2>2, <2>3
<1>2. CASE EndFollowUps
  BY <1>2, NextPhase DEF EndFollowUps, InPhase
<1>3. CASE EndRepair
  <2>1. stage # Nothing /\ stage \in Stage /\ stage.phase = "repair" /\ UNCHANGED <<ledger, lockable, requests>>
    BY <1>0, <1>3 DEF EndRepair, InPhase
  <2>2. CASE stage.fixed # {} /\ Complete(stage.now)
    <3>1. stage' = [stage EXCEPT !.phase = "final", !.now = Reviewed(@)]
      BY <1>3, <2>2 DEF EndRepair
    <3>2. stage' = [stage EXCEPT !.now = Reviewed(@), !.phase = "final"]
      BY <2>1, <3>1 DEF Stage
    <3>3. QED
      BY <2>1, <3>2, ReviewAgain
  <2>3. CASE ~(stage.fixed # {} /\ Complete(stage.now))
    <3>1. stage' = [stage EXCEPT !.phase = "final", !.now = stage.now]
      BY <1>3, <2>3 DEF EndRepair
    <3>2. stage' = [stage EXCEPT !.phase = "final"]
      BY <2>1, <3>1 DEF Stage
    <3>3. QED
      BY <2>1, <3>2, NextPhase
  <2>4. QED
    BY <2>2, <2>3
<1>4. QED
  BY <1>1, <1>2, <1>3

\* A repair in the stage: of an active issue, and not of one that is held.
LEMMA RepairStep ==
  ASSUME LedgerInv, stage # Nothing, UNCHANGED <<ledger, lockable, requests>>,
         NEW i \in Issues, NEW found \in SUBSET Issues,
         ~HumanDecided(stage.now.issue[i]), i \in Briefs \/ ~Held(stage.now, i),
         stage' \in Stage, stage'.read = stage.read, stage'.now = Repaired(stage.now, i, found),
         stage'.phase = "round" =>
           stage.phase = "round" /\ stage'.todo = stage.todo \ {i}
  PROVE  LedgerInv'
<1>1. stage.now \in Ledger /\ stage.now.failures[i] \in 0..RepeatFailureLimit + 1
  BY DEF LedgerInv, HeldInv, TypeOK, Stage, Ledger
<1>a. PICK now : now = Repaired(stage.now, i, found)
  OBVIOUS
<1>2. /\ now \in Ledger /\ Agrees(now)
      /\ now.failures[i] \in
              {stage.now.failures[i], IF stage.now.failures[i] > RepeatFailureLimit
                                      THEN stage.now.failures[i] ELSE stage.now.failures[i] + 1}
      /\ \A j \in Issues \ {i} :
           /\ now.failures[j] = stage.now.failures[j]
           /\ HumanDecided(stage.now.issue[j]) => now.issue[j] = stage.now.issue[j]
  BY <1>a, <1>1, RepairedRows
<1>3. VerdictInv'
  BY <1>a, <1>2 DEF VerdictInv, Agrees, ActiveIn
<1>4. ClosureInv'
  <2>1. \A j \in Issues : HumanDecided(stage.read.issue[j]) => stage.now.issue[j] = stage.read.issue[j]
    BY DEF LedgerInv, ClosureInv
  <2>2. \A j \in Issues : HumanDecided(stage.read.issue[j]) => j # i
    BY <2>1
  <2>3. \A j \in Issues : HumanDecided(stage.read.issue[j]) => now.issue[j] = stage.read.issue[j]
    BY <1>2, <2>1, <2>2
  <2>4. QED
    BY <1>a, <2>3 DEF ClosureInv
<1>5. TodoNotHeld'
  <2>1. SUFFICES ASSUME stage'.phase = "round"
                 PROVE  stage'.todo \subseteq Blocking /\ \A j \in stage'.todo : ~Held(now, j)
    BY <1>a DEF TodoNotHeld, Held
  <2>2. stage.todo \subseteq Blocking /\ \A j \in stage.todo : ~Held(stage.now, j)
    BY <2>1 DEF LedgerInv, HeldInv, TodoNotHeld
  <2>3. \A j \in stage.todo \ {i} : j \in Issues
    BY <2>2, IssueLedgerAssumption
  <2>4. \A j \in stage.todo \ {i} : ~Held(now, j)
    BY <1>2, <2>2, <2>3 DEF Held
  <2>5. QED
    BY <2>1, <2>2, <2>4
<1>6. \A j \in Issues \ Briefs : stage'.now.failures[j] <= RepeatFailureLimit
  <2>1. SUFFICES ASSUME NEW j \in Issues \ Briefs
                 PROVE  now.failures[j] <= RepeatFailureLimit
    BY <1>a
  <2>2. stage.now.failures[j] <= RepeatFailureLimit
    BY DEF LedgerInv, HeldInv
  <2>3. CASE j # i
    BY <1>2, <2>2, <2>3
  <2>4. CASE j = i
    BY <1>1, <1>2, <2>2, <2>4 DEF Held, RepeatFailureLimit
  <2>5. QED
    BY <2>3, <2>4
<1>7. QED
  BY <1>3, <1>4, <1>5, <1>6, StageFrame

LEMMA RepairedType ==
  ASSUME LedgerInv, NEW i \in Issues, NEW found \in SUBSET Issues, stage # Nothing
  PROVE  stage \in Stage /\ stage.now \in Ledger /\ Repaired(stage.now, i, found) \in Ledger
BY RepairedRows DEF LedgerInv, HeldInv, TypeOK, Stage

LEMMA FollowUpStep ==
  ASSUME LedgerInv, FollowUp
  PROVE  LedgerInv'
<1>1. PICK i \in FollowUpCandidates : \E j \in Chosen(i), found \in SUBSET Issues :
        stage' = [stage EXCEPT !.now = Repaired(@, j, found), !.tried = @ \cup {j}, !.runs = @ + 1]
  BY DEF FollowUp
<1>2. PICK j \in Chosen(i), found \in SUBSET Issues :
        stage' = [stage EXCEPT !.now = Repaired(@, j, found), !.tried = @ \cup {j}, !.runs = @ + 1]
  BY <1>1
<1>3. /\ stage # Nothing /\ stage.phase = "followup" /\ stage.runs < MaxFollowUps
      /\ UNCHANGED <<ledger, lockable, requests>>
  BY DEF FollowUp, InPhase
<1>4. /\ j \in Issues /\ stage.now.issue[j].status \in Active
      /\ j \in Briefs \/ ~Held(stage.now, j)
  BY <1>1, <1>2, IssueLedgerAssumption DEF FollowUpCandidates, Chosen, BriefFor, ActiveIn
<1>5. ~HumanDecided(stage.now.issue[j])
  BY <1>4 DEF HumanDecided, Active
<1>a. PICK now : now = Repaired(stage.now, j, found)
  OBVIOUS
<1>6. stage \in Stage /\ stage.now \in Ledger /\ now \in Ledger
  BY <1>a, <1>3, <1>4, RepairedType
<1>7. stage.runs + 1 \in 0..MaxFollowUps
  BY <1>3, <1>6, IssueLedgerAssumption DEF Stage
<1>8. /\ stage' \in Stage /\ stage'.read = stage.read /\ stage'.phase = "followup"
      /\ stage'.now = now
  BY <1>a, <1>2, <1>3, <1>4, <1>6, <1>7 DEF Stage
<1>9. QED
  BY <1>a, <1>3, <1>4, <1>5, <1>8, RepairStep

LEMMA StartRoundStep ==
  ASSUME LedgerInv, StartRound
  PROVE  LedgerInv'
<1>1. PICK todo : /\ todo \subseteq RepairCandidates /\ \A i \in todo : ~Held(stage.now, i)
                  /\ stage' = [stage EXCEPT !.phase = "round", !.round = @ + 1, !.todo = todo]
  BY DEF StartRound, Rounds
<1>2. /\ stage # Nothing /\ stage.phase = "repair" /\ stage.round < MaxRounds
      /\ UNCHANGED <<ledger, lockable, requests>>
  BY DEF StartRound, InPhase
<1>3. stage \in Stage /\ todo \subseteq Blocking /\ Blocking \subseteq Issues
  BY <1>1, <1>2, IssueLedgerAssumption DEF RepairCandidates, LedgerInv, HeldInv, TypeOK
<1>4. stage.round + 1 \in 0..MaxRounds
  BY <1>2, <1>3, IssueLedgerAssumption DEF Stage
<1>5. /\ stage' \in Stage /\ stage'.now = stage.now /\ stage'.read = stage.read
      /\ stage'.phase = "round" /\ stage'.todo = todo
  <2>1. todo \subseteq Issues
    BY <1>3
  <2>2. QED
    BY <1>1, <1>3, <1>4, <2>1 DEF Stage
<1>6. TodoNotHeld'
  BY <1>1, <1>3, <1>5 DEF TodoNotHeld, Held
<1>7. VerdictInv' /\ ClosureInv'
  BY <1>2, <1>5 DEF LedgerInv, VerdictInv, ClosureInv, Agrees, ActiveIn, Complete
<1>8. \A i \in Issues \ Briefs : stage'.now.failures[i] <= RepeatFailureLimit
  BY <1>2, <1>5 DEF LedgerInv, HeldInv
<1>9. QED
  BY <1>2, <1>5, <1>6, <1>7, <1>8, StageFrame

LEMMA RepairOneStep ==
  ASSUME LedgerInv, RepairOne
  PROVE  LedgerInv'
<1>1. PICK i \in stage.todo, found \in SUBSET Issues :
        stage' = IF Executable(stage.now, i)
                 THEN [stage EXCEPT !.now = Repaired(@, i, found),
                                    !.fixed = @ \cup {i}, !.todo = @ \ {i},
                                    !.phase = IF stage.todo = {i} THEN "repair" ELSE "round"]
                 ELSE Nothing
  BY DEF RepairOne
<1>2. stage # Nothing /\ stage.phase = "round" /\ UNCHANGED <<ledger, lockable, requests>>
  BY DEF RepairOne, InPhase
<1>3. CASE ~Executable(stage.now, i)
  <2>1. /\ stage' = Nothing /\ ledger' = ledger /\ lockable' = lockable /\ requests' = requests
        /\ ledger \in Ledger /\ requests \in 0..MaxRequests
    BY <1>1, <1>2, <1>3 DEF LedgerInv, HeldInv, TypeOK
  <2>2. QED
    BY <2>1, LedgerFrame
<1>4. CASE Executable(stage.now, i)
  <2>1. i \in Issues /\ ~Held(stage.now, i)
    BY <1>2, IssueLedgerAssumption DEF LedgerInv, HeldInv, TodoNotHeld
  <2>2. ~HumanDecided(stage.now.issue[i])
    BY <1>4 DEF Executable, HumanDecided, Active
  <2>a. PICK now : now = Repaired(stage.now, i, found)
    OBVIOUS
  <2>b. PICK phase : phase = IF stage.todo = {i} THEN "repair" ELSE "round"
    OBVIOUS
  <2>3. stage \in Stage /\ now \in Ledger
    BY <2>a, <1>2, <2>1, RepairedType
  <2>4. stage' = [stage EXCEPT !.now = now, !.fixed = @ \cup {i}, !.todo = @ \ {i}, !.phase = phase]
    BY <1>1, <1>4, <2>a, <2>b
  <2>5. /\ stage' \in Stage /\ stage'.read = stage.read /\ stage'.now = now
        /\ stage'.todo = stage.todo \ {i}
    BY <2>b, <2>1, <2>3, <2>4 DEF Stage
  <2>6. QED
    BY <1>2, <2>a, <2>1, <2>2, <2>5, RepairStep
<1>5. QED
  BY <1>3, <1>4

\* Of each column, a commit leaves the value that was there or the stage's.
LEMMA CommittedRows ==
  ASSUME ledger \in Ledger, NEW read, NEW now \in Ledger
  PROVE  /\ Committed(read, now) \in Ledger
         /\ \A i \in Issues :
              /\ Committed(read, now).failures[i] \in {ledger.failures[i], now.failures[i]}
              /\ now.issue[i].status = read.issue[i].status
                   => Committed(read, now).issue[i].status = ledger.issue[i].status
<1> DEFINE Mixed(i) == [f \in {"status", "decided", "by"} |->
                          Column(ledger.issue[i][f], read.issue[i][f], now.issue[i][f])]
           issue    == [i \in Issues |-> Mixed(i)]
           action   == [i \in Issues |-> Column(ledger.action[i], read.action[i], now.action[i])]
           packet   == [p \in Packets |-> Column(ledger.packet[p], read.packet[p], now.packet[p])]
           proposal == [p \in Packets |-> Column(ledger.proposal[p], read.proposal[p], now.proposal[p])]
           chapter  == Column(ledger.chapter, read.chapter, now.chapter)
           defects  == Column(ledger.defects, read.defects, now.defects)
           failures == [i \in Issues |-> Column(ledger.failures[i], read.failures[i], now.failures[i])]
<1>1. Committed(read, now) =
        [issue |-> issue, action |-> action, packet |-> packet, proposal |-> proposal,
         chapter |-> chapter, defects |-> defects, failures |-> failures]
  BY DEF Committed
<1>2. \A i \in Issues : Mixed(i) \in Row
  <2>1. SUFFICES ASSUME NEW i \in Issues
                 PROVE  Mixed(i) \in Row
    OBVIOUS
  <2>2. ledger.issue[i] \in Row /\ now.issue[i] \in Row
    BY DEF Ledger
  <2>3. /\ Mixed(i)["status"] \in IssueStatuses /\ Mixed(i)["decided"] \in BOOLEAN
        /\ Mixed(i)["by"] \in {"system", "human"}
    BY <2>2 DEF Row, Column
  <2> DEFINE fs == {"status", "decided", "by"}
  <2>4. Mixed(i) = [f \in fs |-> Mixed(i)[f]]
    OBVIOUS
  <2> HIDE DEF Mixed
  <2>5. Mixed(i) = [status |-> Mixed(i)["status"], decided |-> Mixed(i)["decided"], by |-> Mixed(i)["by"]]
    BY <2>4
  <2>6. QED
    BY <2>3, <2>5 DEF Row
<1>3. issue \in [Issues -> Row]
  BY <1>2
<1>4. /\ action \in [Issues -> {"none", "planned", "completed"}]
      /\ packet \in [Packets -> {"translated", "invalidated"}]
      /\ proposal \in [Packets -> {"proposed", "committed", "rejected"}]
  BY DEF Ledger, Column
<1>5. /\ chapter \in {"packet_built", "review_required", "qa_checked"} /\ defects \subseteq Issues
      /\ failures \in [Issues -> 0..RepeatFailureLimit + 1]
  BY DEF Ledger, Column
<1>6. \A i \in Issues :
        /\ failures[i] \in {ledger.failures[i], now.failures[i]}
        /\ now.issue[i].status = read.issue[i].status => issue[i].status = ledger.issue[i].status
  BY DEF Column
<1> HIDE DEF issue, action, packet, proposal, chapter, defects, failures
<1>7. Committed(read, now) \in Ledger
  BY <1>1, <1>3, <1>4, <1>5 DEF Ledger
<1>8. Committed(read, now).issue = issue /\ Committed(read, now).failures = failures
  BY <1>1
<1>9. QED
  BY <1>6, <1>7, <1>8

LEMMA CommitStep ==
  ASSUME LedgerInv, Commit
  PROVE  /\ LedgerInv'
         /\ \A i \in Issues : HumanDecided(stage.read.issue[i]) =>
              ledger'.issue[i].status = ledger.issue[i].status
<1>1. /\ stage # Nothing /\ stage' = Nothing /\ UNCHANGED <<lockable, requests>>
      /\ ledger' = Committed(stage.read, stage.now)
  BY DEF Commit, InPhase
<1>2. stage.now \in Ledger /\ ledger \in Ledger
  BY <1>1 DEF LedgerInv, HeldInv, TypeOK, Stage
<1>3. /\ ledger' \in Ledger
      /\ \A i \in Issues :
           /\ ledger'.failures[i] \in {ledger.failures[i], stage.now.failures[i]}
           /\ stage.now.issue[i].status = stage.read.issue[i].status
                => ledger'.issue[i].status = ledger.issue[i].status
  BY <1>1, <1>2, CommittedRows
<1>4. \A i \in Issues \ Briefs : /\ ledger.failures[i] <= RepeatFailureLimit
                                 /\ stage.now.failures[i] <= RepeatFailureLimit
  BY <1>1 DEF LedgerInv, HeldInv, RepeatedFailuresAreHeld
<1>5. RepeatedFailuresAreHeld'
  <2>1. \A i \in Issues \ Briefs : ledger'.failures[i] <= RepeatFailureLimit
    BY <1>3, <1>4
  <2>2. QED
    BY <2>1 DEF RepeatedFailuresAreHeld
<1>6. TypeOK'
  BY <1>1, <1>3 DEF LedgerInv, HeldInv, TypeOK
<1>7. LedgerInv'
  BY <1>1, <1>5, <1>6 DEF LedgerInv, HeldInv, TodoNotHeld, VerdictInv, ClosureInv
<1>8. \A i \in Issues : HumanDecided(stage.read.issue[i]) =>
        stage.now.issue[i] = stage.read.issue[i]
  BY <1>1 DEF LedgerInv, ClosureInv
<1>9. QED
  BY <1>3, <1>7, <1>8

\* A request: an action is executed, with a rerun or without, or a person decides.
LEMMA RequestStep ==
  ASSUME LedgerInv, NEW i \in Issues, Execute(i) \/ \E to \in IssueStatuses : Decide(i, to)
  PROVE  LedgerInv'
<1>1. ledger \in Ledger /\ requests \in 0..MaxRequests
  BY DEF LedgerInv, HeldInv, TypeOK
<1>2. lockable' = lockable /\ stage' = stage /\ requests' \in 0..MaxRequests
  <2>1. Requested /\ UNCHANGED <<lockable, stage>>
    BY DEF Execute, Decide
  <2>2. QED
    BY <1>1, <2>1, IssueLedgerAssumption DEF Requested
<1>3. ledger' \in Ledger /\ ledger'.failures = ledger.failures
  <2>1. CASE ledger' = Executed(ledger, i)
    BY <1>1, <2>1, ExecutedRows
  <2>2. CASE \E found \in SUBSET Issues : ledger' = Rerun(Executed(ledger, i), i, found)
    BY <1>1, <2>2, ExecutedRows, RerunRows
  <2>3. ASSUME NEW to \in IssueStatuses, Decide(i, to)
        PROVE  ledger' \in Ledger /\ ledger'.failures = ledger.failures
    <3> DEFINE row    == [status |-> to, decided |-> TRUE, by |-> "human"]
               issue  == [ledger.issue EXCEPT ![i] = row]
               action == [ledger.action EXCEPT ![i] = IF to = "open" /\ @ # "none" THEN "planned" ELSE @]
    <3>1. ledger' = [ledger EXCEPT !.issue = issue, !.action = action]
      BY <2>3 DEF Decide
    <3>2. row \in Row
      BY DEF Row
    <3>3. ledger.issue \in [Issues -> Row] /\ ledger.action \in [Issues -> {"none", "planned", "completed"}]
      BY <1>1 DEF Ledger
    <3>4. issue \in [Issues -> Row]
      BY <3>2, <3>3
    <3>5. action \in [Issues -> {"none", "planned", "completed"}]
      BY <3>3
    <3> HIDE DEF issue, action
    <3>6. QED
      BY <1>1, <3>1, <3>4, <3>5 DEF Ledger
  <2>4. QED
    BY <2>1, <2>2, <2>3 DEF Execute
<1>4. QED
  BY <1>2, <1>3, LedgerFrame

LEMMA AbortStep ==
  ASSUME LedgerInv, Abort
  PROVE  LedgerInv'
<1>1. /\ stage' = Nothing /\ ledger' = ledger /\ lockable' = lockable /\ requests' = requests
      /\ ledger \in Ledger /\ requests \in 0..MaxRequests
  BY DEF Abort, LedgerInv, HeldInv, TypeOK
<1>2. QED
  BY <1>1, LedgerFrame

LEMMA LedgerInvInit == Init => LedgerInv
<1> SUFFICES ASSUME Init
             PROVE  LedgerInv
  OBVIOUS
<1>1. PICK found \in SUBSET Issues :
        ledger = [issue    |-> [i \in Issues |-> Unseen],
                  action   |-> [i \in Issues |-> "none"],
                  packet   |-> [p \in Packets |-> "translated"],
                  proposal |-> [p \in Packets |-> "proposed"],
                  chapter  |-> "packet_built",
                  defects  |-> found,
                  failures |-> [i \in Issues |-> 0]]
  BY DEF Init
<1>2. Unseen \in Row
  BY DEF Unseen, Row, IssueStatuses
<1>3. ledger \in Ledger
  BY <1>1, <1>2 DEF Ledger, RepeatFailureLimit
<1>4. \A i \in Issues : ledger.failures[i] = 0
  BY <1>1
<1>5. lockable \subseteq Concepts /\ stage = Nothing /\ requests = 0
  BY DEF Init
<1>6. QED
  BY <1>3, <1>4, <1>5, IssueLedgerAssumption
  DEF LedgerInv, HeldInv, TypeOK, TodoNotHeld, RepeatedFailuresAreHeld, VerdictInv, ClosureInv,
      RepeatFailureLimit

LEMMA LedgerInvNext == LedgerInv /\ [Next]_vars => LedgerInv'
<1> SUFFICES ASSUME LedgerInv, [Next]_vars
             PROVE  LedgerInv'
  OBVIOUS
<1>1. CASE UNCHANGED vars
  <2>1. ledger' = ledger /\ lockable' = lockable /\ stage' = stage /\ requests' = requests
    BY <1>1 DEF vars
  <2>2. ledger \in Ledger /\ requests \in 0..MaxRequests
    BY DEF LedgerInv, HeldInv, TypeOK
  <2>3. QED
    BY <2>1, <2>2, LedgerFrame
<1>2. CASE StageStep
  BY <1>2, PhaseSteps, FollowUpStep, StartRoundStep, RepairOneStep, CommitStep DEF StageStep
<1>3. QED
  BY <1>1, <1>2, BeginStep, AbortStep, RequestStep DEF Next

LEMMA LedgerInvariant == Spec => []LedgerInv
BY LedgerInvInit, LedgerInvNext, PTL DEF Spec

-----------------------------------------------------------------------------
(* The theorems.                                                           *)

\* Rows, the stage's transaction and requests stay in their domains, whatever
\* interleaves with the stage.
THEOREM TypeCorrect == Spec => []TypeOK
<1>1. LedgerInv => TypeOK
  BY DEF LedgerInv, HeldInv
<1>2. QED
  BY <1>1, LedgerInvariant, PTL

\* An issue is not repaired automatically once two repairs of it have failed,
\* though the attempts are spread over runs, follow-ups and rounds.
THEOREM FailuresAreHeld == Spec => []RepeatedFailuresAreHeld
<1>1. LedgerInv => RepeatedFailuresAreHeld
  BY DEF LedgerInv, HeldInv
<1>2. QED
  BY <1>1, LedgerInvariant, PTL

\* The chapter's verdict that a stage commits is the one its issues call for,
\* whatever it repaired and reviewed before.
THEOREM VerdictIsThatOfIssues == Spec => []VerdictMatchesIssues
<1>1. LedgerInv => VerdictMatchesIssues
  BY DEF LedgerInv, VerdictInv, VerdictMatchesIssues, InPhase, Agrees
<1>2. QED
  BY <1>1, LedgerInvariant, PTL

\* What a person closed before the stage read it, the stage's commit does not
\* reopen or close again, for every number of repairs in between.
THEOREM ClosuresStand == Spec => HumanClosureStands
<1> DEFINE Stands == /\ InPhase("final") /\ ledger' # ledger /\ stage' = Nothing
                     => \A i \in Issues : HumanDecided(stage.read.issue[i]) =>
                          ledger'.issue[i].status = ledger.issue[i].status
<1>1. LedgerInv /\ [Next]_vars => [Stands]_vars
  <2>1. SUFFICES ASSUME LedgerInv, Next, stage # Nothing, ledger' # ledger, stage' = Nothing
                 PROVE  \A i \in Issues : HumanDecided(stage.read.issue[i]) =>
                          ledger'.issue[i].status = ledger.issue[i].status
    BY DEF InPhase
  <2>2. Commit
    BY <2>1 DEF Next, StageStep, Begin, Review, FollowUp, EndFollowUps, StartRound, RepairOne, EndRepair,
                Abort, Execute, Decide
  <2>3. QED
    BY <2>1, <2>2, CommitStep
<1>2. QED
  BY <1>1, LedgerInvariant, PTL DEF Spec, HumanClosureStands

=============================================================================
