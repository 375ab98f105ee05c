---------------------------- MODULE ChapterMemory ----------------------------
(***************************************************************************)
(* The translation memory of one chapter: its snapshots, the proposals     *)
(* that translations of its packets leave, and the transactions that turn  *)
(* a proposal into the next snapshot: a person's approval, the review of   *)
(* the chapter, a concept that is locked.                                  *)
(*                                                                         *)
(* A transaction reads in several queries, none of which takes a lock, and *)
(* what it writes is seen when it commits.  Two that write one row do so   *)
(* one after the other, and the second writes over what the first left.    *)
(***************************************************************************)
EXTENDS Naturals, Sequences, FiniteSets, SequencesExt

CONSTANTS Packets, Concepts,
          Txns,             \* transactions that may be open at once
          MaxTranslations,  \* bound: translations of the chapter's packets
          Nothing

RecentTranslationLimit == 4
ConceptLimit == 12

\* A chapter whose memory does not have to drop anything.
ASSUME ChapterMemoryAssumption ==
  /\ MaxTranslations \in Nat
  /\ IsFiniteSet(Packets)  /\ Cardinality(Packets)  <= RecentTranslationLimit
  /\ IsFiniteSet(Concepts) /\ Cardinality(Concepts) <= ConceptLimit

VARIABLES
  memory,    \* the chapter's snapshots; the index is the version
  proposal,  \* by translation, as <<packet, attempt>>
  runs,      \* the number of attempts at each packet
  prepared,  \* the version that a translation in progress was given, or 0
  termbase,  \* the locked terms of the chapter
  txn,       \* the open transactions: what they are to write and have read
  crossed    \* history: one decision was written over another

vars == <<memory, proposal, runs, prepared, termbase, txn, crossed>>

Attempts  == 1..MaxTranslations
Proposals == Packets \X Attempts

\* entry: the attempt at each packet that the memory quotes, or 0.
\* terms: the concepts whose rendering it fixes.
Content == [entry: [Packets -> 0..MaxTranslations], terms: SUBSET Concepts]
Seed    == [entry |-> [p \in Packets |-> 0], terms |-> {}]

Proposal == [status: {"none", "proposed", "committed", "rejected"}, base: Nat, content: Content]
Txn == [commits: Seq(Proposals), locks: SUBSET Concepts, rejects: SUBSET Proposals,
        expects: Nat, read: Nat, content: Content, seen: Nat]

\* Bootstrap leaves the first snapshot.
Init ==
  /\ memory   = <<[active |-> TRUE, content |-> Seed]>>
  /\ proposal = [k \in Proposals |-> [status |-> "none", base |-> 0, content |-> Seed]]
  /\ runs     = [p \in Packets |-> 0]
  /\ prepared = [p \in Packets |-> 0]
  /\ termbase = {}
  /\ txn      = [t \in Txns |-> Nothing]
  /\ crossed  = FALSE

\* load_latest: of the ACTIVE snapshots, the one of the highest version.
Latest == CHOOSE v \in DOMAIN memory :
            memory[v].active /\ \A w \in DOMAIN memory : memory[w].active => w <= v

Is(k, status) == proposal[k].status = status
Pending(p) == {k \in Proposals : k[1] = p /\ Is(k, "proposed")}

\* Mutant: a status of its own for what a newer translation replaces.
MutRejected(ks) == [k \in Proposals |->
                      IF k \in ks THEN [proposal[k] EXCEPT !.status = "retired"] ELSE proposal[k]]

Rejected(ks) == [k \in Proposals |->
                   IF k \in ks THEN [proposal[k] EXCEPT !.status = "rejected"] ELSE proposal[k]]

-----------------------------------------------------------------------------
(* A translation; the provider is called between Prepare and Persist.      *)

Begun == Cardinality({k \in Proposals : ~Is(k, "none")})
         + Cardinality({p \in Packets : prepared[p] # 0})

Prepare(p) ==
  /\ prepared[p] = 0 /\ Begun < MaxTranslations
  /\ prepared' = [prepared EXCEPT ![p] = Latest]
  /\ UNCHANGED <<memory, proposal, runs, termbase, txn, crossed>>

\* with_recent_translation: the newer text of a packet replaces the older.
Quoting(content, k) == [content EXCEPT !.entry[k[1]] = k[2]]

\* The proposal is built on the snapshot of Prepare, and retires those of
\* older translations of the packet.
Persist(p) ==
  /\ prepared[p] # 0
  /\ LET k == <<p, runs[p] + 1>>
     IN proposal' = [Rejected(Pending(p)) EXCEPT ![k] =
          [status |-> "proposed", base |-> prepared[p],
           content |-> Quoting(memory[prepared[p]].content, k)]]
  /\ runs' = [runs EXCEPT ![p] = @ + 1]
  /\ prepared' = [prepared EXCEPT ![p] = 0]
  /\ UNCHANGED <<memory, termbase, txn, crossed>>

-----------------------------------------------------------------------------
(* Decisions.  Each opens a transaction that commits proposals, locks a    *)
(* concept or rejects a proposal.                                          *)

Open(t, commits, locks, rejects, expects) ==
  /\ txn[t] = Nothing
  /\ txn' = [txn EXCEPT ![t] =
       [commits |-> commits, locks |-> locks, rejects |-> rejects,
        expects |-> expects, read |-> 0, content |-> Seed, seen |-> 0]]
  /\ UNCHANGED <<memory, proposal, runs, prepared, termbase, crossed>>

\* POST .../approve: the version the proposal is based on must be the latest.
Approve(t, k) ==
  Is(k, "proposed") /\ Open(t, <<k>>, {}, {}, proposal[k].base)

\* A review without blocking issues commits what is pending of the latest
\* translations, whatever it is based on.  The order is that of creation.
Review(t) ==
  LET approved == {k \in Proposals : k[2] = runs[k[1]] /\ Is(k, "proposed")}
  IN /\ \A p \in Packets : runs[p] > 0
     /\ approved # {}
     /\ \E order \in SetToSeqs(approved) : Open(t, order, {}, {}, 0)

\* Locking a term again changes nothing here.
LockConcept(t, c) == c \notin termbase /\ Open(t, <<>>, {c}, {}, 0)

\* POST .../reject; also a blocked review, an action and a rerun, for the
\* pending proposal of a packet.
Reject(t, k) == Is(k, "proposed") /\ Open(t, <<>>, {}, {k}, 0)

Creates(x) == x.commits # <<>> \/ x.locks # {}

\* Mutant: an approval does not look for drift.
MutLoad(t) ==
  /\ txn[t] # Nothing /\ Creates(txn[t]) /\ txn[t].read = 0
  /\ txn' = [txn EXCEPT ![t] =
       [@ EXCEPT !.read = Latest, !.content = memory[Latest].content,
                 !.rejects = UNION {Pending(k[1]) \ {k} : k \in ToSet(txn[t].commits)}]]
  /\ UNCHANGED <<memory, proposal, runs, prepared, termbase, crossed>>

\* Other pending proposals of the packets are retired, and the latest snapshot
\* is loaded.  An approval whose base it is not fails.
Load(t) ==
  /\ txn[t] # Nothing /\ Creates(txn[t]) /\ txn[t].read = 0
  /\ txn' = [txn EXCEPT ![t] =
       IF @.expects \in {0, Latest}
       THEN [@ EXCEPT !.read = Latest, !.content = memory[Latest].content,
                      !.rejects = UNION {Pending(k[1]) \ {k} : k \in ToSet(txn[t].commits)}]
       ELSE Nothing]
  /\ UNCHANGED <<memory, proposal, runs, prepared, termbase, crossed>>

\* session.merge looks for the rows of the next versions: those it finds are
\* going to be updated, the others inserted.
Look(t) ==
  /\ txn[t] # Nothing /\ txn[t].read # 0 /\ txn[t].seen = 0
  /\ txn' = [txn EXCEPT ![t].seen = Len(memory)]
  /\ UNCHANGED <<memory, proposal, runs, prepared, termbase, crossed>>

\* merge_approved_proposal, for the proposals ks: their packets, and all their
\* concepts.  A review commits one proposal of a packet at most, so their order
\* is without effect.  A concept that was locked meanwhile keeps its rendering,
\* though not its status.
Merged(content, ks) ==
  [entry |-> [p \in Packets |-> IF \E k \in ks : k[1] = p
                                THEN (CHOOSE k \in ks : k[1] = p)[2]
                                ELSE content.entry[p]],
   terms |-> content.terms \cup UNION {proposal[k].content.terms : k \in ks}]

\* What x writes in its i-th version.  An approval writes the proposal as it is.
Written(x, i) ==
  IF x.locks # {} THEN [x.content EXCEPT !.terms = @ \cup x.locks]
  ELSE IF x.expects # 0 THEN proposal[x.commits[1]].content
  ELSE Merged(x.content, {x.commits[j] : j \in 1..i})

Target(x) == x.read + (IF x.locks # {} THEN 1 ELSE Len(x.commits))

\* A version that was not there when x looked, and is now, violates its key.
Taken(x) == x.seen < Len(memory) /\ x.seen < Target(x)

\* Mutant: what was loaded is not superseded.
MutSuperseded(x) ==
  [v \in DOMAIN memory \cup x.read + 1..Target(x) |->
     IF v \in x.read + 1..Target(x)
     THEN [active |-> v = Target(x), content |-> Written(x, v - x.read)]
     ELSE memory[v]]

\* The loaded snapshot is superseded, and so are those that x writes but for
\* the last.  One that x found ACTIVE keeps the status that it has by now.
Superseded(x) ==
  [v \in DOMAIN memory \cup x.read + 1..Target(x) |->
     IF v = x.read THEN [memory[v] EXCEPT !.active = FALSE]
     ELSE IF v \in x.read + 1..Target(x)
     THEN [active |-> v = Target(x) /\ (v = x.seen => memory[v].active),
           content |-> Written(x, v - x.read)]
     ELSE memory[v]]

Decided(ks) == \E k \in ks : ~Is(k, "proposed")

\* Mutant: only the last proposal of a review is marked.
MutCommitted(x) == IF x.commits = <<>> THEN {} ELSE {x.commits[Len(x.commits)]}

Committed(x) == ToSet(x.commits)

Commit(t) ==
  LET x == txn[t]
  IN /\ x # Nothing /\ x.seen # 0 /\ ~Taken(x)
     /\ memory' = Superseded(x)
     /\ proposal' = [k \in Proposals |->
          IF k \in Committed(x) THEN [proposal[k] EXCEPT !.status = "committed"]
          ELSE Rejected(x.rejects)[k]]
     /\ termbase' = termbase \cup x.locks
     /\ crossed' = (crossed \/ x.read < x.seen \/ Decided(Committed(x) \cup x.rejects))
     /\ txn' = [txn EXCEPT ![t] = Nothing]
     /\ UNCHANGED <<runs, prepared>>

\* It waits for whoever is writing the proposal, and then writes all the same.
CommitReject(t) ==
  /\ txn[t] # Nothing /\ ~Creates(txn[t])
  /\ proposal' = Rejected(txn[t].rejects)
  /\ crossed' = (crossed \/ Decided(txn[t].rejects))
  /\ txn' = [txn EXCEPT ![t] = Nothing]
  /\ UNCHANGED <<memory, runs, prepared, termbase>>

\* A key that is taken, a lost connection, an error later in the stage.
Rollback(t) ==
  /\ txn[t] # Nothing
  /\ txn' = [txn EXCEPT ![t] = Nothing]
  /\ UNCHANGED <<memory, proposal, runs, prepared, termbase, crossed>>

-----------------------------------------------------------------------------
Next ==
  \/ \E p \in Packets : Prepare(p) \/ Persist(p)
  \/ \E t \in Txns :
       \/ \E k \in Proposals : Approve(t, k) \/ Reject(t, k)
       \/ Review(t)
       \/ \E c \in Concepts : LockConcept(t, c)
       \/ Load(t) \/ Look(t) \/ Commit(t) \/ CommitReject(t) \/ Rollback(t)

Spec == Init /\ [][Next]_vars

-----------------------------------------------------------------------------
(* Properties.                                                             *)

\* Every row and every transaction is in its domain, and versions are dense.
TypeOK ==
  /\ memory \in Seq([active: BOOLEAN, content: Content])
  /\ proposal \in [Proposals -> Proposal]
  /\ runs \in [Packets -> 0..MaxTranslations]
  /\ prepared \in [Packets -> Nat]
  /\ termbase \subseteq Concepts
  /\ txn \in [Txns -> Txn \cup {Nothing}]
  /\ crossed \in BOOLEAN

\* The newest snapshot is always the one that load_latest finds, and, unless
\* decisions crossed, no other is ACTIVE.
CurrentIsNewest ==
  /\ Latest = Len(memory)
  /\ ~crossed => \A v \in DOMAIN memory : memory[v].active => v = Len(memory)

\* As long as no two decisions wrote over each other, the current memory quotes
\* every committed translation, or a newer one of the packet, and fixes every
\* locked term, whoever approved, reviewed and locked meanwhile.
NothingForgotten ==
  ~crossed =>
    LET now == memory[Latest].content
    IN /\ \A k \in Proposals : Is(k, "committed") => now.entry[k[1]] >= k[2]
       /\ termbase \subseteq now.terms

\* As long as no two decisions wrote over each other, the current memory quotes
\* no translation whose proposal is pending or rejected, and fixes no term that
\* is not locked.
OnlyDecidedIsQuoted ==
  ~crossed =>
    LET now == memory[Latest].content
    IN /\ \A p \in Packets : now.entry[p] # 0 => Is(<<p, now.entry[p]>>, "committed")
       /\ now.terms \subseteq termbase
=============================================================================
