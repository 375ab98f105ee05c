------------------------- MODULE ChapterMemoryProofs -------------------------
(***************************************************************************)
(* The memory of a chapter is current, complete and decided, whatever the  *)
(* number of its packets, concepts and transactions.                       *)
(***************************************************************************)
EXTENDS ChapterMemory, FiniteSetTheorems, TLAPS

-----------------------------------------------------------------------------
(* The inductive invariant.                                                *)

Known(k) == ~Is(k, "none")

\* The attempts at a packet are numbered from 1, and only the last is pending.
AttemptsInOrder ==
  \A k \in Proposals : /\ Known(k) <=> k[2] <= runs[k[1]]
                       /\ Is(k, "proposed") => k[2] = runs[k[1]]

\* No more translations were begun than the bound admits.
BegunInv == Begun <= MaxTranslations

\* Versions that translations and proposals are based on exist.
BasesExist ==
  /\ \A p \in Packets : prepared[p] <= Len(memory)
  /\ \A k \in Proposals : Known(k) => proposal[k].base \in 1..Len(memory)

\* The newest snapshot is never superseded.
NewestActive == Len(memory) > 0 /\ memory[Len(memory)].active

\* What an open transaction has read.
TxnOK(x) ==
  /\ \A k \in ToSet(x.commits) \cup x.rejects : Known(k)
  /\ x.read <= Len(memory) /\ x.seen <= Len(memory)
  /\ x.seen # 0 => x.read # 0 /\ x.read <= x.seen
  /\ x.read # 0 => Creates(x) /\ x.expects \in {0, x.read}
  /\ x.locks # {} => x.commits = <<>>
  /\ x.expects # 0 => Len(x.commits) = 1 /\ proposal[x.commits[1]].base = x.expects

TxnInv == \A t \in Txns : txn[t] # Nothing => TxnOK(txn[t])

MemoryInv ==
  /\ TypeOK
  /\ AttemptsInOrder /\ BegunInv /\ BasesExist /\ NewestActive /\ TxnInv

\* As long as no decisions crossed, versions are written once: a proposal is its
\* base with one packet replaced, and a transaction holds what it read.
WrittenOnce ==
  ~crossed =>
    /\ \A k \in Proposals : Known(k) =>
         proposal[k].content = Quoting(memory[proposal[k].base].content, k)
    /\ \A t \in Txns : txn[t] # Nothing /\ txn[t].read # 0 =>
         txn[t].content = memory[txn[t].read].content
    /\ \A v \in DOMAIN memory : memory[v].content.terms \subseteq termbase

OneActive ==
  ~crossed => \A v \in DOMAIN memory : memory[v].active => v = Len(memory)

DecidedInv ==
  /\ MemoryInv /\ WrittenOnce /\ OneActive
  /\ ~crossed =>
       LET now == memory[Len(memory)].content
       IN /\ \A k \in Proposals : Is(k, "committed") => now.entry[k[1]] >= k[2]
          /\ termbase \subseteq now.terms
          /\ \A p \in Packets : now.entry[p] # 0 => Is(<<p, now.entry[p]>>, "committed")

-----------------------------------------------------------------------------
(* What the operators return.                                              *)

\* load_latest finds the newest snapshot as long as that one is ACTIVE.
LEMMA LatestIsNewest ==
  ASSUME TypeOK, NewestActive
  PROVE  Latest = Len(memory) /\ Len(memory) \in DOMAIN memory /\ Len(memory) \in Nat
<1>1. Len(memory) \in Nat /\ DOMAIN memory = 1..Len(memory) /\ Len(memory) \in DOMAIN memory
  BY DEF TypeOK, NewestActive
<1>2. \A w \in DOMAIN memory : w <= Len(memory)
  BY <1>1
<1>3. \A v \in DOMAIN memory :
        memory[v].active /\ (\A w \in DOMAIN memory : memory[w].active => w <= v) => v = Len(memory)
  BY <1>1, <1>2 DEF NewestActive
<1>4. QED
  BY <1>1, <1>2, <1>3 DEF Latest, NewestActive

\* <<p, a>> is numbered (index of p - 1) * MaxTranslations + a.
LEMMA ProposalsFinite == IsFiniteSet(Proposals)
<1> DEFINE M == MaxTranslations
           n == Cardinality(Packets)
<1>1. M \in Nat /\ n \in Nat
  BY ChapterMemoryAssumption, FS_CardinalityType
<1>2. PICK g : g \in Bijection(1..n, Packets)
  BY ChapterMemoryAssumption, FS_CardinalityType DEF ExistsBijection
<1>3. /\ g \in [1..n -> Packets]
      /\ \A p \in Packets : \E i \in 1..n : g[i] = p
  BY <1>2 DEF Bijection, Surjection, Injection
<1> DEFINE index == [p \in Packets |-> CHOOSE i \in 1..n : g[i] = p]
<1>4. \A p \in Packets : index[p] \in 1..n /\ g[index[p]] = p
  BY <1>3
<1> HIDE DEF index
<1> DEFINE f == [k \in Proposals |-> (index[k[1]] - 1) * M + k[2]]
<1>5. \A i \in 1..n : (i - 1) * M \in Nat /\ (i - 1) * M + M <= n * M /\ n * M \in Nat
  <2>1. SUFFICES ASSUME NEW i \in 1..n
                 PROVE  (i - 1) * M \in Nat /\ (i - 1) * M + M <= n * M /\ n * M \in Nat
    OBVIOUS
  <2>2. PICK j \in Nat : n = i + j
    <3>1. n - i \in Nat /\ n = i + (n - i)
      BY <1>1
    <3>2. QED
      BY <3>1
  <2>3. /\ n * M = (i - 1) * M + M + j * M
        /\ j * M \in Nat /\ (i - 1) * M \in Nat
    BY <1>1, <2>2
  <2>4. QED
    BY <1>1, <2>3
<1>6. \A i, j \in 1..n : i < j => (i - 1) * M + M <= (j - 1) * M
  <2>1. SUFFICES ASSUME NEW i \in 1..n, NEW j \in 1..n, i < j
                 PROVE  (i - 1) * M + M <= (j - 1) * M
    OBVIOUS
  <2>2. PICK h \in Nat : j = i + 1 + h
    <3>1. j - i - 1 \in Nat /\ j = i + 1 + (j - i - 1)
      BY <1>1, <2>1
    <3>2. QED
      BY <3>1
  <2>3. (j - 1) * M = (i - 1) * M + M + h * M /\ h * M \in Nat /\ (i - 1) * M \in Nat
    BY <1>1, <2>2
  <2>4. QED
    BY <1>1, <2>3
<1>7. \A k \in Proposals : /\ k[1] \in Packets /\ k[2] \in 1..M
                           /\ f[k] \in 1..(n * M)
  <2>1. SUFFICES ASSUME NEW k \in Proposals
                 PROVE  k[1] \in Packets /\ k[2] \in 1..M /\ f[k] \in 1..(n * M)
    OBVIOUS
  <2>2. k[1] \in Packets /\ k[2] \in 1..M
    BY DEF Proposals, Attempts
  <2>3. index[k[1]] \in 1..n
    BY <1>4, <2>2
  <2> DEFINE b == (index[k[1]] - 1) * M
  <2>4. b \in Nat /\ b + M <= n * M /\ n * M \in Nat
    BY <1>5, <2>3
  <2>5. f[k] = b + k[2]
    OBVIOUS
  <2> HIDE DEF f, b
  <2>6. f[k] \in 1..(n * M)
    BY <1>1, <2>2, <2>4, <2>5
  <2>7. QED
    BY <2>2, <2>6
<1>8. \A k, l \in Proposals : f[k] = f[l] => k = l
  <2>1. SUFFICES ASSUME NEW k \in Proposals, NEW l \in Proposals, f[k] = f[l]
                 PROVE  k = l
    OBVIOUS
  <2> DEFINE a == index[k[1]]
             b == index[l[1]]
  <2>2. a \in 1..n /\ b \in 1..n /\ k[2] \in 1..M /\ l[2] \in 1..M
    BY <1>4, <1>7
  <2>3. (a - 1) * M + k[2] = (b - 1) * M + l[2]
    BY <2>1
  <2>4. a = b
    <3> DEFINE am == (a - 1) * M
               bm == (b - 1) * M
    <3>1. am \in Nat /\ bm \in Nat
      BY <1>5, <2>2
    <3>2. (a < b => am + M <= bm) /\ (b < a => bm + M <= am)
      BY <1>6, <2>2
    <3>3. am + k[2] = bm + l[2]
      BY <2>3
    <3> HIDE DEF am, bm, a, b
    <3>4. ~(a < b) /\ ~(b < a)
      BY <1>1, <2>2, <3>1, <3>2, <3>3
    <3>5. QED
      BY <1>1, <2>2, <3>4
  <2>5. k[1] = l[1]
    BY <1>4, <1>7, <2>4
  <2>6. k[2] = l[2]
    <3> DEFINE am == (a - 1) * M
    <3>1. am \in Nat /\ am + k[2] = am + l[2]
      BY <1>5, <2>2, <2>3, <2>4
    <3> HIDE DEF am
    <3>2. QED
      BY <1>1, <2>2, <3>1
  <2>7. QED
    BY <2>5, <2>6 DEF Proposals
<1>9. f \in Injection(Proposals, 1..(n * M))
  <2>1. f \in [Proposals -> 1..(n * M)]
    BY <1>7
  <2>2. QED
    BY <1>8, <2>1 DEF Injection, IsInjective
<1>10. n * M \in Int
  BY <1>1
<1>11. IsFiniteSet(1..(n * M))
  BY <1>10, FS_Interval
<1>12. QED
  BY <1>9, <1>11, FS_Injection

\* A translation that was begun is one the bound admits.
LEMMA RunsBelowBound ==
  ASSUME TypeOK, AttemptsInOrder, BegunInv, NEW p \in Packets, prepared[p] # 0
  PROVE  runs[p] + 1 \in Attempts
<1> DEFINE known == {k \in Proposals : ~Is(k, "none")}
           begun == {q \in Packets : prepared[q] # 0}
           n     == runs[p]
           f     == [a \in 1..n |-> <<p, a>>]
<1>1. n \in 0..MaxTranslations /\ MaxTranslations \in Nat
  BY ChapterMemoryAssumption DEF TypeOK
<1>2. IsFiniteSet(known) /\ IsFiniteSet(begun)
  BY ProposalsFinite, ChapterMemoryAssumption, FS_Subset
<1>3. Cardinality(known) \in Nat /\ Cardinality(begun) \in Nat
  BY <1>2, FS_CardinalityType
<1>4. Cardinality(begun) # 0
  BY <1>2, FS_EmptySet
<1>5. f \in Injection(1..n, known)
  <2>1. ASSUME NEW a \in 1..n
        PROVE  f[a] \in known
    <3>1. <<p, a>> \in Proposals
      BY <1>1 DEF Proposals, Attempts
    <3>2. Known(<<p, a>>)
      BY <3>1 DEF AttemptsInOrder
    <3>3. QED
      BY <3>1, <3>2 DEF Known
  <2>2. \A a, b \in 1..n : f[a] = f[b] => a = b
    OBVIOUS
  <2>3. QED
    BY <2>1, <2>2 DEF Injection, IsInjective
<1>6. Cardinality(1..n) <= Cardinality(known)
  BY <1>2, <1>5, FS_Injection
<1>7. Cardinality(1..n) = n
  <2>1. 1 \in Int /\ n \in Int
    BY <1>1
  <2> HIDE DEF n
  <2>2. Cardinality(1..n) = IF 1 > n THEN 0 ELSE n - 1 + 1
    BY <2>1, FS_Interval
  <2>3. QED
    BY <1>1, <2>2
<1>8. Cardinality(known) + Cardinality(begun) <= MaxTranslations
  BY DEF BegunInv, Begun
<1>9. n + 1 <= MaxTranslations
  BY <1>1, <1>3, <1>4, <1>6, <1>7, <1>8
<1>10. QED
  BY <1>1, <1>9 DEF Attempts

\* What a transaction writes is the content of a memory.
LEMMA WrittenType ==
  ASSUME TypeOK, NEW x \in Txn, NEW i \in Nat, x.locks # {} \/ i <= Len(x.commits),
         x.expects # 0 => Len(x.commits) = 1
  PROVE  Written(x, i) \in Content
<1>1. /\ x.content \in Content /\ x.commits \in Seq(Proposals) /\ x.locks \in SUBSET Concepts
      /\ x.expects \in Nat
  BY DEF Txn
<1>2. \A k \in Proposals : proposal[k].content \in Content
  BY DEF TypeOK, Proposal
<1>3. CASE x.locks # {}
  BY <1>1, <1>3 DEF Written, Content
<1>4. CASE x.locks = {} /\ x.expects # 0
  <2>1. x.commits[1] \in Proposals
    BY <1>1, <1>4
  <2>2. QED
    BY <1>2, <1>4, <2>1 DEF Written
<1>5. CASE x.locks = {} /\ x.expects = 0
  <2> DEFINE ks == {x.commits[j] : j \in 1..i}
  <2>1. ks \subseteq Proposals
    BY <1>1, <1>5
  <2>2. \A k \in ks : k[1] \in Packets /\ k[2] \in 0..MaxTranslations
    BY <2>1, ChapterMemoryAssumption DEF Proposals, Attempts
  <2>3. UNION {proposal[k].content.terms : k \in ks} \subseteq Concepts
    BY <1>2, <2>1 DEF Content
  <2>4. \A p \in Packets : (\E k \in ks : k[1] = p) =>
                             (CHOOSE k \in ks : k[1] = p)[2] \in 0..MaxTranslations
    BY <2>2
  <2> HIDE DEF ks
  <2>5. Merged(x.content, ks) \in Content
    <3>1. x.content.entry \in [Packets -> 0..MaxTranslations] /\ x.content.terms \in SUBSET Concepts
      BY <1>1 DEF Content
    <3>2. \A p \in Packets : (IF \E k \in ks : k[1] = p
                              THEN (CHOOSE k \in ks : k[1] = p)[2]
                              ELSE x.content.entry[p]) \in 0..MaxTranslations
      BY <2>4, <3>1
    <3>3. QED
      BY <2>3, <3>1, <3>2 DEF Merged, Content
  <2>6. QED
    BY <1>5, <2>5 DEF Written, ks
<1>6. QED
  BY <1>3, <1>4, <1>5

\* A commit writes a new newest snapshot, or rows that are not the newest, or the
\* newest as it is.
LEMMA SupersededFacts ==
  ASSUME TypeOK, NewestActive, NEW x \in Txn, TxnOK(x), x.seen # 0, ~Taken(x)
  PROVE  /\ x.read \in 1..Len(memory) /\ Target(x) \in Nat /\ x.read < Target(x)
         /\ Superseded(x) \in Seq([active: BOOLEAN, content: Content])
         /\ Len(Superseded(x)) = IF Target(x) > Len(memory) THEN Target(x) ELSE Len(memory)
         /\ Superseded(x)[Len(Superseded(x))].active
<1> DEFINE n   == Len(memory)
           m   == IF Target(x) > n THEN Target(x) ELSE n
           Row == [active: BOOLEAN, content: Content]
<1>1. /\ x.commits \in Seq(Proposals) /\ x.read \in Nat /\ x.seen \in Nat
      /\ x.locks \in SUBSET Concepts
  BY DEF Txn
<1>2. n \in Nat /\ DOMAIN memory = 1..n /\ \A v \in 1..n : memory[v] \in Row
  <2>1. memory \in Seq(Row)
    BY DEF TypeOK
  <2> HIDE DEF Row
  <2>2. QED
    BY <2>1
<1>3. x.read # 0 /\ x.read <= n /\ x.read <= x.seen /\ x.seen <= n /\ Creates(x)
  BY DEF TxnOK
<1>4. Target(x) \in Nat /\ x.read < Target(x)
  BY <1>1, <1>3 DEF Target, Creates
<1>5. x.seen = n \/ (x.seen >= Target(x) /\ x.seen < n)
  BY <1>1, <1>2, <1>3, <1>4 DEF Taken
<1>6. m \in Nat /\ DOMAIN memory \cup x.read + 1..Target(x) = 1..m
  BY <1>1, <1>2, <1>3, <1>4
<1>7. ASSUME NEW v \in 1..m
      PROVE  Superseded(x)[v] \in Row
  <2>1. CASE v = x.read
    <3>1. memory[v] \in Row
      BY <1>1, <1>2, <1>3, <2>1
    <3>2. Superseded(x)[v] = [memory[v] EXCEPT !.active = FALSE]
      BY <1>6, <2>1 DEF Superseded
    <3>3. QED
      BY <3>1, <3>2
  <2>2. CASE v # x.read /\ v \in x.read + 1..Target(x)
    <3>1. Written(x, v - x.read) \in Content
      <4>1. v - x.read \in Nat /\ (x.locks # {} \/ v - x.read <= Len(x.commits))
        BY <1>1, <1>4, <2>2 DEF Target
      <4>2. QED
        BY <4>1, WrittenType DEF TxnOK
    <3>2. Superseded(x)[v] = [active |-> v = Target(x) /\ (v = x.seen => memory[v].active),
                              content |-> Written(x, v - x.read)]
      BY <1>6, <2>2 DEF Superseded
    <3>3. QED
      BY <3>1, <3>2
  <2>3. CASE v # x.read /\ v \notin x.read + 1..Target(x)
    <3>1. v \in 1..n
      BY <1>6, <2>3, <1>2
    <3>2. Superseded(x)[v] = memory[v]
      BY <1>6, <2>3 DEF Superseded
    <3>3. QED
      BY <1>2, <3>1, <3>2
  <2>4. QED
    BY <2>1, <2>2, <2>3
<1>8. DOMAIN Superseded(x) = 1..m /\ Superseded(x) = [v \in 1..m |-> Superseded(x)[v]]
  BY <1>6 DEF Superseded
<1>9. Superseded(x) \in Seq(Row) /\ Len(Superseded(x)) = m
  <2> DEFINE s == Superseded(x)
  <2>1. s \in [1..m -> Row]
    BY <1>7, <1>8
  <2> HIDE DEF s, m, Row
  <2>2. s \in Seq(Row) /\ Len(s) = m
    BY <1>6, <2>1
  <2>3. QED
    BY <2>2 DEF s
<1>10. Superseded(x)[m].active
  <2>1. CASE Target(x) > n
    <3>1. m = Target(x) /\ m # x.read /\ m \in x.read + 1..Target(x) /\ m # x.seen
      BY <1>1, <1>2, <1>3, <1>4, <2>1
    <3>2. Superseded(x)[m].active = (m = Target(x) /\ (m = x.seen => memory[m].active))
      BY <1>6, <3>1 DEF Superseded
    <3>3. QED
      BY <3>1, <3>2
  <2>2. CASE Target(x) = n
    <3>1. m = n /\ m # x.read /\ m \in x.read + 1..Target(x) /\ m = Target(x)
      BY <1>1, <1>2, <1>3, <1>4, <2>2
    <3>2. Superseded(x)[m].active = (m = Target(x) /\ (m = x.seen => memory[m].active))
      BY <1>6, <3>1 DEF Superseded
    <3>3. QED
      BY <3>1, <3>2 DEF NewestActive
  <2>3. CASE Target(x) < n
    <3>1. m = n /\ m # x.read /\ m \notin x.read + 1..Target(x) /\ m \in DOMAIN memory
      BY <1>1, <1>2, <1>3, <1>4, <2>3
    <3>2. Superseded(x)[m] = memory[m]
      BY <1>6, <3>1 DEF Superseded
    <3>3. QED
      BY <3>1, <3>2 DEF NewestActive
  <2>4. QED
    BY <1>2, <1>4, <2>1, <2>2, <2>3
<1>11. QED
  BY <1>1, <1>2, <1>3, <1>4, <1>9, <1>10

-----------------------------------------------------------------------------
(* The steps.                                                              *)

\* A transaction that opens, reads or ends without writing.
LEMMA TxnStep ==
  ASSUME DecidedInv, NEW t \in Txns, NEW y \in Txn \cup {Nothing},
         txn' = [txn EXCEPT ![t] = y],
         y # Nothing => TxnOK(y) /\ (~crossed /\ y.read # 0 => y.content = memory[y.read].content),
         UNCHANGED <<memory, proposal, runs, prepared, termbase, crossed>>
  PROVE  DecidedInv'
<1>1. TypeOK'
  BY DEF DecidedInv, MemoryInv, TypeOK
<1>2. AttemptsInOrder' /\ BegunInv' /\ BasesExist' /\ NewestActive'
  BY DEF DecidedInv, MemoryInv, AttemptsInOrder, BegunInv, Begun, BasesExist, NewestActive, Known, Is
<1>3. \A u \in Txns : txn'[u] = IF u = t THEN y ELSE txn[u]
  BY DEF DecidedInv, MemoryInv, TypeOK
<1>4. TxnInv'
  <2>1. SUFFICES ASSUME NEW u \in Txns, txn'[u] # Nothing
                 PROVE  TxnOK(txn[u])'
    BY DEF TxnInv
  <2>2. TxnOK(txn'[u])
    BY <1>3, <2>1 DEF DecidedInv, MemoryInv, TxnInv
  <2>3. QED
    BY <2>2 DEF TxnOK, Known, Is, Creates
<1>5. WrittenOnce' /\ OneActive'
  <2>1. SUFFICES ASSUME ~crossed
                 PROVE  WrittenOnce' /\ OneActive'
    BY DEF WrittenOnce, OneActive
  <2>2. \A u \in Txns : txn'[u] # Nothing /\ txn'[u].read # 0 =>
                          txn'[u].content = memory[txn'[u].read].content
    BY <1>3, <2>1 DEF DecidedInv, WrittenOnce
  <2>3. \A k \in Proposals : Known(k)' <=> Known(k)
    BY DEF Known, Is
  <2>4. QED
    BY <2>1, <2>2, <2>3 DEF DecidedInv, WrittenOnce, OneActive, Quoting
<1>6. QED
  BY <1>1, <1>2, <1>4, <1>5 DEF DecidedInv, MemoryInv, Is

LEMMA OpenStep ==
  ASSUME DecidedInv, NEW t \in Txns, NEW commits \in Seq(Proposals), NEW locks \in SUBSET Concepts,
         NEW rejects \in SUBSET Proposals, NEW expects \in Nat,
         Open(t, commits, locks, rejects, expects),
         \A k \in ToSet(commits) \cup rejects : Known(k),
         locks # {} => commits = <<>>,
         expects # 0 => Len(commits) = 1 /\ proposal[commits[1]].base = expects
  PROVE  DecidedInv'
<1> DEFINE y == [commits |-> commits, locks |-> locks, rejects |-> rejects,
                 expects |-> expects, read |-> 0, content |-> Seed, seen |-> 0]
<1>1. Seed \in Content
  BY ChapterMemoryAssumption DEF Seed, Content
<1>2. y \in Txn
  BY <1>1 DEF Txn
<1>3. Len(memory) \in Nat
  BY DEF DecidedInv, MemoryInv, TypeOK
<1>4. TxnOK(y)
  BY <1>3 DEF TxnOK
<1>5. txn' = [txn EXCEPT ![t] = y] /\ UNCHANGED <<memory, proposal, runs, prepared, termbase, crossed>>
  BY DEF Open
<1>6. y.read = 0
  OBVIOUS
<1> HIDE DEF y
<1>7. QED
  BY <1>2, <1>4, <1>5, <1>6, TxnStep

\* A decision opens its transaction.
LEMMA DecisionStep ==
  ASSUME DecidedInv, NEW t \in Txns,
         \/ \E k \in Proposals : Approve(t, k) \/ Reject(t, k)
         \/ Review(t)
         \/ \E c \in Concepts : LockConcept(t, c)
  PROVE  DecidedInv'
<1>1. TypeOK
  BY DEF DecidedInv, MemoryInv
<1>2. ASSUME NEW k \in Proposals, Approve(t, k)
      PROVE  DecidedInv'
  <2> DEFINE s == <<k>>
  <2>1. s \in Seq(Proposals) /\ ToSet(s) = {k} /\ Len(s) = 1 /\ s[1] = k
    BY DEF ToSet
  <2>2. proposal[k].base \in Nat
    BY <1>1 DEF TypeOK, Proposal
  <2>3. Known(k)
    BY <1>2 DEF Approve, Known, Is
  <2>4. Open(t, s, {}, {}, proposal[k].base)
    BY <1>2 DEF Approve
  <2> HIDE DEF s
  <2>5. QED
    BY <2>1, <2>2, <2>3, <2>4, OpenStep
<1>3. ASSUME NEW k \in Proposals, Reject(t, k)
      PROVE  DecidedInv'
  <2>1. <<>> \in Seq(Proposals) /\ ToSet(<<>>) = {}
    BY DEF ToSet
  <2>2. Known(k)
    BY <1>3 DEF Reject, Known, Is
  <2>3. Open(t, <<>>, {}, {k}, 0)
    BY <1>3 DEF Reject
  <2>4. QED
    BY <2>1, <2>2, <2>3, OpenStep
<1>4. ASSUME NEW c \in Concepts, LockConcept(t, c)
      PROVE  DecidedInv'
  <2>1. <<>> \in Seq(Proposals) /\ ToSet(<<>>) = {}
    BY DEF ToSet
  <2>2. Open(t, <<>>, {c}, {}, 0)
    BY <1>4 DEF LockConcept
  <2>3. QED
    BY <2>1, <2>2, OpenStep
<1>5. CASE Review(t)
  <2> DEFINE approved == {k \in Proposals : k[2] = runs[k[1]] /\ Is(k, "proposed")}
  <2>1. PICK order \in SetToSeqs(approved) : Open(t, order, {}, {}, 0)
    BY <1>5 DEF Review
  <2>2. IsFiniteSet(approved)
    BY ProposalsFinite, FS_Subset
  <2>3. Cardinality(approved) \in Nat
    BY <2>2, FS_CardinalityType
  <2>4. order \in [1..Cardinality(approved) -> approved]
    BY <2>1 DEF SetToSeqs
  <2>5. \A k \in approved : k \in Proposals /\ Known(k)
    BY DEF Known, Is
  <2> HIDE DEF approved
  <2>6. order \in Seq(Proposals) /\ ToSet(order) \subseteq approved
    BY <2>3, <2>4, <2>5 DEF ToSet
  <2>7. QED
    BY <2>1, <2>5, <2>6, OpenStep
<1>6. QED
  BY <1>2, <1>3, <1>4, <1>5

\* A transaction reads, looks or is rolled back.
LEMMA ReadStep ==
  ASSUME DecidedInv, NEW t \in Txns, Load(t) \/ Look(t) \/ Rollback(t)
  PROVE  DecidedInv'
<1> DEFINE x == txn[t]
<1>0. /\ TypeOK /\ Latest = Len(memory) /\ Len(memory) \in DOMAIN memory /\ Len(memory) \in Nat
      /\ Len(memory) # 0
  BY LatestIsNewest DEF DecidedInv, MemoryInv, NewestActive
<1>1. UNCHANGED <<memory, proposal, runs, prepared, termbase, crossed>> /\ x # Nothing
  BY DEF Load, Look, Rollback
<1>2. x \in Txn /\ TxnOK(x)
  BY <1>0, <1>1 DEF DecidedInv, MemoryInv, TypeOK, TxnInv
<1>3. CASE Rollback(t)
  BY <1>1, <1>3, TxnStep DEF Rollback
<1>4. CASE Look(t)
  <2> DEFINE y == [x EXCEPT !.seen = Len(memory)]
  <2>1. y \in Txn
    BY <1>0, <1>2 DEF Txn
  <2>2. x.read # 0 /\ txn' = [txn EXCEPT ![t] = y]
    BY <1>4 DEF Look
  <2>3. TxnOK(y)
    BY <1>0, <1>2, <2>2 DEF TxnOK, Creates, Txn
  <2>4. y.read = x.read /\ y.content = x.content
    BY <1>2 DEF Txn
  <2>5. ~crossed => x.content = memory[x.read].content
    BY <1>1, <2>2 DEF DecidedInv, WrittenOnce
  <2> HIDE DEF y
  <2>6. QED
    BY <1>1, <2>1, <2>2, <2>3, <2>4, <2>5, TxnStep
<1>5. CASE Load(t)
  <2> DEFINE retired == UNION {Pending(k[1]) \ {k} : k \in ToSet(x.commits)}
             y == [x EXCEPT !.read = Latest, !.content = memory[Latest].content,
                            !.rejects = retired]
  <2>1. /\ x.read = 0 /\ Creates(x)
        /\ txn' = [txn EXCEPT ![t] = IF x.expects \in {0, Latest} THEN y ELSE Nothing]
    BY <1>5 DEF Load
  <2>2. \A k \in retired : k \in Proposals /\ Known(k)
    BY DEF Pending, Known, Is
  <2> HIDE DEF retired
  <2>3. memory[Latest].content \in Content
    <3> DEFINE Row == [active: BOOLEAN, content: Content]
    <3>1. memory \in Seq(Row)
      BY <1>0 DEF TypeOK
    <3> HIDE DEF Row
    <3>2. memory[Latest] \in Row
      BY <1>0, <3>1
    <3>3. QED
      BY <3>2 DEF Row
  <2>4. /\ y \in Txn
        /\ y.commits = x.commits /\ y.locks = x.locks /\ y.expects = x.expects /\ y.seen = x.seen
        /\ y.read = Latest /\ y.content = memory[Latest].content /\ y.rejects = retired
    BY <1>0, <1>2, <2>2, <2>3 DEF Txn
  <2> HIDE DEF y
  <2>5. x.seen = 0
    BY <1>2, <2>1 DEF TxnOK
  <2>6. x.expects \in {0, Latest} => TxnOK(y)
    BY <1>0, <1>2, <2>1, <2>2, <2>4, <2>5 DEF TxnOK, Creates
  <2>7. QED
    BY <1>0, <1>1, <2>1, <2>4, <2>6, TxnStep
<1>6. QED
  BY <1>3, <1>4, <1>5

\* A translation begins.
LEMMA PrepareStep ==
  ASSUME DecidedInv, NEW p \in Packets, Prepare(p)
  PROVE  DecidedInv'
<1>0. /\ TypeOK /\ Latest = Len(memory) /\ Len(memory) \in Nat /\ Len(memory) # 0
  BY LatestIsNewest DEF DecidedInv, MemoryInv, NewestActive
<1>1. /\ prepared' = [prepared EXCEPT ![p] = Len(memory)] /\ prepared[p] = 0
      /\ UNCHANGED <<memory, proposal, runs, termbase, txn, crossed>>
  BY <1>0 DEF Prepare
<1>2. TypeOK'
  BY <1>0, <1>1 DEF TypeOK
<1>3. AttemptsInOrder' /\ NewestActive'
  BY <1>1 DEF DecidedInv, MemoryInv, AttemptsInOrder, NewestActive, Known, Is
<1>4. BasesExist'
  BY <1>0, <1>1 DEF DecidedInv, MemoryInv, BasesExist, Known, Is, TypeOK
<1>5. BegunInv'
  <2> DEFINE begun == {q \in Packets : prepared[q] # 0}
  <2>1. begun' = begun \cup {p} /\ p \notin begun
    BY <1>0, <1>1 DEF TypeOK
  <2>2. IsFiniteSet(begun)
    BY ChapterMemoryAssumption, FS_Subset
  <2>3. Cardinality(begun') = Cardinality(begun) + 1
    BY <2>1, <2>2, FS_AddElement
  <2>4. Cardinality(begun) \in Nat
    BY <2>2, FS_CardinalityType
  <2> DEFINE known == {k \in Proposals : ~Is(k, "none")}
  <2>5. known' = known
    BY <1>1 DEF Is
  <2>6. Cardinality(known) \in Nat
    BY ProposalsFinite, FS_Subset, FS_CardinalityType
  <2>7. Cardinality(known) + Cardinality(begun) < MaxTranslations
    BY DEF Prepare, Begun
  <2>8. Begun' = Cardinality(known') + Cardinality(begun')
    BY DEF Begun
  <2> HIDE DEF known, begun
  <2>9. QED
    BY <2>3, <2>4, <2>5, <2>6, <2>7, <2>8, ChapterMemoryAssumption DEF BegunInv
<1>6. TxnInv'
  BY <1>1 DEF DecidedInv, MemoryInv, TxnInv, TxnOK, Known, Is, Creates
<1>7. WrittenOnce' /\ OneActive'
  BY <1>1 DEF DecidedInv, WrittenOnce, OneActive, Known, Is, Quoting
<1>8. QED
  BY <1>1, <1>2, <1>3, <1>4, <1>5, <1>6, <1>7 DEF DecidedInv, MemoryInv, Is

\* A translation ends, and leaves the next proposal of its packet.
LEMMA PersistStep ==
  ASSUME DecidedInv, NEW p \in Packets, Persist(p)
  PROVE  DecidedInv'
<1>a. PICK k : k = <<p, runs[p] + 1>>
  OBVIOUS
<1> DEFINE content == Quoting(memory[prepared[p]].content, k)
<1>0. TypeOK /\ MemoryInv
  BY DEF DecidedInv, MemoryInv
<1>1. /\ prepared[p] # 0 /\ prepared' = [prepared EXCEPT ![p] = 0]
      /\ runs' = [runs EXCEPT ![p] = @ + 1]
      /\ UNCHANGED <<memory, termbase, txn, crossed>>
      /\ proposal' = [Rejected(Pending(p)) EXCEPT ![k] =
                        [status |-> "proposed", base |-> prepared[p], content |-> content]]
  BY <1>a DEF Persist
<1>2. runs[p] + 1 \in Attempts /\ runs[p] \in Nat
  BY <1>0, <1>1, RunsBelowBound DEF MemoryInv, TypeOK
<1>3. k \in Proposals /\ ~Known(k)
  <2>1. k \in Proposals /\ k[1] = p /\ k[2] = runs[p] + 1
    BY <1>a, <1>2 DEF Proposals
  <2>2. QED
    BY <1>0, <1>2, <2>1 DEF MemoryInv, AttemptsInOrder
<1>4. prepared[p] \in 1..Len(memory) /\ prepared[p] \in Nat
  <2>1. Len(memory) \in Nat /\ prepared[p] \in Nat
    BY <1>0 DEF TypeOK
  <2>2. QED
    BY <1>0, <1>1, <2>1 DEF MemoryInv, BasesExist
<1>5. content \in Content
  <2> DEFINE Row == [active: BOOLEAN, content: Content]
  <2>1. memory \in Seq(Row)
    BY <1>0 DEF TypeOK
  <2> HIDE DEF Row
  <2>2. memory[prepared[p]] \in Row
    BY <1>4, <2>1
  <2>3. memory[prepared[p]].content \in Content
    BY <2>2 DEF Row
  <2>4. k[2] \in 0..MaxTranslations
    BY <1>a, <1>2, ChapterMemoryAssumption DEF Attempts
  <2>5. QED
    BY <2>3, <2>4 DEF Quoting, Content
<1>6. /\ proposal'[k] = [status |-> "proposed", base |-> prepared[p], content |-> content]
      /\ \A l \in Proposals \ {k} :
           proposal'[l] = IF l \in Pending(p) THEN [proposal[l] EXCEPT !.status = "rejected"]
                          ELSE proposal[l]
  BY <1>1, <1>3 DEF Rejected
<1> HIDE DEF content
<1>7. \A l \in Proposals \ {k} :
        /\ proposal'[l].base = proposal[l].base /\ proposal'[l].content = proposal[l].content
        /\ Known(l)' <=> Known(l)
        /\ Is(l, "committed")' <=> Is(l, "committed")
        /\ Is(l, "proposed")' <=> Is(l, "proposed") /\ l[1] # p
  <2>1. SUFFICES ASSUME NEW l \in Proposals \ {k}
                 PROVE  /\ proposal'[l].base = proposal[l].base
                        /\ proposal'[l].content = proposal[l].content
                        /\ Known(l)' <=> Known(l)
                        /\ Is(l, "committed")' <=> Is(l, "committed")
                        /\ Is(l, "proposed")' <=> Is(l, "proposed") /\ l[1] # p
    OBVIOUS
  <2>2. proposal[l] \in Proposal
    BY <1>0 DEF TypeOK
  <2>3. CASE l \in Pending(p)
    BY <1>6, <2>1, <2>2, <2>3 DEF Pending, Known, Is, Proposal
  <2>4. CASE l \notin Pending(p)
    BY <1>6, <2>1, <2>4 DEF Pending, Known, Is
  <2>5. QED
    BY <2>3, <2>4
<1>8. TypeOK'
  <2>1. \A l \in Proposals : proposal'[l] \in Proposal
    <3>1. proposal'[k] \in Proposal
      BY <1>4, <1>5, <1>6 DEF Proposal
    <3>2. ASSUME NEW l \in Proposals \ {k}
          PROVE  proposal'[l] \in Proposal
      <4>1. proposal[l] \in Proposal
        BY <1>0 DEF TypeOK
      <4>2. [proposal[l] EXCEPT !.status = "rejected"] \in Proposal
        BY <4>1 DEF Proposal
      <4>3. QED
        BY <1>6, <4>1, <4>2
    <3>3. QED
      BY <3>1, <3>2
  <2>2. DOMAIN proposal' = Proposals /\ proposal' = [l \in Proposals |-> proposal'[l]]
    BY <1>1 DEF Rejected
  <2>3. proposal' \in [Proposals -> Proposal]
    BY <2>1, <2>2
  <2>4. runs' \in [Packets -> 0..MaxTranslations]
    BY <1>0, <1>1, <1>2, ChapterMemoryAssumption DEF TypeOK, Attempts
  <2>5. prepared' \in [Packets -> Nat]
    BY <1>0, <1>1 DEF TypeOK
  <2>6. QED
    BY <1>0, <1>1, <2>3, <2>4, <2>5 DEF TypeOK
<1>9. Known(k)' /\ Is(k, "proposed")' /\ ~Is(k, "committed")'
  BY <1>6 DEF Known, Is
<1>10. AttemptsInOrder'
  <2>1. SUFFICES ASSUME NEW l \in Proposals
                 PROVE  /\ Known(l)' <=> l[2] <= runs'[l[1]]
                        /\ Is(l, "proposed")' => l[2] = runs'[l[1]]
    BY DEF AttemptsInOrder
  <2>2. l[1] \in Packets /\ l[2] \in Nat /\ l = <<l[1], l[2]>>
    BY ChapterMemoryAssumption DEF Proposals, Attempts
  <2>3. runs'[l[1]] = IF l[1] = p THEN runs[p] + 1 ELSE runs[l[1]]
    BY <1>0, <1>1, <2>2 DEF TypeOK
  <2>4. CASE l = k
    BY <1>a, <1>2, <1>9, <2>3, <2>4
  <2>5. CASE l # k
    <3>1. Known(l) <=> l[2] <= runs[l[1]]
      BY <1>0 DEF MemoryInv, AttemptsInOrder
    <3>2. Is(l, "proposed") => l[2] = runs[l[1]]
      BY <1>0 DEF MemoryInv, AttemptsInOrder
    <3>3. l[1] = p => l[2] # runs[p] + 1
      BY <1>a, <2>2, <2>5
    <3>4. QED
      BY <1>2, <1>7, <2>2, <2>3, <2>5, <3>1, <3>2, <3>3
  <2>6. QED
    BY <2>4, <2>5
<1>11. BegunInv'
  <2> DEFINE known == {l \in Proposals : ~Is(l, "none")}
             begun == {q \in Packets : prepared[q] # 0}
  <2>1. known' = known \cup {k} /\ k \notin known
    <3>1. \A l \in Proposals : ~Is(l, "none")' <=> ~Is(l, "none") \/ l = k
      BY <1>7, <1>9 DEF Known
    <3>2. QED
      BY <1>3, <3>1 DEF Known
  <2>2. begun' = begun \ {p} /\ p \in begun
    BY <1>0, <1>1 DEF TypeOK
  <2>3. IsFiniteSet(known) /\ IsFiniteSet(begun)
    BY ProposalsFinite, ChapterMemoryAssumption, FS_Subset
  <2>4. Cardinality(known) \in Nat /\ Cardinality(begun) \in Nat
    BY <2>3, FS_CardinalityType
  <2>5. Begun = Cardinality(known) + Cardinality(begun) /\ Begun' = Cardinality(known') + Cardinality(begun')
    BY DEF Begun
  <2> HIDE DEF known, begun
  <2>6. Cardinality(known') = Cardinality(known) + 1
    BY <2>1, <2>3, FS_AddElement
  <2>7. Cardinality(begun') = Cardinality(begun) - 1
    BY <2>2, <2>3, FS_RemoveElement
  <2>8. Begun' = Begun
    BY <2>4, <2>5, <2>6, <2>7
  <2>9. QED
    BY <1>0, <2>8 DEF MemoryInv, BegunInv
<1>12. BasesExist'
  <2>1. \A q \in Packets : prepared'[q] <= Len(memory)
    <3>1. Len(memory) \in Nat
      BY <1>0 DEF TypeOK
    <3>2. QED
      BY <1>0, <1>1, <3>1 DEF MemoryInv, BasesExist, TypeOK
  <2>2. \A l \in Proposals : Known(l)' => proposal'[l].base \in 1..Len(memory)
    BY <1>0, <1>4, <1>6, <1>7 DEF MemoryInv, BasesExist
  <2>3. QED
    BY <1>1, <2>1, <2>2 DEF BasesExist
<1>13. NewestActive'
  BY <1>0, <1>1 DEF MemoryInv, NewestActive
<1>14. \A l \in Proposals : Known(l) => Known(l)' /\ proposal'[l].base = proposal[l].base
                                        /\ proposal'[l].content = proposal[l].content
  BY <1>3, <1>7
<1>15. TxnInv'
  <2>1. SUFFICES ASSUME NEW u \in Txns, txn[u] # Nothing
                 PROVE  TxnOK(txn[u])'
    BY <1>1 DEF TxnInv
  <2>2. TxnOK(txn[u]) /\ txn[u] \in Txn
    BY <1>0, <2>1 DEF MemoryInv, TxnInv, TypeOK
  <2>3. \A l \in ToSet(txn[u].commits) \cup txn[u].rejects : l \in Proposals
    BY <2>2 DEF Txn, ToSet
  <2>4. txn[u].expects # 0 =>
          txn[u].commits[1] \in Proposals /\ Known(txn[u].commits[1])
    BY <2>2, <2>3 DEF TxnOK, Txn, ToSet
  <2>5. QED
    BY <1>1, <1>14, <2>2, <2>3, <2>4 DEF TxnOK, Creates
<1>16. WrittenOnce'
  <2>1. SUFFICES ASSUME ~crossed
                 PROVE  WrittenOnce'
    BY <1>1 DEF WrittenOnce
  <2>2. \A l \in Proposals : Known(l)' =>
          proposal'[l].content = Quoting(memory[proposal'[l].base].content, l)
    BY <1>6, <1>7, <2>1 DEF DecidedInv, WrittenOnce, content
  <2>3. QED
    BY <1>1, <2>1, <2>2 DEF DecidedInv, WrittenOnce, Quoting
<1>17. OneActive'
  BY <1>1 DEF DecidedInv, OneActive
<1>18. \A l \in Proposals : Is(l, "committed")' <=> Is(l, "committed")
  BY <1>3, <1>7, <1>9 DEF Known, Is
<1>19. ASSUME ~crossed
       PROVE  LET now == memory[Len(memory)].content
              IN /\ \A l \in Proposals : Is(l, "committed")' => now.entry[l[1]] >= l[2]
                 /\ termbase \subseteq now.terms
                 /\ \A q \in Packets : now.entry[q] # 0 => Is(<<q, now.entry[q]>>, "committed")'
  <2> DEFINE now == memory[Len(memory)].content
  <2>1. /\ \A l \in Proposals : Is(l, "committed") => now.entry[l[1]] >= l[2]
        /\ termbase \subseteq now.terms
        /\ \A q \in Packets : now.entry[q] # 0 => Is(<<q, now.entry[q]>>, "committed")
    BY <1>19 DEF DecidedInv
  <2>2. ASSUME NEW q \in Packets, now.entry[q] # 0
        PROVE  <<q, now.entry[q]>> \in Proposals
    <3> DEFINE Row == [active: BOOLEAN, content: Content]
    <3>1. memory \in Seq(Row) /\ Len(memory) > 0
      BY <1>0 DEF TypeOK, MemoryInv, NewestActive
    <3> HIDE DEF Row
    <3>2. memory[Len(memory)] \in Row
      BY <3>1
    <3>3. now.entry[q] \in 0..MaxTranslations
      BY <3>2 DEF Row, Content
    <3>4. QED
      BY <2>2, <3>3, ChapterMemoryAssumption DEF Proposals, Attempts
  <2>3. QED
    BY <1>1, <1>18, <2>1, <2>2
<1>20. QED
  BY <1>1, <1>8, <1>10, <1>11, <1>12, <1>13, <1>15, <1>16, <1>17, <1>19 DEF DecidedInv, MemoryInv

\* A decision that is written changes the status of what it commits and rejects.
Decides(ks, rs) ==
  \A k \in Proposals :
    /\ proposal'[k].base = proposal[k].base /\ proposal'[k].content = proposal[k].content
    /\ Known(k)' <=> Known(k)
    /\ Is(k, "proposed")' => Is(k, "proposed")
    /\ Is(k, "committed")' <=> k \in ks \/ (Is(k, "committed") /\ k \notin rs)

LEMMA StatusStep ==
  ASSUME TypeOK, NEW ks, NEW rs, \A k \in ks \cup rs : Known(k),
         proposal' = [k \in Proposals |->
                        IF k \in ks THEN [proposal[k] EXCEPT !.status = "committed"]
                        ELSE Rejected(rs)[k]]
  PROVE  Decides(ks, rs) /\ proposal' \in [Proposals -> Proposal]
<1>1. ASSUME NEW k \in Proposals
      PROVE  proposal'[k] = IF k \in ks THEN [proposal[k] EXCEPT !.status = "committed"]
                            ELSE IF k \in rs THEN [proposal[k] EXCEPT !.status = "rejected"]
                            ELSE proposal[k]
  BY DEF Rejected
<1>2. ASSUME NEW k \in Proposals
      PROVE  /\ proposal'[k] \in Proposal
             /\ proposal'[k].base = proposal[k].base /\ proposal'[k].content = proposal[k].content
             /\ proposal'[k].status = IF k \in ks THEN "committed"
                                      ELSE IF k \in rs THEN "rejected" ELSE proposal[k].status
  <2>1. proposal[k] \in Proposal
    BY DEF TypeOK
  <2>2. QED
    BY <1>1, <2>1 DEF Proposal
<1>3. ASSUME NEW k \in Proposals
      PROVE  /\ Known(k)' <=> Known(k)
             /\ Is(k, "proposed")' => Is(k, "proposed")
             /\ Is(k, "committed")' <=> k \in ks \/ (Is(k, "committed") /\ k \notin rs)
  <2>1. CASE k \in ks
    <3>1. proposal'[k].status = "committed" /\ Known(k)
      BY <1>2, <2>1
    <3>2. Known(k)' /\ ~Is(k, "proposed")' /\ Is(k, "committed")'
      BY <3>1 DEF Known, Is
    <3>3. QED
      BY <2>1, <3>1, <3>2
  <2>2. CASE k \notin ks /\ k \in rs
    BY <1>2, <2>2 DEF Known, Is
  <2>3. CASE k \notin ks /\ k \notin rs
    BY <1>2, <2>3 DEF Known, Is
  <2>4. QED
    BY <2>1, <2>2, <2>3
<1>4. Decides(ks, rs)
  BY <1>2, <1>3 DEF Decides
<1>5. DOMAIN proposal' = Proposals /\ proposal' = [k \in Proposals |-> proposal'[k]]
  OBVIOUS
<1>6. QED
  BY <1>2, <1>4, <1>5

\* What holds of the memory after a decision, apart from what it contains.
LEMMA DecidedFrame ==
  ASSUME MemoryInv, NEW t \in Txns, NEW ks, NEW rs, Decides(ks, rs),
         txn' = [txn EXCEPT ![t] = Nothing], UNCHANGED <<runs, prepared>>,
         Len(memory') \in Nat, Len(memory) <= Len(memory')
  PROVE  AttemptsInOrder' /\ BegunInv' /\ BasesExist' /\ TxnInv'
<1>0. TypeOK /\ Len(memory) \in Nat
  BY DEF MemoryInv, TypeOK
<1>1. AttemptsInOrder'
  BY DEF MemoryInv, AttemptsInOrder, Decides
<1>2. BegunInv'
  <2> DEFINE known == {k \in Proposals : ~Is(k, "none")}
             begun == {p \in Packets : prepared[p] # 0}
  <2>1. known' = known
    BY DEF Decides, Known
  <2>2. begun' = begun
    OBVIOUS
  <2>3. Begun = Cardinality(known) + Cardinality(begun) /\ Begun' = Cardinality(known') + Cardinality(begun')
    BY DEF Begun
  <2> HIDE DEF known, begun
  <2>4. QED
    BY <2>1, <2>2, <2>3 DEF MemoryInv, BegunInv
<1>3. BasesExist'
  <2>1. \A p \in Packets : prepared[p] \in Nat
    BY <1>0 DEF TypeOK
  <2>2. QED
    BY <1>0, <2>1 DEF MemoryInv, BasesExist, Decides
<1>4. TxnInv'
  <2>1. SUFFICES ASSUME NEW u \in Txns, txn'[u] # Nothing
                 PROVE  TxnOK(txn[u])'
    BY DEF TxnInv
  <2>2. txn'[u] = txn[u]
    BY <1>0, <2>1 DEF TypeOK
  <2>3. TxnOK(txn[u]) /\ txn[u] \in Txn
    BY <1>0, <2>1, <2>2 DEF MemoryInv, TxnInv, TypeOK
  <2>4. \A k \in ToSet(txn[u].commits) \cup txn[u].rejects : k \in Proposals
    BY <2>3 DEF Txn, ToSet
  <2>5. txn[u].expects # 0 => txn[u].commits[1] \in Proposals
    BY <2>3 DEF TxnOK, Txn
  <2>6. txn[u].read \in Nat /\ txn[u].seen \in Nat
    BY <2>3 DEF Txn
  <2>7. QED
    BY <1>0, <2>2, <2>3, <2>4, <2>5, <2>6 DEF TxnOK, Creates, Decides
<1>5. QED
  BY <1>1, <1>2, <1>3, <1>4

LEMMA RejectStep ==
  ASSUME DecidedInv, NEW t \in Txns, CommitReject(t)
  PROVE  DecidedInv'
<1>a. PICK rs : rs = txn[t].rejects
  OBVIOUS
<1>0. TypeOK /\ MemoryInv /\ Len(memory) \in Nat
  BY DEF DecidedInv, MemoryInv, TypeOK
<1>1. /\ txn[t] # Nothing /\ proposal' = Rejected(rs)
      /\ crossed' = (crossed \/ Decided(rs)) /\ txn' = [txn EXCEPT ![t] = Nothing]
      /\ UNCHANGED <<memory, runs, prepared, termbase>>
  BY <1>a DEF CommitReject
<1>2. \A k \in rs : k \in Proposals /\ Known(k)
  BY <1>a, <1>0, <1>1 DEF MemoryInv, TxnInv, TxnOK, TypeOK, Txn
<1>3. Decides({}, rs) /\ proposal' \in [Proposals -> Proposal]
  <2>1. proposal' = [k \in Proposals |->
                       IF k \in {} THEN [proposal[k] EXCEPT !.status = "committed"]
                       ELSE Rejected(rs)[k]]
    BY <1>1 DEF Rejected
  <2>2. QED
    BY <1>0, <1>2, <2>1, StatusStep
<1>4. TypeOK'
  BY <1>0, <1>1, <1>3 DEF TypeOK, Decided
<1>5. MemoryInv'
  <2>1. AttemptsInOrder' /\ BegunInv' /\ BasesExist' /\ TxnInv'
    <3>1. UNCHANGED <<runs, prepared>> /\ Len(memory') \in Nat /\ Len(memory) <= Len(memory')
      BY <1>0, <1>1
    <3>2. txn' = [txn EXCEPT ![t] = Nothing]
      BY <1>1
    <3>3. QED
      BY <1>0, <1>3, <3>1, <3>2, DecidedFrame
  <2>2. NewestActive'
    BY <1>0, <1>1 DEF MemoryInv, NewestActive
  <2>3. QED
    BY <1>4, <2>1, <2>2 DEF MemoryInv
<1>6. ASSUME ~crossed'
      PROVE  /\ ~crossed
             /\ \A k \in Proposals : Is(k, "committed")' <=> Is(k, "committed")
  <2>1. ~crossed /\ ~Decided(rs)
    BY <1>1, <1>6
  <2>2. \A k \in rs : ~Is(k, "committed")
    BY <2>1 DEF Decided, Is
  <2>3. QED
    BY <1>3, <2>1, <2>2 DEF Decides
<1>7. WrittenOnce'
  <2>1. SUFFICES ASSUME ~crossed'
                 PROVE  WrittenOnce'
    BY DEF WrittenOnce
  <2>2. \A u \in Txns : txn'[u] = txn[u] \/ txn'[u] = Nothing
    BY <1>0, <1>1 DEF TypeOK
  <2>3. QED
    BY <1>1, <1>3, <1>6, <2>1, <2>2 DEF DecidedInv, WrittenOnce, Decides, Quoting
<1>8. OneActive'
  BY <1>1, <1>6 DEF DecidedInv, OneActive
<1>9. ASSUME ~crossed', NEW p \in Packets, memory[Len(memory)].content.entry[p] # 0
      PROVE  <<p, memory[Len(memory)].content.entry[p]>> \in Proposals
  <2> DEFINE Row == [active: BOOLEAN, content: Content]
  <2>1. memory \in Seq(Row) /\ Len(memory) > 0
    BY <1>0 DEF TypeOK, MemoryInv, NewestActive
  <2> HIDE DEF Row
  <2>2. memory[Len(memory)] \in Row
    BY <2>1
  <2>3. memory[Len(memory)].content.entry[p] \in 0..MaxTranslations
    BY <2>2 DEF Row, Content
  <2>4. QED
    BY <1>9, <2>3, ChapterMemoryAssumption DEF Proposals, Attempts
<1>10. QED
  BY <1>1, <1>5, <1>6, <1>7, <1>8, <1>9 DEF DecidedInv

\* While decisions do not cross, the newest snapshot that a commit of x writes is
\* the one before it, with the packets of x replaced and its terms added.
LEMMA NewestContent ==
  ASSUME DecidedInv, ~crossed, NEW x \in Txn, TxnOK(x), x.read = Len(memory),
         x.content = memory[Len(memory)].content, ~Decided(Committed(x) \cup x.rejects)
  PROVE  LET now == memory[Len(memory)].content
             new == Written(x, Target(x) - x.read)
         IN /\ \A k \in Committed(x) : k \in Proposals /\ new.entry[k[1]] = k[2] /\ k[2] = runs[k[1]]
            /\ \A p \in Packets : \/ \E k \in Committed(x) : k[1] = p
                                  \/ new.entry[p] = now.entry[p]
            /\ now.terms \cup x.locks \subseteq new.terms
<1> DEFINE now == memory[Len(memory)].content
           n   == Len(memory)
<1>0. TypeOK /\ MemoryInv /\ n \in Nat /\ n # 0
  BY DEF DecidedInv, MemoryInv, TypeOK, NewestActive
<1>1. /\ x.commits \in Seq(Proposals) /\ x.locks \in SUBSET Concepts /\ x.expects \in Nat
      /\ x.content \in Content /\ x.content = now /\ x.expects \in {0, n} /\ Creates(x)
  BY <1>0 DEF Txn, TxnOK
<1>2. ASSUME NEW k \in Committed(x)
      PROVE  k \in Proposals /\ Is(k, "proposed") /\ k[2] = runs[k[1]] /\ k[1] \in Packets
  <2>1. k \in Proposals
    BY <1>1 DEF Committed, ToSet
  <2>2. Is(k, "proposed")
    BY <1>2 DEF Decided
  <2>3. QED
    BY <1>0, <2>1, <2>2 DEF MemoryInv, AttemptsInOrder, Proposals
<1>3. now.entry \in [Packets -> 0..MaxTranslations]
  BY <1>1 DEF Content
<1>4. CASE x.locks # {}
  <2>1. Committed(x) = {}
    BY <1>4 DEF TxnOK, Committed, ToSet
  <2>2. Written(x, Target(x) - x.read) = [now EXCEPT !.terms = @ \cup x.locks]
    BY <1>1, <1>4 DEF Written
  <2>3. /\ [now EXCEPT !.terms = @ \cup x.locks].entry = now.entry
        /\ [now EXCEPT !.terms = @ \cup x.locks].terms = now.terms \cup x.locks
    BY <1>1 DEF Content
  <2>4. QED
    BY <2>1, <2>2, <2>3
<1>5. CASE x.locks = {} /\ x.expects # 0
  <2>a. PICK k : k = x.commits[1]
    OBVIOUS
  <2>1. Len(x.commits) = 1 /\ proposal[k].base = n
    BY <1>1, <1>5, <2>a DEF TxnOK
  <2>2. Committed(x) = {k}
    BY <1>1, <2>a, <2>1 DEF Committed, ToSet
  <2>3. k \in Proposals /\ Known(k) /\ k[1] \in Packets
    BY <1>2, <2>2 DEF Known, Is
  <2>4. Written(x, Target(x) - x.read) = Quoting(now, k)
    BY <1>5, <2>a, <2>1, <2>3 DEF Written, DecidedInv, WrittenOnce
  <2>5. /\ Quoting(now, k).entry = [now.entry EXCEPT ![k[1]] = k[2]]
        /\ Quoting(now, k).terms = now.terms
    BY <1>1 DEF Quoting, Content
  <2>6. QED
    BY <1>2, <1>3, <1>5, <2>2, <2>3, <2>4, <2>5
<1>6. CASE x.locks = {} /\ x.expects = 0
  <2>1. Target(x) - x.read = Len(x.commits)
    BY <1>0, <1>1, <1>6 DEF Target
  <2>2. {x.commits[j] : j \in 1..Len(x.commits)} = Committed(x)
    BY <1>1 DEF Committed, ToSet
  <2>3. Written(x, Target(x) - x.read) = Merged(now, Committed(x))
    BY <1>1, <1>6, <2>1, <2>2 DEF Written
  <2> DEFINE new == Merged(now, Committed(x))
  <2>4. ASSUME NEW k \in Committed(x)
        PROVE  new.entry[k[1]] = k[2]
    <3> DEFINE l == CHOOSE l \in Committed(x) : l[1] = k[1]
    <3>1. l \in Committed(x) /\ l[1] = k[1]
      BY <2>4
    <3>2. l[2] = k[2]
      BY <1>2, <2>4, <3>1
    <3>3. new.entry[k[1]] = l[2]
      BY <1>2, <2>4 DEF Merged
    <3>4. QED
      BY <3>2, <3>3
  <2>5. \A p \in Packets : (\E k \in Committed(x) : k[1] = p) \/ new.entry[p] = now.entry[p]
    BY DEF Merged
  <2>6. now.terms \subseteq new.terms
    BY DEF Merged
  <2>7. QED
    BY <1>2, <1>6, <2>3, <2>4, <2>5, <2>6
<1>7. QED
  BY <1>4, <1>5, <1>6

\* And no version that it writes fixes a term that was not locked.
LEMMA WrittenTerms ==
  ASSUME DecidedInv, ~crossed, NEW x \in Txn, TxnOK(x), x.read = Len(memory),
         x.content = memory[Len(memory)].content,
         NEW i \in Nat, x.locks # {} \/ i <= Len(x.commits)
  PROVE  Written(x, i).terms \subseteq termbase \cup x.locks
<1>0. /\ TypeOK /\ Len(memory) \in Nat /\ Len(memory) # 0
      /\ DOMAIN memory = 1..Len(memory)
  BY DEF DecidedInv, MemoryInv, TypeOK, NewestActive
<1>1. /\ x.commits \in Seq(Proposals) /\ x.content \in Content
      /\ x.content.terms \subseteq termbase
  BY <1>0 DEF Txn, DecidedInv, WrittenOnce
<1>2. ASSUME NEW k \in Proposals, Known(k)
      PROVE  proposal[k].content.terms \subseteq termbase
  <2> DEFINE base == proposal[k].base
             Row  == [active: BOOLEAN, content: Content]
  <2>1. base \in 1..Len(memory)
    BY <1>2 DEF DecidedInv, MemoryInv, BasesExist
  <2>2. memory \in Seq(Row)
    BY <1>0 DEF TypeOK
  <2> HIDE DEF Row
  <2>3. memory[base] \in Row
    BY <2>1, <2>2
  <2>4. memory[base].content \in Content
    BY <2>3 DEF Row
  <2>5. proposal[k].content = Quoting(memory[base].content, k)
    BY <1>2 DEF DecidedInv, WrittenOnce
  <2>6. Quoting(memory[base].content, k).terms = memory[base].content.terms
    BY <2>4 DEF Quoting, Content
  <2>7. memory[base].content.terms \subseteq termbase
    BY <1>0, <2>1 DEF DecidedInv, WrittenOnce
  <2>8. QED
    BY <2>5, <2>6, <2>7
<1>3. CASE x.locks # {}
  BY <1>1, <1>3 DEF Written, Content
<1>4. CASE x.locks = {} /\ x.expects # 0
  <2>1. x.commits[1] \in Proposals /\ Known(x.commits[1])
    BY <1>1, <1>4 DEF TxnOK, ToSet
  <2>2. QED
    BY <1>2, <1>4, <2>1 DEF Written
<1>5. CASE x.locks = {} /\ x.expects = 0
  <2> DEFINE ks == {x.commits[j] : j \in 1..i}
  <2>1. \A k \in ks : k \in Proposals /\ Known(k)
    BY <1>1, <1>5 DEF TxnOK, ToSet
  <2>2. Written(x, i) = Merged(x.content, ks)
    BY <1>5 DEF Written
  <2>3. Merged(x.content, ks).terms = x.content.terms \cup UNION {proposal[k].content.terms : k \in ks}
    BY DEF Merged
  <2> HIDE DEF ks
  <2>4. UNION {proposal[k].content.terms : k \in ks} \subseteq termbase
    BY <1>2, <2>1
  <2>5. QED
    BY <1>1, <2>2, <2>3, <2>4
<1>6. QED
  BY <1>3, <1>4, <1>5

\* The rows that a commit writes while decisions do not cross: the newest of
\* before is superseded, and only the last is ACTIVE.
LEMMA AppendedRows ==
  ASSUME TypeOK, NewestActive, NEW x \in Txn, TxnOK(x), x.seen # 0, ~Taken(x), ~(x.read < x.seen)
  PROVE  /\ x.read = Len(memory) /\ Len(Superseded(x)) = Target(x) /\ Len(memory) < Target(x)
         /\ \A v \in 1..Target(x) :
              /\ v >= Len(memory) => (Superseded(x)[v].active => v = Target(x))
              /\ v < Len(memory) => Superseded(x)[v] = memory[v]
              /\ v = Len(memory) => Superseded(x)[v].content = memory[v].content
              /\ v > Len(memory) => Superseded(x)[v].content = Written(x, v - x.read)
<1>a. PICK n : n = Len(memory)
  OBVIOUS
<1>b. PICK m : m = Target(x)
  OBVIOUS
<1>1. n \in Nat /\ DOMAIN memory = 1..n /\ x.read \in Nat /\ x.seen \in Nat
  BY <1>a DEF TypeOK, Txn
<1>2. /\ x.read \in 1..n /\ m \in Nat /\ x.read < m
      /\ Len(Superseded(x)) = IF m > n THEN m ELSE n
  BY <1>a, <1>b, SupersededFacts
<1>3. x.read <= x.seen /\ x.seen <= n /\ ~(x.seen < n /\ x.seen < m)
  BY <1>a, <1>b DEF TxnOK, Taken
<1>4. x.read = n /\ n < m /\ x.seen = n /\ n > 0
  BY <1>1, <1>2, <1>3
<1>5. DOMAIN memory \cup x.read + 1..m = 1..m
  BY <1>1, <1>2, <1>4
<1>6. Superseded(x) =
        [v \in 1..m |->
           IF v = n THEN [memory[v] EXCEPT !.active = FALSE]
           ELSE IF v \in n + 1..m
           THEN [active |-> v = m /\ (v = n => memory[v].active), content |-> Written(x, v - x.read)]
           ELSE memory[v]]
  BY <1>b, <1>4, <1>5 DEF Superseded
<1>7. \A v \in 1..m : v > n => Superseded(x)[v] = [active |-> v = m, content |-> Written(x, v - x.read)]
  <2>1. SUFFICES ASSUME NEW v \in 1..m, v > n
                 PROVE  Superseded(x)[v] = [active |-> v = m, content |-> Written(x, v - x.read)]
    OBVIOUS
  <2>2. v # n /\ v \in n + 1..m
    BY <1>1, <1>2, <2>1
  <2>3. (v = m /\ (v = n => memory[v].active)) = (v = m)
    BY <2>2
  <2>4. QED
    BY <1>6, <2>2, <2>3
<1>8. \A v \in 1..m : v < n => Superseded(x)[v] = memory[v]
  <2>1. SUFFICES ASSUME NEW v \in 1..m, v < n
                 PROVE  Superseded(x)[v] = memory[v]
    OBVIOUS
  <2>2. v # n /\ v \notin n + 1..m
    BY <1>1, <1>2, <2>1
  <2>3. QED
    BY <1>6, <2>2
<1>9. Superseded(x)[n].content = memory[n].content /\ ~Superseded(x)[n].active
  <2> DEFINE Row == [active: BOOLEAN, content: Content]
  <2>1. memory \in Seq(Row)
    BY DEF TypeOK
  <2>2. n \in 1..m /\ n \in DOMAIN memory
    BY <1>1, <1>2, <1>4
  <2> HIDE DEF Row
  <2>3. memory[n] \in Row
    BY <2>1, <2>2
  <2>4. Superseded(x)[n] = [memory[n] EXCEPT !.active = FALSE]
    BY <1>6, <2>2
  <2>5. QED
    BY <2>3, <2>4 DEF Row
<1>10. ASSUME NEW v \in 1..m
       PROVE  /\ v >= n => (Superseded(x)[v].active => v = m)
              /\ v = n => Superseded(x)[v].content = memory[v].content
              /\ v > n => Superseded(x)[v].content = Written(x, v - x.read)
  <2>1. CASE v = n
    BY <1>1, <1>9, <2>1
  <2>2. CASE v > n
    <3>1. Superseded(x)[v] = [active |-> v = m, content |-> Written(x, v - x.read)]
      BY <1>7, <2>2
    <3>2. v # n
      BY <1>1, <1>2, <2>2
    <3>3. Superseded(x)[v].active => v = m
      <4>1. SUFFICES ASSUME v # m
                     PROVE  ~Superseded(x)[v].active
        OBVIOUS
      <4>2. (v = m) = FALSE
        BY <4>1
      <4>3. Superseded(x)[v] = [active |-> FALSE, content |-> Written(x, v - x.read)]
        BY <3>1, <4>2
      <4>4. QED
        BY <4>3
    <3>4. Superseded(x)[v].content = Written(x, v - x.read)
      BY <3>1
    <3>5. QED
      BY <3>2, <3>3, <3>4
  <2>3. CASE v < n
    BY <1>1, <1>2, <2>3
  <2>4. QED
    BY <1>1, <1>2, <2>1, <2>2, <2>3
<1>11. QED
  BY <1>a, <1>b, <1>2, <1>4, <1>8, <1>10

LEMMA CommitStep ==
  ASSUME DecidedInv, NEW t \in Txns, Commit(t)
  PROVE  DecidedInv'
<1>a. PICK x : x = txn[t]
  OBVIOUS
<1>b. PICK n : n = Len(memory)
  OBVIOUS
<1>c. PICK m : m = Target(x)
  OBVIOUS
<1> DEFINE ks == Committed(x)
<1>0. TypeOK /\ MemoryInv /\ NewestActive /\ n \in Nat /\ DOMAIN memory = 1..n
  BY <1>b DEF DecidedInv, MemoryInv, TypeOK
<1>1. /\ x # Nothing /\ x.seen # 0 /\ ~Taken(x)
      /\ memory' = Superseded(x)
      /\ proposal' = [k \in Proposals |->
                        IF k \in ks THEN [proposal[k] EXCEPT !.status = "committed"]
                        ELSE Rejected(x.rejects)[k]]
      /\ termbase' = termbase \cup x.locks
      /\ crossed' = (crossed \/ x.read < x.seen \/ Decided(ks \cup x.rejects))
      /\ txn' = [txn EXCEPT ![t] = Nothing]
      /\ UNCHANGED <<runs, prepared>>
  BY <1>a DEF Commit
<1>2. x \in Txn /\ TxnOK(x)
  BY <1>a, <1>0, <1>1 DEF MemoryInv, TxnInv, TypeOK
<1>3. \A k \in ks \cup x.rejects : k \in Proposals /\ Known(k)
  BY <1>2 DEF TxnOK, Txn, Committed, ToSet
<1>4. Decides(ks, x.rejects) /\ proposal' \in [Proposals -> Proposal]
  BY <1>0, <1>1, <1>3, StatusStep
<1>5. /\ x.read \in 1..n /\ m \in Nat /\ x.read < m
      /\ Len(memory') = IF m > n THEN m ELSE n
  BY <1>b, <1>c, <1>0, <1>1, <1>2, SupersededFacts
<1>d. memory' \in Seq([active: BOOLEAN, content: Content]) /\ memory'[Len(memory')].active
  BY <1>0, <1>1, <1>2, SupersededFacts
<1> HIDE DEF ks
<1>6. MemoryInv'
  <2>1. TypeOK'
    <3>1. termbase' \subseteq Concepts
      BY <1>0, <1>1, <1>2 DEF TypeOK, Txn
    <3>2. crossed' \in BOOLEAN
      BY <1>1
    <3>3. txn' \in [Txns -> Txn \cup {Nothing}]
      BY <1>0, <1>1 DEF TypeOK
    <3>4. QED
      BY <1>0, <1>1, <1>4, <1>d, <3>1, <3>2, <3>3 DEF TypeOK
  <2>2. AttemptsInOrder' /\ BegunInv' /\ BasesExist' /\ TxnInv'
    <3>1. Len(memory') \in Nat /\ n <= Len(memory')
      BY <1>0, <1>5
    <3>2. txn' = [txn EXCEPT ![t] = Nothing] /\ UNCHANGED <<runs, prepared>>
      BY <1>1
    <3>3. QED
      BY <1>b, <1>0, <1>4, <3>1, <3>2, DecidedFrame
  <2>3. NewestActive'
    BY <1>0, <1>5, <1>d DEF NewestActive
  <2>4. QED
    BY <2>1, <2>2, <2>3 DEF MemoryInv
<1>7. ASSUME crossed'
      PROVE  DecidedInv'
  BY <1>6, <1>7 DEF DecidedInv, WrittenOnce, OneActive
<1>8. ASSUME ~crossed'
      PROVE  DecidedInv'
  <2>1. ~crossed /\ ~(x.read < x.seen) /\ ~Decided(ks \cup x.rejects)
    BY <1>1, <1>8
  <2>2. x.read = n /\ Len(memory') = m /\ n < m /\ m \in Nat
    BY <1>b, <1>c, <1>0, <1>1, <1>2, <1>5, <2>1, AppendedRows
  <2>a. /\ \A v \in 1..m : v >= n => (memory'[v].active => v = m)
        /\ \A v \in 1..m : v < n => memory'[v] = memory[v]
    BY <1>b, <1>c, <1>0, <1>1, <1>2, <2>1, AppendedRows
  <2>b. /\ \A v \in 1..m : v = n => memory'[v].content = memory[v].content
        /\ \A v \in 1..m : v > n => memory'[v].content = Written(x, v - n)
    BY <1>b, <1>c, <1>0, <1>1, <1>2, <2>1, <2>2, AppendedRows
  <2>3. DOMAIN memory' = 1..m
    BY <1>d, <2>2
  <2>4. \A v \in 1..n : v \in 1..m /\ memory'[v].content = memory[v].content
    <3>1. SUFFICES ASSUME NEW v \in 1..n
                   PROVE  v \in 1..m /\ memory'[v].content = memory[v].content
      OBVIOUS
    <3>2. v \in 1..m /\ (v = n \/ v < n)
      BY <1>0, <2>2
    <3>3. QED
      BY <2>a, <2>b, <3>2
  <2>5. x.content = memory[n].content
    BY <1>a, <1>1, <1>5, <2>1, <2>2 DEF DecidedInv, WrittenOnce
  <2>6. OneActive'
    <3>1. \A v \in DOMAIN memory' : memory'[v].active => v = m
      <4>1. SUFFICES ASSUME NEW v \in 1..m, memory'[v].active
                     PROVE  v = m
        BY <2>3
      <4>2. v < n => FALSE
        <5>1. SUFFICES ASSUME v < n
                       PROVE  FALSE
          OBVIOUS
        <5>2. v \in 1..n /\ v # n
          BY <1>0, <5>1
        <5>3. memory[v].active /\ v \in DOMAIN memory
          BY <1>0, <2>a, <4>1, <5>1, <5>2
        <5>4. QED
          BY <1>b, <2>1, <5>2, <5>3 DEF DecidedInv, OneActive
      <4>3. v >= n
        BY <1>0, <4>1, <4>2
      <4>4. QED
        BY <2>a, <4>1, <4>3
    <3>2. QED
      BY <2>2, <3>1 DEF OneActive
  <2>7. WrittenOnce'
    <3>1. \A k \in Proposals : Known(k)' =>
            proposal'[k].content = Quoting(memory'[proposal'[k].base].content, k)
      <4>1. SUFFICES ASSUME NEW k \in Proposals, Known(k)
                     PROVE  proposal'[k].content = Quoting(memory'[proposal'[k].base].content, k)
        BY <1>4 DEF Decides
      <4>2. proposal[k].base \in 1..n
        BY <1>0, <4>1 DEF MemoryInv, BasesExist
      <4>3. proposal'[k].content = proposal[k].content /\ proposal'[k].base = proposal[k].base
        BY <1>4 DEF Decides
      <4>4. proposal[k].content = Quoting(memory[proposal[k].base].content, k)
        BY <2>1, <4>1 DEF DecidedInv, WrittenOnce
      <4>5. QED
        BY <2>4, <4>2, <4>3, <4>4 DEF Quoting
    <3>2. \A u \in Txns : txn'[u] # Nothing /\ txn'[u].read # 0 =>
            txn'[u].content = memory'[txn'[u].read].content
      <4>1. SUFFICES ASSUME NEW u \in Txns, txn'[u] # Nothing, txn'[u].read # 0
                     PROVE  txn'[u].content = memory'[txn'[u].read].content
        OBVIOUS
      <4>2. txn'[u] = txn[u]
        BY <1>0, <1>1, <4>1 DEF TypeOK
      <4>3. txn[u].read \in 1..n
        BY <1>0, <4>1, <4>2 DEF MemoryInv, TxnInv, TxnOK, TypeOK, Txn
      <4>4. txn[u].content = memory[txn[u].read].content
        BY <2>1, <4>1, <4>2 DEF DecidedInv, WrittenOnce
      <4>5. QED
        BY <2>4, <4>2, <4>3, <4>4
    <3>3. \A v \in DOMAIN memory' : memory'[v].content.terms \subseteq termbase'
      <4>1. SUFFICES ASSUME NEW v \in 1..m
                     PROVE  memory'[v].content.terms \subseteq termbase \cup x.locks
        BY <1>1, <2>3
      <4>2. CASE v <= n
        <5>1. v \in DOMAIN memory
          BY <1>0, <4>1, <4>2
        <5>2. memory[v].content.terms \subseteq termbase
          BY <2>1, <5>1 DEF DecidedInv, WrittenOnce
        <5>3. QED
          BY <1>0, <2>4, <5>1, <5>2
      <4>3. CASE v > n
        <5>1. v - n \in Nat /\ (x.locks # {} \/ v - n <= Len(x.commits))
          <6>1. x.locks # {} => m = n + 1
            BY <1>c, <2>2 DEF Target
          <6>2. x.locks = {} => m = n + Len(x.commits)
            BY <1>c, <2>2 DEF Target
          <6>3. Len(x.commits) \in Nat
            BY <1>2 DEF Txn
          <6>4. QED
            BY <1>0, <2>2, <4>1, <4>3, <6>1, <6>2, <6>3
        <5>2. Written(x, v - n).terms \subseteq termbase \cup x.locks
          BY <1>b, <1>2, <2>1, <2>2, <2>5, <5>1, WrittenTerms
        <5>3. QED
          BY <2>b, <4>1, <4>3, <5>2
      <4>4. QED
        BY <1>0, <4>1, <4>2, <4>3
    <3>4. QED
      BY <3>1, <3>2, <3>3 DEF WrittenOnce, Quoting
  <2> DEFINE now == memory[n].content
             new == memory'[m].content
  <2>8. new = Written(x, m - n)
    <3>1. m \in 1..m /\ m > n
      BY <1>0, <2>2
    <3>2. QED
      BY <2>b, <3>1
  <2>9. /\ \A k \in ks : k \in Proposals /\ new.entry[k[1]] = k[2] /\ k[2] = runs[k[1]]
        /\ \A p \in Packets : (\E k \in ks : k[1] = p) \/ new.entry[p] = now.entry[p]
        /\ now.terms \cup x.locks \subseteq new.terms
    BY <1>b, <1>c, <1>2, <2>1, <2>2, <2>5, <2>8, NewestContent DEF ks
  <2>10. /\ \A k \in Proposals : Is(k, "committed") => now.entry[k[1]] >= k[2]
         /\ termbase \subseteq now.terms
         /\ \A p \in Packets : now.entry[p] # 0 => Is(<<p, now.entry[p]>>, "committed")
    BY <1>b, <2>1 DEF DecidedInv
  <2> HIDE DEF now, new
  <2>11. \A k \in Proposals : Is(k, "committed")' => new.entry[k[1]] >= k[2]
    <3>1. SUFFICES ASSUME NEW k \in Proposals, Is(k, "committed")'
                   PROVE  new.entry[k[1]] >= k[2]
      OBVIOUS
    <3>2. k[1] \in Packets /\ k[2] \in Nat
      BY ChapterMemoryAssumption DEF Proposals, Attempts
    <3>3. k \in ks \/ Is(k, "committed")
      BY <1>4, <3>1 DEF Decides
    <3>4. CASE k \in ks
      BY <2>9, <3>2, <3>4
    <3>5. CASE Is(k, "committed") /\ \E l \in ks : l[1] = k[1]
      <4>1. PICK l \in ks : l[1] = k[1]
        BY <3>5
      <4>2. new.entry[k[1]] = runs[k[1]]
        BY <2>9, <4>1
      <4>3. k[2] <= runs[k[1]]
        BY <1>0, <3>5 DEF MemoryInv, AttemptsInOrder, Known, Is
      <4>4. runs[k[1]] \in Nat
        BY <1>0, <3>2 DEF TypeOK
      <4>5. QED
        BY <3>2, <4>2, <4>3, <4>4
    <3>6. CASE Is(k, "committed") /\ ~\E l \in ks : l[1] = k[1]
      BY <2>9, <2>10, <3>2, <3>6
    <3>7. QED
      BY <3>3, <3>4, <3>5, <3>6
  <2>12. \A p \in Packets : new.entry[p] # 0 => proposal'[<<p, new.entry[p]>>].status = "committed"
    <3>1. SUFFICES ASSUME NEW p \in Packets, new.entry[p] # 0, NEW k, k = <<p, new.entry[p]>>
                   PROVE  proposal'[k].status = "committed"
      OBVIOUS
    <3>2. k \in Proposals => /\ k \in ks => proposal'[k].status = "committed"
                             /\ Is(k, "committed") /\ k \notin x.rejects => proposal'[k].status = "committed"
      BY <1>4 DEF Decides, Is
    <3>3. CASE \E l \in ks : l[1] = p
      <4>1. PICK l \in ks : l[1] = p
        BY <3>3
      <4>2. l \in Proposals /\ l[2] = new.entry[p]
        BY <2>9, <4>1
      <4>3. l = k
        BY <3>1, <4>1, <4>2 DEF Proposals
      <4>4. QED
        BY <3>2, <4>1, <4>2, <4>3
    <3>4. CASE ~\E l \in ks : l[1] = p
      <4>1. new.entry[p] = now.entry[p]
        BY <2>9, <3>4
      <4>2. Is(k, "committed")
        BY <2>10, <3>1, <4>1
      <4>3. k \notin x.rejects
        BY <2>1, <4>2 DEF Decided, Is
      <4>4. k \in Proposals
        <5>1. new.entry[p] \in 0..MaxTranslations
          <6> DEFINE Row == [active: BOOLEAN, content: Content]
          <6>1. memory' \in Seq(Row)
            BY <1>d
          <6>2. m \in DOMAIN memory'
            BY <1>0, <2>2, <2>3
          <6> HIDE DEF Row
          <6>3. memory'[m] \in Row
            BY <6>1, <6>2
          <6>4. new \in Content
            BY <6>3 DEF Row, new
          <6>5. QED
            BY <6>4 DEF Content
        <5>2. QED
          BY <3>1, <5>1, ChapterMemoryAssumption DEF Proposals, Attempts
      <4>5. QED
        BY <3>2, <4>2, <4>3, <4>4
    <3>5. QED
      BY <3>3, <3>4
  <2>13. termbase' \subseteq new.terms
    BY <1>1, <2>9, <2>10
  <2>14. /\ \A k \in Proposals : Is(k, "committed")' => memory'[Len(memory')].content.entry[k[1]] >= k[2]
         /\ termbase' \subseteq memory'[Len(memory')].content.terms
         /\ \A p \in Packets : memory'[Len(memory')].content.entry[p] # 0
              => proposal'[<<p, memory'[Len(memory')].content.entry[p]>>].status = "committed"
    BY <2>2, <2>11, <2>12, <2>13 DEF new
  <2>15. QED
    BY <1>6, <2>6, <2>7, <2>14 DEF DecidedInv, Is
<1>9. QED
  BY <1>7, <1>8

LEMMA DecidedInvInit == Init => DecidedInv
<1> SUFFICES ASSUME Init
             PROVE  DecidedInv
  OBVIOUS
<1>1. Seed \in Content /\ Seed.terms = {} /\ \A p \in Packets : Seed.entry[p] = 0
  BY ChapterMemoryAssumption DEF Seed, Content
<1>2. Len(memory) = 1 /\ DOMAIN memory = 1..1 /\ memory[1] = [active |-> TRUE, content |-> Seed]
  BY DEF Init
<1>3. TypeOK
  <2>1. memory \in Seq([active: BOOLEAN, content: Content])
    BY <1>1 DEF Init
  <2>2. proposal \in [Proposals -> Proposal]
    BY <1>1 DEF Init, Proposal
  <2>3. runs \in [Packets -> 0..MaxTranslations] /\ prepared \in [Packets -> Nat]
    BY ChapterMemoryAssumption DEF Init
  <2>4. termbase \subseteq Concepts /\ txn \in [Txns -> Txn \cup {Nothing}] /\ crossed \in BOOLEAN
    BY DEF Init
  <2>5. QED
    BY <2>1, <2>2, <2>3, <2>4 DEF TypeOK
<1>4. AttemptsInOrder /\ BasesExist
  <2>1. \A k \in Proposals : k[1] \in Packets /\ k[2] \in Nat /\ k[2] > 0 /\ proposal[k].status = "none"
    BY ChapterMemoryAssumption DEF Init, Proposals, Attempts
  <2>2. QED
    BY <1>2, <2>1 DEF Init, AttemptsInOrder, BasesExist, Known, Is
<1>5. BegunInv
  <2>1. {k \in Proposals : ~Is(k, "none")} = {} /\ {p \in Packets : prepared[p] # 0} = {}
    BY DEF Init, Is
  <2>2. Begun = 0
    BY <2>1, FS_EmptySet DEF Begun
  <2>3. QED
    BY <2>2, ChapterMemoryAssumption DEF BegunInv
<1>6. NewestActive /\ TxnInv
  BY <1>2 DEF Init, NewestActive, TxnInv
<1>7. \A k \in Proposals : ~Known(k) /\ ~Is(k, "committed")
  BY DEF Init, Known, Is
<1>8. WrittenOnce /\ OneActive
  BY <1>1, <1>2, <1>7 DEF Init, WrittenOnce, OneActive
<1>9. QED
  BY <1>1, <1>2, <1>3, <1>4, <1>5, <1>6, <1>7, <1>8 DEF Init, DecidedInv, MemoryInv

LEMMA DecidedInvNext == DecidedInv /\ [Next]_vars => DecidedInv'
<1> SUFFICES ASSUME DecidedInv, [Next]_vars
             PROVE  DecidedInv'
  OBVIOUS
<1>1. CASE UNCHANGED vars
  BY <1>1 DEF vars, DecidedInv, MemoryInv, TypeOK, AttemptsInOrder, BegunInv, Begun, BasesExist,
              NewestActive, TxnInv, TxnOK, Creates, WrittenOnce, OneActive, Known, Is, Quoting
<1>2. QED
  BY <1>1, PrepareStep, PersistStep, DecisionStep, ReadStep, CommitStep, RejectStep DEF Next

LEMMA DecidedInvariant == Spec => []DecidedInv
BY DecidedInvInit, DecidedInvNext, PTL DEF Spec

-----------------------------------------------------------------------------
(* The theorems.                                                           *)

\* Every row and every transaction is well typed, whatever the instance.
THEOREM TypeCorrect == Spec => []TypeOK
<1>1. DecidedInv => TypeOK
  BY DEF DecidedInv, MemoryInv
<1>2. QED
  BY <1>1, DecidedInvariant, PTL

\* The snapshot that load_latest finds is the newest, although transactions that
\* crossed may have written over rows of each other.
THEOREM NewestIsLoaded == Spec => []CurrentIsNewest
<1>1. DecidedInv => CurrentIsNewest
  BY LatestIsNewest DEF DecidedInv, MemoryInv, OneActive, CurrentIsNewest
<1>2. QED
  BY <1>1, DecidedInvariant, PTL

\* No approval, review or locked term is lost from the current memory, as long as
\* no two decisions wrote over each other.
THEOREM DecisionsAreKept == Spec => []NothingForgotten
<1>1. DecidedInv => NothingForgotten
  BY LatestIsNewest DEF DecidedInv, MemoryInv, NothingForgotten
<1>2. QED
  BY <1>1, DecidedInvariant, PTL

\* The current memory quotes nothing that nobody decided on, as long as no two
\* decisions wrote over each other.
THEOREM OnlyDecisionsAreQuoted == Spec => []OnlyDecidedIsQuoted
<1>1. DecidedInv => OnlyDecidedIsQuoted
  <2>1. SUFFICES ASSUME DecidedInv, ~crossed
                 PROVE  OnlyDecidedIsQuoted
    BY DEF OnlyDecidedIsQuoted
  <2>2. Latest = Len(memory) /\ Len(memory) \in DOMAIN memory
    BY <2>1, LatestIsNewest DEF DecidedInv, MemoryInv
  <2>3. QED
    BY <2>1, <2>2 DEF DecidedInv, WrittenOnce, OnlyDecidedIsQuoted
<1>2. QED
  BY <1>1, DecidedInvariant, PTL
=============================================================================
