---------------------------- MODULE GossipProofs ----------------------------
(***************************************************************************)
(* Proofs about Gossip, for any devices, files, contacts and bounds: what   *)
(* devices tell each other is true, and no exchange takes a file from the   *)
(* device that shared it.                                                   *)
(***************************************************************************)
EXTENDS Gossip, SequenceTheorems, FiniteSetTheorems, TLAPS

\* A statement is true of the devices it is about: who is said to have forked
\* has the evidence, and who is said to be the origin of a file shared it.
IsTrue(s) ==
  /\ s \in PeerStmt /\ s.fork = TRUE => forks[s.key][s.key] > 0
  /\ s \in FileStmt => files[s.origin][s.key] = s.origin

\* What is under way is true.
NetIsTrue ==
  \A d \in Device : \A i \in DOMAIN net[d] : \A s \in net[d][i].items : IsTrue(s)

Inv == TypeOK /\ HearsayIsTrue /\ FilesHaveOrigin /\ NetIsTrue

USE DeviceAssumption, ContactAssumption, NoRowAssumption, BoundsAssumption

\* The three kinds of statements differ in op.
LEMMA StmtKinds ==
  /\ \A s \in PeerStmt : s.op \in {"self", "peer"} /\ s.key \in Device /\ s.fork \in BOOLEAN
  /\ \A s \in FileStmt : s.op = "file" /\ s.key \in File /\ s.origin \in Device
  /\ \A s \in ForkStmt : s.op = "fork" /\ s.key \in Device /\ s.n \in 1 .. MaxForks
  BY DEF PeerStmt, FileStmt, ForkStmt

\* kSubset and the first rows of a list are parts of it.
LEMMA FirstRowsInside == ASSUME NEW S, NEW n, NEW R \in FirstRows(S, n) PROVE R \subseteq S
  BY DEF FirstRows, kSubset

\* ApplyByteBudget only leaves rows out.
LEMMA BudgetInside ==
  ASSUME NEW F, NEW P, NEW M, NEW S \in ApplyByteBudget(F, P, M)
  PROVE  S \subseteq F \cup P \cup M
  <1>. DEFINE left == MaxItems - Cardinality(F)
  <1>. DEFINE m == left - Cardinality(P)
  <1>1. \/ S = F \cup P \cup M
        \/ S \in FirstRows(F, MaxItems)
        \/ \E p \in FirstRows(P, left) : S = F \cup p
        \/ \E q \in FirstRows(M, m) : S = F \cup P \cup q
    BY DEF ApplyByteBudget
  <1>. HIDE DEF left, m
  <1>. QED  BY <1>1, FirstRowsInside

\* What RunGossip sends has the type of a payload and is true, because it is
\* the sender's own flag and rows that are true already.
LEMMA PayloadIsTrue ==
  ASSUME Inv, NEW d \in Node, NEW m \in BuildGossipPayload(d)
  PROVE  m \in Payload /\ \A s \in m.items : IsTrue(s)
  <1>. DEFINE F == GetForkEvidence(d) P == GetAllPeers(d) M == ListFiles(d)
  <1>0. PICK S \in ApplyByteBudget(F, P, M) :
          m = [from |-> d, items |-> {buildSelfSummary(d)} \cup S]
    BY DEF BuildGossipPayload
  <1>1. d \in Device  BY DEF Device
  <1>2. F \subseteq ForkStmt
    BY <1>1 DEF Inv, TypeOK, GetForkEvidence, ForkStmt
  <1>3. P \subseteq PeerStmt /\ \A s \in P : IsTrue(s)
    <2>1. SUFFICES ASSUME NEW x \in Device, peers[d][x] # NoRow
                   PROVE LET s == [op |-> "peer", key |-> x, fork |-> peers[d][x]]
                         IN s \in PeerStmt /\ IsTrue(s)
      BY DEF GetAllPeers
    <2>2. peers[d][x] \in BOOLEAN  BY <1>1, <2>1 DEF Inv, TypeOK
    <2>3. peers[d][x] = TRUE => forks[x][x] > 0  BY <1>1 DEF Inv, HearsayIsTrue
    <2>4. [op |-> "peer", key |-> x, fork |-> peers[d][x]] \in PeerStmt
      BY <2>2 DEF PeerStmt
    <2>5. [op |-> "peer", key |-> x, fork |-> peers[d][x]] \notin FileStmt
      BY StmtKinds
    <2>. QED  BY <2>3, <2>4, <2>5 DEF IsTrue
  <1>4. M \subseteq FileStmt /\ \A s \in M : IsTrue(s)
    <2>1. SUFFICES ASSUME NEW f \in File, files[d][f] # NoRow
                   PROVE LET s == [op |-> "file", key |-> f, origin |-> files[d][f]]
                         IN s \in FileStmt /\ IsTrue(s)
      BY DEF ListFiles
    <2>2. files[d][f] \in Device  BY <1>1, <2>1 DEF Inv, TypeOK
    <2>3. files[files[d][f]][f] = files[d][f]  BY <1>1, <2>1 DEF Inv, FilesHaveOrigin
    <2>4. [op |-> "file", key |-> f, origin |-> files[d][f]] \in FileStmt
      BY <2>2 DEF FileStmt
    <2>5. [op |-> "file", key |-> f, origin |-> files[d][f]] \notin PeerStmt
      BY StmtKinds
    <2>. QED  BY <2>3, <2>4, <2>5 DEF IsTrue
  <1>5. buildSelfSummary(d) \in PeerStmt /\ IsTrue(buildSelfSummary(d))
    <2>1. buildSelfSummary(d) \in PeerStmt  BY <1>1 DEF buildSelfSummary, PeerStmt
    <2>2. buildSelfSummary(d) \notin FileStmt  BY <2>1, StmtKinds
    <2>3. buildSelfSummary(d).fork = TRUE => forks[d][d] > 0  BY DEF buildSelfSummary
    <2>4. buildSelfSummary(d).key = d  BY DEF buildSelfSummary
    <2>. QED  BY <2>1, <2>2, <2>3, <2>4 DEF IsTrue
  <1>6. \A s \in F : IsTrue(s)
    BY <1>2, StmtKinds DEF IsTrue
  <1>7. S \subseteq F \cup P \cup M
    BY BudgetInside
  <1>. HIDE DEF F, P, M
  <1>. QED  BY <1>0, <1>2, <1>3, <1>4, <1>5, <1>6, <1>7 DEF Payload, Stmt

-----------------------------------------------------------------------------
(* What a handler does to the tables.                                       *)

\* The statements a handler executes: part of the next message, and all of
\* them succeed.
LEMMA ExecutedSucceeds ==
  ASSUME NEW d, NEW S, NEW B \in Executed(d, S), NEW A \in {B} \cup Begun(d, B)
  PROVE  A \subseteq S /\ \A s \in A : ~Fails(d, s)
  BY DEF Executed, Begun

\* UpsertPeer: a row is as it was or says what an executed statement says.
LEMMA PeersAfter ==
  ASSUME Inv, NEW d \in Device, NEW A \in SUBSET Stmt, UpsertPeer(d, A)
  PROVE  /\ peers' \in [Device -> [Device -> BOOLEAN \cup {NoRow}]]
         /\ \A e, x \in Device : \/ peers'[e][x] = peers[e][x]
                                 \/ \E s \in A : s \in PeerStmt /\ s.key = x /\ peers'[e][x] = s.fork
  <1>. DEFINE about(x) == {s \in A : s.op \in {"self", "peer"} /\ s.key = x}
              last(x) == CHOOSE s \in about(x) : \A t \in about(x) : Rank(d, t) <= Rank(d, s)
              row == [x \in Device |-> IF about(x) = {} THEN peers[d][x] ELSE last(x).fork]
  <1>0. peers \in [Device -> [Device -> BOOLEAN \cup {NoRow}]]  BY DEF Inv, TypeOK
  <1>1. peers' = [peers EXCEPT ![d] = row]
    BY <1>0 DEF UpsertPeer
  <1>2. ASSUME NEW x \in Device, about(x) # {} PROVE last(x) \in about(x)
    <2>1. /\ \A s \in about(x) : Rank(d, s) \in 1 .. 2
          /\ \E s \in about(x) : \A t \in about(x) : Rank(d, t) <= Rank(d, s)
      <3>1. \A s \in about(x) : Rank(d, s) \in 1 .. 2
        BY DEF Rank, ProcessGossipPayload, onGossip
      <3>2. CASE \E s \in about(x) : Rank(d, s) = 2
        <4>1. PICK s \in about(x) : Rank(d, s) = 2  BY <3>2
        <4>2. \A t \in about(x) : Rank(d, t) <= Rank(d, s)  BY <3>1, <4>1
        <4>. QED  BY <3>1, <4>2
      <3>3. CASE \A s \in about(x) : Rank(d, s) # 2
        <4>1. PICK s : s \in about(x)  BY <1>2
        <4>2. \A t \in about(x) : Rank(d, t) = 1  BY <3>1, <3>3
        <4>3. \A t \in about(x) : Rank(d, t) <= Rank(d, s)  BY <4>1, <4>2
        <4>. QED  BY <3>1, <4>1, <4>3
      <3>. QED  BY <3>2, <3>3
    <2>. QED  BY <2>1
  <1>3. \A s \in A : s.op \in {"self", "peer"} => s \in PeerStmt
    BY StmtKinds DEF Stmt
  <1>4. ASSUME NEW x \in Device
        PROVE \/ row[x] = peers[d][x]
              \/ \E s \in A : s \in PeerStmt /\ s.key = x /\ row[x] = s.fork
    <2>1. CASE about(x) = {}  BY <2>1
    <2>2. CASE about(x) # {}
      <3>1. last(x) \in about(x)  BY <1>2, <2>2
      <3>2. row[x] = last(x).fork  BY <2>2
      <3>3. last(x) \in A /\ last(x) \in PeerStmt /\ last(x).key = x  BY <1>3, <3>1
      <3>. HIDE DEF last, row
      <3>. QED  BY <3>2, <3>3
    <2>. QED  BY <2>1, <2>2
  <1>5. row \in [Device -> BOOLEAN \cup {NoRow}]
    <2>1. \A x \in Device : row[x] \in BOOLEAN \cup {NoRow}
      <3>. HIDE DEF row
      <3>. QED  BY <1>0, <1>4, StmtKinds
    <2>2. row = [x \in Device |-> row[x]]  OBVIOUS
    <2>. HIDE DEF row
    <2>. QED  BY <2>1, <2>2
  <1>. HIDE DEF row
  <1>. QED  BY <1>0, <1>1, <1>4, <1>5

\* InsertFileMeta: a row that is there stays, a new one names the origin an
\* executed statement names.
LEMMA FilesAfter ==
  ASSUME Inv, NEW d \in Device, NEW A \in SUBSET Stmt, \A s \in A : ~Fails(d, s),
         InsertFileMeta(d, A)
  PROVE  /\ files' \in [Device -> [File -> Device \cup {NoRow}]]
         /\ \A e \in Device, f \in File :
              \/ files'[e][f] = files[e][f]
              \/ /\ files[e][f] = NoRow
                 /\ \E s \in A : s \in FileStmt /\ s.key = f /\ files'[e][f] = s.origin
  <1>. DEFINE rows(f) == {s \in Section(A, "file") : s.key = f}
              pick(f) == CHOOSE s \in rows(f) : TRUE
              row == [f \in File |-> IF rows(f) = {} THEN files[d][f] ELSE pick(f).origin]
  <1>0. files \in [Device -> [File -> Device \cup {NoRow}]]  BY DEF Inv, TypeOK
  <1>1. files' = [files EXCEPT ![d] = row]
    BY <1>0 DEF InsertFileMeta
  <1>2. \A s \in A : s.op = "file" => s \in FileStmt /\ files[d][s.key] = NoRow
    BY StmtKinds DEF Stmt, Fails
  <1>4. ASSUME NEW f \in File
        PROVE \/ row[f] = files[d][f]
              \/ /\ files[d][f] = NoRow
                 /\ \E s \in A : s \in FileStmt /\ s.key = f /\ row[f] = s.origin
    <2>1. CASE rows(f) = {}  BY <2>1
    <2>2. CASE rows(f) # {}
      <3>1. pick(f) \in rows(f)  BY <2>2
      <3>2. row[f] = pick(f).origin  BY <2>2
      <3>3. pick(f) \in A /\ pick(f) \in FileStmt /\ pick(f).key = f /\ files[d][f] = NoRow
        BY <1>2, <3>1 DEF Section
      <3>. HIDE DEF pick, row
      <3>. QED  BY <3>2, <3>3
    <2>. QED  BY <2>1, <2>2
  <1>5. row \in [File -> Device \cup {NoRow}]
    <2>1. \A f \in File : row[f] \in Device \cup {NoRow}
      <3>. HIDE DEF row
      <3>. QED  BY <1>0, <1>4, StmtKinds
    <2>2. row = [f \in File |-> row[f]]  OBVIOUS
    <2>. HIDE DEF row
    <2>. QED  BY <2>1, <2>2
  <1>. HIDE DEF row
  <1>. QED  BY <1>0, <1>1, <1>4, <1>5

\* InsertForkEvidence: evidence is never taken away.
LEMMA ForksAfter ==
  ASSUME Inv, NEW d \in Device, NEW A \in SUBSET Stmt, InsertForkEvidence(d, A)
  PROVE  /\ forks' \in [Device -> [Device -> 0 .. MaxForks]]
         /\ \A e, x \in Device : forks[e][x] <= forks'[e][x]
  <1>. DEFINE rows(x) == {s \in Section(A, "fork") : s.key = x}
              sum(x) == forks[d][x] + Cardinality(rows(x))
              row == [x \in Device |-> IF sum(x) <= MaxForks THEN sum(x) ELSE MaxForks]
  <1>0. forks \in [Device -> [Device -> 0 .. MaxForks]]  BY DEF Inv, TypeOK
  <1>1. forks' = [forks EXCEPT ![d] = row]
    BY <1>0 DEF InsertForkEvidence
  <1>2. ASSUME NEW x \in Device PROVE Cardinality(rows(x)) \in Nat
    <2>. DEFINE all == {[op |-> "fork", key |-> x, n |-> i] : i \in 1 .. MaxForks}
                g == [i \in 1 .. MaxForks |-> [op |-> "fork", key |-> x, n |-> i]]
    <2>1. IsFiniteSet(1 .. MaxForks)  BY FS_Interval
    <2>2. g \in Surjection(1 .. MaxForks, all)  BY DEF Surjection
    <2>3. IsFiniteSet(all)
      <3>. HIDE DEF all, g
      <3>. QED  BY <2>1, <2>2, FS_Surjection
    <2>4. rows(x) \subseteq all
      BY StmtKinds DEF Section, Stmt, ForkStmt
    <2>. HIDE DEF all, rows
    <2>. QED  BY <2>3, <2>4, FS_Subset, FS_CardinalityType
  <1>3. ASSUME NEW x \in Device PROVE row[x] \in 0 .. MaxForks /\ forks[d][x] <= row[x]
    <2>1. forks[d][x] \in 0 .. MaxForks  BY <1>0
    <2>2. Cardinality(rows(x)) \in Nat  BY <1>2
    <2>3. row[x] = IF sum(x) <= MaxForks THEN sum(x) ELSE MaxForks  OBVIOUS
    <2>. HIDE DEF rows, row
    <2>. QED  BY <2>1, <2>2, <2>3
  <1>4. row \in [Device -> 0 .. MaxForks]
    <2>1. row = [x \in Device |-> row[x]]  OBVIOUS
    <2>. HIDE DEF row
    <2>. QED  BY <1>3, <2>1
  <1>. HIDE DEF row
  <1>5. \A e \in Device : \A x \in Device : forks[e][x] <= forks'[e][x]
    <2>1. SUFFICES ASSUME NEW e \in Device, NEW x \in Device PROVE forks[e][x] <= forks'[e][x]
      OBVIOUS
    <2>2. CASE e = d  BY <1>0, <1>1, <1>3, <2>2
    <2>3. CASE e # d
      <3>1. forks'[e] = forks[e]  BY <1>0, <1>1, <2>3
      <3>2. forks[e][x] \in Nat  BY <1>0
      <3>. QED  BY <3>1, <3>2
    <2>. QED  BY <2>2, <2>3
  <1>. QED  BY <1>0, <1>1, <1>4, <1>5

-----------------------------------------------------------------------------
(* What the tables keep makes true statements stay true.                    *)

\* No row of files or of fork_evidence is taken away.
Grows ==
  /\ \A e \in Device, f \in File : files[e][f] # NoRow => files'[e][f] = files[e][f]
  /\ \A e, x \in Device : forks[e][x] > 0 => forks'[e][x] > 0

\* A true statement stays true while the tables grow.
LEMMA TruthStays ==
  ASSUME Grows, NEW s \in Stmt, IsTrue(s) PROVE IsTrue(s)'
  <1>1. s \in PeerStmt /\ s.fork = TRUE => forks'[s.key][s.key] > 0
    BY StmtKinds DEF Grows, IsTrue
  <1>2. s \in FileStmt => files'[s.origin][s.key] = s.origin
    <2>1. SUFFICES ASSUME s \in FileStmt PROVE files'[s.origin][s.key] = s.origin
      OBVIOUS
    <2>2. s.origin \in Device /\ s.key \in File  BY <2>1, StmtKinds
    <2>3. files[s.origin][s.key] = s.origin  BY <2>1 DEF IsTrue
    <2>. QED  BY <2>2, <2>3 DEF Grows
  <1>. QED  BY <1>1, <1>2 DEF IsTrue

\* A message under way is a payload, and so are those behind it.
LEMMA NextMessage ==
  ASSUME TypeOK, NEW d \in Device, net[d] # <<>>
  PROVE  /\ Head(net[d]) \in Payload /\ Head(net[d]) = net[d][1] /\ 1 \in DOMAIN net[d]
         /\ Tail(net[d]) \in Seq(Payload)
         /\ \A i \in DOMAIN Tail(net[d]) :
              i + 1 \in DOMAIN net[d] /\ Tail(net[d])[i] = net[d][i + 1]
  <1>1. net[d] \in Seq(Payload)  BY DEF TypeOK
  <1>. QED  BY <1>1, HeadTailProperties

\* Taking the next message leaves true messages.
LEMMA TakingKeepsNet ==
  ASSUME Inv, Grows, NEW d \in Device, net[d] # <<>>, net' = [net EXCEPT ![d] = Tail(@)]
  PROVE  net' \in [Device -> Seq(Payload)] /\ NetIsTrue'
  <1>0. net \in [Device -> Seq(Payload)] /\ TypeOK  BY DEF Inv, TypeOK
  <1>1. net' \in [Device -> Seq(Payload)]  BY <1>0, NextMessage
  <1>2. ASSUME NEW e \in Device, NEW i \in DOMAIN net'[e], NEW s \in net'[e][i].items
        PROVE IsTrue(s)'
    <2>1. PICK j \in DOMAIN net[e] : net'[e][i] = net[e][j]
      <3>1. CASE e = d  BY <1>0, <3>1, NextMessage
      <3>2. CASE e # d  BY <1>0, <3>2
      <3>. QED  BY <3>1, <3>2
    <2>2. IsTrue(s)  BY <2>1 DEF Inv, NetIsTrue
    <2>3. net[e][j] \in Payload  BY <1>0, ElementOfSeq
    <2>4. s \in Stmt  BY <2>1, <2>3 DEF Payload
    <2>. QED  BY <2>2, <2>4, TruthStays
  <1>. QED  BY <1>1, <1>2 DEF NetIsTrue

-----------------------------------------------------------------------------
(* The steps.                                                               *)

\* A handler that executes statements that succeed, of a message that is true.
LEMMA HandleKeeps ==
  ASSUME Inv, NEW d \in Device, net[d] # <<>>, NEW A, A \subseteq Head(net[d]).items,
         \A s \in A : ~Fails(d, s), handle(d, A), faults' \in 0 .. MaxFaults
  PROVE  Inv'
  <1>0. TypeOK  BY DEF Inv
  <1>1. A \in SUBSET Stmt /\ \A s \in A : IsTrue(s)
    <2>1. Head(net[d]) \in Payload /\ Head(net[d]) = net[d][1] /\ 1 \in DOMAIN net[d]
      BY <1>0, NextMessage
    <2>2. Head(net[d]).items \in SUBSET Stmt  BY <2>1 DEF Payload
    <2>. QED  BY <2>1, <2>2 DEF Inv, NetIsTrue
  <1>2. /\ peers' \in [Device -> [Device -> BOOLEAN \cup {NoRow}]]
        /\ \A e, x \in Device : \/ peers'[e][x] = peers[e][x]
                                \/ \E s \in A : s \in PeerStmt /\ s.key = x /\ peers'[e][x] = s.fork
    <2>1. UpsertPeer(d, A)  BY DEF handle
    <2>. QED  BY <1>1, <2>1, PeersAfter
  <1>3. /\ files' \in [Device -> [File -> Device \cup {NoRow}]]
        /\ \A e \in Device, f \in File :
             \/ files'[e][f] = files[e][f]
             \/ /\ files[e][f] = NoRow
                /\ \E s \in A : s \in FileStmt /\ s.key = f /\ files'[e][f] = s.origin
    <2>1. InsertFileMeta(d, A)  BY DEF handle
    <2>. QED  BY <1>1, <2>1, FilesAfter
  <1>4. /\ forks' \in [Device -> [Device -> 0 .. MaxForks]]
        /\ \A e, x \in Device : forks[e][x] <= forks'[e][x]
    <2>1. InsertForkEvidence(d, A)  BY DEF handle
    <2>. QED  BY <1>1, <2>1, ForksAfter
  <1>5. Grows
    <2>1. \A e, x \in Device : forks[e][x] \in Nat /\ forks'[e][x] \in Nat
      BY <1>0, <1>4 DEF TypeOK
    <2>2. \A e, x \in Device : forks[e][x] > 0 => forks'[e][x] > 0
      BY <1>4, <2>1
    <2>. QED  BY <1>3, <2>2 DEF Grows
  <1>6. net' \in [Device -> Seq(Payload)] /\ NetIsTrue'
    <2>1. net' = [net EXCEPT ![d] = Tail(@)]  BY DEF handle
    <2>. QED  BY <1>5, <2>1, TakingKeepsNet
  <1>7. HearsayIsTrue'
    <2>1. SUFFICES ASSUME NEW e \in Device, NEW x \in Device, peers'[e][x] = TRUE
                   PROVE forks'[x][x] > 0
      BY DEF HearsayIsTrue
    <2>2. CASE peers'[e][x] = peers[e][x]
      BY <1>5, <2>1, <2>2 DEF Inv, HearsayIsTrue, Grows
    <2>3. CASE \E s \in A : s \in PeerStmt /\ s.key = x /\ peers'[e][x] = s.fork
      <3>1. PICK s \in A : s \in PeerStmt /\ s.key = x /\ s.fork = TRUE  BY <2>1, <2>3
      <3>2. forks[x][x] > 0  BY <1>1, <3>1 DEF IsTrue
      <3>. QED  BY <1>5, <3>2 DEF Grows
    <2>. QED  BY <1>2, <2>2, <2>3
  <1>8. FilesHaveOrigin'
    <2>1. SUFFICES ASSUME NEW e \in Device, NEW f \in File, files'[e][f] # NoRow
                   PROVE files'[files'[e][f]][f] = files'[e][f]
      BY DEF FilesHaveOrigin
    <2>. DEFINE o == files'[e][f]
    <2>2. o \in Device  BY <1>3, <2>1
    <2>3. files[o][f] = o
      <3>1. CASE files'[e][f] = files[e][f]
        BY <2>1, <3>1 DEF Inv, FilesHaveOrigin
      <3>2. CASE \E s \in A : s \in FileStmt /\ s.key = f /\ files'[e][f] = s.origin
        BY <1>1, <3>2 DEF IsTrue
      <3>. QED  BY <1>3, <3>1, <3>2
    <2>4. o # NoRow  BY <2>1
    <2>. HIDE DEF o
    <2>5. files'[o][f] = o  BY <1>5, <2>2, <2>3, <2>4 DEF Grows
    <2>. QED  BY <2>5 DEF o
  <1>. QED  BY <1>2, <1>3, <1>4, <1>6, <1>7, <1>8 DEF Inv, TypeOK

\* AdvertiseFile and ml_share_file add a row about a file that had none.
LEMMA ShareKeeps ==
  ASSUME Inv, NEW d \in Device, NEW f \in File, shareFile(d, f) PROVE Inv'
  <1>0. TypeOK  BY DEF Inv
  <1>1. files' \in [Device -> [File -> Device \cup {NoRow}]]
    BY <1>0 DEF TypeOK, shareFile
  <1>2. files'[d][f] = d /\ \A e \in Device, g \in File : <<e, g>> # <<d, f>> => files'[e][g] = files[e][g]
    BY <1>0 DEF TypeOK, shareFile
  <1>3. Grows
    BY <1>2 DEF Grows, shareFile
  <1>4. FilesHaveOrigin'
    <2>1. SUFFICES ASSUME NEW e \in Device, NEW g \in File, files'[e][g] # NoRow
                   PROVE files'[files'[e][g]][g] = files'[e][g]
      BY DEF FilesHaveOrigin
    <2>2. CASE <<e, g>> = <<d, f>>  BY <1>2, <2>2
    <2>3. CASE <<e, g>> # <<d, f>>
      <3>1. files'[e][g] = files[e][g]  BY <1>2, <2>3
      <3>2. files[e][g] \in Device  BY <1>0, <2>1, <3>1 DEF TypeOK
      <3>3. files[files[e][g]][g] = files[e][g]
        BY <2>1, <3>1 DEF Inv, FilesHaveOrigin
      <3>4. files[files[e][g]][g] # NoRow  BY <3>2, <3>3
      <3>. QED  BY <1>3, <3>1, <3>2, <3>3, <3>4 DEF Grows
    <2>. QED  BY <2>2, <2>3
  <1>5. HearsayIsTrue'  BY DEF Inv, HearsayIsTrue, shareFile
  <1>6. NetIsTrue'
    <2>1. SUFFICES ASSUME NEW e \in Device, NEW i \in DOMAIN net[e], NEW s \in net[e][i].items
                   PROVE IsTrue(s)'
      BY DEF NetIsTrue, shareFile
    <2>2. net[e] \in Seq(Payload)  BY <1>0 DEF TypeOK
    <2>3. net[e][i] \in Payload  BY <2>2, ElementOfSeq
    <2>4. s \in Stmt  BY <2>3 DEF Payload
    <2>. QED  BY <1>3, <2>4, TruthStays DEF Inv, NetIsTrue
  <1>7. TypeOK'  BY <1>0, <1>1 DEF TypeOK, shareFile
  <1>. QED  BY <1>4, <1>5, <1>6, <1>7 DEF Inv

\* Evidence that comes in by another way only adds to a table.
LEMMA LearnKeeps ==
  ASSUME Inv, NEW d \in Device, NEW x \in Device, learnFork(d, x) PROVE Inv'
  <1>0. TypeOK  BY DEF Inv
  <1>1. forks' \in [Device -> [Device -> 0 .. MaxForks]]
    BY <1>0 DEF TypeOK, learnFork
  <1>2. forks'[d][x] = 1 /\ \A e, y \in Device : <<e, y>> # <<d, x>> => forks'[e][y] = forks[e][y]
    BY <1>0 DEF TypeOK, learnFork
  <1>3. Grows
    <2>1. \A e, y \in Device : forks[e][y] > 0 => forks'[e][y] > 0
      BY <1>2
    <2>2. files' = files  BY DEF learnFork
    <2>. QED  BY <2>1, <2>2 DEF Grows
  <1>4. FilesHaveOrigin'  BY DEF Inv, FilesHaveOrigin, learnFork
  <1>5. HearsayIsTrue'  BY <1>3 DEF Inv, HearsayIsTrue, learnFork, Grows
  <1>6. NetIsTrue'
    <2>1. SUFFICES ASSUME NEW e \in Device, NEW i \in DOMAIN net[e], NEW s \in net[e][i].items
                   PROVE IsTrue(s)'
      BY DEF NetIsTrue, learnFork
    <2>2. net[e] \in Seq(Payload)  BY <1>0 DEF TypeOK
    <2>3. net[e][i] \in Payload  BY <2>2, ElementOfSeq
    <2>4. s \in Stmt  BY <2>3 DEF Payload
    <2>. QED  BY <1>3, <2>4, TruthStays DEF Inv, NetIsTrue
  <1>7. TypeOK'  BY <1>0, <1>1 DEF TypeOK, learnFork
  <1>. QED  BY <1>4, <1>5, <1>6, <1>7 DEF Inv

\* RunGossip puts one more true message on the way.
LEMMA RunGossipKeeps ==
  ASSUME Inv, NEW d \in Node, NEW e \in Device, RunGossip(d, e) PROVE Inv'
  <1>0. TypeOK  BY DEF Inv
  <1>1. PICK m \in BuildGossipPayload(d) : net' = [net EXCEPT ![e] = Append(net[e], m)]
    BY DEF RunGossip
  <1>2. m \in Payload /\ \A s \in m.items : IsTrue(s)  BY PayloadIsTrue
  <1>3. peers' = peers /\ files' = files /\ forks' = forks /\ faults' = faults
    BY DEF RunGossip, tables
  <1>4. net \in [Device -> Seq(Payload)]  BY <1>0 DEF TypeOK
  <1>5. Append(net[e], m) \in Seq(Payload)  BY <1>2, <1>4, AppendProperties
  <1>6. net' \in [Device -> Seq(Payload)]  BY <1>1, <1>4, <1>5
  <1>7. \A s : IsTrue(s)' <=> IsTrue(s)  BY <1>3 DEF IsTrue
  <1>8. NetIsTrue'
    <2>1. SUFFICES ASSUME NEW c \in Device, NEW i \in DOMAIN net'[c], NEW s \in net'[c][i].items
                   PROVE IsTrue(s)
      BY <1>7 DEF NetIsTrue
    <2>2. CASE c # e
      <3>1. net'[c] = net[c]  BY <1>1, <1>4, <2>2
      <3>. QED  BY <2>1, <3>1 DEF Inv, NetIsTrue
    <2>3. CASE c = e
      <3>1. net'[e] = Append(net[e], m)  BY <1>1, <1>4
      <3>2. net[e] \in Seq(Payload)  BY <1>4
      <3>3. (i \in DOMAIN net[e] /\ net'[e][i] = net[e][i]) \/ net'[e][i] = m
        BY <1>2, <2>1, <2>3, <3>1, <3>2, AppendProperties
      <3>. QED  BY <1>2, <2>1, <2>3, <3>3 DEF Inv, NetIsTrue
    <2>. QED  BY <2>2, <2>3
  <1>9. TypeOK'  BY <1>0, <1>3, <1>6 DEF TypeOK
  <1>10. HearsayIsTrue' /\ FilesHaveOrigin'
    BY <1>3 DEF Inv, HearsayIsTrue, FilesHaveOrigin
  <1>. QED  BY <1>8, <1>9, <1>10 DEF Inv

-----------------------------------------------------------------------------
(* The theorems.                                                            *)

\* The inductive invariant holds of every behaviour: tables and messages are
\* true together, and neither alone would be preserved, for ProcessGossipPayload
\* stores what messages say and BuildGossipPayload says what is stored.
THEOREM Invariance == Spec => []Inv
  <1>1. Init => Inv
    <2>. SUFFICES ASSUME Init PROVE Inv  OBVIOUS
    <2>1. TypeOK
      <3>1. \A d \in Device : net[d] = <<>>  BY DEF Init
      <3>2. <<>> \in Seq(Payload)  OBVIOUS
      <3>. QED  BY <3>2 DEF Init, TypeOK
    <2>2. HearsayIsTrue  BY DEF Init, HearsayIsTrue
    <2>3. FilesHaveOrigin  BY DEF Init, FilesHaveOrigin
    <2>4. NetIsTrue  BY DEF Init, NetIsTrue
    <2>. QED  BY <2>1, <2>2, <2>3, <2>4 DEF Inv
  <1>2. Inv /\ [Next]_vars => Inv'
    <2>. SUFFICES ASSUME Inv, [Next]_vars PROVE Inv'  OBVIOUS
    <2>0. faults \in 0 .. MaxFaults  BY DEF Inv, TypeOK
    <2>1. ASSUME NEW d \in Device, NEW f \in File, shareFile(d, f) PROVE Inv'
      BY <2>1, ShareKeeps
    <2>2. ASSUME NEW d \in Device, NEW x \in Device, learnFork(d, x) PROVE Inv'
      BY <2>2, LearnKeeps
    <2>3. ASSUME NEW d \in Device, receive(d) PROVE Inv'
      <3>1. PICK A \in Executed(d, Head(net[d]).items) : handle(d, A)  BY <2>3 DEF receive
      <3>2. A \subseteq Head(net[d]).items /\ \A s \in A : ~Fails(d, s)  BY ExecutedSucceeds
      <3>3. net[d] # <<>> /\ faults' \in 0 .. MaxFaults  BY <2>0, <2>3 DEF receive
      <3>. QED  BY <3>1, <3>2, <3>3, HandleKeeps
    <2>4. ASSUME NEW d \in Device, fail(d) PROVE Inv'
      <3>1. PICK S \in Executed(d, Head(net[d]).items) : \E A \in Begun(d, S) : handle(d, A)
        BY <2>4 DEF fail
      <3>2. PICK A \in Begun(d, S) : handle(d, A)  BY <3>1
      <3>3. A \subseteq Head(net[d]).items /\ \A s \in A : ~Fails(d, s)  BY ExecutedSucceeds
      <3>4. net[d] # <<>> /\ faults' \in 0 .. MaxFaults  BY <2>0, <2>4 DEF fail
      <3>. QED  BY <3>2, <3>3, <3>4, HandleKeeps
    <2>5. ASSUME NEW c \in Contact, RunGossip(c[1], c[2]) PROVE Inv'
      BY <2>5, RunGossipKeeps
    <2>6. CASE UNCHANGED vars
      <3>1. peers' = peers /\ files' = files /\ forks' = forks /\ net' = net /\ faults' = faults
        BY <2>6 DEF vars, tables
      <3>. QED  BY <3>1 DEF Inv, TypeOK, HearsayIsTrue, FilesHaveOrigin, NetIsTrue, IsTrue
    <2>. QED  BY <2>1, <2>2, <2>3, <2>4, <2>5, <2>6 DEF Next
  <1>. QED  BY <1>1, <1>2, PTL DEF Spec

\* Every variable keeps its type.
THEOREM TypeCorrect == Spec => []TypeOK
  <1>1. Inv => TypeOK  BY DEF Inv
  <1>. QED  BY <1>1, Invariance, PTL

\* Among any number of devices, over any number of hops, with lost messages
\* and half-stored payloads, a peer row that marks a fork is true.
THEOREM HearsayStaysTrue == Spec => []HearsayIsTrue
  <1>1. Inv => HearsayIsTrue  BY DEF Inv
  <1>. QED  BY <1>1, Invariance, PTL

\* Every file row names a device that has shared the file itself.
THEOREM OriginsAreKept == Spec => []FilesHaveOrigin
  <1>1. Inv => FilesHaveOrigin  BY DEF Inv
  <1>. QED  BY <1>1, Invariance, PTL
=============================================================================
