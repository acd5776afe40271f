------------------------------- MODULE Gossip -------------------------------
(***************************************************************************)
(* Exchange of what devices know of each other: gossip/sync.go, engine.go, *)
(* propagate.go, budget.go over the peers, files and fork_evidence tables, *)
(* and the second receiver of the same messages, the Gossip case of        *)
(* ml_on_data_received (cabi/exports.go).                                  *)
(*                                                                         *)
(* A "node" sends with RunGossip and stores with ProcessGossipPayload, a   *)
(* "phone" only receives, through the C ABI.  Time stamps are left out:    *)
(* the queries, which list newest first, return their rows in any order,   *)
(* so a list is a set and its first n rows are any n of them.  A payload   *)
(* has no checkpoint: none can be stored (NodeLoop!CheckpointCreated).     *)
(***************************************************************************)
EXTENDS Naturals, Sequences, FiniteSets, FiniteSetsExt

CONSTANTS
  Node, Phone,   \* devices, by the code that receives for them
  File,          \* file hashes
  Contact,       \* <<d, e>>: d runs gossip with e
  Shared,        \* <<d, f>>: d has shared f before
  MayShare,      \* <<d, f>>: the user of d may share f
  MayLearn,      \* <<d, x>>: d may come by evidence about x
  MaxItems,      \* defaultGossipMaxItems: 256
  NoRow,         \* no row under this key
  MaxForks,      \* bound: rows of fork_evidence about one device told apart
  MaxFaults      \* bound: lost messages and crashes

Device == Node \cup Phone

ASSUME DeviceAssumption == Node \cap Phone = {} /\ IsFiniteSet(Device) /\ IsFiniteSet(File)
ASSUME ContactAssumption == Contact \subseteq Node \X Device
ASSUME NoRowAssumption == NoRow \notin Device \cup BOOLEAN
ASSUME BoundsAssumption ==
  MaxItems \in Nat /\ MaxForks \in Nat \ {0} /\ MaxFaults \in Nat

VARIABLES
  peers,   \* peers[d][x]: has_fork_evidence of d's row about x
  files,   \* files[d][f]: origin_pubkey of d's row about f
  forks,   \* forks[d][x]: how many rows of d's fork_evidence are about x
  net,     \* net[d]: gossip messages on the way to d, in order
  faults   \* how much of MaxFaults is used

tables == <<peers, files, forks>>
vars == <<tables, net, faults>>

-----------------------------------------------------------------------------
(* Payloads and the statements they become.                                 *)

\* UpsertPeer of the sender and of others, InsertFileMeta, InsertForkEvidence
\* (n tells rows apart).
PeerStmt == [op : {"self", "peer"}, key : Device, fork : BOOLEAN]
FileStmt == [op : {"file"}, key : File, origin : Device]
ForkStmt == [op : {"fork"}, key : Device, n : 1 .. MaxForks]
Stmt == PeerStmt \cup FileStmt \cup ForkStmt

\* GossipPayload as the set of its items.
Payload == [from : Node, items : SUBSET Stmt]
Section(S, op) == {s \in S : s.op = op}

\* Mutant: a summary says fork when its builder has evidence about anyone.
buildSelfSummary_anyone(d) ==
  [op |-> "self", key |-> d, fork |-> \E x \in Device : forks[d][x] > 0]

\* buildSelfSummary: chain fields stay as InitIdentity left them, for nothing
\* calls UpdateChainHead; what changes is the fork flag.
buildSelfSummary(d) == [op |-> "self", key |-> d, fork |-> forks[d][d] > 0]

\* Mutant: peers without a row are listed as well.
GetAllPeers_unknown(d) ==
  {[op |-> "peer", key |-> x, fork |-> peers[d][x]] : x \in Device}

GetAllPeers(d) ==
  {[op |-> "peer", key |-> x, fork |-> peers[d][x]] : x \in {y \in Device : peers[d][y] # NoRow}}

\* Mutant: a device lists the files of others as its own.
ListFiles_asOwn(d) ==
  {[op |-> "file", key |-> f, origin |-> d] : f \in {g \in File : files[d][g] # NoRow}}

ListFiles(d) ==
  {[op |-> "file", key |-> f, origin |-> files[d][f]] : f \in {g \in File : files[d][g] # NoRow}}

\* GetForkEvidence, of the device's own key only.
GetForkEvidence(d) == {[op |-> "fork", key |-> d, n |-> i] : i \in 1 .. forks[d][d]}

\* The first n rows of a list, in any order.
FirstRows(S, n) == IF Cardinality(S) <= n THEN {S} ELSE kSubset(n, S)

\* ApplyByteBudget of evidence, summaries and files: a section that does not
\* fit is cut, and the ones after it are left out.
ApplyByteBudget(F, P, M) ==
  LET left == MaxItems - Cardinality(F) IN
    IF MaxItems = 0 THEN {F \cup P \cup M}
    ELSE IF Cardinality(F) > MaxItems THEN FirstRows(F, MaxItems)
    ELSE IF Cardinality(P) > left THEN {F \cup p : p \in FirstRows(P, left)}
    ELSE {F \cup P \cup q : q \in FirstRows(M, left - Cardinality(P))}

\* BuildGossipPayload: the sender's own summary is not counted.
BuildGossipPayload(d) ==
  {[from |-> d, items |-> {buildSelfSummary(d)} \cup S] :
     S \in ApplyByteBudget(GetForkEvidence(d), GetAllPeers(d), ListFiles(d))}

\* The order of the sections in ProcessGossipPayload: the sender first.
ProcessGossipPayload == [self |-> 1, peer |-> 2, fork |-> 3, file |-> 4]

\* Mutant: the phone stores the sender's summary first, as a node does.
onGossip_selfFirst == [self |-> 1, peer |-> 2, file |-> 3, fork |-> 4]

\* ml_on_data_received: summaries of others first, then the sender's own.
onGossip == [peer |-> 1, self |-> 2, file |-> 3, fork |-> 4]

Rank(d, s) == (IF d \in Node THEN ProcessGossipPayload ELSE onGossip)[s.op]

\* file_hash is the primary key: a second insert fails.
Fails(d, s) == s.op = "file" /\ files[d][s.key] # NoRow

\* Mutant: a phone gives up at the first error, as a node does.
stopsAtError_always(d) == TRUE

\* ProcessGossipPayload returns the first error, a phone drops errors.
stopsAtError(d) == d \in Node

\* What a receiver may have executed when it comes to the end of S: all that
\* succeeds, or the files before the first that fails.
Executed(d, S) ==
  LET good == {s \in S : ~Fails(d, s)} IN
    IF good # S /\ stopsAtError(d)
    THEN {good \ lost : lost \in SUBSET Section(good, "file")}
    ELSE {good}

\* There is no transaction: a receiver that dies has executed whole sections
\* and a part of one.
Begun(d, S) ==
  {A \in SUBSET S : \A s \in A : \A t \in S : Rank(d, t) < Rank(d, s) => t \in A}

-----------------------------------------------------------------------------
Init ==
  /\ peers = [d \in Device |-> [x \in Device |-> NoRow]]
  /\ files = [d \in Device |-> [f \in File |-> IF <<d, f>> \in Shared THEN d ELSE NoRow]]
  /\ forks = [d \in Device |-> [x \in Device |-> 0]]
  /\ net = [d \in Device |-> <<>>]
  /\ faults = 0

\* AdvertiseFile on a node, ml_share_file on a phone: InsertFileMeta fails for
\* a hash the table has, also one that gossip brought.
shareFile(d, f) ==
  /\ <<d, f>> \in MayShare /\ files[d][f] = NoRow
  /\ files' = [files EXCEPT ![d][f] = d]
  /\ UNCHANGED <<peers, forks, net, faults>>

\* Evidence enters the table of a device: an Envelope_ForkEvidence at a phone,
\* a caller of the storage package at a node.
learnFork(d, x) ==
  /\ <<d, x>> \in MayLearn /\ forks[d][x] = 0
  /\ forks' = [forks EXCEPT ![d][x] = 1]
  /\ UNCHANGED <<peers, files, net, faults>>

\* RunGossip up to its Send.  The answer it then waits for is one of the
\* messages that receive stores; one message of a sender is under way at most.
RunGossip(d, e) ==
  /\ \A i \in DOMAIN net[e] : net[e][i].from # d
  /\ \E m \in BuildGossipPayload(d) : net' = [net EXCEPT ![e] = Append(@, m)]
  /\ UNCHANGED <<tables, faults>>

\* UpsertPeer overwrites whatever row there is: the last statement counts.
UpsertPeer(d, A) ==
  LET about(x) == {s \in A : s.op \in {"self", "peer"} /\ s.key = x}
      last(x) == CHOOSE s \in about(x) : \A t \in about(x) : Rank(d, t) <= Rank(d, s) IN
    peers' = [peers EXCEPT ![d] =
                [x \in Device |-> IF about(x) = {} THEN @[x] ELSE last(x).fork]]

\* Rows that are there stay.
InsertFileMeta(d, A) ==
  LET rows(f) == {s \in Section(A, "file") : s.key = f} IN
    files' = [files EXCEPT ![d] =
                [f \in File |-> IF rows(f) = {} THEN @[f] ELSE (CHOOSE s \in rows(f) : TRUE).origin]]

\* Nothing makes rows of evidence unique; beyond MaxForks they are alike.
InsertForkEvidence(d, A) ==
  LET rows(x) == {s \in Section(A, "fork") : s.key = x} IN
    forks' = [forks EXCEPT ![d] =
                [x \in Device |-> IF @[x] + Cardinality(rows(x)) <= MaxForks
                                  THEN @[x] + Cardinality(rows(x)) ELSE MaxForks]]

\* A handler takes the next message and executes A of its statements.
handle(d, A) ==
  /\ UpsertPeer(d, A) /\ InsertFileMeta(d, A) /\ InsertForkEvidence(d, A)
  /\ net' = [net EXCEPT ![d] = Tail(@)]

receive(d) ==
  /\ net[d] # <<>>
  /\ \E A \in Executed(d, Head(net[d]).items) : handle(d, A)
  /\ UNCHANGED faults

\* The message is lost, or the process dies while it stores it.
fail(d) ==
  /\ faults < MaxFaults /\ net[d] # <<>>
  /\ \E S \in Executed(d, Head(net[d]).items) : \E A \in Begun(d, S) : handle(d, A)
  /\ faults' = faults + 1

Next ==
  \/ \E d \in Device :
       \/ \E f \in File : shareFile(d, f)
       \/ \E x \in Device : learnFork(d, x)
       \/ receive(d) \/ fail(d)
  \/ \E c \in Contact : RunGossip(c[1], c[2])

Spec == Init /\ [][Next]_vars

\* Devices in contact keep exchanging gossip, and a handler stores what came;
\* nobody has to share, to report or to fail.
FairSpec ==
  /\ Spec
  /\ \A d \in Device : WF_vars(receive(d))
  /\ \A c \in Contact : WF_vars(RunGossip(c[1], c[2]))

-----------------------------------------------------------------------------
(* Properties.                                                              *)

\* Every variable has its type.
TypeOK ==
  /\ peers \in [Device -> [Device -> BOOLEAN \cup {NoRow}]]
  /\ files \in [Device -> [File -> Device \cup {NoRow}]]
  /\ forks \in [Device -> [Device -> 0 .. MaxForks]]
  /\ net \in [Device -> Seq(Payload)]
  /\ faults \in 0 .. MaxFaults

\* Through any number of hops, partial writes and overwrites by older rows,
\* what a device stores about another is true of it: a row of UpsertPeer marks
\* a fork only when the device itself holds the evidence.
HearsayIsTrue == \A d, x \in Device : peers[d][x] = TRUE => forks[x][x] > 0

\* Every row of a files table names an origin that has shared the file itself:
\* InsertFileMeta keeps the first row, so no exchange takes a file from the
\* device that shared it.
FilesHaveOrigin ==
  \A d \in Device : \A f \in File :
    files[d][f] # NoRow => files[files[d][f]][f] = files[d][f]

\* All that d has to tell fits one message.
Fits(d) ==
  Cardinality(GetForkEvidence(d) \cup GetAllPeers(d) \cup ListFiles(d)) <= MaxItems

\* A phone learns every file a node in contact lists, whatever it knows
\* already, also when a message is lost or it dies half-way through one,
\* unless the node comes to know more than ApplyByteBudget lets through.
PhoneLearnsFiles ==
  \A c \in Contact : c[2] \in Phone =>
    \A f \in File :
      files[c[1]][f] # NoRow ~> (files[c[2]][f] # NoRow \/ ~Fits(c[1]))

\* A phone comes to mark a node as forked once the node holds evidence about
\* itself, although the node also sends the old rows others have about it.
PhoneMarksForks ==
  \A c \in Contact : c[2] \in Phone => (forks[c[1]][c[1]] > 0 ~> peers[c[2]][c[1]] = TRUE)

-----------------------------------------------------------------------------
(* What the documents say and the code does not keep.                       *)

\* "Fork evidence (a device presenting two different histories) propagates
\* through the network": what one node knows, every device in contact with it
\* comes to know.
EvidenceSpreads ==
  \A c \in Contact : \A x \in Device : forks[c[1]][x] > 0 ~> forks[c[2]][x] > 0

\* Gossip "exchanges file metadata": every device in contact learns a file.
FilesSpread ==
  \A c \in Contact : \A f \in File : files[c[1]][f] # NoRow ~> files[c[2]][f] # NoRow
=============================================================================
