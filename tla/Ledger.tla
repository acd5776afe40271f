------------------------------- MODULE Ledger -------------------------------
(***************************************************************************)
(* The ledger of one node, built from share records that come in any order, *)
(* and what the node concludes from it: storage/records.go, forks.go,       *)
(* node.handleShareRecord, dag/chain.go and the VERIFYING state of a        *)
(* session.                                                                 *)
(*                                                                          *)
(* The devices of the world outside co-sign records with each other.  A     *)
(* device that forks continues its chain from an earlier record.  Its       *)
(* records are well signed all the same, so every record made is one that   *)
(* ValidateShareRecord accepts (NodeLoop has the ones it does not).  A clock *)
(* that is read shows any time from the latest record's on, and a           *)
(* checkpoint is any the device can have computed at an earlier time.       *)
(***************************************************************************)
EXTENDS Policy

CONSTANTS
  Device,        \* public keys
  Pair,          \* <<s, r>>: s may send to r
  Bytes,         \* sizes of transfers
  Forking,       \* devices that may continue from an earlier record
  Subject,       \* devices that open sessions with the node
  WitnessLists,  \* witnesses a checkpoint may be made with
  FetchLimit,    \* 200
  MaxRecords,    \* bound: records made
  MaxTime        \* bound: the greatest time

ASSUME WorldAssumption ==
  /\ IsFiniteSet(Device) /\ Pair \subseteq Device \X Device /\ Forking \cup Subject \subseteq Device
  /\ Bytes \subseteq Nat /\ FetchLimit \in Nat \ {0} /\ MaxRecords \in Nat /\ MaxTime \in Nat

VARIABLES
  made,      \* records co-signed so far, in order of time; made[i].id = i
  db,        \* ids of the rows of the node's share_records
  evidence,  \* devices the node has fork_evidence rows about
  session    \* the node's session: [state, peer]

vars == <<made, db, evidence, session>>

Record == [id : 1 .. MaxRecords, s : Device, r : Device, sidx : 1 .. MaxRecords,
           ridx : 1 .. MaxRecords, prevS : 0 .. MaxRecords, prevR : 0 .. MaxRecords,
           bytes : Bytes, time : 0 .. MaxTime]

Time == 0 .. MaxTime
Now == (IF made = <<>> THEN 0 ELSE made[Len(made)].time) .. MaxTime

\* The ids among S of the records x takes part in.
Of(S, x) == {i \in S : x \in {made[i].s, made[i].r}}

Index(i, x) == indexOf(made[i], x)

\* S sorted by f, in every order of equals: what ORDER BY may return.
OrderBy(S, f(_)) ==
  {q \in Injection(1 .. Cardinality(S), S) : \A i \in 1 .. Len(q) - 1 : f(q[i]) <= f(q[i + 1])}

Rows(q) == [i \in DOMAIN q |-> made[q[i]]]

\* Mutant: newest first.
GetRecordsByDevice_newest(x, from, limit) ==
  {Rows(SubSeq(q, 1, Min({limit, Len(q)}))) :
     q \in OrderBy({i \in Of(db, x) : made[i].sidx >= from \/ made[i].ridx >= from},
                   LAMBDA i : 0 - made[i].time)}

\* The index condition is on either party's index; the first rows by time.
GetRecordsByDevice(x, from, limit) ==
  {Rows(SubSeq(q, 1, Min({limit, Len(q)}))) :
     q \in OrderBy({i \in Of(db, x) : made[i].sidx >= from \/ made[i].ridx >= from},
                   LAMBDA i : made[i].time)}

\* ORDER BY timestamp DESC LIMIT 1, of the rows S.
GetLatestRecord(S, x) == {i \in Of(S, x) : \A j \in Of(S, x) : made[j].time <= made[i].time}

\* DetectFork of two records of x; the evidence names no reporter.
DetectFork(i, j, x) == i # j /\ Index(i, x) = Index(j, x)

\* Evidence without a reporter violates NOT NULL.
InsertForkEvidence(reported, x) == IF reported THEN evidence \cup {x} ELSE evidence

-----------------------------------------------------------------------------
(* The world.                                                               *)

\* The chain of x up to record i (0: none).
chainOf(i, x) ==
  LET up[j \in 0 .. Len(made)] ==
        IF j = 0 THEN <<>> ELSE Append(up[prevOf(made[j], x)], made[j]) IN up[i]

\* Where x may continue: at the record nothing continues, or anywhere if it forks.
Ends(x) ==
  LET own == {0} \cup Of(DOMAIN made, x) IN
    IF x \in Forking THEN own
    ELSE {i \in own : \A j \in own \ {0} : prevOf(made[j], x) # i}

coSign(s, r, b, t) ==
  /\ Len(made) < MaxRecords /\ t \in Now
  /\ \E i \in Ends(s), j \in Ends(r) :
       made' = Append(made,
         [id |-> Len(made) + 1, s |-> s, r |-> r, bytes |-> b, time |-> t,
          prevS |-> i, sidx |-> IF i = 0 THEN 1 ELSE Index(i, s) + 1,
          prevR |-> j, ridx |-> IF j = 0 THEN 1 ELSE Index(j, r) + 1])
  /\ UNCHANGED <<db, evidence, session>>

\* What x can have computed over its chain up to i when that was its latest.
Checkpoints(x) ==
  UNION {{ComputeCheckpoint(chainOf(i, x), x, t, W) :
            t \in {u \in Time : i = 0 \/ made[i].time <= u}, W \in WitnessLists} :
         i \in {0} \cup Of(DOMAIN made, x)}

\* A handshake of x: any policy, with or without a checkpoint, without records
\* or with its chain.
Handshakes(x) ==
  [sid : {TRUE}, key : {TRUE}, policy : {NONE, LIGHT, STRICT},
   cp : {NoCheckpoint} \cup Checkpoints(x), recs : {<<>>} \cup {chainOf(i, x) : i \in Ends(x)}]

-----------------------------------------------------------------------------
(* The node.                                                                *)

\* A record the table has fails on its primary key, before fork detection.
handleShareRecord(i) ==
  /\ i \notin db
  /\ db' = db \cup {i}
  /\ \E latest \in GetLatestRecord(db \cup {i}, made[i].s) :
       evidence' = IF DetectFork(latest, i, made[i].s)
                   THEN InsertForkEvidence(FALSE, made[i].s) ELSE evidence
  /\ UNCHANGED <<made, session>>

\* Evidence with a reporter, through the storage interface.
learnFork(x) ==
  /\ x \in Forking /\ evidence' = InsertForkEvidence(TRUE, x)
  /\ UNCHANGED <<made, db, session>>

\* Mutant: the session does not leave HANDSHAKE.
openSession_stays(x) ==
  /\ session.state # "VERIFYING"
  /\ session' = [state |-> "HANDSHAKE", peer |-> x]
  /\ UNCHANGED <<made, db, evidence>>

\* HANDSHAKE passes on to VERIFYING, for a session without a request.
openSession(x) ==
  /\ session.state # "VERIFYING"
  /\ session' = [state |-> "VERIFYING", peer |-> x]
  /\ UNCHANGED <<made, db, evidence>>

\* Recv fails, or what it returns has no handshake; or the handshake is too
\* large, ProcessHandshake refuses it, or the evidence cannot be read.
failVerifying ==
  /\ session.state = "VERIFYING"
  /\ \E st \in {"FAILED", "REJECTED"} : session' = [session EXCEPT !.state = st]
  /\ UNCHANGED <<made, db, evidence>>

\* The records of the handshake, or the stored ones from its checkpoint on, or
\* none when the query fails.
recordsForPolicy(x, hs) ==
  IF hs.recs # <<>> THEN {hs.recs}
  ELSE {<<>>} \cup
       GetRecordsByDevice(x, IF hs.cp = NoCheckpoint THEN 0 ELSE hs.cp.index, FetchLimit)

\* A device with neither checkpoint nor records passes: the balance that is
\* computed for it decides nothing.
newDevice(hs) == hs.cp = NoCheckpoint /\ hs.recs = <<>>

handleVerifying(hs, now) ==
  LET x == session.peer IN
    /\ session.state = "VERIFYING" /\ ProcessHandshake(hs)
    /\ \E q \in recordsForPolicy(x, hs) :
         session' = [session EXCEPT !.state =
           IF newDevice(hs) \/ EvaluatePolicy(x \in evidence, x, hs.policy, hs.cp, q, now)
           THEN "TRANSFERRING" ELSE "REJECTED"]
    /\ UNCHANGED <<made, db, evidence>>

Init ==
  /\ made = <<>> /\ db = {} /\ evidence = {}
  /\ session \in [state : {"REJECTED"}, peer : Subject]

Next ==
  \/ \E p \in Pair, b \in Bytes, t \in Time : coSign(p[1], p[2], b, t)
  \/ \E i \in DOMAIN made : handleShareRecord(i)
  \/ \E x \in Device : learnFork(x)
  \/ \E x \in Subject : openSession(x)
  \/ failVerifying
  \/ \E hs \in Handshakes(session.peer), now \in Now : handleVerifying(hs, now)

Spec == Init /\ [][Next]_vars

-----------------------------------------------------------------------------
(* Properties.                                                              *)

\* Every variable has its type, and a record comes after the ones it names.
TypeOK ==
  /\ made \in Seq(Record)
  /\ \A i \in DOMAIN made : made[i].id = i /\ made[i].prevS < i /\ made[i].prevR < i
  /\ db \subseteq DOMAIN made /\ evidence \subseteq Device
  /\ session \in [state : {"VERIFYING", "TRANSFERRING", "REJECTED", "FAILED"}, peer : Device]

\* A session with x at time now would pass by the rules of its policy, on the
\* stored records from checkpoint cp on.
PassesOnStored(x, cp, now) ==
  \E policy \in {LIGHT, STRICT} : \E q \in GetRecordsByDevice(x, cp.index, FetchLimit) :
    EvaluatePolicy(x \in evidence, x, policy, cp, q, now)

\* The records of x from cp on that the node has.
Since(x, cp) == {i \in Of(db, x) : Index(i, x) >= cp.index}

\* Whatever order its records came in, a device two of whose branches are
\* stored does not pass EvaluatePolicy, although DetectFork stores nothing:
\* VerifyChainSegment stops at the fork.
BranchesAreRejected ==
  \A x \in Subject : \A cp \in Checkpoints(x), now \in Now :
    PassesOnStored(x, cp, now) =>
      \A i, j \in Since(x, cp) : Index(i, x) = Index(j, x) => i = j

\* The rows of x that a query from index from on reads.
RowsFrom(x, from) == {i \in Of(db, x) : made[i].sidx >= from \/ made[i].ridx >= from}

\* A device that passes on stored records and has sent nothing in the rows that
\* are read has received less than MaxBalance in them: the drip is all it can
\* spend.  (Rows before the checkpoint are among them, because the query looks
\* at either party's index; what x sent in those counts for it.)
TakersAreBounded ==
  \A x \in Subject : \A cp \in Checkpoints(x), now \in Now :
    LET rows == RowsFrom(x, cp.index) IN
      PassesOnStored(x, cp, now) /\ (\A i \in rows : made[i].s # x) =>
        SumFunction([i \in rows |-> made[i].bytes]) < MaxBalance

\* The balance of x without its drip, at most, over the orders of its rows.
Earned(x) ==
  Max(UNION {{ComputeEffectiveBalance(q, x, now, now) :
                q \in GetRecordsByDevice(x, 0, MaxRecords + 1)} : now \in Now})

\* Records create no credit: over all devices of the ledger, what sharing
\* earns is at most what receiving costs (ComputeEffectiveBalance), whichever
\* rows of the same second the window cuts off.
SharingMakesNoCredit == SumFunction([x \in Device |-> Earned(x)]) <= 0

\* The records of x have all arrived, and no two in the same second.
HasWhole(x) ==
  /\ Of(DOMAIN made, x) \subseteq db
  /\ \A i, j \in Of(db, x) : made[i].time = made[j].time => i = j

\* A device that never forked passes VerifyChainSegment once its records have
\* arrived, in whatever order, if GetRecordsByDevice can tell their order.
HonestChainVerifies ==
  \A x \in Device \ Forking : HasWhole(x) =>
    \A q \in GetRecordsByDevice(x, 0, MaxRecords + 1) : VerifyChainSegment(q, x)

-----------------------------------------------------------------------------
(* What the documents say and the code does not keep.                       *)

\* "forked devices are rejected by honest peers": no session goes on with a
\* device the node has evidence about.
ForkedAreRejected ==
  [][session'.state = "TRANSFERRING" /\ session # session' => session'.peer \notin evidence]_vars

\* "Fork detection when two records from the same device share an index but
\* differ in content": the evidence is there once both are stored.
ForkIsDetected ==
  \A x \in Device : \A i, j \in Of(db, x) : DetectFork(i, j, x) => x \in evidence

\* A device that never forked passes the chain check from a checkpoint on.
HonestSegmentVerifies ==
  \A x \in Subject \ Forking : HasWhole(x) => \A cp \in Checkpoints(x) :
    \A q \in GetRecordsByDevice(x, cp.index, MaxRecords + 1) : VerifyChainSegment(q, x)
=============================================================================
