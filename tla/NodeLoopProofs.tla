--------------------------- MODULE NodeLoopProofs ---------------------------
(***************************************************************************)
(* The ledger and the session manager of NodeLoop, for every set of         *)
(* requests, every limit, polling and blocking transports, and any number  *)
(* of repeated envelopes and failures.                                     *)
(***************************************************************************)
EXTENDS NodeLoop, SequenceTheorems, FiniteSetTheorems, TLAPS

(* A session about to append carries a record ...                          *)
Carrying ==
  \A s \in DOMAIN sess : sess[s].pc = "append" => sess[s].rec \in Record

(* ... and one whose RunSession has returned is finished, unless Stop cut  *)
(* it short.                                                              *)
Ended ==
  \A s \in DOMAIN sess :
    sess[s].pc \in {"returned", "done"} => Terminal(sess[s].st) \/ cancelled

USE RequestAssumption, NumberAssumption, FlagAssumption
USE DEF NodeVars, PeerVars, SessVars, LoopVars

-----------------------------------------------------------------------------
(* Sessions as a sequence.                                                 *)

(* One session is replaced; the others stay.                               *)
LEMMA Replaced ==
  ASSUME sess \in Seq(Session), NEW s \in DOMAIN sess, NEW x \in Session,
         sess' = [sess EXCEPT ![s] = x]
  PROVE  /\ sess' \in Seq(Session)
         /\ DOMAIN sess' = DOMAIN sess
         /\ sess'[s] = x
         /\ \A t \in DOMAIN sess : t # s => sess'[t] = sess[t]
<1>1. s \in 1 .. Len(sess) /\ DOMAIN sess = 1 .. Len(sess)
  OBVIOUS
<1>2. sess' \in Seq(Session) /\ Len(sess') = Len(sess)
  BY <1>1, ExceptSeq
<1> QED
  BY <1>1, <1>2

(* Session s moves on, the others stay where they are.                      *)
Moves(s) ==
  /\ sess' \in Seq(Session)
  /\ DOMAIN sess' = DOMAIN sess
  /\ sess'[s].key = sess[s].key
  /\ \A t \in DOMAIN sess : t # s => sess'[t] = sess[t]

(* GoTo (TransitionTo and the session's position) moves one session.       *)
LEMMA GoToMoves ==
  ASSUME sess \in Seq(Session), NEW s \in DOMAIN sess,
         NEW st \in State, NEW pc \in PC, NEW rec \in Record \cup {NoRecord},
         GoTo(s, st, pc, rec)
  PROVE  /\ Moves(s)
         /\ sess'[s].st = st /\ sess'[s].pc = pc /\ sess'[s].rec = rec
<1> DEFINE x == [sess[s] EXCEPT !.st = st, !.pc = pc, !.rec = rec]
<1>1. sess[s] \in Session
  OBVIOUS
<1>2. x \in Session /\ x.st = st /\ x.pc = pc /\ x.rec = rec /\ x.key = sess[s].key
  BY <1>1 DEF Session
<1>3. sess' = [sess EXCEPT ![s] = x]
  BY DEF GoTo
<1> HIDE DEF x
<1>4. /\ sess' \in Seq(Session)
      /\ DOMAIN sess' = DOMAIN sess
      /\ sess'[s] = x
      /\ \A t \in DOMAIN sess : t # s => sess'[t] = sess[t]
  BY <1>2, <1>3, Replaced
<1> QED
  BY <1>2, <1>4 DEF Moves

(* A new session goes to the end.                                          *)
LEMMA NewTyped ==
  ASSUME sess \in Seq(Session), NEW r \in Request,
         sess' = Append(sess, NewSession(r))
  PROVE  /\ sess' \in Seq(Session)
         /\ DOMAIN sess' = DOMAIN sess \cup {Len(sess) + 1}
         /\ Len(sess) + 1 \notin DOMAIN sess
         /\ sess'[Len(sess) + 1] = NewSession(r)
         /\ \A t \in DOMAIN sess : sess'[t] = sess[t]
<1>1. NewSession(r) \in Session
  BY DEF NewSession, Session, State, PC
<1> QED
  BY <1>1, AppendProperties


(* A request for a registered session replaces its pending request only.   *)
LEMMA PendingTyped ==
  ASSUME sess \in Seq(Session), NEW s \in DOMAIN sess, NEW r \in Request,
         sess' = [sess EXCEPT ![s] = [@ EXCEPT !.pending = r]]
  PROVE  /\ sess' \in Seq(Session)
         /\ DOMAIN sess' = DOMAIN sess
         /\ sess'[s].st = sess[s].st /\ sess'[s].pc = sess[s].pc
         /\ sess'[s].rec = sess[s].rec /\ sess'[s].key = sess[s].key
         /\ \A t \in DOMAIN sess : t # s => sess'[t] = sess[t]
<1> DEFINE x == [sess[s] EXCEPT !.pending = r]
<1>1. sess[s] \in Session
  OBVIOUS
<1>2. /\ x \in Session
      /\ x.st = sess[s].st /\ x.pc = sess[s].pc
      /\ x.rec = sess[s].rec /\ x.key = sess[s].key
  BY <1>1 DEF Session
<1>3. sess' = [sess EXCEPT ![s] = x]
  OBVIOUS
<1> HIDE DEF x
<1> QED
  BY <1>2, <1>3, Replaced

(* RemoveCompleted moves one session to its end.                           *)
LEMMA DoneTyped ==
  ASSUME sess \in Seq(Session), NEW s \in DOMAIN sess,
         sess' = [sess EXCEPT ![s] = [@ EXCEPT !.pc = "done"]]
  PROVE  /\ sess' \in Seq(Session)
         /\ DOMAIN sess' = DOMAIN sess
         /\ sess'[s].st = sess[s].st /\ sess'[s].pc = "done"
         /\ sess'[s].rec = sess[s].rec /\ sess'[s].key = sess[s].key
         /\ \A t \in DOMAIN sess : t # s => sess'[t] = sess[t]
<1> DEFINE x == [sess[s] EXCEPT !.pc = "done"]
<1>1. sess[s] \in Session
  OBVIOUS
<1>2. /\ x \in Session
      /\ x.st = sess[s].st /\ x.pc = "done"
      /\ x.rec = sess[s].rec /\ x.key = sess[s].key
  BY <1>1 DEF Session, PC
<1>3. sess' = [sess EXCEPT ![s] = x]
  OBVIOUS
<1> HIDE DEF x
<1> QED
  BY <1>2, <1>3, Replaced

(* Recv takes an envelope from the front of the queue.                     *)
LEMMA ReceivedTyped ==
  ASSUME inbox \in Seq(Envelope), NEW env, Received(env)
  PROVE  env \in Envelope /\ inbox' \in Seq(Envelope)
BY HeadTailProperties DEF Received

(* The sender's signature is added to a record.                            *)
LEMMA SignedTyped ==
  ASSUME NEW rec \in Record
  PROVE  /\ WithSenderSig(rec) \in Record
         /\ WithSenderSig(rec).req = rec.req
BY DEF WithSenderSig, Record, Both

(* An envelope with a record in it has a record in it.                     *)
LEMMA RecordEnvelope ==
  ASSUME NEW env \in Envelope, env.type = "record"
  PROVE  env.rec \in Record
BY DEF Envelope

-----------------------------------------------------------------------------
(* Fail: the session returns in state FAILED.                              *)
LEMMA FailMoves ==
  ASSUME sess \in Seq(Session), NEW s \in DOMAIN sess, Fail(s)
  PROVE  /\ Moves(s)
         /\ sess'[s].st = "FAILED" /\ sess'[s].pc = "returned"
<1>1. /\ "FAILED" \in State /\ "returned" \in PC
      /\ NoRecord \in Record \cup {NoRecord}
  BY DEF State, PC
<1> QED
  BY <1>1, GoToMoves DEF Fail


(* The ledger is left alone, or grows by a valid record of a new request.   *)
LedgerStep ==
  \/ records' = records
  \/ \E rec \in Record :
       /\ ValidateShareRecord(rec)
       /\ InsertRecordOK(rec)
       /\ records' = records \cup {rec}

Advances(s) ==
  /\ Moves(s)
  /\ sess'[s].pc # "done"
  /\ sess'[s].pc = "append" => sess'[s].rec \in Record
  /\ sess'[s].pc = "returned" => Terminal(sess'[s].st) \/ cancelled
  /\ sess'[s].st \in {"GOSSIPING", "COMPLETE"} => sess'[s].rec \in records'
  /\ LedgerStep
  /\ inbox' \in Seq(Envelope)
  /\ sent' \subseteq Record
  /\ faults' \in 0 .. MaxFaults
  /\ UNCHANGED << mgr, LoopVars >>

(* A turn of the loop of RunSession.                                       *)
LEMMA RunAdvances ==
  ASSUME TypeOK, CosignedIsStored, NEW s \in DOMAIN sess, RunSession(s)
  PROVE  Advances(s)
<1> sess \in Seq(Session)
  BY DEF TypeOK
<1> sess[s] \in Session
  OBVIOUS
<1>0. /\ sess[s].st \in State
      /\ sess[s].rec \in Record \cup {NoRecord}
  BY DEF Session
<1>1. /\ NoRecord \in Record \cup {NoRecord}
      /\ "returned" \in PC /\ "loop" \in PC /\ "recv" \in PC
      /\ "CO_SIGNING" \in State /\ "COMPLETE" \in State
  BY DEF PC, State
<1>2. /\ UNCHANGED << inbox, sent, mgr, records, faults, LoopVars >>
      /\ inbox' \in Seq(Envelope) /\ sent' \subseteq Record
      /\ faults' \in 0 .. MaxFaults /\ LedgerStep
  BY DEF RunSession, TypeOK, LedgerStep
<1>3. CASE cancelled /\ GoTo(s, sess[s].st, "returned", sess[s].rec)
  <2>1. /\ Moves(s) /\ sess'[s].st = sess[s].st
        /\ sess'[s].pc = "returned" /\ sess'[s].rec = sess[s].rec
    BY <1>0, <1>1, <1>3, GoToMoves
  <2> QED
    BY <1>2, <1>3, <2>1 DEF Advances, CosignedIsStored
<1>4. CASE GoTo(s, "CO_SIGNING", "loop", NoRecord)
  <2>1. Moves(s) /\ sess'[s].st = "CO_SIGNING" /\ sess'[s].pc = "loop"
    BY <1>1, <1>4, GoToMoves
  <2> QED
    BY <1>2, <2>1 DEF Advances
<1>5. CASE GoTo(s, "CO_SIGNING", "recv", NoRecord)
  <2>1. Moves(s) /\ sess'[s].st = "CO_SIGNING" /\ sess'[s].pc = "recv"
    BY <1>1, <1>5, GoToMoves
  <2> QED
    BY <1>2, <2>1 DEF Advances
<1>6. CASE /\ sess[s].st = "GOSSIPING"
           /\ GoTo(s, "COMPLETE", "returned", sess[s].rec)
  <2>1. /\ Moves(s) /\ sess'[s].st = "COMPLETE"
        /\ sess'[s].pc = "returned" /\ sess'[s].rec = sess[s].rec
    BY <1>0, <1>1, <1>6, GoToMoves
  <2> QED
    BY <1>2, <1>6, <2>1 DEF Advances, CosignedIsStored, Terminal
<1> QED
  BY <1>3, <1>4, <1>5, <1>6 DEF RunSession

(* A session that fails.                                                   *)
LEMMA FailAdvances ==
  ASSUME TypeOK, NEW s \in DOMAIN sess, Fail(s),
         LedgerStep, inbox' \in Seq(Envelope), sent' \subseteq Record,
         faults' \in 0 .. MaxFaults, UNCHANGED << mgr, LoopVars >>
  PROVE  Advances(s)
<1>1. Moves(s) /\ sess'[s].st = "FAILED" /\ sess'[s].pc = "returned"
  BY FailMoves DEF TypeOK
<1> QED
  BY <1>1 DEF Advances, Terminal

(* Co-signing up to the Send.                                              *)
LEMMA CoSignAdvances ==
  ASSUME TypeOK, NEW s \in DOMAIN sess, coSign(s)
  PROVE  Advances(s)
<1>1. UNCHANGED << mgr, LoopVars >> /\ LedgerStep
  BY DEF coSign, LedgerStep
<1>2. CASE NothingReceived /\ Fail(s) /\ UNCHANGED << sent, faults >>
  BY <1>1, <1>2, FailAdvances DEF NothingReceived, TypeOK
<1>3. ASSUME NEW env \in Envelope,
             Received(env), Fail(s), UNCHANGED << sent, faults >>
      PROVE  Advances(s)
  <2>1. inbox' \in Seq(Envelope)
    BY <1>3, ReceivedTyped DEF TypeOK
  <2> QED
    BY <1>1, <1>3, <2>1, FailAdvances DEF TypeOK
<1>4. ASSUME NEW rec \in Record,
             Received([type |-> "record", rec |-> rec]),
             sent' = sent \cup {WithSenderSig(rec)},
             GoTo(s, "CO_SIGNING",
                  IF WithSenderSig(rec).sigs = Both THEN "append" ELSE "final",
                  WithSenderSig(rec)),
             UNCHANGED faults
      PROVE  Advances(s)
  <2> DEFINE w == WithSenderSig(rec)
             pc == IF w.sigs = Both THEN "append" ELSE "final"
  <2>1. w \in Record
    BY SignedTyped
  <2>2. inbox' \in Seq(Envelope)
    BY <1>4, ReceivedTyped DEF TypeOK
  <2>3. pc \in PC /\ "CO_SIGNING" \in State /\ pc # "done" /\ pc # "returned"
    BY DEF PC, State
  <2>4. GoTo(s, "CO_SIGNING", pc, w) /\ sess \in Seq(Session)
    BY <1>4 DEF TypeOK
  <2> HIDE DEF w, pc
  <2>5. /\ Moves(s) /\ sess'[s].st = "CO_SIGNING"
        /\ sess'[s].pc = pc /\ sess'[s].rec = w
    BY <2>1, <2>3, <2>4, GoToMoves
  <2>6. sent' \subseteq Record /\ faults' \in 0 .. MaxFaults
    BY <1>4, <2>1 DEF TypeOK, w
  <2> QED
    BY <1>1, <2>1, <2>2, <2>3, <2>5, <2>6 DEF Advances
<1>5. ASSUME NEW rec \in Record,
             Received([type |-> "record", rec |-> rec]),
             faults < MaxFaults, faults' = faults + 1, Fail(s), UNCHANGED sent
      PROVE  Advances(s)
  <2>1. inbox' \in Seq(Envelope)
    BY <1>5, ReceivedTyped DEF TypeOK
  <2>2. sent' \subseteq Record /\ faults' \in 0 .. MaxFaults
    BY <1>5 DEF TypeOK
  <2> QED
    BY <1>1, <1>5, <2>1, <2>2, FailAdvances
<1> QED
  BY <1>2, <1>3, <1>4, <1>5 DEF coSign


(* The second Recv of handleCoSigning.                                     *)
LEMMA FinalAdvances ==
  ASSUME TypeOK, NEW s \in DOMAIN sess, recvFinal(s)
  PROVE  Advances(s)
<1>1. /\ UNCHANGED << mgr, LoopVars >> /\ LedgerStep
      /\ sent' \subseteq Record /\ faults' \in 0 .. MaxFaults
  BY DEF recvFinal, LedgerStep, TypeOK
<1>2. CASE NothingReceived /\ Fail(s)
  BY <1>1, <1>2, FailAdvances DEF NothingReceived, TypeOK
<1>3. ASSUME NEW env \in Envelope, Received(env), Fail(s)
      PROVE  Advances(s)
  <2>1. inbox' \in Seq(Envelope)
    BY <1>3, ReceivedTyped DEF TypeOK
  <2> QED
    BY <1>1, <1>3, <2>1, FailAdvances
<1>4. ASSUME NEW env \in Envelope, Received(env), env.type = "record",
             GoTo(s, "CO_SIGNING", "append", env.rec)
      PROVE  Advances(s)
  <2>1. inbox' \in Seq(Envelope) /\ env.rec \in Record
    BY <1>4, ReceivedTyped, RecordEnvelope DEF TypeOK
  <2>2. /\ "CO_SIGNING" \in State /\ "append" \in PC
        /\ sess \in Seq(Session)
    BY DEF State, PC, TypeOK
  <2>3. /\ Moves(s) /\ sess'[s].st = "CO_SIGNING"
        /\ sess'[s].pc = "append" /\ sess'[s].rec = env.rec
    BY <1>4, <2>1, <2>2, GoToMoves
  <2> QED
    BY <1>1, <2>1, <2>3 DEF Advances
<1> QED
  BY <1>2, <1>3, <1>4 DEF recvFinal

(* AppendRecord, which puts the record of the session into the ledger.     *)
LEMMA AppendAdvances ==
  ASSUME TypeOK, Carrying, NEW s \in DOMAIN sess, AppendRecord(s)
  PROVE  Advances(s)
<1> DEFINE rec == sess[s].rec
<1>1. /\ UNCHANGED << mgr, LoopVars >> /\ inbox' \in Seq(Envelope)
      /\ sent' \subseteq Record /\ faults' \in 0 .. MaxFaults
  BY DEF AppendRecord, TypeOK
<1>2. rec \in Record
  BY DEF AppendRecord, At, Carrying
<1>3. CASE /\ ValidateShareRecord(rec) /\ InsertRecordOK(rec)
           /\ records' = records \cup {rec}
           /\ GoTo(s, "GOSSIPING", "loop", rec)
  <2>1. /\ "GOSSIPING" \in State /\ "loop" \in PC
        /\ sess \in Seq(Session)
    BY DEF State, PC, TypeOK
  <2> HIDE DEF rec
  <2>2. /\ Moves(s) /\ sess'[s].st = "GOSSIPING"
        /\ sess'[s].pc = "loop" /\ sess'[s].rec = rec
    BY <1>2, <1>3, <2>1, GoToMoves
  <2>3. LedgerStep
    BY <1>2, <1>3 DEF LedgerStep
  <2> QED
    BY <1>1, <1>3, <2>2, <2>3 DEF Advances
<1>4. CASE Fail(s) /\ UNCHANGED records
  BY <1>1, <1>4, FailAdvances DEF LedgerStep
<1> QED
  BY <1>3, <1>4 DEF AppendRecord

-----------------------------------------------------------------------------
(* The inductive invariant.                                                *)

(* The manager holds at most maxConc sessions, one for each key.           *)
ManagerKeys ==
  /\ IsFiniteSet(mgr)
  /\ Cardinality(mgr) <= MaxConc
  /\ \A s, t \in mgr : sess[s].key = sess[t].key => s = t

(* The manager forgets a session when its goroutine ends.                  *)
ManagerForgets == \A s \in mgr : sess[s].pc = "done" => cancelled

IInv ==
  /\ TypeOK
  /\ Carrying
  /\ Ended
  /\ CosignedIsStored
  /\ LedgerIsCosigned
  /\ ManagerKeys
  /\ ManagerForgets

(* Nothing is registered, stored or running at first.                      *)
LEMMA InitInv == Init => IInv
<1> SUFFICES ASSUME Init PROVE IInv
  OBVIOUS
<1>1. /\ IsFiniteSet(mgr) /\ Cardinality(mgr) = 0
  BY FS_EmptySet DEF Init
<1>2. TypeOK
  <2>1. inbox \in Seq(Envelope) /\ sess \in Seq(Session)
    BY EmptySeq DEF Init
  <2>2. /\ peer \in [Request -> {"idle", "asked", "offered", "finished"}]
        /\ extra \in 0 .. MaxExtra /\ faults \in 0 .. MaxFaults
    BY DEF Init
  <2>3. /\ sent \subseteq Record /\ records \subseteq Record
        /\ mgr \subseteq DOMAIN sess
    BY DEF Init
  <2> QED
    BY <2>1, <2>2, <2>3 DEF Init, TypeOK
<1>3. DOMAIN sess = {}
  BY DEF Init
<1> QED
  BY <1>1, <1>2, <1>3 DEF Init, IInv, Carrying, Ended, CosignedIsStored,
       LedgerIsCosigned, ManagerKeys, ManagerForgets

(* Both writers keep the ledger free of half-signed and repeated records.  *)
LEMMA LedgerKept ==
  ASSUME TypeOK, LedgerIsCosigned, LedgerStep
  PROVE  /\ LedgerIsCosigned'
         /\ records' \subseteq Record
         /\ records \subseteq records'
BY DEF LedgerStep, LedgerIsCosigned, ValidateShareRecord, InsertRecordOK, TypeOK

(* A step of the session loop keeps the invariant.                         *)
LEMMA AdvanceInv ==
  ASSUME IInv, NEW s \in DOMAIN sess, Advances(s)
  PROVE  IInv'
<1>1. /\ LedgerIsCosigned' /\ records' \subseteq Record
      /\ records \subseteq records'
  BY LedgerKept DEF IInv, Advances
<1>2. TypeOK'
  BY <1>1 DEF IInv, TypeOK, Advances, Moves
<1>3. Carrying' /\ Ended' /\ CosignedIsStored'
  BY <1>1 DEF IInv, Advances, Moves, Carrying, Ended, CosignedIsStored
<1>4. \A t \in mgr : t \in DOMAIN sess /\ sess'[t].key = sess[t].key
  BY DEF IInv, TypeOK, Advances, Moves
<1>5. ManagerKeys'
  BY <1>4 DEF IInv, Advances, ManagerKeys
<1>6. ManagerForgets'
  BY <1>4 DEF IInv, Advances, Moves, ManagerForgets
<1> QED
  BY <1>1, <1>2, <1>3, <1>5, <1>6 DEF IInv


(* A finished session leaves the manager, unless Stop cut it short.        *)
LEMMA RemoveInv ==
  ASSUME IInv, NEW s \in DOMAIN sess, RemoveCompleted(s)
  PROVE  IInv'
<1>1. /\ sess' \in Seq(Session) /\ DOMAIN sess' = DOMAIN sess
      /\ sess'[s].st = sess[s].st /\ sess'[s].pc = "done"
      /\ sess'[s].rec = sess[s].rec /\ sess'[s].key = sess[s].key
      /\ \A t \in DOMAIN sess : t # s => sess'[t] = sess[t]
  BY DoneTyped DEF RemoveCompleted, IInv, TypeOK
<1>2. /\ mgr' = {t \in mgr : ~Terminal(sess[t].st)}
      /\ UNCHANGED << inbox, sent, records, faults, LoopVars >>
  BY DEF RemoveCompleted
<1>3. Terminal(sess[s].st) \/ cancelled
  BY DEF RemoveCompleted, At, IInv, Ended
<1>4. TypeOK' /\ LedgerIsCosigned'
  BY <1>1, <1>2 DEF IInv, TypeOK, LedgerIsCosigned
<1>5. Carrying' /\ Ended' /\ CosignedIsStored'
  BY <1>1, <1>2, <1>3 DEF IInv, Carrying, Ended, CosignedIsStored
<1>6. \A t \in mgr : t \in DOMAIN sess /\ sess'[t].key = sess[t].key
  BY <1>1 DEF IInv, TypeOK
<1>7. ManagerKeys'
  <2>1. IsFiniteSet(mgr') /\ Cardinality(mgr') <= Cardinality(mgr)
    BY <1>2, FS_Subset DEF IInv, ManagerKeys
  <2>2. Cardinality(mgr) \in Nat /\ Cardinality(mgr') \in Nat
    BY <2>1, FS_CardinalityType DEF IInv, ManagerKeys
  <2>3. Cardinality(mgr') <= MaxConc
    BY <2>1, <2>2 DEF IInv, ManagerKeys
  <2> QED
    BY <1>2, <1>6, <2>1, <2>3 DEF IInv, ManagerKeys
<1>8. ManagerForgets'
  BY <1>1, <1>2, <1>3, <1>6 DEF IInv, ManagerForgets
<1> QED
  BY <1>4, <1>5, <1>7, <1>8 DEF IInv

(* A step that touches neither sessions nor the manager keeps what the     *)
(* invariant says of them; cancelled is never reset.                       *)
LEMMA QuietInv ==
  ASSUME IInv, TypeOK', LedgerStep, UNCHANGED << sess, mgr >>,
         cancelled => cancelled'
  PROVE  IInv'
<1>1. LedgerIsCosigned' /\ records \subseteq records'
  BY LedgerKept DEF IInv
<1> QED
  BY <1>1 DEF IInv, Carrying, Ended, CosignedIsStored, ManagerKeys,
       ManagerForgets

(* A request starts a session under a free key, or is put to the session   *)
(* that has the key.                                                      *)
LEMMA TransferRequestInv ==
  ASSUME IInv, NEW r \in Request, handleTransferRequest(r)
  PROVE  IInv'
<1>1. /\ inbox' \in Seq(Envelope)
      /\ loop' = "check"
      /\ UNCHANGED << PeerVars, cancelled, stopping, ckptLoop, sent, faults,
                      records, checkpointed >>
  BY ReceivedTyped DEF handleTransferRequest, IInv, TypeOK
<1>2. CASE UNCHANGED << sess, mgr >>
  <2>1. TypeOK' /\ LedgerStep
    BY <1>1, <1>2 DEF IInv, TypeOK, LedgerStep
  <2> QED
    BY <1>1, <1>2, <2>1, QuietInv
<1>3. CASE /\ Registered(KeyOf[r]) = {}
           /\ sess' = Append(sess, NewSession(r))
           /\ mgr' = Added(Len(sess) + 1)
  <2> DEFINE n == Len(sess) + 1
  <2>1. /\ sess' \in Seq(Session) /\ DOMAIN sess' = DOMAIN sess \cup {n}
        /\ n \notin DOMAIN sess /\ sess'[n] = NewSession(r)
        /\ \A t \in DOMAIN sess : sess'[t] = sess[t]
    BY <1>3, NewTyped DEF IInv, TypeOK
  <2>2. mgr' = Added(n)
    BY <1>3
  <2> HIDE DEF n
  <2>3. /\ sess'[n].key = KeyOf[r] /\ sess'[n].pc = "loop"
        /\ sess'[n].st = "TRANSFERRING"
    BY <2>1 DEF NewSession
  <2>4. /\ mgr' \subseteq mgr \cup {n}
        /\ mgr \subseteq DOMAIN sess /\ n \notin mgr
    BY <2>1, <2>2 DEF Added, IInv, TypeOK
  <2>5. TypeOK' /\ LedgerIsCosigned'
    BY <1>1, <2>1, <2>4 DEF IInv, TypeOK, LedgerIsCosigned
  <2>6. Carrying' /\ Ended' /\ CosignedIsStored'
    BY <1>1, <2>1, <2>3 DEF IInv, Carrying, Ended, CosignedIsStored
  <2>7. IsFiniteSet(mgr') /\ Cardinality(mgr') <= MaxConc
    <3>1. CASE Cardinality(mgr) < MaxConc
      <4>1. /\ IsFiniteSet(mgr \cup {n})
            /\ Cardinality(mgr \cup {n}) = Cardinality(mgr) + 1
        BY <2>4, FS_AddElement DEF IInv, ManagerKeys
      <4>2. Cardinality(mgr) \in Nat
        BY FS_CardinalityType DEF IInv, ManagerKeys
      <4> QED
        BY <2>2, <3>1, <4>1, <4>2 DEF Added
    <3>2. CASE ~(Cardinality(mgr) < MaxConc)
      BY <2>2, <3>2 DEF Added, IInv, ManagerKeys
    <3> QED
      BY <3>1, <3>2
  <2>8. \A t \in mgr : sess[t].key # KeyOf[r]
    BY <1>3 DEF Registered
  <2>9. ManagerKeys' /\ ManagerForgets'
    BY <1>1, <2>1, <2>3, <2>4, <2>7, <2>8
       DEF IInv, ManagerKeys, ManagerForgets
  <2> QED
    BY <2>5, <2>6, <2>9 DEF IInv
<1>4. ASSUME NEW s \in Registered(KeyOf[r]),
             sess' = [sess EXCEPT ![s] = [@ EXCEPT !.pending = r]],
             UNCHANGED mgr
      PROVE  IInv'
  <2>1. s \in DOMAIN sess
    BY DEF Registered, IInv, TypeOK
  <2>2. /\ sess' \in Seq(Session) /\ DOMAIN sess' = DOMAIN sess
        /\ \A t \in DOMAIN sess :
             /\ sess'[t].st = sess[t].st /\ sess'[t].pc = sess[t].pc
             /\ sess'[t].rec = sess[t].rec /\ sess'[t].key = sess[t].key
    BY <1>4, <2>1, PendingTyped DEF IInv, TypeOK
  <2>3. TypeOK' /\ LedgerIsCosigned'
    BY <1>1, <1>4, <2>2 DEF IInv, TypeOK, LedgerIsCosigned
  <2>4. Carrying' /\ Ended' /\ CosignedIsStored'
    BY <1>1, <2>2 DEF IInv, Carrying, Ended, CosignedIsStored
  <2>5. mgr \subseteq DOMAIN sess
    BY DEF IInv, TypeOK
  <2>6. ManagerKeys' /\ ManagerForgets'
    BY <1>1, <1>4, <2>2, <2>5 DEF IInv, ManagerKeys, ManagerForgets
  <2> QED
    BY <2>3, <2>4, <2>6 DEF IInv
<1> QED
  BY <1>2, <1>3, <1>4 DEF handleTransferRequest


-----------------------------------------------------------------------------
(* The peer puts one more envelope into the queue.                         *)
LEMMA PeerInv ==
  ASSUME IInv, NEW env \in Envelope, inbox' = Append(inbox, env),
         peer' \in [Request -> {"idle", "asked", "offered", "finished"}],
         extra' \in 0 .. MaxExtra, UNCHANGED << sent, NodeVars >>
  PROVE  IInv'
<1>1. inbox' \in Seq(Envelope)
  BY AppendProperties DEF IInv, TypeOK
<1>2. TypeOK' /\ LedgerStep
  BY <1>1 DEF IInv, TypeOK, LedgerStep
<1> QED
  BY <1>2, QuietInv

(* The envelopes a peer sends.                                             *)
LEMMA PeerEnvelopes ==
  /\ [type |-> "other"] \in Envelope
  /\ \A r \in Request : [type |-> "request", req |-> r] \in Envelope
  /\ \A r \in Request, sigs \in SUBSET Both :
       [type |-> "record", rec |-> [req |-> r, sigs |-> sigs]] \in Envelope
BY DEF Envelope, Record

(* Whatever the peer does, the invariant stays.                            *)
LEMMA PeerStepInv ==
  ASSUME IInv,
         \/ peerExtra
         \/ \E r \in Request : peerRequest(r) \/ peerOffer(r) \/ peerFinish(r)
  PROVE  IInv'
<1>1. /\ extra \in 0 .. MaxExtra
      /\ peer \in [Request -> {"idle", "asked", "offered", "finished"}]
  BY DEF IInv, TypeOK
<1>2. ASSUME NEW r \in Request, peerRequest(r)
      PROVE  IInv'
  BY <1>1, <1>2, PeerInv, PeerEnvelopes DEF peerRequest
<1>3. ASSUME NEW r \in Request, peerOffer(r)
      PROVE  IInv'
  <2>1. PICK sigs \in {{}, {"receiver"}} :
          inbox' = Append(inbox, [type |-> "record",
                                  rec  |-> [req |-> r, sigs |-> sigs]])
    BY <1>3 DEF peerOffer
  <2>2. sigs \in SUBSET Both
    BY DEF Both
  <2>3. [type |-> "record", rec |-> [req |-> r, sigs |-> sigs]] \in Envelope
    BY <2>2, PeerEnvelopes
  <2> QED
    BY <1>1, <1>3, <2>1, <2>3, PeerInv DEF peerOffer
<1>4. ASSUME NEW r \in Request, peerFinish(r)
      PROVE  IInv'
  <2>1. [type |-> "record", rec |-> [req |-> r, sigs |-> Both]] \in Envelope
    BY PeerEnvelopes
  <2> QED
    BY <1>1, <1>4, <2>1, PeerInv DEF peerFinish
<1>5. CASE peerExtra
  <2>1. PICK env \in {[type |-> "other"]}
           \cup {[type |-> "request", req |-> r] :
                   r \in {q \in Request : peer[q] # "idle"}}
           \cup {[type |-> "record", rec |-> [req |-> r, sigs |-> Both]] :
                   r \in {q \in Request : peer[q] = "finished"}} :
          inbox' = Append(inbox, env)
    BY <1>5 DEF peerExtra
  <2>2. env \in Envelope
    BY <2>1, PeerEnvelopes
  <2>3. extra' \in 0 .. MaxExtra /\ UNCHANGED << sent, peer, NodeVars >>
    BY <1>1, <1>5 DEF peerExtra
  <2> QED
    BY <1>1, <2>1, <2>2, <2>3, PeerInv
<1> QED
  BY <1>2, <1>3, <1>4, <1>5

(* handleShareRecord, the ledger's other writer.                           *)
LEMMA ShareRecordInv ==
  ASSUME IInv, handleShareRecord
  PROVE  IInv'
<1>1. PICK rec \in Record :
        /\ Received([type |-> "record", rec |-> rec])
        /\ records' = IF ValidateShareRecord(rec) /\ InsertRecordOK(rec)
                        THEN records \cup {rec} ELSE records
  BY DEF handleShareRecord
<1>2. inbox' \in Seq(Envelope)
  BY <1>1, ReceivedTyped DEF IInv, TypeOK
<1>3. LedgerStep
  BY <1>1 DEF LedgerStep
<1>4. records' \subseteq Record
  BY <1>3, LedgerKept DEF IInv
<1>5. TypeOK'
  BY <1>2, <1>4 DEF handleShareRecord, IInv, TypeOK
<1> QED
  BY <1>3, <1>5, QuietInv DEF handleShareRecord

(* The rest of the event loop, the checkpoint loop and Stop.               *)
LEMMA LoopInv ==
  ASSUME IInv,
         \/ eventLoopCheck \/ eventLoopOther
         \/ checkpointTick \/ checkpointDone \/ Stop \/ Close
  PROVE  IInv'
<1>1. UNCHANGED << SessVars, records, PeerVars >> /\ LedgerStep
  BY DEF eventLoopCheck, eventLoopOther, checkpointTick, checkpointDone, Stop,
         Close, LedgerStep
<1>2. inbox' \in Seq(Envelope)
  <2>1. CASE eventLoopOther
    BY <2>1, ReceivedTyped DEF eventLoopOther, NothingReceived, IInv, TypeOK
  <2>2. CASE ~eventLoopOther
    BY <2>2 DEF eventLoopCheck, checkpointTick, checkpointDone, Stop, Close,
                IInv, TypeOK
  <2> QED
    BY <2>1, <2>2
<1>3. checkpointed' \in BOOLEAN
  <2>1. CASE checkpointTick
    BY <2>1 DEF checkpointTick
  <2>2. CASE ~checkpointTick
    BY <2>2 DEF eventLoopCheck, eventLoopOther, checkpointDone, Stop, Close,
                IInv, TypeOK
  <2> QED
    BY <2>1, <2>2
<1>4. cancelled' \in BOOLEAN /\ (cancelled => cancelled')
  BY DEF eventLoopCheck, eventLoopOther, checkpointTick, checkpointDone, Stop,
         Close, IInv, TypeOK
<1>5. /\ stopping' \in {"no", "waiting", "closed"}
      /\ loop' \in {"check", "recv", "done"}
      /\ ckptLoop' \in {"tick", "done"}
  BY DEF eventLoopCheck, eventLoopOther, checkpointTick, checkpointDone, Stop,
         Close, IInv, TypeOK
<1>6. TypeOK'
  BY <1>1, <1>2, <1>3, <1>4, <1>5 DEF IInv, TypeOK
<1> QED
  BY <1>1, <1>4, <1>6, QuietInv

-----------------------------------------------------------------------------
(* The invariant is inductive.                                             *)
LEMMA NextInv == IInv /\ [Next]_vars => IInv'
<1> SUFFICES ASSUME IInv, [Next]_vars PROVE IInv'
  OBVIOUS
<1>1. CASE peerExtra \/ \E r \in Request : \/ peerRequest(r) \/ peerOffer(r)
                                          \/ peerFinish(r)
  BY <1>1, PeerStepInv
<1>2. CASE handleShareRecord
  BY <1>2, ShareRecordInv
<1>3. CASE \/ eventLoopCheck \/ eventLoopOther
           \/ checkpointTick \/ checkpointDone \/ Stop \/ Close
  BY <1>3, LoopInv
<1>4. ASSUME NEW r \in Request, handleTransferRequest(r) PROVE IInv'
  BY <1>4, TransferRequestInv
<1>5. ASSUME NEW s \in DOMAIN sess,
             \/ RunSession(s) \/ coSign(s) \/ recvFinal(s) \/ AppendRecord(s)
      PROVE  IInv'
  <2>1. Advances(s)
    BY <1>5, RunAdvances, CoSignAdvances, FinalAdvances, AppendAdvances
       DEF IInv
  <2> QED
    BY <2>1, AdvanceInv
<1>6. ASSUME NEW s \in DOMAIN sess, RemoveCompleted(s) PROVE IInv'
  BY <1>6, RemoveInv
<1>7. CASE UNCHANGED vars
  <2>1. TypeOK' /\ LedgerStep
    BY <1>7 DEF vars, IInv, TypeOK, LedgerStep
  <2> QED
    BY <1>7, <2>1, QuietInv DEF vars
<1> QED
  BY <1>1, <1>2, <1>3, <1>4, <1>5, <1>6, <1>7 DEF Next

(* Every state of the node keeps the invariant.                            *)
THEOREM Invariant == Spec => []IInv
BY InitInv, NextInv, PTL DEF Spec

(* The ledger holds only records with both signatures, one for a request,  *)
(* whichever goroutine appends them.                                       *)
THEOREM LedgerCosigned == Spec => []LedgerIsCosigned
<1>1. IInv => LedgerIsCosigned
  BY DEF IInv
<1> QED
  BY <1>1, Invariant, PTL

(* A session past co-signing has its record in the ledger.                 *)
THEOREM CosignedStored == Spec => []CosignedIsStored
<1>1. IInv => CosignedIsStored
  BY DEF IInv
<1> QED
  BY <1>1, Invariant, PTL

(* The manager holds at most maxConc sessions with different keys, and,    *)
(* before Stop, none whose goroutine has ended.                            *)
THEOREM ManagerLive == Spec => []ManagerIsLive
<1>1. IInv => ManagerIsLive
  BY DEF IInv, ManagerKeys, ManagerForgets, ManagerIsLive
<1> QED
  BY <1>1, Invariant, PTL

(* The state keeps its type.                                               *)
THEOREM TypeCorrect == Spec => []TypeOK
<1>1. IInv => TypeOK
  BY DEF IInv
<1> QED
  BY <1>1, Invariant, PTL

=============================================================================
