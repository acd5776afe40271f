------------------------------ MODULE NodeLoop ------------------------------
(***************************************************************************)
(* The coordinator of node/node.go: the event loop, the checkpoint loop,   *)
(* the co-signing sessions the event loop starts, and Stop.  All of them   *)
(* share one transport, so every envelope goes to whichever goroutine      *)
(* calls Recv first.                                                       *)
(*                                                                         *)
(* The node's sessions have no file storage, hence pass TRANSFERRING       *)
(* without moving chunks and go on to CO_SIGNING.  The transport and the   *)
(* requesting peer are external: the peer asks, offers a share record and  *)
(* returns the final one when it gets a half-signed record back.           *)
(***************************************************************************)
EXTENDS Naturals, Sequences, FiniteSets

CONSTANTS
  Request,            \* transfer requests the peer may make
  Key,                \* session ids: "<requester pubkey>:<file hash>"
  KeyOf,              \* KeyOf[r] is the session id of request r
  MaxConc,            \* maxConcurrentTransfers
  CheckpointInterval, \* records before ShouldCheckpoint says yes
  Polling,            \* Recv gives nil on an empty queue instead of blocking
  MayStop,            \* the application may call Stop
  MaxExtra,           \* repeated envelopes and envelopes of other kinds
  MaxFaults           \* failing Sign and Send calls

ASSUME RequestAssumption ==
  /\ IsFiniteSet(Request)
  /\ KeyOf \in [Request -> Key]

ASSUME NumberAssumption ==
  /\ MaxConc \in Nat \ {0}
  /\ CheckpointInterval \in Nat \ {0}
  /\ MaxExtra \in Nat
  /\ MaxFaults \in Nat

ASSUME FlagAssumption ==
  /\ Polling \in BOOLEAN
  /\ MayStop \in BOOLEAN

VARIABLES
  inbox,       \* envelopes the transport has for Recv
  sent,        \* share records the node has sent to the peer
  peer,        \* what the peer has done about each request
  extra,       \* repeated and other envelopes sent so far
  cancelled,   \* n.ctx is cancelled
  stopping,    \* Stop: "no", "waiting" (in wg.Wait) or "closed" (returned)
  loop,        \* event loop: "check" (select), "recv" or "done"
  ckptLoop,    \* checkpoint loop: "tick" or "done"
  sess,        \* the sessions created so far, in order
  mgr,         \* the sessions in the SessionManager (indices into sess)
  records,     \* share_records rows
  checkpointed, \* the checkpoints table has a row of this device
  faults

vars == << inbox, sent, peer, extra, cancelled, stopping, loop, ckptLoop,
           sess, mgr, records, checkpointed, faults >>

Both == {"sender", "receiver"}
Record == [req : Request, sigs : SUBSET Both]

Envelope ==
  [type : {"request"}, req : Request]
    \cup [type : {"record"}, rec : Record]
    \cup [type : {"other"}]

(* The session states the node's sessions go through (engine.go).         *)
State == {"TRANSFERRING", "CO_SIGNING", "GOSSIPING", "COMPLETE", "FAILED"}

(* pc: in the loop of RunSession, in a Recv of handleCoSigning, about to   *)
(* append, returned from RunSession, or past RemoveCompleted.              *)
PC == {"loop", "recv", "final", "append", "returned", "done"}

NoRecord == [req |-> "none"]

Session ==
  [key : Key, pending : Request, st : State, pc : PC,
   rec : Record \cup {NoRecord}]

\* Mutant: failed sessions are not taken for finished ones.
Terminal_complete(st) == st = "COMPLETE"

Terminal(st) == st \in {"COMPLETE", "FAILED"}

Init ==
  /\ inbox = << >>
  /\ sent = {}
  /\ peer = [r \in Request |-> "idle"]
  /\ extra = 0
  /\ cancelled = FALSE
  /\ stopping = "no"
  /\ loop = "check"
  /\ ckptLoop = "tick"
  /\ sess = << >>
  /\ mgr = {}
  /\ records = {}
  /\ checkpointed = FALSE
  /\ faults = 0

-----------------------------------------------------------------------------
(* The peer and the link (external).                                      *)

NodeVars == << cancelled, stopping, loop, ckptLoop, sess, mgr, records,
               checkpointed, faults >>

peerRequest(r) ==
  /\ peer[r] = "idle"
  /\ peer' = [peer EXCEPT ![r] = "asked"]
  /\ inbox' = Append(inbox, [type |-> "request", req |-> r])
  /\ UNCHANGED << sent, extra, NodeVars >>

(* The peer offers the record of a request, with or without its own       *)
(* signature on it.                                                       *)
peerOffer(r) ==
  /\ peer[r] = "asked"
  /\ \E sigs \in {{}, {"receiver"}} :
       inbox' = Append(inbox, [type |-> "record",
                               rec  |-> [req |-> r, sigs |-> sigs]])
  /\ peer' = [peer EXCEPT ![r] = "offered"]
  /\ UNCHANGED << sent, extra, NodeVars >>

(* The node's half-signed record reaches the peer, which completes it.    *)
peerFinish(r) ==
  /\ peer[r] = "offered"
  /\ [req |-> r, sigs |-> {"sender"}] \in sent
  /\ peer' = [peer EXCEPT ![r] = "finished"]
  /\ inbox' = Append(inbox, [type |-> "record",
                             rec  |-> [req |-> r, sigs |-> Both]])
  /\ UNCHANGED << sent, extra, NodeVars >>

(* The peer repeats a request or a final record, or sends an envelope of  *)
(* another kind (gossip, a handshake).                                    *)
peerExtra ==
  /\ extra < MaxExtra
  /\ extra' = extra + 1
  /\ \E env \in {[type |-> "other"]}
        \cup {[type |-> "request", req |-> r] : r \in {q \in Request : peer[q] # "idle"}}
        \cup {[type |-> "record", rec |-> [req |-> r, sigs |-> Both]] :
                r \in {q \in Request : peer[q] = "finished"}} :
       inbox' = Append(inbox, env)
  /\ UNCHANGED << sent, peer, NodeVars >>

PeerVars == << peer, extra >>

-----------------------------------------------------------------------------
(* Recv, called by the event loop and by every session.                   *)

(* Recv returns the envelope at the head of the queue.                    *)
Received(env) ==
  /\ inbox # << >>
  /\ env = Head(inbox)
  /\ inbox' = Tail(inbox)

(* Recv returns nil or an error: a polling transport finds the queue      *)
(* empty, or the transport is closed.                                     *)
\* Mutant: an empty queue makes Recv block for good.
NothingReceived_blocking ==
  /\ inbox = << >>
  /\ stopping = "closed"
  /\ UNCHANGED inbox

NothingReceived ==
  /\ inbox = << >>
  /\ Polling \/ stopping = "closed"
  /\ UNCHANGED inbox

\* Mutant: only the receiver's signature is verified.
ValidateShareRecord_receiver(rec) == "receiver" \in rec.sigs

(* ValidateShareRecord: both signatures verify.                           *)
ValidateShareRecord(rec) == rec.sigs = Both

(* InsertRecord: the primary key is the hash of the signed fields.        *)
InsertRecordOK(rec) == \A old \in records : old.req # rec.req

-----------------------------------------------------------------------------
(* The event loop.                                                        *)

SessVars == << sess, mgr, sent, faults >>

\* Mutant: the event loop does not look at its context.
eventLoopCheck_noContext ==
  /\ loop = "check"
  /\ loop' = "recv"
  /\ UNCHANGED << inbox, PeerVars, cancelled, stopping, ckptLoop, SessVars,
                  records, checkpointed >>

eventLoopCheck ==
  /\ loop = "check"
  /\ loop' = IF cancelled THEN "done" ELSE "recv"
  /\ UNCHANGED << inbox, PeerVars, cancelled, stopping, ckptLoop, SessVars,
                  records, checkpointed >>

(* No envelope, or one of another kind: a gossip payload, whose rows are  *)
(* about other devices, or a payload the loop does not handle.            *)
eventLoopOther ==
  /\ loop = "recv"
  /\ \/ NothingReceived
     \/ Received([type |-> "other"])
  /\ loop' = "check"
  /\ UNCHANGED << PeerVars, cancelled, stopping, ckptLoop, SessVars, records,
                  checkpointed >>

Registered(key) == {s \in mgr : sess[s].key = key}

NewSession(r) ==
  [key |-> KeyOf[r], pending |-> r, st |-> "TRANSFERRING", pc |-> "loop",
   rec |-> NoRecord]

\* Mutant: the session is registered under the wrong name.
Added_next(s) == IF Cardinality(mgr) < MaxConc THEN mgr \cup {s + 1} ELSE mgr

(* Add refuses when the manager is full; handleTransferRequest ignores the *)
(* error and runs the session all the same.                               *)
Added(s) == IF Cardinality(mgr) < MaxConc THEN mgr \cup {s} ELSE mgr

(* A request whose signature or time window fails is ignored; the window   *)
(* is checked against the clock, so any request may come too late.         *)
handleTransferRequest(r) ==
  /\ loop = "recv"
  /\ Received([type |-> "request", req |-> r])
  /\ loop' = "check"
  /\ \/ UNCHANGED << sess, mgr >>
     \/ /\ Registered(KeyOf[r]) = {}
        /\ sess' = Append(sess, NewSession(r))
        /\ mgr' = Added(Len(sess) + 1)
     \/ /\ \E s \in Registered(KeyOf[r]) :
             sess' = [sess EXCEPT ![s] = [@ EXCEPT !.pending = r]]
        /\ UNCHANGED mgr
  /\ UNCHANGED << PeerVars, cancelled, stopping, ckptLoop, sent, faults,
                  records, checkpointed >>

(* The fork check that follows the insert stores nothing: the evidence    *)
(* DetectFork builds has no reporter, and reporter_pubkey is NOT NULL.    *)
handleShareRecord ==
  /\ loop = "recv"
  /\ \E rec \in Record :
       /\ Received([type |-> "record", rec |-> rec])
       /\ records' = IF ValidateShareRecord(rec) /\ InsertRecordOK(rec)
                       THEN records \cup {rec} ELSE records
  /\ loop' = "check"
  /\ UNCHANGED << PeerVars, cancelled, stopping, ckptLoop, SessVars,
                  checkpointed >>

-----------------------------------------------------------------------------
(* The checkpoint loop and Stop.                                          *)

(* The time-based rule needs an earlier checkpoint.                       *)
ShouldCheckpoint ==
  \/ Cardinality(records) >= CheckpointInterval
  \/ checkpointed

(* ComputeCheckpoint fills in the chain head and leaves DeviceSig unset.  *)
ComputeCheckpoint == [chainHead |-> TRUE, deviceSig |-> FALSE]

(* InsertCheckpoint: chain_head and device_sig are NOT NULL columns.      *)
InsertCheckpointOK(cp) == cp.chainHead /\ cp.deviceSig

checkpointTick ==
  /\ ckptLoop = "tick"
  /\ records # {}
  /\ ShouldCheckpoint
  /\ checkpointed' = (checkpointed \/ InsertCheckpointOK(ComputeCheckpoint))
  /\ UNCHANGED << inbox, PeerVars, cancelled, stopping, loop, ckptLoop,
                  SessVars, records >>

checkpointDone ==
  /\ ckptLoop = "tick"
  /\ cancelled
  /\ ckptLoop' = "done"
  /\ UNCHANGED << inbox, PeerVars, cancelled, stopping, loop, SessVars,
                  records, checkpointed >>

Stop ==
  /\ MayStop
  /\ stopping = "no"
  /\ stopping' = "waiting"
  /\ cancelled' = TRUE
  /\ UNCHANGED << inbox, PeerVars, loop, ckptLoop, SessVars, records,
                  checkpointed >>

(* wg.Wait returns once both loops are done; then the transport is closed. *)
Close ==
  /\ stopping = "waiting"
  /\ loop = "done"
  /\ ckptLoop = "done"
  /\ stopping' = "closed"
  /\ UNCHANGED << inbox, PeerVars, cancelled, loop, ckptLoop, SessVars,
                  records, checkpointed >>

-----------------------------------------------------------------------------
(* The session goroutines: RunSession, then RemoveCompleted.              *)

LoopVars == << PeerVars, cancelled, stopping, loop, ckptLoop, checkpointed >>

At(s, pc) == s \in DOMAIN sess /\ sess[s].pc = pc

GoTo(s, st, pc, rec) ==
  sess' = [sess EXCEPT ![s] = [@ EXCEPT !.st = st, !.pc = pc, !.rec = rec]]

Fail(s) == GoTo(s, "FAILED", "returned", NoRecord)

(* One turn of the loop of RunSession: the context is looked at first; a  *)
(* cancelled session returns in the state it is in.                       *)
RunSession(s) ==
  /\ At(s, "loop")
  /\ \/ /\ cancelled
        /\ GoTo(s, sess[s].st, "returned", sess[s].rec)
     \/ /\ ~cancelled
        /\ sess[s].st = "TRANSFERRING"
        /\ GoTo(s, "CO_SIGNING", "loop", NoRecord)
     \/ /\ ~cancelled
        /\ sess[s].st = "CO_SIGNING"
        /\ GoTo(s, "CO_SIGNING", "recv", NoRecord)
     \/ /\ ~cancelled
        /\ sess[s].st = "GOSSIPING"
        /\ GoTo(s, "COMPLETE", "returned", sess[s].rec)
  /\ UNCHANGED << inbox, sent, mgr, records, faults, LoopVars >>

(* The checks of handleCoSigning on the record it first receives.         *)
Matches(s, rec) ==
  /\ KeyOf[rec.req] = sess[s].key
  /\ rec.req = sess[s].pending

WithSenderSig(rec) == [rec EXCEPT !.sigs = @ \cup {"sender"}]

(* handleCoSigning up to its Send: receive, check, sign, send.  Sign and   *)
(* Send may fail.                                                         *)
coSign(s) ==
  /\ At(s, "recv")
  /\ \/ /\ NothingReceived
        /\ Fail(s)
        /\ UNCHANGED << sent, faults >>
     \/ \E env \in Envelope :
          /\ Received(env)
          /\ env.type = "record" => ~Matches(s, env.rec)
          /\ Fail(s)
          /\ UNCHANGED << sent, faults >>
     \/ \E rec \in Record :
          /\ Received([type |-> "record", rec |-> rec])
          /\ Matches(s, rec)
          /\ sent' = sent \cup {WithSenderSig(rec)}
          /\ GoTo(s, "CO_SIGNING",
                  IF WithSenderSig(rec).sigs = Both THEN "append" ELSE "final",
                  WithSenderSig(rec))
          /\ UNCHANGED faults
     \/ \E rec \in Record :
          /\ Received([type |-> "record", rec |-> rec])
          /\ Matches(s, rec)
          /\ faults < MaxFaults
          /\ faults' = faults + 1
          /\ Fail(s)
          /\ UNCHANGED sent
  /\ UNCHANGED << mgr, records, LoopVars >>

(* The second Recv: the record received replaces the one just signed.     *)
recvFinal(s) ==
  /\ At(s, "final")
  /\ \/ /\ NothingReceived
        /\ Fail(s)
     \/ \E env \in Envelope :
          /\ Received(env)
          /\ IF env.type = "record"
               THEN GoTo(s, "CO_SIGNING", "append", env.rec)
               ELSE Fail(s)
  /\ UNCHANGED << sent, mgr, records, faults, LoopVars >>

\* Mutant: the session goes on whether or not the record was stored.
AppendRecord_ignoringErrors(s) ==
  LET rec == sess[s].rec IN
  /\ At(s, "append")
  /\ records' = IF ValidateShareRecord(rec) /\ InsertRecordOK(rec)
                  THEN records \cup {rec} ELSE records
  /\ GoTo(s, "GOSSIPING", "loop", rec)
  /\ UNCHANGED << inbox, sent, mgr, faults, LoopVars >>

AppendRecord(s) ==
  LET rec == sess[s].rec IN
  /\ At(s, "append")
  /\ IF ValidateShareRecord(rec) /\ InsertRecordOK(rec)
       THEN /\ records' = records \cup {rec}
            /\ GoTo(s, "GOSSIPING", "loop", rec)
       ELSE /\ Fail(s)
            /\ UNCHANGED records
  /\ UNCHANGED << inbox, sent, mgr, faults, LoopVars >>

RemoveCompleted(s) ==
  /\ At(s, "returned")
  /\ sess' = [sess EXCEPT ![s] = [@ EXCEPT !.pc = "done"]]
  /\ mgr' = {t \in mgr : ~Terminal(sess[t].st)}
  /\ UNCHANGED << inbox, sent, records, faults, LoopVars >>

-----------------------------------------------------------------------------
Next ==
  \/ \E r \in Request : peerRequest(r) \/ peerOffer(r) \/ peerFinish(r)
  \/ peerExtra
  \/ eventLoopCheck \/ eventLoopOther \/ handleShareRecord
  \/ \E r \in Request : handleTransferRequest(r)
  \/ checkpointTick \/ checkpointDone \/ Stop \/ Close
  \/ \E s \in DOMAIN sess :
       \/ RunSession(s) \/ coSign(s) \/ recvFinal(s) \/ AppendRecord(s)
       \/ RemoveCompleted(s)

Spec == Init /\ [][Next]_vars

(* The sessions there can be: one for each request envelope.              *)
MaxSessions == Cardinality(Request) + MaxExtra

(* The Go scheduler runs every goroutine that can run.  The peer and the  *)
(* application owe nothing.                                               *)
EventLoop ==
  \/ eventLoopCheck \/ eventLoopOther \/ handleShareRecord
  \/ \E r \in Request : handleTransferRequest(r)

SessionStep(s) ==
  \/ RunSession(s) \/ coSign(s) \/ recvFinal(s) \/ AppendRecord(s)
  \/ RemoveCompleted(s)

Fairness ==
  /\ WF_vars(EventLoop)
  /\ WF_vars(checkpointTick)
  /\ WF_vars(checkpointDone)
  /\ WF_vars(Close)
  /\ \A s \in 1 .. MaxSessions : WF_vars(SessionStep(s))

FairSpec == Spec /\ Fairness

-----------------------------------------------------------------------------
(* Properties.                                                            *)

TypeOK ==
  /\ inbox \in Seq(Envelope)
  /\ sent \subseteq Record
  /\ peer \in [Request -> {"idle", "asked", "offered", "finished"}]
  /\ extra \in 0 .. MaxExtra
  /\ cancelled \in BOOLEAN
  /\ stopping \in {"no", "waiting", "closed"}
  /\ loop \in {"check", "recv", "done"}
  /\ ckptLoop \in {"tick", "done"}
  /\ sess \in Seq(Session)
  /\ mgr \subseteq DOMAIN sess
  /\ records \subseteq Record
  /\ checkpointed \in BOOLEAN
  /\ faults \in 0 .. MaxFaults

(* Whoever appends it, the event loop or a session that got another       *)
(* session's envelope, a stored record carries both signatures, and no    *)
(* request is recorded twice (ValidateShareRecord and the primary key of  *)
(* share_records, reached from two goroutines).                           *)
LedgerIsCosigned ==
  /\ \A rec \in records : rec.sigs = Both
  /\ \A a, b \in records : a.req = b.req => a = b

(* A session is registered under a key of its own, the manager holds no   *)
(* more than maxConc, and a registered session whose goroutine has ended  *)
(* was cut short by Stop: without that, RemoveCompleted has freed the key *)
(* for the next request.                                                  *)
ManagerIsLive ==
  /\ Cardinality(mgr) <= MaxConc
  /\ \A s, t \in mgr : sess[s].key = sess[t].key => s = t
  /\ \A s \in mgr : sess[s].pc = "done" => cancelled

(* A session that is past co-signing has its record in the store, even if *)
(* other goroutines took envelopes meant for it.                          *)
CosignedIsStored ==
  \A s \in DOMAIN sess :
    sess[s].st \in {"GOSSIPING", "COMPLETE"} => sess[s].rec \in records

(* Stop returns: after cancel, both loops notice and the transport is     *)
(* closed.                                                                *)
StopReturns == stopping = "waiting" ~> stopping = "closed"

(* Every session goroutine ends: none is left waiting for an envelope     *)
(* that another goroutine took.                                           *)
SessionsEnd ==
  \A s \in 1 .. MaxSessions :
    s \in DOMAIN sess ~> At(s, "done")

-----------------------------------------------------------------------------
(* What the documents and messages say and the code does not keep.        *)

(* No more sessions run than maxConc (manager.go: "max concurrent         *)
(* sessions reached").                                                    *)
RunningBounded ==
  Cardinality({s \in DOMAIN sess : sess[s].pc # "done"}) <= MaxConc

(* README: the node "routes incoming transport events to the correct      *)
(* transfer session": the record a session waits for is not consumed by   *)
(* another goroutine.                                                     *)
Awaits(s, env) ==
  /\ At(s, "recv") \/ At(s, "final")
  /\ env.type = "record"
  /\ env.rec.req = sess[s].pending

RoutedToSession ==
  [][\A s \in DOMAIN sess :
       (inbox # << >> /\ Awaits(s, Head(inbox)) /\ inbox' = Tail(inbox))
         => sess'[s] # sess[s]]_vars

(* A session completes with the record of its own request, as the check   *)
(* "share record request hash does not match pending request" intends.    *)
AppendsOwnRecord ==
  \A s \in DOMAIN sess :
    sess[s].st = "COMPLETE" => KeyOf[sess[s].rec.req] = sess[s].key

(* README: "Periodic checkpoint creation": once the ledger has enough     *)
(* records a checkpoint is stored, unless the node is stopped.            *)
CheckpointCreated ==
  Cardinality(records) >= CheckpointInterval ~> (checkpointed \/ cancelled)

=============================================================================
