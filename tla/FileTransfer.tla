---------------------------- MODULE FileTransfer ----------------------------
(***************************************************************************)
(* Chunk transfer between two phones over one link, as the C ABI layer     *)
(* (cabi/exports.go, cabi/flow_adapters.go) and the transfer engine        *)
(* (transfer/engine.go, batch.go, manager.go) carry it out.                *)
(*                                                                         *)
(* Each device runs two native threads that call into the core ("ui" for   *)
(* user actions, "ble" for link events, which arrive one at a time because *)
(* they belong to one GATT connection) and one goroutine per session.      *)
(* With one link there is one peer id, so on a disconnect no transport     *)
(* survives; links that are merged are the subject of PeerTransports.      *)
(***************************************************************************)
EXTENDS Naturals, Sequences, FiniteSets

CONSTANTS
  Device,             \* the two phones
  File,               \* file hashes
  NumChunks,          \* chunks per file
  Seed,               \* Seed[d][f]: the chunks d holds at the start
  MayRequest,         \* <<d, f>>: the user of d may ask for file f
  Counts,             \* the chunk counts a user asks for
  MaxChunksPerBatch,  \* transfer/batch.go: 64
  QueueCap,           \* capacity of cabiPeerTransport.incoming: 32
  MaxConc,            \* SessionManager.maxConc: 4
  Slot,               \* session objects, one goroutine each
  NoSession,          \* no entry in SessionManager.sessions
  MaxRequests,        \* bound: user requests in a behaviour
  MaxLoss,            \* bound: envelopes the link loses
  MaxDrops,           \* bound: times the link goes down
  MaxFaults           \* bound: failures of the native WriteChunk callback

Chunk == 0 .. (NumChunks - 1)
Thread == {"ui", "ble"}

ASSUME DeviceAssumption ==
  \A d \in Device : \E e \in Device \ {d} : Device = {d, e}
ASSUME SeedAssumption == Seed \in [Device -> [File -> SUBSET Chunk]]
ASSUME SlotAssumption == NoSession \notin Slot
ASSUME CountsAssumption == Counts \subseteq 1 .. NumChunks
ASSUME BoundsAssumption ==
  /\ NumChunks \in Nat \ {0} /\ MaxChunksPerBatch \in Nat \ {0}
  /\ QueueCap \in Nat \ {0} /\ MaxConc \in Nat \ {0}
  /\ {MaxRequests, MaxLoss, MaxDrops, MaxFaults} \subseteq Nat
ASSUME MayRequestAssumption == MayRequest \subseteq Device \X File

VARIABLES
  store,    \* store[d][f]: chunks in d's native chunk storage
  sess,     \* sess[d][s]: TransferSession objects
  mgr,      \* mgr[d][f]: SessionManager.sessions, keyed by the file of the peer
  tp,       \* tp[d][g]: the g-th cabiPeerTransport made for the peer
  mapped,   \* mapped[d]: node.PeerTransports holds the newest transport
  call,     \* call[d][th]: what a native thread is doing inside the core
  up,       \* the radio link is up
  conn,     \* conn[d]: d's BLE layer has a connected device to send to
  wire,     \* wire[d]: envelopes travelling to d, in order
  requests, losses, drops, faults   \* how much of each bound is used

net == <<up, conn, wire>>
budget == <<requests, losses, drops, faults>>
vars == <<store, sess, mgr, tp, mapped, call, net, budget>>

Peer(d) == CHOOSE e \in Device : e # d

-----------------------------------------------------------------------------
(* Envelopes, sessions and calls.                                           *)

Handshake == [type |-> "handshake"]
Request == [type : {"request"}, file : File, idx : SUBSET Chunk]
Batch == [type : {"batch"}, file : File, idx : SUBSET Chunk]
Envelope == {Handshake} \cup Request \cup Batch

\* pend is pendingRequest.ChunkIndices, asked what the user last asked of the
\* session, tr the transport the session was built with.
FreeSession == [pc |-> "free"]
Session ==
  [pc : {"start", "check", "build", "wait", "recv", "drain", "exit"},
   st : {"IDLE", "TRANSFERRING", "COMPLETE", "FAILED"},
   dir : {"OUTBOUND", "INBOUND"}, file : File, pend : SUBSET Chunk,
   asked : SUBSET Chunk, sent : BOOLEAN, tr : Nat \ {0}]

IdleCall == [pc |-> "idle"]
Call ==
  {IdleCall}
  \cup [pc : {"get"}, dir : {"OUTBOUND", "INBOUND"}, file : File, idx : SUBSET Chunk]
  \cup [pc : {"add"}, dir : {"OUTBOUND", "INBOUND"}, file : File, idx : SUBSET Chunk,
        tr : Nat \ {0}]
  \cup [pc : {"enqueue"}, env : {Handshake} \cup Batch]

Live(x) == x.pc # "free"
Terminal(x) == Live(x) /\ x.st \in {"COMPLETE", "FAILED"}

-----------------------------------------------------------------------------
(* Helpers of the engine and of the transport.                              *)

\* Mutant: the scan for missing chunks starts at index 1.
MissingChunkIndices_fromOne(d, f, idx) == {i \in idx : i > 0} \ store[d][f]

\* Mutant: one chunk of the file stands for all of them.
MissingChunkIndices_anyChunk(d, f, idx) == IF store[d][f] = {} THEN idx ELSE {}

\* transfer.MissingChunkIndices
MissingChunkIndices(d, f, idx) == idx \ store[d][f]

\* Mutant: one index less than MaxChunksPerBatch.
FirstIndices_oneLess(idx) ==
  {i \in idx : Cardinality({j \in idx : j < i}) < MaxChunksPerBatch - 1}

\* The first MaxChunksPerBatch indices; requests list indices in order.
FirstIndices(idx) ==
  {i \in idx : Cardinality({j \in idx : j < i}) < MaxChunksPerBatch}

\* Mutant: a batch already written to storage is not queued.
enqueueLocked_storedOnly(t, env) ==
  IF env.type = "batch" THEN t
  ELSE [t EXCEPT !.incoming = Append(IF Len(@) < QueueCap THEN @ ELSE Tail(@), env)]

\* enqueueLocked: a full channel gives up its oldest envelope.
enqueueLocked(t, env) ==
  [t EXCEPT !.incoming = IF Len(@) < QueueCap THEN Append(@, env) ELSE Append(Tail(@), env)]

\* What Recv and TryRecv find first, and the transport once it is taken:
\* envelopes put back come before the channel.
Pending(t) == t.preRecv \o t.incoming
takeFirst(t) ==
  IF t.preRecv # <<>> THEN [t EXCEPT !.preRecv = Tail(@)] ELSE [t EXCEPT !.incoming = Tail(@)]

\* PutBack of the envelope just taken.
PutBack(t, env) == [takeFirst(t) EXCEPT !.preRecv = <<env>> \o @]

SetSess(d, s, x) == sess' = [sess EXCEPT ![d][s] = x]
SetCall(d, th, c) == call' = [call EXCEPT ![d][th] = c]
Finished(x, st) == [x EXCEPT !.st = st, !.pc = "exit"]

\* NativeCallbacks.Send: the BLE layer accepts the envelope while it has a
\* connected device; with the radio link already gone the envelope is lost.
Deliverable(d, env) ==
  wire' = IF up THEN [wire EXCEPT ![Peer(d)] = Append(@, env)] ELSE wire

EmptyTransport == [preRecv |-> <<>>, incoming |-> <<>>]

\* ensurePeerTransport: reuse the transport of the peer or make one.
ensurePeerTransport(d) ==
  /\ mapped' = [mapped EXCEPT ![d] = TRUE]
  /\ tp' = IF mapped[d] THEN tp ELSE [tp EXCEPT ![d] = Append(@, EmptyTransport)]

\* The transport ensurePeerTransport returns.
Transport(d) == IF mapped[d] THEN Len(tp[d]) ELSE Len(tp[d]) + 1

Init ==
  /\ store = Seed
  /\ sess = [d \in Device |-> [s \in Slot |-> FreeSession]]
  /\ mgr = [d \in Device |-> [f \in File |-> NoSession]]
  /\ tp = [d \in Device |-> <<>>]
  /\ mapped = [d \in Device |-> FALSE]
  /\ call = [d \in Device |-> [th \in Thread |-> IdleCall]]
  /\ up = FALSE
  /\ conn = [d \in Device |-> FALSE]
  /\ wire = [d \in Device |-> <<>>]
  /\ requests = 0 /\ losses = 0 /\ drops = 0 /\ faults = 0

-----------------------------------------------------------------------------
(* The link.                                                                *)

LinkUp ==
  /\ ~up /\ \A d \in Device : ~conn[d]
  /\ up' = TRUE
  /\ UNCHANGED <<store, sess, mgr, tp, mapped, call, conn, wire, budget>>

LinkDown ==
  /\ up /\ drops < MaxDrops
  /\ up' = FALSE
  /\ wire' = [d \in Device |-> <<>>]
  /\ drops' = drops + 1
  /\ UNCHANGED <<store, sess, mgr, tp, mapped, call, conn, requests, losses, faults>>

Lose(d) ==
  /\ wire[d] # <<>> /\ losses < MaxLoss
  /\ wire' = [wire EXCEPT ![d] = Tail(@)]
  /\ losses' = losses + 1
  /\ UNCHANGED <<store, sess, mgr, tp, mapped, call, up, conn, requests, drops, faults>>

\* ml_on_peer_connected: with one peer id there is nothing to merge.
ml_on_peer_connected(d) ==
  /\ up /\ ~conn[d] /\ call[d]["ble"] = IdleCall
  /\ conn' = [conn EXCEPT ![d] = TRUE]
  /\ ensurePeerTransport(d)
  /\ Deliverable(d, Handshake)
  /\ UNCHANGED <<store, sess, mgr, call, up, budget>>

\* ml_on_peer_disconnected: no transport survives, so the sessions of the
\* peer leave the manager; their goroutines keep the old transport.
ml_on_peer_disconnected(d) ==
  /\ ~up /\ conn[d] /\ call[d]["ble"] = IdleCall
  /\ conn' = [conn EXCEPT ![d] = FALSE]
  /\ mapped' = [mapped EXCEPT ![d] = FALSE]
  /\ mgr' = [mgr EXCEPT ![d] = [f \in File |-> NoSession]]
  /\ UNCHANGED <<store, sess, tp, call, up, wire, budget>>

-----------------------------------------------------------------------------
(* Native threads inside the core.                                          *)

\* Mutant: one chunk index too many.
RequestIndices_oneMore(n) == 0 .. n

\* The indices ml_request_file_with_chunk_count asks for.
RequestIndices(n) == 0 .. (n - 1)

\* ml_request_file and ml_request_file_with_chunk_count, up to the choice of
\* the peer under node.mu: the only peer, while it has a transport.
ml_request_file(d, f, n) ==
  /\ call[d]["ui"] = IdleCall /\ mapped[d]
  /\ <<d, f>> \in MayRequest /\ requests < MaxRequests
  /\ requests' = requests + 1
  /\ SetCall(d, "ui", [pc |-> "get", dir |-> "OUTBOUND", file |-> f, idx |-> RequestIndices(n)])
  /\ UNCHANGED <<store, sess, mgr, tp, mapped, net, losses, drops, faults>>

\* ml_on_data_received takes the next envelope off the link.  A request goes
\* to startSession; a batch is written to chunk storage (errors ignored)
\* before it is queued; a handshake is queued.
ml_on_data_received(d) ==
  /\ conn[d] /\ wire[d] # <<>> /\ call[d]["ble"] = IdleCall
  /\ wire' = [wire EXCEPT ![d] = Tail(@)]
  /\ LET env == Head(wire[d]) IN
       \/ /\ env.type = "request"
          /\ SetCall(d, "ble", [pc |-> "get", dir |-> "INBOUND", file |-> env.file, idx |-> env.idx])
          /\ UNCHANGED <<store, faults>>
       \/ /\ env.type = "batch"
          /\ SetCall(d, "ble", [pc |-> "enqueue", env |-> env])
          /\ \/ /\ store' = [store EXCEPT ![d][env.file] = @ \cup env.idx]
                /\ UNCHANGED faults
             \/ \E W \in SUBSET env.idx :
                  /\ W # env.idx /\ faults < MaxFaults
                  /\ store' = [store EXCEPT ![d][env.file] = @ \cup W]
                  /\ faults' = faults + 1
       \/ /\ env.type = "handshake"
          /\ SetCall(d, "ble", [pc |-> "enqueue", env |-> env])
          /\ UNCHANGED <<store, faults>>
  /\ UNCHANGED <<sess, mgr, tp, mapped, up, conn, requests, losses, drops>>

\* ensurePeerTransport(...).enqueue(env)
enqueue(d) ==
  /\ call[d]["ble"].pc = "enqueue"
  /\ mapped' = [mapped EXCEPT ![d] = TRUE]
  /\ LET env == call[d]["ble"].env IN
       tp' = IF mapped[d] THEN [tp EXCEPT ![d][Transport(d)] = enqueueLocked(@, env)]
             ELSE [tp EXCEPT ![d] = Append(@, enqueueLocked(EmptyTransport, env))]
  /\ SetCall(d, "ble", IdleCall)
  /\ UNCHANGED <<store, sess, mgr, net, budget>>

\* startSession up to SessionManager.Get.  A registered session of the same
\* peer and file, whatever its direction or state, gets the new request.
startSession(d, th) ==
  /\ call[d][th].pc = "get"
  /\ ensurePeerTransport(d)
  /\ LET c == call[d][th]  s == mgr[d][c.file] IN
       IF s = NoSession
       THEN /\ SetCall(d, th, [pc |-> "add", dir |-> c.dir, file |-> c.file, idx |-> c.idx,
                               tr |-> Transport(d)])
            /\ UNCHANGED sess
       ELSE /\ SetCall(d, th, IdleCall)
            /\ SetSess(d, s, [sess[d][s] EXCEPT !.pend = c.idx,
                 !.asked = IF c.dir = "OUTBOUND" /\ ~Terminal(sess[d][s]) THEN c.idx ELSE @])
  /\ UNCHANGED <<store, mgr, net, budget>>

\* NewSession, SessionManager.Add and the go statement: a second session for
\* the same id and a session over the limit are refused.
addSession(d, th) ==
  /\ call[d][th].pc = "add"
  /\ SetCall(d, th, IdleCall)
  /\ LET c == call[d][th] IN
       IF \/ mgr[d][c.file] # NoSession
          \/ Cardinality({f \in File : mgr[d][f] # NoSession}) >= MaxConc
       THEN UNCHANGED <<sess, mgr>>
       ELSE \E s \in Slot :
              /\ ~Live(sess[d][s])
              /\ SetSess(d, s, [pc |-> "start", st |-> "IDLE", dir |-> c.dir, file |-> c.file,
                                pend |-> c.idx, asked |-> c.idx, sent |-> FALSE, tr |-> c.tr])
              /\ mgr' = [mgr EXCEPT ![d][c.file] = s]
  /\ UNCHANGED <<store, tp, mapped, net, budget>>

-----------------------------------------------------------------------------
(* The session goroutine: RunSession and handleTransferring.                *)

\* RunSession with a pending request walks to TRANSFERRING at once.
RunSession(d, s) ==
  /\ sess[d][s].pc = "start"
  /\ SetSess(d, s, [sess[d][s] EXCEPT !.st = "TRANSFERRING", !.pc = "check"])
  /\ UNCHANGED <<store, mgr, tp, mapped, call, net, budget>>

\* The sender must hold every requested chunk.
checkInbound(d, s) ==
  LET x == sess[d][s] IN
  /\ x.pc = "check" /\ x.dir = "INBOUND"
  /\ SetSess(d, s, IF MissingChunkIndices(d, x.file, x.pend) = {}
                   THEN [x EXCEPT !.pc = "build"] ELSE Finished(x, "FAILED"))
  /\ UNCHANGED <<store, mgr, tp, mapped, call, net, budget>>

\* The sender answers with one batch, read from the request of this moment.
sendBatch(d, s) ==
  LET x == sess[d][s]  idx == FirstIndices(x.pend) IN
  /\ x.pc = "build"
  /\ IF x.pend # {} /\ (~conn[d] \/ MissingChunkIndices(d, x.file, idx) # {})
     THEN SetSess(d, s, Finished(x, "FAILED")) /\ UNCHANGED wire
     ELSE /\ SetSess(d, s, Finished(x, "COMPLETE"))
          /\ IF x.pend = {} THEN UNCHANGED wire
             ELSE Deliverable(d, [type |-> "batch", file |-> x.file, idx |-> idx])
  /\ UNCHANGED <<store, mgr, tp, mapped, call, up, conn, budget>>

\* The requester finds everything present, sends its request for what is
\* missing, or, the request sent, goes on to wait.
checkOutbound(d, s) ==
  LET x == sess[d][s]  missing == MissingChunkIndices(d, x.file, x.pend) IN
  /\ x.pc = "check" /\ x.dir = "OUTBOUND"
  /\ \/ /\ missing = {}
        /\ SetSess(d, s, Finished(x, "COMPLETE"))
        /\ UNCHANGED wire
     \/ /\ missing # {} /\ x.sent
        /\ SetSess(d, s, [x EXCEPT !.pc = "wait"])
        /\ UNCHANGED wire
     \/ /\ missing # {} /\ ~x.sent /\ conn[d]
        /\ SetSess(d, s, [x EXCEPT !.pend = missing, !.sent = TRUE])
        /\ Deliverable(d, [type |-> "request", file |-> x.file, idx |-> missing])
     \/ /\ missing # {} /\ ~x.sent /\ ~conn[d]
        /\ SetSess(d, s, Finished([x EXCEPT !.pend = missing], "FAILED"))
        /\ UNCHANGED wire
  /\ UNCHANGED <<store, mgr, tp, mapped, call, up, conn, budget>>

\* Head of the wait loop.
waitChunks(d, s) ==
  LET x == sess[d][s] IN
  /\ x.pc = "wait"
  /\ SetSess(d, s, [x EXCEPT !.pc =
       IF MissingChunkIndices(d, x.file, x.pend) = {} THEN "drain" ELSE "recv"])
  /\ UNCHANGED <<store, mgr, tp, mapped, call, net, budget>>

\* Writing a received batch: all of it, or a failure after a part of it.
storeBatch(d, env, next, failed) ==
  \/ /\ store' = [store EXCEPT ![d][env.file] = @ \cup env.idx]
     /\ next /\ UNCHANGED faults
  \/ \E W \in SUBSET env.idx :
       /\ W # env.idx /\ faults < MaxFaults
       /\ store' = [store EXCEPT ![d][env.file] = @ \cup W]
       /\ failed /\ faults' = faults + 1

\* Blocking Recv of the wait loop; an envelope that is no batch is discarded.
recvChunks(d, s) ==
  LET x == sess[d][s]  q == Pending(tp[d][x.tr]) IN
  /\ x.pc = "recv" /\ q # <<>>
  /\ tp' = [tp EXCEPT ![d][x.tr] = takeFirst(@)]
  /\ LET env == Head(q)  again == SetSess(d, s, [x EXCEPT !.pc = "wait"]) IN
       \/ env.type = "batch" /\ storeBatch(d, env, again, SetSess(d, s, Finished(x, "FAILED")))
       \/ env.type # "batch" /\ again /\ UNCHANGED <<store, faults>>
  /\ UNCHANGED <<mgr, mapped, call, net, requests, losses, drops>>

\* TryRecv after the last chunk: batches are stored, anything else is put back.
drainChunks(d, s) ==
  LET x == sess[d][s]  q == Pending(tp[d][x.tr]) IN
  /\ x.pc = "drain"
  /\ IF q # <<>> /\ Head(q).type = "batch"
     THEN /\ tp' = [tp EXCEPT ![d][x.tr] = takeFirst(@)]
          /\ storeBatch(d, Head(q), UNCHANGED sess, SetSess(d, s, Finished(x, "FAILED")))
     ELSE /\ SetSess(d, s, Finished(x, "COMPLETE"))
          /\ tp' = IF q = <<>> THEN tp ELSE [tp EXCEPT ![d][x.tr] = PutBack(@, Head(q))]
          /\ UNCHANGED <<store, faults>>
  /\ UNCHANGED <<mgr, mapped, call, net, requests, losses, drops>>

\* Mutant: a session that ends unregisters all others as well.
RemoveCompleted_all(d, s) ==
  /\ sess[d][s].pc = "exit"
  /\ mgr' = [mgr EXCEPT ![d] = [f \in File |-> NoSession]]
  /\ SetSess(d, s, FreeSession)
  /\ UNCHANGED <<store, tp, mapped, call, net, budget>>

\* RemoveCompleted takes every finished session out of the manager.
RemoveCompleted(d, s) ==
  /\ sess[d][s].pc = "exit"
  /\ mgr' = [mgr EXCEPT ![d] =
       [f \in File |-> IF @[f] # NoSession /\ Terminal(sess[d][@[f]]) THEN NoSession ELSE @[f]]]
  /\ SetSess(d, s, FreeSession)
  /\ UNCHANGED <<store, tp, mapped, call, net, budget>>

-----------------------------------------------------------------------------
SessionStep(d, s) ==
  \/ RunSession(d, s)
  \/ checkInbound(d, s) \/ sendBatch(d, s)
  \/ checkOutbound(d, s) \/ waitChunks(d, s) \/ recvChunks(d, s) \/ drainChunks(d, s)
  \/ RemoveCompleted(d, s)

CallStep(d, th) == startSession(d, th) \/ addSession(d, th)

LinkEvent(d) ==
  \/ ml_on_peer_connected(d) \/ ml_on_peer_disconnected(d)
  \/ ml_on_data_received(d) \/ enqueue(d)

Next ==
  \/ LinkUp \/ LinkDown
  \/ \E d \in Device :
       \/ Lose(d) \/ LinkEvent(d)
       \/ \E f \in File, n \in Counts : ml_request_file(d, f, n)
       \/ \E th \in Thread : CallStep(d, th)
       \/ \E s \in Slot : SessionStep(d, s)

Spec == Init /\ [][Next]_vars

\* Goroutines and native threads inside the core keep running, and the link
\* hands over what it carries.  Users, losses and drops are not forced.
Fairness ==
  \A d \in Device :
    /\ WF_vars(LinkEvent(d))
    /\ \A th \in Thread : WF_vars(CallStep(d, th))
    /\ \A s \in Slot : WF_vars(SessionStep(d, s))

FairSpec == Spec /\ Fairness

-----------------------------------------------------------------------------
(* Properties.                                                              *)

\* Every variable has its type; a free slot carries nothing.
TypeOK ==
  /\ store \in [Device -> [File -> SUBSET Chunk]]
  /\ sess \in [Device -> [Slot -> Session \cup {FreeSession}]]
  /\ mgr \in [Device -> [File -> Slot \cup {NoSession}]]
  /\ tp \in [Device -> Seq([preRecv : Seq(Envelope), incoming : Seq(Envelope)])]
  /\ mapped \in [Device -> BOOLEAN]
  /\ call \in [Device -> [Thread -> Call]]
  /\ up \in BOOLEAN /\ conn \in [Device -> BOOLEAN]
  /\ wire \in [Device -> Seq(Envelope)]
  /\ requests \in Nat /\ losses \in Nat /\ drops \in Nat /\ faults \in Nat

\* A requester's session that ends COMPLETE (engine.go handleTransferring,
\* outbound) has every chunk its user asked of it in storage: neither the
\* narrowing of pendingRequest to the missing chunks, nor a request replaced
\* while the session runs, nor a write that failed lets it end early.
CompleteIsStored ==
  \A d \in Device, s \in Slot :
    LET x == sess[d][s] IN
    Live(x) /\ x.st = "COMPLETE" /\ x.dir = "OUTBOUND" => x.asked \subseteq store[d][x.file]

\* A session that is still working over the transport now in PeerTransports
\* is the one registered for its file: startSession never runs two sessions
\* for one peer and file over one link, and RemoveCompleted of one session
\* never unregisters another that still works.
WorkingIsRegistered ==
  \A d \in Device, s \in Slot :
    LET x == sess[d][s] IN
    Live(x) /\ ~Terminal(x) /\ mapped[d] /\ x.tr = Len(tp[d]) => mgr[d][x.file] = s

\* Every envelope a device holds or is about to get was served by its peer:
\* the chunks of a batch are in the peer's storage (BuildBatch reads them).
BatchesAreServed ==
  \A d \in Device :
    LET served(env) == env.type = "batch" => env.idx \subseteq store[Peer(d)][env.file] IN
    /\ \A i \in DOMAIN wire[d] : served(wire[d][i])
    /\ \A g \in DOMAIN tp[d] : \A i \in DOMAIN Pending(tp[d][g]) : served(Pending(tp[d][g])[i])
    /\ call[d]["ble"].pc = "enqueue" => served(call[d]["ble"].env)

\* Once the chunks a requester waits for are stored, its session ends: the
\* goroutine is not left in Recv with nothing left to receive.
StoredSessionEnds ==
  \A d \in Device, s \in Slot :
    (/\ sess[d][s].pc \in {"wait", "recv", "drain"}
     /\ MissingChunkIndices(d, sess[d][s].file, sess[d][s].pend) = {})
      ~> sess[d][s].pc \in {"exit", "free"}

\* A user's request that got a session is served: the file's requested chunks
\* end up in the requester's storage.
RequestServed ==
  \A d \in Device, f \in File, n \in Counts :
    (call[d]["ui"].pc = "add" /\ call[d]["ui"].file = f /\ call[d]["ui"].idx = 0 .. (n - 1))
      ~> (0 .. (n - 1)) \subseteq store[d][f]

\* Download jobs as ChunkDelivery sees them: the outbound sessions.
JobOf(x) ==
  IF Live(x) /\ x.dir = "OUTBOUND"
  THEN [status |-> CASE x.st = "COMPLETE" -> "done" [] x.st = "FAILED" -> "abandoned"
                     [] OTHER -> "open",
        file |-> x.file, asked |-> x.asked]
  ELSE [status |-> "none"]

Delivery == INSTANCE ChunkDelivery WITH
  have <- store, job <- [d \in Device |-> [s \in Slot |-> JobOf(sess[d][s])]]

\* Sessions, messages and links together only copy chunks a peer holds and
\* only close a download with all its chunks there.
ImplementsDelivery == Delivery!Spec

-----------------------------------------------------------------------------
(* What SessionManager's limit says and the code does not keep.             *)

\* The goroutines of unfinished sessions stay within SessionManager.maxConc.
RunningBounded ==
  \A d \in Device :
    Cardinality({s \in Slot : Live(sess[d][s]) /\ ~Terminal(sess[d][s])}) <= MaxConc
=============================================================================
