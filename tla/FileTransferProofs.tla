------------------------- MODULE FileTransferProofs -------------------------
(***************************************************************************)
(* Proofs about FileTransfer, for any files, chunks, sessions, queue        *)
(* capacity and any number of losses, drops and failing writes: the types,  *)
(* who serves a batch, which session is registered, what a completed        *)
(* download holds, and that the transfer implements ChunkDelivery.          *)
(***************************************************************************)
EXTENDS FileTransfer, TLAPS

\* The transports whose queues hold members of S.
Transports(S) == [preRecv : Seq(S), incoming : Seq(S)]

\* The envelopes a device may hold: a batch is served by the peer.
Served(d) ==
  {env \in Envelope : env.type = "batch" => env.idx \subseteq store[Peer(d)][env.file]}

\* BatchesAreServed, queue by queue.
Carried ==
  \A d \in Device :
    /\ wire[d] \in Seq(Served(d))
    /\ tp[d] \in Seq(Transports(Served(d)))
    /\ call[d]["ble"].pc = "enqueue" => call[d]["ble"].env \in Served(d)

\* A session has ended exactly when its goroutine is about to exit; only the
\* requester waits and only the sender builds; its transport was made.
Sound(d, x) ==
  Live(x) => /\ x.pc = "exit" <=> Terminal(x)
             /\ x.pc \in {"wait", "recv", "drain"} => x.dir = "OUTBOUND"
             /\ x.pc = "build" => x.dir = "INBOUND"
             /\ x.tr <= Len(tp[d])

\* The transport a call is about to give to its session was made.
Prepared(d, c) == c.pc = "add" => c.tr <= Len(tp[d])

\* What SessionManager.sessions holds for a file is a session of that file.
Registered ==
  \A d \in Device, f \in File :
    LET s == mgr[d][f] IN s # NoSession => Live(sess[d][s]) /\ sess[d][s].file = f

\* A peer that has a transport has one that was made.
Made == \A d \in Device : mapped[d] => tp[d] # <<>>

Inv ==
  /\ TypeOK /\ Carried /\ Made
  /\ \A d \in Device : /\ \A s \in Slot : Sound(d, sess[d][s])
                       /\ \A th \in Thread : Prepared(d, call[d][th])
  /\ Registered /\ WorkingIsRegistered

-----------------------------------------------------------------------------
(* What the user's request needs: one chunk count, asked from one side.     *)

\* A file is always asked for with its one chunk count.
OneCount == \E n \in Counts : Counts = {n}

\* No file is asked for by both devices.
OneWay ==
  \A d \in Device, f \in File : <<d, f>> \in MayRequest => <<Peer(d), f>> \notin MayRequest

\* The chunks of the one count.
Full == UNION {RequestIndices(n) : n \in Counts}

\* The user of device d, or of its peer, asked for the file.
AskedFrom(d, dir, f) ==
  IF dir = "OUTBOUND" THEN <<d, f>> \in MayRequest ELSE <<Peer(d), f>> \in MayRequest

\* What is no longer pending is stored, and a download that drains its
\* transport or is complete has everything.
OnTrack(d, x) ==
  Live(x) =>
    /\ AskedFrom(d, x.dir, x.file)
    /\ x.dir = "OUTBOUND" =>
         /\ x.asked = Full /\ Full \ x.pend \subseteq store[d][x.file]
         /\ x.pc = "drain" \/ x.st = "COMPLETE" => Full \subseteq store[d][x.file]

WellAsked(d, c) ==
  c.pc \in {"get", "add"} =>
    AskedFrom(d, c.dir, c.file) /\ (c.dir = "OUTBOUND" => c.idx = Full)

Requests(d) == {env \in Envelope : env.type = "request" => AskedFrom(d, "INBOUND", env.file)}

Tracked ==
  \A d \in Device :
    /\ \A s \in Slot : OnTrack(d, sess[d][s])
    /\ \A th \in Thread : WellAsked(d, call[d][th])
    /\ wire[d] \in Seq(Requests(d))

-----------------------------------------------------------------------------
(* Devices, tables and queues.                                              *)

\* The other of the two devices is the peer.
LEMMA PeerOf ==
  ASSUME NEW d \in Device
  PROVE  Peer(d) \in Device /\ Peer(d) # d /\ Peer(Peer(d)) = d
  <1>1. \A e \in Device : \E g \in Device : g # e  BY DeviceAssumption
  <1>2. \A e \in Device : Peer(e) \in Device /\ Peer(e) # e  BY <1>1 DEF Peer
  <1>3. Peer(Peer(d)) # Peer(d)  BY <1>2
  <1>4. PICK g \in Device : Device = {d, g}  BY DeviceAssumption
  <1>. QED  BY <1>2, <1>3, <1>4

\* What setting one entry of a table of tables does.
LEMMA SetEntry ==
  ASSUME NEW A, NEW B, NEW C, NEW F \in [A -> [B -> C]], NEW a \in A, NEW b \in B, NEW c \in C,
         NEW G, G = [F EXCEPT ![a][b] = c]
  PROVE  /\ G \in [A -> [B -> C]] /\ G[a][b] = c
         /\ \A e \in A : e # a => G[e] = F[e]
         /\ \A e \in A, t \in B : e # a \/ t # b => G[e][t] = F[e][t]
  OBVIOUS

\* Tables that agree everywhere are equal.
LEMMA TablesEqual ==
  ASSUME NEW A, NEW B, NEW C, NEW F \in [A -> [B -> C]], NEW G \in [A -> [B -> C]],
         \A e \in A, t \in B : F[e][t] = G[e][t]
  PROVE  F = G
  <1>1. \A e \in A : F[e] = G[e]  OBVIOUS
  <1>. QED  BY <1>1

\* Queues of a smaller set are queues of a larger one.
LEMMA SeqGrows ==
  ASSUME NEW S, NEW T, S \subseteq T
  PROVE  \A q \in Seq(S) : q \in Seq(T)
  OBVIOUS

\* The same for transports.
LEMMA TransportsGrow ==
  ASSUME NEW S, NEW T, S \subseteq T
  PROVE  \A q \in Seq(Transports(S)) : q \in Seq(Transports(T))
  <1>1. \A q \in Seq(S) : q \in Seq(T)  BY SeqGrows
  <1>2. Transports(S) \subseteq Transports(T)  BY <1>1 DEF Transports
  <1>. QED  BY <1>2, SeqGrows

\* The first of a queue, and the rest.
LEMMA FirstAndRest ==
  ASSUME NEW S, NEW q \in Seq(S), q # <<>>
  PROVE  Head(q) \in S /\ Tail(q) \in Seq(S)
  OBVIOUS

\* A transport holds what it held and what is queued on it; taking the first
\* envelope and putting it back add nothing.
LEMMA QueueOps ==
  ASSUME NEW S, NEW t \in Transports(S), NEW env \in S
  PROVE  /\ enqueueLocked(t, env) \in Transports(S)
         /\ Pending(t) # <<>> => PutBack(t, env) \in Transports(S)
  <1>. USE BoundsAssumption DEF Transports
  <1>1. enqueueLocked(t, env) \in Transports(S)
    <2>1. Append(t.incoming, env) \in Seq(S)  OBVIOUS
    <2>2. ~(Len(t.incoming) < QueueCap) => t.incoming # <<>>  OBVIOUS
    <2>3. t.incoming # <<>> => Append(Tail(t.incoming), env) \in Seq(S)  BY FirstAndRest
    <2>. QED  BY <2>1, <2>2, <2>3 DEF enqueueLocked
  <1>2. Pending(t) # <<>> => takeFirst(t) \in Transports(S)
    <2>1. t.preRecv = <<>> /\ t.incoming = <<>> => Pending(t) = <<>>  BY DEF Pending
    <2>2. t.preRecv # <<>> => Tail(t.preRecv) \in Seq(S)  BY FirstAndRest
    <2>3. t.incoming # <<>> => Tail(t.incoming) \in Seq(S)  BY FirstAndRest
    <2>. QED  BY <2>1, <2>2, <2>3 DEF takeFirst
  <1>3. \A q \in Seq(S) : <<env>> \o q \in Seq(S)  OBVIOUS
  <1>. QED  BY <1>1, <1>2, <1>3 DEF PutBack

\* What a session takes from its transport.
LEMMA TakeOps ==
  ASSUME NEW S, NEW t \in Transports(S), Pending(t) # <<>>
  PROVE  Head(Pending(t)) \in S /\ takeFirst(t) \in Transports(S)
  <1>. USE DEF Transports
  <1>1. Pending(t) \in Seq(S)  BY DEF Pending
  <1>2. Head(Pending(t)) \in S  BY <1>1, FirstAndRest
  <1>3. t.preRecv = <<>> /\ t.incoming = <<>> => Pending(t) = <<>>  BY DEF Pending
  <1>4. t.preRecv # <<>> => Tail(t.preRecv) \in Seq(S)  BY FirstAndRest
  <1>5. t.incoming # <<>> => Tail(t.incoming) \in Seq(S)  BY FirstAndRest
  <1>. QED  BY <1>2, <1>3, <1>4, <1>5 DEF takeFirst

\* A live session is one of the type Session.
LEMMA LiveSession ==
  /\ \A x \in Session \cup {FreeSession} : Live(x) <=> x \in Session
  /\ ~Live(FreeSession) /\ FreeSession.pc = "free"
  BY DEF Live, Session, FreeSession

\* What a call in startSession holds.
LEMMA CallIs ==
  ASSUME NEW c \in Call
  PROVE  /\ c.pc \in {"get", "add"} =>
              c.dir \in {"OUTBOUND", "INBOUND"} /\ c.file \in File /\ c.idx \in SUBSET Chunk
         /\ c.pc = "add" => c.tr \in Nat \ {0}
  <1>1. CASE c = IdleCall  BY <1>1 DEF IdleCall
  <1>2. CASE c \in [pc : {"get"}, dir : {"OUTBOUND", "INBOUND"}, file : File, idx : SUBSET Chunk]
    BY <1>2
  <1>3. CASE c \in [pc : {"add"}, dir : {"OUTBOUND", "INBOUND"}, file : File,
                    idx : SUBSET Chunk, tr : Nat \ {0}]
    BY <1>3
  <1>4. CASE c \in [pc : {"enqueue"}, env : {Handshake} \cup Batch]  BY <1>4
  <1>. QED  BY <1>1, <1>2, <1>3, <1>4, Zenon DEF Call

\* z is the session x, further on, with a pending request in P.
GoesOn(x, z, P) ==
  /\ z \in Session /\ z.dir = x.dir /\ z.file = x.file /\ z.asked = x.asked
  /\ z.tr = x.tr /\ z.pend \in P

\* A session that ends, waits, or asks again for what it misses goes on.
LEMMA SessionGoesOn ==
  ASSUME NEW x \in Session, NEW m \in SUBSET Chunk
  PROVE  /\ GoesOn(x, Finished(x, "COMPLETE"), {x.pend})
         /\ GoesOn(x, Finished(x, "FAILED"), {x.pend})
         /\ GoesOn(x, [x EXCEPT !.pc = "wait"], {x.pend})
         /\ GoesOn(x, [x EXCEPT !.pend = m, !.sent = TRUE], {m})
         /\ GoesOn(x, Finished([x EXCEPT !.pend = m], "FAILED"), {m})
  <1>1. GoesOn(x, Finished(x, "COMPLETE"), {x.pend})  BY DEF GoesOn, Session, Finished
  <1>2. GoesOn(x, Finished(x, "FAILED"), {x.pend})  BY DEF GoesOn, Session, Finished
  <1>3. GoesOn(x, [x EXCEPT !.pc = "wait"], {x.pend})  BY DEF GoesOn, Session
  <1>4. GoesOn(x, [x EXCEPT !.pend = m, !.sent = TRUE], {m})  BY DEF GoesOn, Session
  <1>5. GoesOn(x, Finished([x EXCEPT !.pend = m], "FAILED"), {m})
    BY DEF GoesOn, Session, Finished
  <1>. QED  BY <1>1, <1>2, <1>3, <1>4, <1>5, Zenon

-----------------------------------------------------------------------------
(* Chunk storage.                                                           *)

\* The chunks of a batch a device holds are chunks of the file and the peer
\* has them.
LEMMA ServedBatch ==
  ASSUME NEW d \in Device, NEW env \in Served(d), env.type = "batch"
  PROVE  env.file \in File /\ env.idx \in SUBSET Chunk /\ env.idx \subseteq store[Peer(d)][env.file]
  BY DEF Served, Envelope, Handshake, Request, Batch

\* Chunks of a file that the peer holds are added to a device's storage.
Copied(d, f, S) ==
  S \subseteq store[Peer(d)][f] /\ store' = [store EXCEPT ![d][f] = @ \cup S]

\* Whether a batch is written in full or in part, the peer has what is written.
LEMMA StoreBatchCopies ==
  ASSUME NEW d \in Device, NEW env \in Served(d), env.type = "batch",
         NEW next, NEW failed, storeBatch(d, env, next, failed)
  PROVE  \E f \in File, S \in SUBSET Chunk : Copied(d, f, S)
  BY ServedBatch DEF storeBatch, Copied

\* What a session or a link event finds on its queue may be held.
LEMMA Takes ==
  ASSUME Inv, NEW d \in Device
  PROVE  /\ wire[d] # <<>> => Head(wire[d]) \in Served(d) /\ Tail(wire[d]) \in Seq(Served(d))
         /\ \A s \in Slot : Live(sess[d][s]) =>
              LET t == tp[d][sess[d][s].tr] IN
              /\ sess[d][s].tr \in DOMAIN tp[d] /\ t \in Transports(Served(d))
              /\ Pending(t) # <<>> => Head(Pending(t)) \in Served(d)
  <1>1. wire[d] \in Seq(Served(d)) /\ tp[d] \in Seq(Transports(Served(d)))  BY DEF Inv, Carried
  <1>2. wire[d] # <<>> => Head(wire[d]) \in Served(d) /\ Tail(wire[d]) \in Seq(Served(d))
    BY <1>1, FirstAndRest
  <1>3. ASSUME NEW s \in Slot, Live(sess[d][s])
        PROVE  LET t == tp[d][sess[d][s].tr] IN
               /\ sess[d][s].tr \in DOMAIN tp[d] /\ t \in Transports(Served(d))
               /\ Pending(t) # <<>> => Head(Pending(t)) \in Served(d)
    <2>1. sess[d][s] \in Session  BY <1>3, LiveSession DEF Inv, TypeOK
    <2>2. sess[d][s].tr \in Nat \ {0} /\ sess[d][s].tr <= Len(tp[d])
      BY <1>3, <2>1 DEF Inv, Sound, Session
    <2>3. sess[d][s].tr \in DOMAIN tp[d] /\ tp[d][sess[d][s].tr] \in Transports(Served(d))
      BY <1>1, <2>2
    <2>. QED  BY <2>3, TakeOps
  <1>. QED  BY <1>2, <1>3

\* Storage changes only by copying what the peer holds: on ml_on_data_received
\* and when a session writes a batch.
LEMMA StorageCopies ==
  ASSUME Inv, Next
  PROVE  UNCHANGED store \/ \E d \in Device, f \in File, S \in SUBSET Chunk : Copied(d, f, S)
  <1>1. CASE UNCHANGED store  BY <1>1
  <1>2. ASSUME NEW d \in Device, ml_on_data_received(d)
        PROVE  UNCHANGED store \/ \E f \in File, S \in SUBSET Chunk : Copied(d, f, S)
    <2>1. Head(wire[d]) \in Served(d)  BY <1>2, Takes DEF ml_on_data_received
    <2>. QED  BY <1>2, <2>1, ServedBatch DEF ml_on_data_received, Copied
  <1>3. ASSUME NEW d \in Device, NEW s \in Slot, recvChunks(d, s)
        PROVE  UNCHANGED store \/ \E f \in File, S \in SUBSET Chunk : Copied(d, f, S)
    <2>. DEFINE q == Pending(tp[d][sess[d][s].tr])
    <2>1. Live(sess[d][s]) /\ q # <<>>  BY <1>3 DEF recvChunks, Live
    <2>2. Head(q) \in Served(d)  BY <2>1, Takes
    <2>. QED  BY <1>3, <2>2, StoreBatchCopies DEF recvChunks
  <1>4. ASSUME NEW d \in Device, NEW s \in Slot, drainChunks(d, s)
        PROVE  UNCHANGED store \/ \E f \in File, S \in SUBSET Chunk : Copied(d, f, S)
    <2>. DEFINE q == Pending(tp[d][sess[d][s].tr])
    <2>1. Live(sess[d][s])  BY <1>4 DEF drainChunks, Live
    <2>2. q # <<>> => Head(q) \in Served(d)  BY <2>1, Takes
    <2>. QED  BY <1>4, <2>2, StoreBatchCopies DEF drainChunks
  <1>5. ASSUME NEW d \in Device,
               \/ Lose(d) \/ ml_on_peer_connected(d) \/ ml_on_peer_disconnected(d) \/ enqueue(d)
               \/ \E f \in File, n \in Counts : ml_request_file(d, f, n)
               \/ \E th \in Thread : CallStep(d, th)
        PROVE  UNCHANGED store
    BY <1>5 DEF Lose, ml_on_peer_connected, ml_on_peer_disconnected, enqueue, ml_request_file,
                CallStep, startSession, addSession
  <1>6. ASSUME NEW d \in Device, NEW s \in Slot,
               \/ RunSession(d, s) \/ checkInbound(d, s) \/ sendBatch(d, s)
               \/ checkOutbound(d, s) \/ waitChunks(d, s) \/ RemoveCompleted(d, s)
        PROVE  UNCHANGED store
    BY <1>6 DEF RunSession, checkInbound, sendBatch, checkOutbound, waitChunks, RemoveCompleted
  <1>7. CASE LinkUp \/ LinkDown  BY <1>7 DEF LinkUp, LinkDown
  <1>. QED  BY <1>2, <1>3, <1>4, <1>5, <1>6, <1>7 DEF Next, LinkEvent, SessionStep

\* Storage keeps its type and never loses a chunk, so what may be held before
\* a step may be held after it.
LEMMA StorageGrows ==
  ASSUME Inv, Next
  PROVE  /\ store' \in [Device -> [File -> SUBSET Chunk]]
         /\ \A d \in Device, f \in File : store[d][f] \subseteq store'[d][f]
         /\ \A d \in Device : Served(d) \subseteq Served(d)'
  <1>1. store \in [Device -> [File -> SUBSET Chunk]]  BY DEF Inv, TypeOK
  <1>2. /\ store' \in [Device -> [File -> SUBSET Chunk]]
        /\ \A d \in Device, f \in File : store[d][f] \subseteq store'[d][f]
    <2>1. CASE UNCHANGED store  BY <1>1, <2>1
    <2>2. ASSUME NEW d \in Device, NEW f \in File, NEW S \in SUBSET Chunk, Copied(d, f, S)
          PROVE  /\ store' \in [Device -> [File -> SUBSET Chunk]]
                 /\ \A e \in Device, g \in File : store[e][g] \subseteq store'[e][g]
      BY <1>1, <2>2 DEF Copied
    <2>. QED  BY <2>1, <2>2, StorageCopies
  <1>3. ASSUME NEW d \in Device, NEW env \in Served(d) PROVE env \in Served(d)'
    <2>1. env \in Envelope  BY DEF Served
    <2>2. CASE env.type = "batch"  BY <1>2, <2>1, <2>2, ServedBatch, PeerOf DEF Served
    <2>3. CASE env.type # "batch"  BY <2>1, <2>3 DEF Served
    <2>. QED  BY <2>2, <2>3
  <1>. QED  BY <1>2, <1>3

-----------------------------------------------------------------------------
(* Transports.                                                              *)

\* ensurePeerTransport makes a transport, maybe with a first envelope on it.
NewTransport(d, t) ==
  ~mapped[d] /\ mapped' = [mapped EXCEPT ![d] = TRUE] /\ tp' = [tp EXCEPT ![d] = Append(@, t)]

\* A queue of an existing transport changes.
SetTransport(d, g, t) == mapped' = mapped /\ tp' = [tp EXCEPT ![d][g] = t]

\* The peer is gone and its sessions leave the manager.
Unmapped(d) ==
  /\ mapped' = [mapped EXCEPT ![d] = FALSE] /\ tp' = tp
  /\ mgr' = [mgr EXCEPT ![d] = [f \in File |-> NoSession]]

\* What the transports go through in a step.
TransportStep ==
  \/ UNCHANGED <<tp, mapped>>
  \/ \E d \in Device : Unmapped(d)
  \/ \E d \in Device : \E t \in Transports(Served(d)) :
       NewTransport(d, t) \/ \E g \in DOMAIN tp[d] : SetTransport(d, g, t)

\* A new transport is empty.
LEMMA EmptyIsTransport == \A S : EmptyTransport \in Transports(S)
  BY DEF EmptyTransport, Transports

\* ensurePeerTransport changes the transports in one of those ways.
LEMMA EnsureSteps ==
  ASSUME Inv, NEW d \in Device, ensurePeerTransport(d)
  PROVE  TransportStep
  <1>1. mapped \in [Device -> BOOLEAN]  BY DEF Inv, TypeOK
  <1>2. CASE mapped[d]
    <2>1. [mapped EXCEPT ![d] = TRUE] = mapped  BY <1>1, <1>2, Zenon
    <2>. QED  BY <1>2, <2>1 DEF ensurePeerTransport, TransportStep
  <1>3. CASE ~mapped[d]
    <2>1. EmptyTransport \in Transports(Served(d))  BY EmptyIsTransport
    <2>2. NewTransport(d, EmptyTransport)  BY <1>3 DEF ensurePeerTransport, NewTransport
    <2>. QED  BY <2>1, <2>2 DEF TransportStep
  <1>. QED  BY <1>2, <1>3

\* Every step changes the transports in one of those ways.
LEMMA TransportSteps == ASSUME Inv, Next PROVE TransportStep
  <1>1. CASE UNCHANGED <<tp, mapped>>  BY <1>1 DEF TransportStep
  <1>2. ASSUME NEW d \in Device, ml_on_peer_connected(d) \/ \E th \in Thread : startSession(d, th)
        PROVE  TransportStep
    BY <1>2, EnsureSteps DEF ml_on_peer_connected, startSession
  <1>3. ASSUME NEW d \in Device, ml_on_peer_disconnected(d) PROVE TransportStep
    <2>1. Unmapped(d)  BY <1>3 DEF ml_on_peer_disconnected, Unmapped
    <2>. QED  BY <2>1 DEF TransportStep
  <1>4. ASSUME NEW d \in Device, enqueue(d) PROVE TransportStep
    <2>. DEFINE env == call[d]["ble"].env  g == Len(tp[d])
    <2>1. env \in Served(d) /\ tp[d] \in Seq(Transports(Served(d)))
      BY <1>4 DEF enqueue, Inv, Carried
    <2>2. CASE mapped[d]
      <3>1. mapped \in [Device -> BOOLEAN] /\ tp[d] # <<>>  BY <2>2 DEF Inv, TypeOK, Made
      <3>2. [mapped EXCEPT ![d] = TRUE] = mapped  BY <2>2, <3>1, Zenon
      <3>3. g \in DOMAIN tp[d] /\ tp[d][g] \in Transports(Served(d))  BY <2>1, <3>1
      <3>4. enqueueLocked(tp[d][g], env) \in Transports(Served(d))  BY <2>1, <3>3, QueueOps
      <3>5. SetTransport(d, g, enqueueLocked(tp[d][g], env))
        <4>1. mapped' = mapped  BY <1>4, <3>2 DEF enqueue
        <4>2. tp' = [tp EXCEPT ![d][g] = enqueueLocked(tp[d][g], env)]
          BY <1>4, <2>2 DEF enqueue, Transport
        <4>. QED  BY <4>1, <4>2 DEF SetTransport
      <3>. QED  BY <3>3, <3>4, <3>5 DEF TransportStep
    <2>3. CASE ~mapped[d]
      <3>1. enqueueLocked(EmptyTransport, env) \in Transports(Served(d))
        BY <2>1, EmptyIsTransport, QueueOps
      <3>2. NewTransport(d, enqueueLocked(EmptyTransport, env))
        BY <1>4, <2>3 DEF enqueue, NewTransport
      <3>. QED  BY <3>1, <3>2 DEF TransportStep
    <2>. QED  BY <2>2, <2>3
  <1>5. ASSUME NEW d \in Device, NEW s \in Slot, recvChunks(d, s) \/ drainChunks(d, s)
        PROVE  TransportStep
    <2>. DEFINE g == sess[d][s].tr  t == tp[d][g]
    <2>1. Live(sess[d][s])  BY <1>5 DEF recvChunks, drainChunks, Live
    <2>2. /\ g \in DOMAIN tp[d] /\ t \in Transports(Served(d))
          /\ Pending(t) # <<>> => Head(Pending(t)) \in Served(d)
      BY <2>1, Takes
    <2>3. Pending(t) # <<>> =>
            /\ takeFirst(t) \in Transports(Served(d))
            /\ PutBack(t, Head(Pending(t))) \in Transports(Served(d))
      BY <2>2, TakeOps, QueueOps
    <2>4. \/ UNCHANGED <<tp, mapped>>
          \/ Pending(t) # <<>> /\ SetTransport(d, g, takeFirst(t))
          \/ Pending(t) # <<>> /\ SetTransport(d, g, PutBack(t, Head(Pending(t))))
      BY <1>5 DEF recvChunks, drainChunks, SetTransport
    <2>. QED  BY <2>2, <2>3, <2>4 DEF TransportStep
  <1>6. ASSUME NEW d \in Device,
               \/ Lose(d) \/ ml_on_data_received(d)
               \/ \E f \in File, n \in Counts : ml_request_file(d, f, n)
               \/ \E th \in Thread : addSession(d, th)
        PROVE  UNCHANGED <<tp, mapped>>
    BY <1>6 DEF Lose, ml_on_data_received, ml_request_file, addSession
  <1>7. ASSUME NEW d \in Device, NEW s \in Slot,
               \/ RunSession(d, s) \/ checkInbound(d, s) \/ sendBatch(d, s)
               \/ checkOutbound(d, s) \/ waitChunks(d, s) \/ RemoveCompleted(d, s)
        PROVE  UNCHANGED <<tp, mapped>>
    BY <1>7 DEF RunSession, checkInbound, sendBatch, checkOutbound, waitChunks, RemoveCompleted
  <1>8. CASE LinkUp \/ LinkDown  BY <1>1, <1>8 DEF LinkUp, LinkDown
  <1>. QED
    BY <1>1, <1>2, <1>3, <1>4, <1>5, <1>6, <1>7, <1>8 DEF Next, LinkEvent, CallStep, SessionStep

\* Transports are never taken away: a session keeps its own, and the transport
\* of a peer is the newest one or has just been made.
LEMMA TransportsStay ==
  ASSUME Inv, Next
  PROVE  /\ mapped' \in [Device -> BOOLEAN] /\ tp' \in [Device -> Seq(Transports(Envelope))]
         /\ \A d \in Device :
              /\ tp'[d] \in Seq(Transports(Served(d)))
              /\ Len(tp[d]) \in Nat /\ Len(tp'[d]) \in Nat /\ Len(tp[d]) <= Len(tp'[d])
              /\ mapped'[d] => /\ tp'[d] # <<>>
                               /\ \/ mapped[d] /\ Len(tp'[d]) = Len(tp[d])
                                  \/ Len(tp'[d]) = Len(tp[d]) + 1
  <1>1. /\ mapped \in [Device -> BOOLEAN] /\ tp \in [Device -> Seq(Transports(Envelope))]
        /\ \A d \in Device : tp[d] \in Seq(Transports(Served(d))) /\ (mapped[d] => tp[d] # <<>>)
    BY DEF Inv, TypeOK, Carried, Made, Transports
  <1>2. \A d \in Device : Transports(Served(d)) \subseteq Transports(Envelope)
    <2>. SUFFICES ASSUME NEW d \in Device PROVE Transports(Served(d)) \subseteq Transports(Envelope)
      OBVIOUS
    <2>1. Served(d) \subseteq Envelope  BY DEF Served
    <2>2. \A q \in Seq(Served(d)) : q \in Seq(Envelope)  BY <2>1, SeqGrows
    <2>. QED  BY <2>2 DEF Transports
  <1>3. CASE UNCHANGED <<tp, mapped>>  BY <1>1, <1>3
  <1>4. ASSUME NEW d \in Device, Unmapped(d)
        PROVE  /\ mapped' \in [Device -> BOOLEAN] /\ tp' = tp
               /\ \A e \in Device : mapped'[e] => mapped[e]
    BY <1>1, <1>4, Zenon DEF Unmapped
  <1>5. ASSUME NEW d \in Device, NEW t \in Transports(Served(d)), NewTransport(d, t)
        PROVE  /\ mapped' \in [Device -> BOOLEAN] /\ tp' \in [Device -> Seq(Transports(Envelope))]
               /\ \A e \in Device : e # d => mapped'[e] = mapped[e] /\ tp'[e] = tp[e]
               /\ tp'[d] \in Seq(Transports(Served(d))) /\ tp'[d] # <<>> /\ Len(tp'[d]) = Len(tp[d]) + 1
    <2>1. mapped' \in [Device -> BOOLEAN] /\ \A e \in Device : e # d => mapped'[e] = mapped[e]
      BY <1>1, <1>5, Zenon DEF NewTransport
    <2>2. tp' = [tp EXCEPT ![d] = Append(@, t)]  BY <1>5 DEF NewTransport
    <2>3. t \in Transports(Envelope)  BY <1>2
    <2>4. tp'[d] = Append(tp[d], t)  BY <1>1, <2>2
    <2>5. /\ Append(tp[d], t) \in Seq(Transports(Served(d))) /\ Append(tp[d], t) # <<>>
          /\ Len(Append(tp[d], t)) = Len(tp[d]) + 1
          /\ Append(tp[d], t) \in Seq(Transports(Envelope))
      BY <1>1, <2>3
    <2>6. tp' \in [Device -> Seq(Transports(Envelope))] /\ \A e \in Device : e # d => tp'[e] = tp[e]
      BY <1>1, <2>2, <2>5
    <2>. QED  BY <2>1, <2>4, <2>5, <2>6
  <1>6. ASSUME NEW d \in Device, NEW t \in Transports(Served(d)), NEW g \in DOMAIN tp[d],
               SetTransport(d, g, t)
        PROVE  /\ mapped' = mapped /\ tp' \in [Device -> Seq(Transports(Envelope))]
               /\ \A e \in Device : e # d => tp'[e] = tp[e]
               /\ tp'[d] \in Seq(Transports(Served(d))) /\ Len(tp'[d]) = Len(tp[d])
    <2>1. tp' = [tp EXCEPT ![d] = [tp[d] EXCEPT ![g] = t]]  BY <1>1, <1>6 DEF SetTransport
    <2>2. t \in Transports(Envelope)  BY <1>2
    <2>3. /\ [tp[d] EXCEPT ![g] = t] \in Seq(Transports(Served(d)))
          /\ [tp[d] EXCEPT ![g] = t] \in Seq(Transports(Envelope))
          /\ Len([tp[d] EXCEPT ![g] = t]) = Len(tp[d])
      BY <1>1, <2>2
    <2>. QED  BY <1>1, <1>6, <2>1, <2>3 DEF SetTransport
  <1>7. \A d \in Device : Len(tp[d]) \in Nat /\ (Len(tp[d]) = 0 <=> tp[d] = <<>>)  BY <1>1
  <1>. USE <1>1, <1>7
  <1>8. CASE \E d \in Device : Unmapped(d)  BY <1>4, <1>8
  <1>9. CASE \E d \in Device : \E t \in Transports(Served(d)) : NewTransport(d, t)
    <2>1. PICK d \in Device : \E t \in Transports(Served(d)) : NewTransport(d, t)  BY <1>9
    <2>2. /\ mapped' \in [Device -> BOOLEAN] /\ tp' \in [Device -> Seq(Transports(Envelope))]
          /\ \A e \in Device : e # d => mapped'[e] = mapped[e] /\ tp'[e] = tp[e]
          /\ tp'[d] \in Seq(Transports(Served(d))) /\ tp'[d] # <<>> /\ Len(tp'[d]) = Len(tp[d]) + 1
      BY <1>5, <2>1
    <2>. QED  BY <2>2
  <1>10. CASE \E d \in Device : \E t \in Transports(Served(d)) :
                \E g \in DOMAIN tp[d] : SetTransport(d, g, t)
    <2>1. PICK d \in Device : \E t \in Transports(Served(d)) :
            \E g \in DOMAIN tp[d] : SetTransport(d, g, t)
      BY <1>10
    <2>2. /\ mapped' = mapped /\ tp' \in [Device -> Seq(Transports(Envelope))]
          /\ \A e \in Device : e # d => tp'[e] = tp[e]
          /\ tp'[d] \in Seq(Transports(Served(d))) /\ Len(tp'[d]) = Len(tp[d])
      BY <1>6, <2>1
    <2>3. tp[d] # <<>> => tp'[d] # <<>>  BY <2>2
    <2>4. \A e \in Device : /\ Len(tp'[e]) = Len(tp[e]) /\ tp'[e] \in Seq(Transports(Served(e)))
                            /\ mapped'[e] => tp'[e] # <<>> /\ mapped[e]
      BY <2>2, <2>3
    <2>. QED  BY <2>2, <2>4
  <1>. QED  BY <1>3, <1>8, <1>9, <1>10, TransportSteps DEF TransportStep

-----------------------------------------------------------------------------
(* The link.                                                                *)

\* d sends an envelope: a batch from its storage, or a request of one of its
\* downloads.
Sends(d, env) ==
  /\ env \in Served(Peer(d))
  /\ env.type = "request" =>
       \E s \in Slot : LET x == sess[d][s] IN Live(x) /\ x.dir = "OUTBOUND" /\ x.file = env.file
  /\ wire' = [wire EXCEPT ![Peer(d)] = Append(@, env)]

\* What the link goes through in a step.
WireStep ==
  \/ UNCHANGED wire
  \/ wire' = [d \in Device |-> <<>>]
  \/ \E d \in Device : wire[d] # <<>> /\ wire' = [wire EXCEPT ![d] = Tail(@)]
  \/ \E d \in Device, env \in Envelope : Sends(d, env)

\* The chunks of a batch are taken from the request.
LEMMA FirstAreIndices == \A idx \in SUBSET Chunk : FirstIndices(idx) \in SUBSET Chunk
  BY DEF FirstIndices

\* Every step changes the link in one of those ways.
LEMMA WireSteps == ASSUME Inv, Next PROVE WireStep
  <1>1. CASE LinkUp \/ LinkDown  BY <1>1 DEF LinkUp, LinkDown, WireStep
  <1>2. ASSUME NEW d \in Device, Lose(d) \/ ml_on_data_received(d) PROVE WireStep
    BY <1>2 DEF Lose, ml_on_data_received, WireStep
  <1>3. ASSUME NEW d \in Device, ml_on_peer_connected(d) PROVE WireStep
    <2>1. Handshake \in Envelope /\ Handshake.type = "handshake"  BY DEF Handshake, Envelope
    <2>2. Handshake \in Served(Peer(d))  BY <2>1 DEF Served
    <2>3. UNCHANGED wire \/ Sends(d, Handshake)
      BY <1>3, <2>1, <2>2 DEF ml_on_peer_connected, Deliverable, Sends
    <2>. QED  BY <2>1, <2>3 DEF WireStep
  <1>4. ASSUME NEW d \in Device,
               \/ ml_on_peer_disconnected(d) \/ enqueue(d)
               \/ \E f \in File, n \in Counts : ml_request_file(d, f, n)
               \/ \E th \in Thread : startSession(d, th) \/ addSession(d, th)
        PROVE  UNCHANGED wire
    BY <1>4 DEF ml_on_peer_disconnected, enqueue, ml_request_file, startSession, addSession, net
  <1>5. ASSUME NEW d \in Device, NEW s \in Slot,
               \/ RunSession(d, s) \/ checkInbound(d, s) \/ waitChunks(d, s) \/ recvChunks(d, s)
               \/ drainChunks(d, s) \/ RemoveCompleted(d, s)
        PROVE  UNCHANGED wire
    BY <1>5 DEF RunSession, checkInbound, waitChunks, recvChunks, drainChunks, RemoveCompleted, net
  <1>6. ASSUME NEW d \in Device, NEW s \in Slot, sendBatch(d, s) PROVE WireStep
    <2>. DEFINE x == sess[d][s]  idx == FirstIndices(x.pend)
                env == [type |-> "batch", file |-> x.file, idx |-> idx]
    <2>1. Live(x)  BY <1>6 DEF sendBatch, Live
    <2>2. x \in Session  BY <2>1, LiveSession DEF Inv, TypeOK
    <2>3. x.file \in File /\ idx \in SUBSET Chunk  BY <2>2, FirstAreIndices DEF Session
    <2>4. env \in Envelope /\ env.type = "batch"  BY <2>3 DEF Envelope, Batch
    <2>5. UNCHANGED wire \/ (MissingChunkIndices(d, x.file, idx) = {} /\ Deliverable(d, env))
      BY <1>6 DEF sendBatch
    <2>6. CASE MissingChunkIndices(d, x.file, idx) = {} /\ Deliverable(d, env)
      <3>1. idx \subseteq store[Peer(Peer(d))][x.file]  BY <2>6, PeerOf DEF MissingChunkIndices
      <3>2. env \in Served(Peer(d))  BY <2>4, <3>1 DEF Served
      <3>3. UNCHANGED wire \/ Sends(d, env)  BY <2>4, <2>6, <3>2 DEF Deliverable, Sends
      <3>. QED  BY <2>4, <3>3 DEF WireStep
    <2>. QED  BY <2>5, <2>6 DEF WireStep
  <1>7. ASSUME NEW d \in Device, NEW s \in Slot, checkOutbound(d, s) PROVE WireStep
    <2>. DEFINE x == sess[d][s]  missing == MissingChunkIndices(d, x.file, x.pend)
                env == [type |-> "request", file |-> x.file, idx |-> missing]
    <2>1. Live(x) /\ x.dir = "OUTBOUND"  BY <1>7 DEF checkOutbound, Live
    <2>2. x \in Session  BY <2>1, LiveSession DEF Inv, TypeOK
    <2>3. x.file \in File /\ missing \in SUBSET Chunk  BY <2>2 DEF Session, MissingChunkIndices
    <2>4. env \in Envelope /\ env.type = "request" /\ env.file = x.file
      BY <2>3 DEF Envelope, Request
    <2>5. env \in Served(Peer(d))  BY <2>4 DEF Served
    <2>6. UNCHANGED wire \/ Sends(d, env)
      BY <1>7, <2>1, <2>4, <2>5 DEF checkOutbound, Deliverable, Sends
    <2>. QED  BY <2>4, <2>6 DEF WireStep
  <1>8. ASSUME UNCHANGED wire PROVE WireStep  BY <1>8 DEF WireStep
  <1>. QED
    BY <1>1, <1>2, <1>3, <1>4, <1>5, <1>6, <1>7, <1>8 DEF Next, LinkEvent, CallStep, SessionStep

\* The link carries to a device only what the device may hold.
LEMMA WireServed ==
  ASSUME Inv, Next
  PROVE  wire' \in [Device -> Seq(Envelope)] /\ \A d \in Device : wire'[d] \in Seq(Served(d))
  <1>1. wire \in [Device -> Seq(Envelope)] /\ \A d \in Device : wire[d] \in Seq(Served(d))
    BY DEF Inv, TypeOK, Carried
  <1>2. CASE UNCHANGED wire  BY <1>1, <1>2
  <1>3. CASE wire' = [d \in Device |-> <<>>]  BY <1>3
  <1>4. ASSUME NEW d \in Device, wire[d] # <<>>, wire' = [wire EXCEPT ![d] = Tail(@)]
        PROVE  wire' \in [Device -> Seq(Envelope)] /\ \A e \in Device : wire'[e] \in Seq(Served(e))
    <2>1. Tail(wire[d]) \in Seq(Served(d)) /\ Tail(wire[d]) \in Seq(Envelope)
      BY <1>1, <1>4, FirstAndRest
    <2>. QED  BY <1>1, <1>4, <2>1
  <1>5. ASSUME NEW d \in Device, NEW env \in Envelope, Sends(d, env)
        PROVE  wire' \in [Device -> Seq(Envelope)] /\ \A e \in Device : wire'[e] \in Seq(Served(e))
    <2>1. Peer(d) \in Device  BY PeerOf
    <2>2. /\ Append(wire[Peer(d)], env) \in Seq(Served(Peer(d)))
          /\ Append(wire[Peer(d)], env) \in Seq(Envelope)
      BY <1>1, <1>5, <2>1 DEF Sends
    <2>. QED  BY <1>1, <1>5, <2>1, <2>2 DEF Sends
  <1>. QED  BY <1>2, <1>3, <1>4, <1>5, WireSteps DEF WireStep

\* Flags and counters keep their types.
LEMMA FlagsStep ==
  ASSUME TypeOK, Next
  PROVE  /\ up' \in BOOLEAN /\ conn' \in [Device -> BOOLEAN]
         /\ requests' \in Nat /\ losses' \in Nat /\ drops' \in Nat /\ faults' \in Nat
  <1>. DEFINE Goal == /\ up' \in BOOLEAN /\ conn' \in [Device -> BOOLEAN]
                      /\ requests' \in Nat /\ losses' \in Nat /\ drops' \in Nat /\ faults' \in Nat
  <1>1. up \in BOOLEAN /\ conn \in [Device -> BOOLEAN]  BY Zenon DEF TypeOK
  <1>2. requests \in Nat /\ losses \in Nat /\ drops \in Nat /\ faults \in Nat  BY DEF TypeOK
  <1>3. requests + 1 \in Nat /\ losses + 1 \in Nat /\ drops + 1 \in Nat /\ faults + 1 \in Nat
    BY <1>2
  <1>4. CASE LinkUp \/ LinkDown  BY <1>1, <1>2, <1>3, <1>4, Zenon DEF LinkUp, LinkDown, budget
  <1>5. ASSUME NEW d \in Device, LinkEvent(d) PROVE Goal
    BY <1>1, <1>2, <1>3, <1>5, Zenon
    DEF LinkEvent, ml_on_peer_connected, ml_on_peer_disconnected, ml_on_data_received, enqueue,
        net, budget
  <1>6. ASSUME NEW d \in Device,
               \/ Lose(d) \/ \E f \in File, n \in Counts : ml_request_file(d, f, n)
               \/ \E th \in Thread : CallStep(d, th)
        PROVE  Goal
    BY <1>1, <1>2, <1>3, <1>6, Zenon
    DEF Lose, ml_request_file, CallStep, startSession, addSession, net, budget
  <1>7. ASSUME NEW d \in Device, NEW s \in Slot, SessionStep(d, s) PROVE Goal
    BY <1>1, <1>2, <1>3, <1>7, Zenon
    DEF SessionStep, RunSession, checkInbound, sendBatch, checkOutbound, waitChunks, recvChunks,
        drainChunks, storeBatch, RemoveCompleted, net, budget
  <1>. QED  BY <1>4, <1>5, <1>6, <1>7 DEF Next

-----------------------------------------------------------------------------
(* Native threads.                                                          *)

\* What a native thread may do next: finish, ask for a file, take a request
\* off the link, keep an envelope it took, or hold the transport that
\* ensurePeerTransport returned.
NextCall(d, th, c) ==
  \/ c = IdleCall
  \/ \E f \in File, n \in Counts :
       /\ <<d, f>> \in MayRequest
       /\ c = [pc |-> "get", dir |-> "OUTBOUND", file |-> f, idx |-> RequestIndices(n)]
  \/ \E env \in Served(d) :
       /\ wire[d] # <<>> /\ env = Head(wire[d]) /\ env.type = "request"
       /\ c = [pc |-> "get", dir |-> "INBOUND", file |-> env.file, idx |-> env.idx]
  \/ \E env \in Served(d) : env.type # "request" /\ c = [pc |-> "enqueue", env |-> env]
  \/ /\ call[d][th].pc = "get" /\ Transport(d) <= Len(tp'[d])
     /\ c = [pc |-> "add", dir |-> call[d][th].dir, file |-> call[d][th].file,
             idx |-> call[d][th].idx, tr |-> Transport(d)]

\* Every step leaves the threads alone or takes one of them on.
LEMMA CallSteps ==
  ASSUME Inv, Next
  PROVE  \/ UNCHANGED call
         \/ \E d \in Device, th \in Thread : \E c :
              NextCall(d, th, c) /\ call' = [call EXCEPT ![d][th] = c]
  <1>. DEFINE Goal == \/ UNCHANGED call
                      \/ \E d \in Device, th \in Thread : \E c :
                           NextCall(d, th, c) /\ call' = [call EXCEPT ![d][th] = c]
  <1>. "ui" \in Thread /\ "ble" \in Thread  BY DEF Thread
  <1>1. CASE LinkUp \/ LinkDown  BY <1>1 DEF LinkUp, LinkDown
  <1>2. ASSUME NEW d \in Device,
               Lose(d) \/ ml_on_peer_connected(d) \/ ml_on_peer_disconnected(d)
        PROVE  UNCHANGED call
    BY <1>2 DEF Lose, ml_on_peer_connected, ml_on_peer_disconnected
  <1>3. ASSUME NEW d \in Device, NEW s \in Slot, SessionStep(d, s) PROVE UNCHANGED call
    BY <1>3 DEF SessionStep, RunSession, checkInbound, sendBatch, checkOutbound, waitChunks,
                recvChunks, drainChunks, RemoveCompleted
  <1>4. ASSUME NEW d \in Device, enqueue(d) PROVE Goal
    BY <1>4 DEF enqueue, SetCall, NextCall
  <1>5. ASSUME NEW d \in Device, NEW th \in Thread, addSession(d, th) PROVE Goal
    BY <1>5 DEF addSession, SetCall, NextCall
  <1>6. ASSUME NEW d \in Device, NEW f \in File, NEW n \in Counts, ml_request_file(d, f, n) PROVE Goal
    BY <1>6 DEF ml_request_file, SetCall, NextCall
  <1>7. ASSUME NEW d \in Device, ml_on_data_received(d) PROVE Goal
    <2>. DEFINE env == Head(wire[d])
    <2>1. env \in Served(d) /\ wire[d] # <<>>  BY <1>7, Takes DEF ml_on_data_received
    <2>2. CASE env.type = "request"
      <3>1. call' = [call EXCEPT ![d]["ble"] =
                       [pc |-> "get", dir |-> "INBOUND", file |-> env.file, idx |-> env.idx]]
        BY <1>7, <2>2 DEF ml_on_data_received, SetCall
      <3>. QED  BY <2>1, <2>2, <3>1 DEF NextCall
    <2>3. CASE env.type # "request"
      <3>1. call' = [call EXCEPT ![d]["ble"] = [pc |-> "enqueue", env |-> env]]
        BY <1>7, <2>3 DEF ml_on_data_received, SetCall
      <3>. QED  BY <2>1, <2>3, <3>1 DEF NextCall
    <2>. QED  BY <2>2, <2>3
  <1>8. ASSUME NEW d \in Device, NEW th \in Thread, startSession(d, th) PROVE Goal
    <2>. DEFINE c == [pc |-> "add", dir |-> call[d][th].dir, file |-> call[d][th].file,
                      idx |-> call[d][th].idx, tr |-> Transport(d)]
    <2>1. Transport(d) <= Len(tp'[d])
      <3>1. tp \in [Device -> Seq(Transports(Envelope))]  BY DEF Inv, TypeOK, Transports
      <3>2. Len(tp[d]) \in Nat /\ Len(Append(tp[d], EmptyTransport)) = Len(tp[d]) + 1
        BY <3>1, EmptyIsTransport
      <3>3. tp' = IF mapped[d] THEN tp ELSE [tp EXCEPT ![d] = Append(tp[d], EmptyTransport)]
        BY <1>8 DEF startSession, ensurePeerTransport
      <3>4. CASE mapped[d]
        <4>1. tp' = tp /\ Transport(d) = Len(tp[d])  BY <3>3, <3>4 DEF Transport
        <4>. QED  BY <3>2, <4>1
      <3>5. CASE ~mapped[d]
        <4>1. tp'[d] = Append(tp[d], EmptyTransport)  BY <3>1, <3>3, <3>5
        <4>2. Transport(d) = Len(tp[d]) + 1  BY <3>5 DEF Transport
        <4>. QED  BY <3>2, <4>1, <4>2
      <3>. QED  BY <3>4, <3>5
    <2>2. call[d][th].pc = "get" /\ (SetCall(d, th, c) \/ SetCall(d, th, IdleCall))
      BY <1>8 DEF startSession
    <2>. QED  BY <2>1, <2>2 DEF SetCall, NextCall
  <1>. QED
    BY <1>1, <1>2, <1>3, <1>4, <1>5, <1>6, <1>7, <1>8 DEF Next, LinkEvent, CallStep

\* The indices of a request are chunks of the file.
LEMMA IndicesAreChunks == \A n \in Counts : RequestIndices(n) \in SUBSET Chunk
  BY CountsAssumption, BoundsAssumption DEF RequestIndices, Chunk

\* The calls keep their types, and the transport a call holds has been made.
LEMMA CallsStep ==
  ASSUME Inv, Next
  PROVE  /\ call' \in [Device -> [Thread -> Call]]
         /\ \A d \in Device : /\ \A th \in Thread : Prepared(d, call[d][th])'
                              /\ call'[d]["ble"].pc = "enqueue" => call'[d]["ble"].env \in Served(d)
  <1>1. /\ call \in [Device -> [Thread -> Call]]
        /\ \A d \in Device : /\ \A th \in Thread : Prepared(d, call[d][th])
                             /\ call[d]["ble"].pc = "enqueue" => call[d]["ble"].env \in Served(d)
    BY DEF Inv, TypeOK, Carried
  <1>2. \A d \in Device : Len(tp[d]) \in Nat /\ Len(tp'[d]) \in Nat /\ Len(tp[d]) <= Len(tp'[d])
    BY TransportsStay
  <1>3. \A d \in Device, th \in Thread : call[d][th].pc = "add" => call[d][th].tr \in Nat
    <2>. SUFFICES ASSUME NEW d \in Device, NEW th \in Thread, call[d][th].pc = "add"
                  PROVE  call[d][th].tr \in Nat
      OBVIOUS
    <2>1. call[d][th] \in Call  BY <1>1
    <2>. QED  BY <2>1 DEF Call, IdleCall
  <1>4. \A d \in Device, th \in Thread :
          call[d][th].pc = "add" => call[d][th].tr <= Len(tp'[d])
    BY <1>1, <1>2, <1>3 DEF Prepared
  <1>5. CASE UNCHANGED call  BY <1>1, <1>4, <1>5 DEF Prepared
  <1>6. ASSUME NEW d \in Device, NEW th \in Thread, NEW c, NextCall(d, th, c),
               call' = [call EXCEPT ![d][th] = c]
        PROVE  /\ call' \in [Device -> [Thread -> Call]]
               /\ \A e \in Device : /\ \A t \in Thread : Prepared(e, call[e][t])'
                                    /\ call'[e]["ble"].pc = "enqueue" => call'[e]["ble"].env \in Served(e)
    <2>. DEFINE Fits == /\ c \in Call /\ (c.pc = "enqueue" => c.env \in Served(d))
                        /\ c.pc = "add" => c.tr <= Len(tp'[d])
    <2>1. Fits
      <3>1. CASE c = IdleCall  BY <3>1 DEF Call, IdleCall
      <3>2. ASSUME NEW f \in File, NEW n \in Counts,
                   c = [pc |-> "get", dir |-> "OUTBOUND", file |-> f, idx |-> RequestIndices(n)]
            PROVE  Fits
        <4>1. RequestIndices(n) \in SUBSET Chunk  BY IndicesAreChunks
        <4>. QED  BY <3>2, <4>1 DEF Call
      <3>3. ASSUME NEW env \in Served(d), env.type = "request",
                   c = [pc |-> "get", dir |-> "INBOUND", file |-> env.file, idx |-> env.idx]
            PROVE  Fits
        <4>1. env.file \in File /\ env.idx \in SUBSET Chunk
          BY <3>3 DEF Served, Envelope, Handshake, Request, Batch
        <4>. QED  BY <3>3, <4>1 DEF Call
      <3>4. ASSUME NEW env \in Served(d), env.type # "request", c = [pc |-> "enqueue", env |-> env]
            PROVE  Fits
        <4>1. env \in {Handshake} \cup Batch  BY <3>4 DEF Served, Envelope, Request
        <4>. QED  BY <3>4, <4>1 DEF Call
      <3>5. ASSUME call[d][th].pc = "get", Transport(d) <= Len(tp'[d]),
                   c = [pc |-> "add", dir |-> call[d][th].dir, file |-> call[d][th].file,
                        idx |-> call[d][th].idx, tr |-> Transport(d)]
            PROVE  Fits
        <4>1. call[d][th] \in Call  BY <1>1
        <4>2. /\ call[d][th].dir \in {"OUTBOUND", "INBOUND"} /\ call[d][th].file \in File
              /\ call[d][th].idx \in SUBSET Chunk
          BY <3>5, <4>1 DEF Call, IdleCall
        <4>3. mapped[d] => Len(tp[d]) # 0
          <5>1. tp \in [Device -> Seq(Transports(Envelope))]  BY DEF Inv, TypeOK, Transports
          <5>. QED  BY <5>1 DEF Inv, Made
        <4>4. Transport(d) \in Nat \ {0}  BY <1>2, <4>3 DEF Transport
        <4>. QED  BY <3>5, <4>2, <4>4 DEF Call
      <3>. QED  BY <1>6, <3>1, <3>2, <3>3, <3>4, <3>5 DEF NextCall
    <2>2. /\ call' \in [Device -> [Thread -> Call]] /\ call'[d][th] = c
          /\ \A e \in Device, t \in Thread : e # d \/ t # th => call'[e][t] = call[e][t]
      BY <1>1, <1>6, <2>1, SetEntry
    <2>3. \A e \in Device, t \in Thread : call'[e][t].pc = "add" => call'[e][t].tr <= Len(tp'[e])
      BY <1>4, <2>1, <2>2
    <2>4. \A e \in Device : call'[e]["ble"].pc = "enqueue" => call'[e]["ble"].env \in Served(e)
      <3>1. "ble" \in Thread  BY DEF Thread
      <3>. QED  BY <1>1, <2>1, <2>2, <3>1
    <2>. QED  BY <2>2, <2>3, <2>4 DEF Prepared
  <1>. QED  BY <1>5, <1>6, CallSteps

-----------------------------------------------------------------------------
(* Sessions.                                                                *)

\* No session changes; the manager forgets at most the sessions of a peer that
\* is gone.
Quiet == UNCHANGED sess /\ (UNCHANGED mgr \/ \E d \in Device : Unmapped(d))

\* startSession hands a request to the session registered for the file.
Again(d, s, c) ==
  LET x == sess[d][s] IN
  /\ c.pc = "get" /\ Live(x) /\ x.file = c.file
  /\ sess' = [sess EXCEPT ![d][s] =
       [x EXCEPT !.pend = c.idx,
                 !.asked = IF c.dir = "OUTBOUND" /\ ~Terminal(x) THEN c.idx ELSE x.asked]]
  /\ UNCHANGED <<mgr, store>>

\* addSession starts a session for a file that has none.
Started(d, s, c) ==
  /\ c.pc = "add" /\ ~Live(sess[d][s]) /\ mgr[d][c.file] = NoSession
  /\ sess' = [sess EXCEPT ![d][s] =
       [pc |-> "start", st |-> "IDLE", dir |-> c.dir, file |-> c.file,
        pend |-> c.idx, asked |-> c.idx, sent |-> FALSE, tr |-> c.tr]]
  /\ mgr' = [mgr EXCEPT ![d][c.file] = s]
  /\ UNCHANGED <<store, tp, mapped>>

\* The goroutine of a session that has not ended takes a step: the request
\* only loses chunks that are stored, and a download starts to drain or
\* completes only when nothing requested is missing.
Moved(d, s, y) ==
  LET x == sess[d][s]  missing == MissingChunkIndices(d, x.file, x.pend) IN
  /\ Live(x) /\ ~Terminal(x) /\ y \in Session
  /\ y.dir = x.dir /\ y.file = x.file /\ y.asked = x.asked /\ y.tr = x.tr
  /\ y.pend \in {x.pend, missing}
  /\ y.pc = "exit" <=> Terminal(y)
  /\ y.pc \in {"wait", "recv", "drain"} => y.dir = "OUTBOUND"
  /\ y.pc = "build" => y.dir = "INBOUND"
  /\ y.pc = "drain" \/ (y.st = "COMPLETE" /\ y.dir = "OUTBOUND") => x.pc = "drain" \/ missing = {}
  /\ sess' = [sess EXCEPT ![d][s] = y]
  /\ UNCHANGED mgr
  /\ UNCHANGED store \/ (y.st # "COMPLETE" /\ \E f \in File, S \in SUBSET Chunk : Copied(d, f, S))

\* RemoveCompleted, and the goroutine is gone.
Ended(d, s) ==
  /\ sess[d][s].pc = "exit"
  /\ sess' = [sess EXCEPT ![d][s] = FreeSession]
  /\ mgr' = [mgr EXCEPT ![d] =
       [f \in File |-> IF mgr[d][f] # NoSession /\ Terminal(sess[d][mgr[d][f]])
                       THEN NoSession ELSE mgr[d][f]]]
  /\ UNCHANGED <<store, tp, mapped>>

\* What a step does to the sessions.
SessionsStep ==
  \/ Quiet
  \/ \E d \in Device, s \in Slot :
       \/ \E th \in Thread : Again(d, s, call[d][th]) \/ Started(d, s, call[d][th])
       \/ \E y \in Session : Moved(d, s, y)
       \/ Ended(d, s)

\* The steps of the sender's goroutine, and the first of every goroutine.
LEMMA SenderMoves ==
  ASSUME Inv, NEW d \in Device, NEW s \in Slot,
         RunSession(d, s) \/ checkInbound(d, s) \/ sendBatch(d, s)
  PROVE  \E y \in Session : Moved(d, s, y)
  <1>. DEFINE x == sess[d][s]
  <1>1. Live(x) /\ x.pc \in {"start", "check", "build"}
    BY DEF RunSession, checkInbound, sendBatch, Live
  <1>2. x \in Session /\ Sound(d, x)  BY <1>1, LiveSession DEF Inv, TypeOK
  <1>3. ~Terminal(x)  BY <1>1, <1>2 DEF Sound
  <1>4. CASE RunSession(d, s)
    <2>. DEFINE y == [x EXCEPT !.st = "TRANSFERRING", !.pc = "check"]
    <2>1. y \in Session  BY <1>2 DEF Session
    <2>2. /\ y.pc = "check" /\ y.st = "TRANSFERRING" /\ y.dir = x.dir /\ y.file = x.file
          /\ y.asked = x.asked /\ y.tr = x.tr /\ y.pend = x.pend
      BY <1>2 DEF Session
    <2>3. Moved(d, s, y)
      BY <1>1, <1>3, <1>4, <2>1, <2>2 DEF RunSession, SetSess, Moved, Terminal
    <2>. QED  BY <2>1, <2>3
  <1>5. CASE checkInbound(d, s)
    <2>1. x.dir = "INBOUND"  BY <1>5 DEF checkInbound
    <2>2. \A z \in {[x EXCEPT !.pc = "build"], Finished(x, "FAILED")} :
            /\ z \in Session /\ z.dir = x.dir /\ z.file = x.file
            /\ z.asked = x.asked /\ z.tr = x.tr /\ z.pend = x.pend
            /\ \/ z.pc = "build" /\ z.st = x.st
               \/ z.pc = "exit" /\ z.st = "FAILED"
      BY <1>2 DEF Session, Finished
    <2>3. PICK y \in {[x EXCEPT !.pc = "build"], Finished(x, "FAILED")} :
            sess' = [sess EXCEPT ![d][s] = y]
      BY <1>5 DEF checkInbound, SetSess
    <2>4. Moved(d, s, y)
      BY <1>1, <1>3, <1>5, <2>1, <2>2, <2>3 DEF checkInbound, Moved, Terminal, Live
    <2>. QED  BY <2>2, <2>4
  <1>6. CASE sendBatch(d, s)
    <2>1. x.dir = "INBOUND"  BY <1>2, <1>6 DEF sendBatch, Sound, Live
    <2>2. \A st \in {"COMPLETE", "FAILED"} :
            LET z == Finished(x, st) IN
            /\ z \in Session /\ z.dir = x.dir /\ z.file = x.file
            /\ z.asked = x.asked /\ z.tr = x.tr /\ z.pend = x.pend /\ z.pc = "exit" /\ z.st = st
      BY <1>2 DEF Session, Finished
    <2>3. PICK st \in {"COMPLETE", "FAILED"} : sess' = [sess EXCEPT ![d][s] = Finished(x, st)]
      BY <1>6 DEF sendBatch, SetSess
    <2>4. Moved(d, s, Finished(x, st))
      BY <1>1, <1>3, <1>6, <2>1, <2>2, <2>3 DEF sendBatch, Moved, Terminal, Live
    <2>. QED  BY <2>2, <2>4
  <1>. QED  BY <1>4, <1>5, <1>6

\* The steps of the requester's goroutine that do not write to storage.
LEMMA RequesterMoves ==
  ASSUME Inv, NEW d \in Device, NEW s \in Slot, checkOutbound(d, s) \/ waitChunks(d, s)
  PROVE  \E y \in Session : Moved(d, s, y)
  <1>. DEFINE x == sess[d][s]  missing == MissingChunkIndices(d, x.file, x.pend)
  <1>1. Live(x) /\ x.pc \in {"check", "wait"}  BY DEF checkOutbound, waitChunks, Live
  <1>2. x \in Session /\ Sound(d, x)  BY <1>1, LiveSession DEF Inv, TypeOK
  <1>3. ~Terminal(x)  BY <1>1, <1>2 DEF Sound
  <1>4. missing \in SUBSET Chunk  BY <1>2 DEF Session, MissingChunkIndices
  <1>5. x.dir = "OUTBOUND"  BY <1>2 DEF checkOutbound, waitChunks, Sound, Live
  <1>6. CASE checkOutbound(d, s)
    <2>. DEFINE E == {Finished(x, "COMPLETE"), [x EXCEPT !.pc = "wait"],
                      [x EXCEPT !.pend = missing, !.sent = TRUE],
                      Finished([x EXCEPT !.pend = missing], "FAILED")}
    <2>1. \A z \in E :
            /\ z \in Session /\ z.dir = x.dir /\ z.file = x.file /\ z.asked = x.asked
            /\ z.tr = x.tr /\ z.pend \in {x.pend, missing}
      <3>1. /\ GoesOn(x, Finished(x, "COMPLETE"), {x.pend})
            /\ GoesOn(x, [x EXCEPT !.pc = "wait"], {x.pend})
            /\ GoesOn(x, [x EXCEPT !.pend = missing, !.sent = TRUE], {missing})
            /\ GoesOn(x, Finished([x EXCEPT !.pend = missing], "FAILED"), {missing})
        BY <1>2, <1>4, SessionGoesOn, Zenon
      <3>2. \A z \in E : GoesOn(x, z, {x.pend}) \/ GoesOn(x, z, {missing})  BY <3>1, Zenon
      <3>. HIDE DEF E, missing, x
      <3>. QED  BY <3>2, Zenon DEF GoesOn
    <2>2. x.pc = "check"  BY <1>6 DEF checkOutbound
    <2>3. PICK y \in E :
            /\ sess' = [sess EXCEPT ![d][s] = y]
            /\ \/ y.pc = "exit" /\ y.st = "COMPLETE" /\ missing = {}
               \/ y.pc = "exit" /\ y.st = "FAILED"
               \/ y.pc \in {"wait", "check"} /\ y.st = x.st
      <3>1. /\ Finished(x, "COMPLETE").pc = "exit" /\ Finished(x, "COMPLETE").st = "COMPLETE"
            /\ [x EXCEPT !.pc = "wait"].pc = "wait" /\ [x EXCEPT !.pc = "wait"].st = x.st
            /\ [x EXCEPT !.pend = missing, !.sent = TRUE].pc = x.pc
            /\ [x EXCEPT !.pend = missing, !.sent = TRUE].st = x.st
            /\ Finished([x EXCEPT !.pend = missing], "FAILED").pc = "exit"
            /\ Finished([x EXCEPT !.pend = missing], "FAILED").st = "FAILED"
        BY <1>2, <1>4 DEF Session, Finished
      <3>2. \/ missing = {} /\ sess' = [sess EXCEPT ![d][s] = Finished(x, "COMPLETE")]
            \/ sess' = [sess EXCEPT ![d][s] = [x EXCEPT !.pc = "wait"]]
            \/ sess' = [sess EXCEPT ![d][s] = [x EXCEPT !.pend = missing, !.sent = TRUE]]
            \/ sess' = [sess EXCEPT ![d][s] = Finished([x EXCEPT !.pend = missing], "FAILED")]
        BY <1>6 DEF checkOutbound, SetSess
      <3>. QED  BY <2>2, <3>1, <3>2
    <2>4. UNCHANGED <<mgr, store>>  BY <1>6 DEF checkOutbound
    <2>5. Moved(d, s, y)
      <3>. HIDE DEF E, missing
      <3>. QED  BY <1>1, <1>3, <1>5, <2>1, <2>3, <2>4 DEF Moved, Terminal, Live, missing
    <2>. QED  BY <2>1, <2>5
  <1>7. CASE waitChunks(d, s)
    <2>. DEFINE y == [x EXCEPT !.pc = IF missing = {} THEN "drain" ELSE "recv"]
    <2>1. /\ y \in Session /\ y.dir = x.dir /\ y.file = x.file /\ y.asked = x.asked
          /\ y.tr = x.tr /\ y.pend = x.pend /\ y.st = x.st
          /\ y.pc = IF missing = {} THEN "drain" ELSE "recv"
      BY <1>2 DEF Session
    <2>2. sess' = [sess EXCEPT ![d][s] = y] /\ UNCHANGED <<mgr, store>>
      BY <1>7 DEF waitChunks, SetSess
    <2>3. Moved(d, s, y)
      <3>. HIDE DEF y
      <3>. QED  BY <1>1, <1>3, <1>5, <2>1, <2>2 DEF Moved, Terminal, Live
    <2>. QED  BY <2>1, <2>3
  <1>. QED  BY <1>6, <1>7

\* The steps that take a batch: the session goes on, ends, or fails with the
\* batch partly written.
LEMMA ReceiverMoves ==
  ASSUME Inv, NEW d \in Device, NEW s \in Slot, recvChunks(d, s) \/ drainChunks(d, s)
  PROVE  Quiet \/ \E y \in Session : Moved(d, s, y)
  <1>. DEFINE x == sess[d][s]  q == Pending(tp[d][x.tr])
  <1>1. Live(x) /\ x.pc \in {"recv", "drain"}  BY DEF recvChunks, drainChunks, Live
  <1>2. x \in Session /\ Sound(d, x)  BY <1>1, LiveSession DEF Inv, TypeOK
  <1>3. ~Terminal(x) /\ x.dir = "OUTBOUND"  BY <1>1, <1>2 DEF Sound
  <1>4. \A z \in {Finished(x, "FAILED"), Finished(x, "COMPLETE"), [x EXCEPT !.pc = "wait"]} :
          /\ z \in Session /\ z.dir = x.dir /\ z.file = x.file /\ z.asked = x.asked
          /\ z.tr = x.tr /\ z.pend = x.pend
    <2>1. /\ GoesOn(x, Finished(x, "COMPLETE"), {x.pend})
          /\ GoesOn(x, Finished(x, "FAILED"), {x.pend})
          /\ GoesOn(x, [x EXCEPT !.pc = "wait"], {x.pend})
      BY <1>2, SessionGoesOn, Zenon
    <2>2. \A z \in {Finished(x, "FAILED"), Finished(x, "COMPLETE"), [x EXCEPT !.pc = "wait"]} :
            GoesOn(x, z, {x.pend})
      BY <2>1, Zenon
    <2>. QED  BY <2>2, Zenon DEF GoesOn
  <1>5. /\ Finished(x, "COMPLETE").pc = "exit" /\ Finished(x, "COMPLETE").st = "COMPLETE"
        /\ Finished(x, "FAILED").pc = "exit" /\ Finished(x, "FAILED").st = "FAILED"
        /\ [x EXCEPT !.pc = "wait"].pc = "wait" /\ [x EXCEPT !.pc = "wait"].st = x.st
    BY <1>2 DEF Session, Finished
  <1>6. UNCHANGED mgr  BY DEF recvChunks, drainChunks
  <1>7. UNCHANGED store \/ \E f \in File, S \in SUBSET Chunk : Copied(d, f, S)
    <2>1. q # <<>> => Head(q) \in Served(d)  BY <1>1, Takes
    <2>. QED  BY <2>1, StoreBatchCopies DEF recvChunks, drainChunks
  <1>8. \/ UNCHANGED sess
        \/ sess' = [sess EXCEPT ![d][s] = [x EXCEPT !.pc = "wait"]]
        \/ sess' = [sess EXCEPT ![d][s] = Finished(x, "FAILED")]
        \/ /\ sess' = [sess EXCEPT ![d][s] = Finished(x, "COMPLETE")]
           /\ x.pc = "drain" /\ UNCHANGED store
    BY DEF recvChunks, drainChunks, storeBatch, SetSess
  <1>9. CASE UNCHANGED sess  BY <1>6, <1>9 DEF Quiet
  <1>10. CASE sess' = [sess EXCEPT ![d][s] = [x EXCEPT !.pc = "wait"]]
    <2>. DEFINE y == [x EXCEPT !.pc = "wait"]
    <2>1. Moved(d, s, y)
      <3>1. /\ y \in Session /\ y.dir = x.dir /\ y.file = x.file /\ y.asked = x.asked
            /\ y.tr = x.tr /\ y.pend = x.pend /\ y.pc = "wait" /\ y.st = x.st
        BY <1>4, <1>5
      <3>2. y.st # "COMPLETE" /\ ~Terminal(y)  BY <1>1, <1>3, <3>1 DEF Terminal
      <3>3. sess' = [sess EXCEPT ![d][s] = y]  BY <1>10
      <3>. HIDE DEF y
      <3>. QED  BY <1>1, <1>3, <1>6, <1>7, <3>1, <3>2, <3>3 DEF Moved
    <2>. QED  BY <1>4, <2>1
  <1>11. CASE sess' = [sess EXCEPT ![d][s] = Finished(x, "FAILED")]
    <2>1. Moved(d, s, Finished(x, "FAILED"))
      BY <1>1, <1>3, <1>4, <1>5, <1>6, <1>7, <1>11 DEF Moved, Terminal, Live
    <2>. QED  BY <1>4, <2>1
  <1>12. CASE /\ sess' = [sess EXCEPT ![d][s] = Finished(x, "COMPLETE")]
              /\ x.pc = "drain" /\ UNCHANGED store
    <2>1. Moved(d, s, Finished(x, "COMPLETE"))
      BY <1>1, <1>3, <1>4, <1>5, <1>6, <1>12 DEF Moved, Terminal, Live
    <2>. QED  BY <1>4, <2>1
  <1>. QED  BY <1>8, <1>9, <1>10, <1>11, <1>12

\* Every step treats the sessions in one of the five ways.
LEMMA SessionSteps == ASSUME Inv, Next PROVE SessionsStep
  <1>1. CASE LinkUp \/ LinkDown  BY <1>1 DEF LinkUp, LinkDown, SessionsStep, Quiet
  <1>2. ASSUME NEW d \in Device,
               \/ Lose(d) \/ ml_on_peer_connected(d) \/ ml_on_data_received(d) \/ enqueue(d)
               \/ \E f \in File, n \in Counts : ml_request_file(d, f, n)
        PROVE  Quiet
    BY <1>2 DEF Lose, ml_on_peer_connected, ml_on_data_received, enqueue, ml_request_file, Quiet
  <1>3. ASSUME NEW d \in Device, ml_on_peer_disconnected(d) PROVE Quiet
    <2>1. Unmapped(d) /\ UNCHANGED sess  BY <1>3 DEF ml_on_peer_disconnected, Unmapped
    <2>. QED  BY <2>1 DEF Quiet
  <1>4. ASSUME NEW d \in Device, NEW th \in Thread, startSession(d, th) PROVE SessionsStep
    <2>. DEFINE c == call[d][th]  s == mgr[d][c.file]
    <2>1. c.pc = "get"  BY <1>4 DEF startSession
    <2>2. c \in Call  BY DEF Inv, TypeOK
    <2>3. c.file \in File  BY <2>1, <2>2, CallIs
    <2>4. CASE s = NoSession  BY <1>4, <2>4 DEF startSession, SessionsStep, Quiet
    <2>5. CASE s # NoSession
      <3>1. s \in Slot  BY <2>3, <2>5 DEF Inv, TypeOK
      <3>2. Live(sess[d][s]) /\ sess[d][s].file = c.file  BY <2>3, <2>5 DEF Inv, Registered
      <3>3. Again(d, s, c)
        BY <1>4, <2>1, <2>5, <3>2 DEF startSession, SetSess, Again
      <3>. QED  BY <3>1, <3>3 DEF SessionsStep
    <2>. QED  BY <2>4, <2>5
  <1>5. ASSUME NEW d \in Device, NEW th \in Thread, addSession(d, th) PROVE SessionsStep
    <2>1. UNCHANGED <<sess, mgr>> \/ \E s \in Slot : Started(d, s, call[d][th])
      BY <1>5 DEF addSession, SetSess, Started
    <2>. QED  BY <2>1 DEF SessionsStep, Quiet
  <1>6. ASSUME NEW d \in Device, NEW s \in Slot, SessionStep(d, s) PROVE SessionsStep
    <2>1. CASE RemoveCompleted(d, s)
      <3>1. mgr \in [Device -> [File -> Slot \cup {NoSession}]]  BY DEF Inv, TypeOK
      <3>2. Ended(d, s)  BY <2>1, <3>1 DEF RemoveCompleted, SetSess, Ended
      <3>. QED  BY <3>2 DEF SessionsStep
    <2>2. CASE ~RemoveCompleted(d, s)
      BY <1>6, <2>2, SenderMoves, RequesterMoves, ReceiverMoves DEF SessionStep, SessionsStep
    <2>. QED  BY <2>1, <2>2
  <1>7. ASSUME Quiet PROVE SessionsStep  BY <1>7 DEF SessionsStep
  <1>. QED  BY <1>1, <1>2, <1>3, <1>4, <1>5, <1>6, <1>7 DEF Next, LinkEvent, CallStep

\* What a step leaves in a slot: the session as it was, a session that came
\* from it, a new one, or nothing.
LEMMA SessionsFollow ==
  ASSUME Inv, Next
  PROVE  /\ sess' \in [Device -> [Slot -> Session \cup {FreeSession}]]
         /\ mgr' \in [Device -> [File -> Slot \cup {NoSession}]]
         /\ \A d \in Device, s \in Slot :
              LET x == sess[d][s]  y == sess'[d][s] IN
              /\ Sound(d, sess[d][s])'
              /\ Live(y) =>
                   \/ Live(x) /\ y.file = x.file /\ y.tr = x.tr /\ (Terminal(x) => Terminal(y))
                   \/ ~Live(x) /\ mgr'[d][y.file] = s
  <1>1. /\ sess \in [Device -> [Slot -> Session \cup {FreeSession}]]
        /\ mgr \in [Device -> [File -> Slot \cup {NoSession}]]
        /\ \A d \in Device, s \in Slot : Sound(d, sess[d][s])
    BY DEF Inv, TypeOK
  <1>. DEFINE Old(d, s) == sess'[d][s] = sess[d][s]
              Follows(d, s) == LET x == sess[d][s]  y == sess'[d][s] IN
                /\ Sound(d, sess[d][s])'
                /\ Live(y) =>
                     \/ Live(x) /\ y.file = x.file /\ y.tr = x.tr /\ (Terminal(x) => Terminal(y))
                     \/ ~Live(x) /\ mgr'[d][y.file] = s
              Typed == /\ sess' \in [Device -> [Slot -> Session \cup {FreeSession}]]
                       /\ mgr' \in [Device -> [File -> Slot \cup {NoSession}]]
  <1>2. \A d \in Device : Len(tp[d]) \in Nat /\ Len(tp'[d]) \in Nat /\ Len(tp[d]) <= Len(tp'[d])
    BY TransportsStay
  <1>3. \A d \in Device, s \in Slot : Live(sess[d][s]) =>
          sess[d][s] \in Session /\ sess[d][s].tr \in Nat /\ sess[d][s].tr <= Len(tp'[d])
    <2>. SUFFICES ASSUME NEW d \in Device, NEW s \in Slot, Live(sess[d][s])
                  PROVE  sess[d][s] \in Session /\ sess[d][s].tr \in Nat /\ sess[d][s].tr <= Len(tp'[d])
      OBVIOUS
    <2>1. sess[d][s] \in Session  BY <1>1, LiveSession
    <2>2. sess[d][s].tr \in Nat /\ sess[d][s].tr <= Len(tp[d])  BY <1>1, <2>1 DEF Session, Sound
    <2>. QED  BY <1>2, <2>1, <2>2
  <1>4. ASSUME NEW d \in Device, NEW s \in Slot, Old(d, s) PROVE Follows(d, s)
    <2>. DEFINE x == sess[d][s]
    <2>1. sess'[d][s] = x  BY <1>4
    <2>2. Live(x) => x.tr <= Len(tp'[d])  BY <1>3
    <2>3. Sound(d, x)  BY <1>1
    <2>4. Sound(d, sess[d][s])'  BY <2>1, <2>2, <2>3 DEF Sound, Terminal, Live
    <2>. QED  BY <2>1, <2>4
  <1>5. CASE Quiet
    <2>1. \A d \in Device, s \in Slot : Old(d, s)  BY <1>5 DEF Quiet
    <2>2. Typed  BY <1>1, <1>5 DEF Quiet, Unmapped
    <2>. QED  BY <1>4, <2>1, <2>2
  <1>6. ASSUME NEW d \in Device, NEW s \in Slot, NEW th \in Thread, Again(d, s, call[d][th])
        PROVE  Typed /\ \A e \in Device, t \in Slot : Follows(e, t)
    <2>. DEFINE x == sess[d][s]  c == call[d][th]
                y == [x EXCEPT !.pend = c.idx,
                       !.asked = IF c.dir = "OUTBOUND" /\ ~Terminal(x) THEN c.idx ELSE x.asked]
    <2>1. c \in Call /\ c.pc = "get"  BY <1>6 DEF Inv, TypeOK, Again
    <2>2. c.idx \in SUBSET Chunk  BY <2>1, CallIs
    <2>3. Live(x) /\ x \in Session  BY <1>3, <1>6 DEF Again
    <2>4. /\ y \in Session /\ y.pc = x.pc /\ y.st = x.st /\ y.dir = x.dir /\ y.file = x.file
          /\ y.tr = x.tr
      BY <2>2, <2>3 DEF Session
    <2>5. sess' = [sess EXCEPT ![d][s] = y] /\ mgr' = mgr  BY <1>6 DEF Again
    <2>. HIDE DEF y
    <2>6. y \in Session \cup {FreeSession}  BY <2>4
    <2>7. /\ sess' \in [Device -> [Slot -> Session \cup {FreeSession}]] /\ sess'[d][s] = y
          /\ \A e \in Device, t \in Slot : e # d \/ t # s => Old(e, t)
      BY <1>1, <2>5, <2>6, SetEntry
    <2>8. Follows(d, s)
      <3>1. Terminal(y) <=> Terminal(x)  BY <2>3, <2>4 DEF Terminal, Live
      <3>2. Sound(d, sess[d][s])'
        BY <1>1, <1>3, <2>3, <2>4, <2>7, <3>1 DEF Sound, Live, Terminal
      <3>. QED  BY <2>3, <2>4, <2>7, <3>1, <3>2
    <2>. QED  BY <1>1, <1>4, <2>5, <2>7, <2>8
  <1>7. ASSUME NEW d \in Device, NEW s \in Slot, NEW th \in Thread, Started(d, s, call[d][th])
        PROVE  Typed /\ \A e \in Device, t \in Slot : Follows(e, t)
    <2>. DEFINE c == call[d][th]
                y == [pc |-> "start", st |-> "IDLE", dir |-> c.dir, file |-> c.file,
                      pend |-> c.idx, asked |-> c.idx, sent |-> FALSE, tr |-> c.tr]
    <2>1. c \in Call /\ c.pc = "add"  BY <1>7 DEF Inv, TypeOK, Started
    <2>2. /\ c.dir \in {"OUTBOUND", "INBOUND"} /\ c.file \in File /\ c.idx \in SUBSET Chunk
          /\ c.tr \in Nat \ {0}
      BY <2>1, CallIs
    <2>3. c.tr <= Len(tp'[d])  BY <1>2, <2>1, <2>2 DEF Inv, Prepared
    <2>4. y \in Session  BY <2>2, Zenon DEF Session
    <2>5. y.pc = "start" /\ y.st = "IDLE" /\ y.file = c.file /\ y.tr = c.tr  OBVIOUS
    <2>6. /\ sess' = [sess EXCEPT ![d][s] = y] /\ mgr' = [mgr EXCEPT ![d][c.file] = s]
          /\ ~Live(sess[d][s])
      BY <1>7 DEF Started
    <2>. HIDE DEF y
    <2>7. /\ sess' \in [Device -> [Slot -> Session \cup {FreeSession}]] /\ sess'[d][s] = y
          /\ \A e \in Device, t \in Slot : e # d \/ t # s => Old(e, t)
      BY <1>1, <2>4, <2>6, SetEntry
    <2>8. mgr' \in [Device -> [File -> Slot \cup {NoSession}]] /\ mgr'[d][c.file] = s
      BY <1>1, <2>2, <2>6
    <2>9. Follows(d, s)
      <3>1. Sound(d, sess[d][s])'  BY <2>3, <2>5, <2>7 DEF Sound, Terminal, Live
      <3>. QED  BY <2>5, <2>6, <2>7, <2>8, <3>1
    <2>10. Typed  BY <2>7, <2>8
    <2>. HIDE DEF Old, Follows, Typed
    <2>. QED  BY <1>4, <2>7, <2>9, <2>10, Zenon
  <1>8. ASSUME NEW d \in Device, NEW s \in Slot, NEW y \in Session, Moved(d, s, y)
        PROVE  Typed /\ \A e \in Device, t \in Slot : Follows(e, t)
    <2>. DEFINE x == sess[d][s]
    <2>1. /\ sess' = [sess EXCEPT ![d][s] = y] /\ mgr' = mgr /\ Live(x) /\ ~Terminal(x)
          /\ y.file = x.file /\ y.tr = x.tr
      BY <1>8 DEF Moved
    <2>2. /\ sess' \in [Device -> [Slot -> Session \cup {FreeSession}]] /\ sess'[d][s] = y
          /\ \A e \in Device, t \in Slot : e # d \/ t # s => Old(e, t)
      BY <1>1, <2>1, SetEntry
    <2>3. Follows(d, s)
      <3>1. Sound(d, sess[d][s])'  BY <1>3, <1>8, <2>1, <2>2 DEF Sound, Moved, Terminal, Live
      <3>. QED  BY <2>1, <2>2, <3>1
    <2>. QED  BY <1>1, <1>4, <2>1, <2>2, <2>3
  <1>9. ASSUME NEW d \in Device, NEW s \in Slot, Ended(d, s)
        PROVE  Typed /\ \A e \in Device, t \in Slot : Follows(e, t)
    <2>1. sess' = [sess EXCEPT ![d][s] = FreeSession]  BY <1>9 DEF Ended
    <2>2. /\ sess' \in [Device -> [Slot -> Session \cup {FreeSession}]] /\ sess'[d][s] = FreeSession
          /\ \A e \in Device, t \in Slot : e # d \/ t # s => Old(e, t)
      BY <1>1, <2>1, SetEntry
    <2>3. ~Live(sess'[d][s])  BY <2>2, LiveSession
    <2>4. Follows(d, s)  BY <2>3 DEF Sound, Live
    <2>5. mgr' \in [Device -> [File -> Slot \cup {NoSession}]]  BY <1>1, <1>9 DEF Ended
    <2>. QED  BY <1>4, <2>2, <2>4, <2>5
  <1>. QED  BY <1>5, <1>6, <1>7, <1>8, <1>9, SessionSteps DEF SessionsStep

\* The manager keeps naming live sessions of the right file.
LEMMA RegisteredStep == ASSUME Inv, Next PROVE Registered'
  <1>1. /\ sess \in [Device -> [Slot -> Session \cup {FreeSession}]]
        /\ mgr \in [Device -> [File -> Slot \cup {NoSession}]]
        /\ \A d \in Device, s \in Slot : Sound(d, sess[d][s])
        /\ \A d \in Device, f \in File :
             mgr[d][f] # NoSession => Live(sess[d][mgr[d][f]]) /\ sess[d][mgr[d][f]].file = f
    BY DEF Inv, TypeOK, Registered
  <1>. SUFFICES ASSUME NEW e \in Device, NEW f \in File, NEW t \in Slot, mgr'[e][f] = t
                PROVE  Live(sess'[e][t]) /\ sess'[e][t].file = f
    BY SessionsFollow DEF Registered
  <1>2. ASSUME mgr[e][f] = t PROVE Live(sess[e][t]) /\ sess[e][t].file = f
    BY <1>1, <1>2, SlotAssumption
  <1>3. CASE Quiet
    BY <1>1, <1>2, <1>3, SlotAssumption DEF Quiet, Unmapped
  <1>4. ASSUME NEW d \in Device, NEW s \in Slot, NEW th \in Thread, Again(d, s, call[d][th])
        PROVE  Live(sess'[e][t]) /\ sess'[e][t].file = f
    <2>. DEFINE x == sess[d][s]  c == call[d][th]
                y == [x EXCEPT !.pend = c.idx,
                       !.asked = IF c.dir = "OUTBOUND" /\ ~Terminal(x) THEN c.idx ELSE x.asked]
    <2>1. x \in Session  BY <1>1, <1>4, LiveSession DEF Again
    <2>2. y.pc = x.pc /\ y.file = x.file  BY <2>1 DEF Session
    <2>3. sess' = [sess EXCEPT ![d][s] = y] /\ mgr' = mgr  BY <1>4 DEF Again
    <2>. HIDE DEF y
    <2>4. sess'[d][s] = y /\ (e # d \/ t # s => sess'[e][t] = sess[e][t])  BY <1>1, <2>3
    <2>. QED  BY <1>2, <2>2, <2>3, <2>4 DEF Live
  <1>5. ASSUME NEW d \in Device, NEW s \in Slot, NEW th \in Thread, Started(d, s, call[d][th])
        PROVE  Live(sess'[e][t]) /\ sess'[e][t].file = f
    <2>. DEFINE c == call[d][th]
                y == [pc |-> "start", st |-> "IDLE", dir |-> c.dir, file |-> c.file,
                      pend |-> c.idx, asked |-> c.idx, sent |-> FALSE, tr |-> c.tr]
    <2>1. y.pc = "start" /\ y.file = c.file  OBVIOUS
    <2>2. /\ sess' = [sess EXCEPT ![d][s] = y] /\ mgr' = [mgr EXCEPT ![d][c.file] = s]
          /\ ~Live(sess[d][s])
      BY <1>5 DEF Started
    <2>. HIDE DEF y
    <2>3. sess'[d][s] = y /\ (e # d \/ t # s => sess'[e][t] = sess[e][t])  BY <1>1, <2>2
    <2>4. CASE e = d /\ f = c.file
      <3>1. t = s  BY <1>1, <2>2, <2>4
      <3>. QED  BY <2>1, <2>3, <2>4, <3>1 DEF Live
    <2>5. CASE e # d \/ f # c.file
      <3>1. mgr[e][f] = t  BY <1>1, <2>2, <2>5
      <3>. QED  BY <1>2, <2>2, <2>3, <3>1
    <2>. QED  BY <2>4, <2>5
  <1>6. ASSUME NEW d \in Device, NEW s \in Slot, NEW y \in Session, Moved(d, s, y)
        PROVE  Live(sess'[e][t]) /\ sess'[e][t].file = f
    <2>1. sess' = [sess EXCEPT ![d][s] = y] /\ mgr' = mgr /\ y.file = sess[d][s].file
      BY <1>6 DEF Moved
    <2>2. sess'[d][s] = y /\ (e # d \/ t # s => sess'[e][t] = sess[e][t])  BY <1>1, <2>1
    <2>3. Live(y)  BY LiveSession
    <2>. QED  BY <1>2, <2>1, <2>2, <2>3
  <1>7. ASSUME NEW d \in Device, NEW s \in Slot, Ended(d, s)
        PROVE  Live(sess'[e][t]) /\ sess'[e][t].file = f
    <2>1. Terminal(sess[d][s])  BY <1>1, <1>7 DEF Ended, Sound, Live
    <2>2. mgr[e][f] = t /\ (e = d => ~Terminal(sess[d][t]))
      BY <1>1, <1>7, SlotAssumption DEF Ended
    <2>3. e # d \/ t # s  BY <2>1, <2>2
    <2>4. sess'[e][t] = sess[e][t]  BY <1>1, <1>7, <2>3 DEF Ended
    <2>. QED  BY <1>2, <2>2, <2>4
  <1>. QED  BY <1>3, <1>4, <1>5, <1>6, <1>7, SessionSteps DEF SessionsStep

\* A working session on the present transport stays registered.
LEMMA WorkingStep == ASSUME Inv, Next PROVE WorkingIsRegistered'
  <1>. SUFFICES ASSUME NEW e \in Device, NEW t \in Slot,
                       Live(sess'[e][t]), ~Terminal(sess'[e][t]), mapped'[e],
                       sess'[e][t].tr = Len(tp'[e])
                PROVE  mgr'[e][sess'[e][t].file] = t
    BY DEF WorkingIsRegistered
  <1>. DEFINE x == sess[e][t]  y == sess'[e][t]
  <1>1. \/ Live(x) /\ y.file = x.file /\ y.tr = x.tr /\ ~Terminal(x)
        \/ mgr'[e][y.file] = t
    BY SessionsFollow
  <1>2. CASE Live(x) /\ y.file = x.file /\ y.tr = x.tr /\ ~Terminal(x)
    <2>1. x \in Session /\ x.file \in File /\ x.tr \in Nat /\ x.tr <= Len(tp[e])
      <3>1. x \in Session  BY <1>2, LiveSession DEF Inv, TypeOK
      <3>. QED  BY <1>2, <3>1 DEF Inv, Sound, Session
    <2>2. mapped[e] /\ Len(tp'[e]) = Len(tp[e])
      <3>1. /\ Len(tp[e]) \in Nat /\ Len(tp'[e]) \in Nat
            /\ \/ mapped[e] /\ Len(tp'[e]) = Len(tp[e])
               \/ Len(tp'[e]) = Len(tp[e]) + 1
        BY TransportsStay
      <3>. QED  BY <1>2, <2>1, <3>1
    <2>3. mgr[e][x.file] = t  BY <1>2, <2>2 DEF Inv, WorkingIsRegistered
    <2>4. mgr \in [Device -> [File -> Slot \cup {NoSession}]] /\ t # NoSession
      BY SlotAssumption DEF Inv, TypeOK
    <2>5. CASE Quiet
      <3>1. ASSUME NEW d \in Device, Unmapped(d) PROVE mgr'[e] = mgr[e]
        <4>1. mapped \in [Device -> BOOLEAN]  BY DEF Inv, TypeOK
        <4>2. e # d
          <5>1. mapped'[d] = FALSE  BY <3>1, <4>1 DEF Unmapped
          <5>. QED  BY <5>1
        <4>. QED  BY <2>4, <3>1, <4>2 DEF Unmapped
      <3>. QED  BY <1>2, <2>3, <2>5, <3>1 DEF Quiet
    <2>6. ASSUME NEW d \in Device, NEW s \in Slot, NEW c, Again(d, s, c)
          PROVE  mgr' = mgr
      BY <2>6 DEF Again
    <2>7. ASSUME NEW d \in Device, NEW s \in Slot, NEW c, Started(d, s, c)
          PROVE  mgr'[e][x.file] = t
      <3>1. mgr' = [mgr EXCEPT ![d][c.file] = s] /\ mgr[d][c.file] = NoSession
        BY <2>7 DEF Started
      <3>2. e # d \/ x.file # c.file  BY <2>3, <2>4, <3>1
      <3>. QED  BY <2>1, <2>3, <2>4, <3>1, <3>2
    <2>8. ASSUME NEW d \in Device, NEW s \in Slot, Ended(d, s) PROVE mgr'[e][x.file] = t
      BY <1>2, <2>1, <2>3, <2>4, <2>8 DEF Ended
    <2>9. ASSUME NEW d \in Device, NEW s \in Slot, NEW z \in Session, Moved(d, s, z)
          PROVE  mgr' = mgr
      BY <2>9 DEF Moved
    <2>10. mgr'[e][x.file] = t
      BY <1>2, <2>3, <2>5, <2>6, <2>7, <2>8, <2>9, SessionSteps DEF SessionsStep
    <2>. QED  BY <1>2, <2>10
  <1>. QED  BY <1>1, <1>2

-----------------------------------------------------------------------------
(* The invariant, and the theorems that need no more than it.               *)

\* Two phones that have not met satisfy the invariant.
LEMMA InitInv == Init => Inv
  <1>. SUFFICES ASSUME Init PROVE Inv  OBVIOUS
  <1>. USE DEF Init
  <1>1. \A d \in Device, s \in Slot : sess[d][s] = FreeSession /\ ~Live(sess[d][s])
    BY LiveSession
  <1>2. \A d \in Device, th \in Thread : call[d][th] = IdleCall /\ call[d][th].pc = "idle"
    BY DEF IdleCall
  <1>3. TypeOK
    <2>1. up \in BOOLEAN /\ conn \in [Device -> BOOLEAN] /\ mapped \in [Device -> BOOLEAN]
      BY Zenon
    <2>2. IdleCall \in Call  BY DEF Call
    <2>. QED  BY <2>1, <2>2, SeedAssumption DEF TypeOK
  <1>4. Carried
    <2>1. "ble" \in Thread  BY DEF Thread
    <2>. QED  BY <1>2, <2>1 DEF Carried
  <1>5. Made  BY DEF Made
  <1>6. Registered /\ WorkingIsRegistered  BY <1>1 DEF Registered, WorkingIsRegistered
  <1>. QED  BY <1>1, <1>2, <1>3, <1>4, <1>5, <1>6 DEF Inv, Sound, Prepared

\* Every step keeps the invariant.
LEMMA NextInv == Inv /\ [Next]_vars => Inv'
  <1>. SUFFICES ASSUME Inv, [Next]_vars PROVE Inv'  OBVIOUS
  <1>1. CASE UNCHANGED vars
    <2>. USE <1>1 DEF vars, net, budget
    <2>1. TypeOK'  BY DEF Inv, TypeOK
    <2>2. \A d \in Device : Served(d)' = Served(d)  BY DEF Served
    <2>3. Carried'  BY <2>2 DEF Inv, Carried
    <2>4. Made'  BY DEF Inv, Made
    <2>5. \A d \in Device : /\ \A s \in Slot : Sound(d, sess[d][s])'
                            /\ \A th \in Thread : Prepared(d, call[d][th])'
      BY DEF Inv, Sound, Prepared
    <2>6. Registered' /\ WorkingIsRegistered'  BY DEF Inv, Registered, WorkingIsRegistered
    <2>. QED  BY <2>1, <2>3, <2>4, <2>5, <2>6 DEF Inv
  <1>2. CASE Next
    <2>1. TypeOK  BY DEF Inv
    <2>2. /\ store' \in [Device -> [File -> SUBSET Chunk]]
          /\ \A d \in Device : Served(d) \subseteq Served(d)'
      BY <1>2, StorageGrows
    <2>3. /\ sess' \in [Device -> [Slot -> Session \cup {FreeSession}]]
          /\ mgr' \in [Device -> [File -> Slot \cup {NoSession}]]
          /\ \A d \in Device, s \in Slot : Sound(d, sess[d][s])'
      BY <1>2, SessionsFollow
    <2>4. /\ mapped' \in [Device -> BOOLEAN] /\ tp' \in [Device -> Seq(Transports(Envelope))]
          /\ \A d \in Device : tp'[d] \in Seq(Transports(Served(d))) /\ (mapped'[d] => tp'[d] # <<>>)
      BY <1>2, TransportsStay
    <2>5. /\ call' \in [Device -> [Thread -> Call]]
          /\ \A d \in Device : /\ \A th \in Thread : Prepared(d, call[d][th])'
                               /\ call'[d]["ble"].pc = "enqueue" => call'[d]["ble"].env \in Served(d)
      BY <1>2, CallsStep
    <2>6. wire' \in [Device -> Seq(Envelope)] /\ \A d \in Device : wire'[d] \in Seq(Served(d))
      BY <1>2, WireServed
    <2>7. TypeOK'
      <3>1. /\ up' \in BOOLEAN /\ conn' \in [Device -> BOOLEAN]
            /\ requests' \in Nat /\ losses' \in Nat /\ drops' \in Nat /\ faults' \in Nat
        BY <1>2, <2>1, FlagsStep
      <3>. QED  BY <2>2, <2>3, <2>4, <2>5, <2>6, <3>1 DEF TypeOK, Transports
    <2>8. Carried'
      <3>. SUFFICES ASSUME NEW d \in Device
                    PROVE  /\ wire'[d] \in Seq(Served(d)')
                           /\ tp'[d] \in Seq(Transports(Served(d)'))
                           /\ call'[d]["ble"].pc = "enqueue" => call'[d]["ble"].env \in Served(d)'
        BY DEF Carried, Transports
      <3>1. Served(d) \subseteq Served(d)'  BY <2>2
      <3>2. wire'[d] \in Seq(Served(d)')  BY <2>6, <3>1, SeqGrows
      <3>3. tp'[d] \in Seq(Transports(Served(d)'))  BY <2>4, <3>1, TransportsGrow
      <3>. QED  BY <2>5, <3>1, <3>2, <3>3
    <2>9. Made'  BY <2>4 DEF Made
    <2>. QED  BY <1>2, <2>3, <2>5, <2>7, <2>8, <2>9, RegisteredStep, WorkingStep DEF Inv
  <1>. QED  BY <1>1, <1>2

\* The invariant contains BatchesAreServed.
LEMMA InvServes == Inv => BatchesAreServed
  <1>. SUFFICES ASSUME Inv, NEW d \in Device
                PROVE  LET served(env) == env.type = "batch" => env.idx \subseteq store[Peer(d)][env.file] IN
                       /\ \A i \in DOMAIN wire[d] : served(wire[d][i])
                       /\ \A g \in DOMAIN tp[d] : \A i \in DOMAIN Pending(tp[d][g]) : served(Pending(tp[d][g])[i])
                       /\ call[d]["ble"].pc = "enqueue" => served(call[d]["ble"].env)
    BY DEF BatchesAreServed
  <1>1. /\ wire[d] \in Seq(Served(d)) /\ tp[d] \in Seq(Transports(Served(d)))
        /\ call[d]["ble"].pc = "enqueue" => call[d]["ble"].env \in Served(d)
    BY DEF Inv, Carried
  <1>2. \A q \in Seq(Served(d)) : \A i \in DOMAIN q : q[i] \in Served(d)  OBVIOUS
  <1>3. \A g \in DOMAIN tp[d] : Pending(tp[d][g]) \in Seq(Served(d))
    <2>. SUFFICES ASSUME NEW g \in DOMAIN tp[d] PROVE Pending(tp[d][g]) \in Seq(Served(d))
      OBVIOUS
    <2>1. tp[d][g] \in Transports(Served(d))  BY <1>1
    <2>. QED  BY <2>1 DEF Transports, Pending
  <1>4. \A env \in Served(d) : env.type = "batch" => env.idx \subseteq store[Peer(d)][env.file]
    BY DEF Served
  <1>. QED  BY <1>1, <1>2, <1>3, <1>4

\* Sessions, manager, transports, calls, storage and link keep their types; in
\* particular a session only uses a transport that was made for its peer.
THEOREM TypeCorrect == Spec => []TypeOK
  <1>1. Inv => TypeOK  BY DEF Inv
  <1>. QED  BY InitInv, NextInv, <1>1, PTL DEF Spec

\* Through losses, full queues, link drops, reconnections and failing writes,
\* every batch on its way to a device holds only chunks its peer has stored.
THEOREM BatchesAreServedHolds == Spec => []BatchesAreServed
  <1>. QED  BY InitInv, NextInv, InvServes, PTL DEF Spec

\* Two sessions never work for one peer and file over one link: the session
\* still working over the present transport is the one SessionManager names.
THEOREM WorkingIsRegisteredHolds == Spec => []WorkingIsRegistered
  <1>1. Inv => WorkingIsRegistered  BY DEF Inv
  <1>. QED  BY InitInv, NextInv, <1>1, PTL DEF Spec

-----------------------------------------------------------------------------
(* Downloads.                                                               *)

\* With one chunk count there is one set of chunks to ask for.
LEMMA FullIs == ASSUME OneCount PROVE \A n \in Counts : RequestIndices(n) = Full
  BY DEF OneCount, Full

\* The request of a thread is one the rules of asking allow.
LEMMA CallsAsked ==
  ASSUME Inv, Tracked, Next, OneCount
  PROVE  \A d \in Device, th \in Thread : WellAsked(d, call[d][th])'
  <1>1. call \in [Device -> [Thread -> Call]]  BY DEF Inv, TypeOK
  <1>2. \A d \in Device : /\ \A th \in Thread : WellAsked(d, call[d][th])
                          /\ wire[d] \in Seq(Requests(d))
    BY DEF Tracked
  <1>3. CASE UNCHANGED call  BY <1>2, <1>3 DEF WellAsked
  <1>4. ASSUME NEW d \in Device, NEW th \in Thread, NEW c, NextCall(d, th, c),
               call' = [call EXCEPT ![d][th] = c]
        PROVE  \A e \in Device, t \in Thread : WellAsked(e, call[e][t])'
    <2>1. WellAsked(d, c)
      <3>1. CASE c = IdleCall  BY <3>1 DEF WellAsked, IdleCall
      <3>2. ASSUME NEW f \in File, NEW n \in Counts, <<d, f>> \in MayRequest,
                   c = [pc |-> "get", dir |-> "OUTBOUND", file |-> f, idx |-> RequestIndices(n)]
            PROVE  WellAsked(d, c)
        <4>1. c.dir = "OUTBOUND" /\ c.file = f /\ c.idx = Full  BY <3>2, FullIs
        <4>. QED  BY <3>2, <4>1 DEF WellAsked, AskedFrom
      <3>3. ASSUME NEW env, wire[d] # <<>>, env = Head(wire[d]), env.type = "request",
                   c = [pc |-> "get", dir |-> "INBOUND", file |-> env.file, idx |-> env.idx]
            PROVE  WellAsked(d, c)
        <4>1. env \in Requests(d)  BY <1>2, <3>3, FirstAndRest
        <4>2. AskedFrom(d, "INBOUND", env.file)  BY <3>3, <4>1 DEF Requests
        <4>3. c.dir = "INBOUND" /\ c.file = env.file  BY <3>3
        <4>. QED  BY <4>2, <4>3 DEF WellAsked
      <3>4. ASSUME NEW env, c = [pc |-> "enqueue", env |-> env] PROVE WellAsked(d, c)
        BY <3>4 DEF WellAsked
      <3>5. ASSUME call[d][th].pc = "get",
                   c = [pc |-> "add", dir |-> call[d][th].dir, file |-> call[d][th].file,
                        idx |-> call[d][th].idx, tr |-> Transport(d)]
            PROVE  WellAsked(d, c)
        <4>1. /\ AskedFrom(d, call[d][th].dir, call[d][th].file)
              /\ call[d][th].dir = "OUTBOUND" => call[d][th].idx = Full
          BY <1>2, <3>5 DEF WellAsked
        <4>2. c.dir = call[d][th].dir /\ c.file = call[d][th].file /\ c.idx = call[d][th].idx
          BY <3>5
        <4>. QED  BY <4>1, <4>2 DEF WellAsked
      <3>. QED  BY <1>4, <3>1, <3>2, <3>3, <3>4, <3>5 DEF NextCall
    <2>2. call'[d][th] = c /\ \A e \in Device, t \in Thread : e # d \/ t # th => call'[e][t] = call[e][t]
      BY <1>1, <1>4
    <2>3. \A e \in Device, t \in Thread : WellAsked(e, call'[e][t])  BY <1>2, <2>1, <2>2
    <2>. QED  BY <2>3 DEF WellAsked
  <1>. QED  BY <1>3, <1>4, CallSteps

\* Requests on the link come from a download of the other device.
LEMMA WireAsked ==
  ASSUME Inv, Tracked, Next
  PROVE  \A d \in Device : wire'[d] \in Seq(Requests(d))
  <1>1. wire \in [Device -> Seq(Envelope)] /\ \A d \in Device : wire[d] \in Seq(Requests(d))
    BY DEF Inv, TypeOK, Tracked
  <1>2. CASE UNCHANGED wire \/ wire' = [d \in Device |-> <<>>]
    <2>1. \A d \in Device : wire'[d] \in {wire[d], <<>>}  BY <1>2
    <2>2. \A d \in Device : <<>> \in Seq(Requests(d))  OBVIOUS
    <2>. QED  BY <1>1, <2>1, <2>2
  <1>3. ASSUME NEW d \in Device, wire[d] # <<>>, wire' = [wire EXCEPT ![d] = Tail(@)]
        PROVE  \A e \in Device : wire'[e] \in Seq(Requests(e))
    <2>1. Tail(wire[d]) \in Seq(Requests(d))  BY <1>1, <1>3, FirstAndRest
    <2>. QED  BY <1>1, <1>3, <2>1
  <1>4. ASSUME NEW d \in Device, NEW env \in Envelope, Sends(d, env)
        PROVE  \A e \in Device : wire'[e] \in Seq(Requests(e))
    <2>1. Peer(d) \in Device /\ Peer(Peer(d)) = d  BY PeerOf
    <2>2. env \in Requests(Peer(d))
      <3>1. CASE env.type = "request"
        <4>1. PICK s \in Slot : /\ Live(sess[d][s]) /\ sess[d][s].dir = "OUTBOUND"
                                /\ sess[d][s].file = env.file
          BY <1>4, <3>1 DEF Sends
        <4>2. AskedFrom(d, sess[d][s].dir, sess[d][s].file)  BY <4>1 DEF Tracked, OnTrack
        <4>. QED  BY <2>1, <4>1, <4>2 DEF Requests, AskedFrom
      <3>2. CASE env.type # "request"  BY <3>2 DEF Requests
      <3>. QED  BY <3>1, <3>2
    <2>3. Append(wire[Peer(d)], env) \in Seq(Requests(Peer(d)))  BY <1>1, <2>1, <2>2
    <2>. QED  BY <1>1, <1>4, <2>1, <2>3 DEF Sends
  <1>. QED  BY <1>2, <1>3, <1>4, WireSteps DEF WireStep

\* Every session stays on track: what is pending and what is stored make up
\* the whole file, because no request of the peer reaches a download.
LEMMA SessionsOnTrack ==
  ASSUME Inv, Tracked, Next, OneWay
  PROVE  \A d \in Device, s \in Slot : OnTrack(d, sess[d][s])'
  <1>1. /\ sess \in [Device -> [Slot -> Session \cup {FreeSession}]]
        /\ \A d \in Device, s \in Slot : OnTrack(d, sess[d][s])
        /\ \A d \in Device, th \in Thread : WellAsked(d, call[d][th])
    BY DEF Inv, TypeOK, Tracked
  <1>2. \A d \in Device, f \in File : store[d][f] \subseteq store'[d][f]  BY StorageGrows
  <1>3. ASSUME NEW d \in Device, NEW s \in Slot, sess'[d][s] = sess[d][s]
        PROVE  OnTrack(d, sess[d][s])'
    <2>1. CASE Live(sess[d][s])
      <3>1. sess[d][s].file \in File  BY <1>1, <2>1, LiveSession DEF Session
      <3>2. store[d][sess[d][s].file] \subseteq store'[d][sess[d][s].file]  BY <1>2, <3>1
      <3>. QED  BY <1>1, <1>3, <2>1, <3>2 DEF OnTrack
    <2>2. CASE ~Live(sess[d][s])  BY <1>3, <2>2 DEF OnTrack
    <2>. QED  BY <2>1, <2>2
  <1>4. CASE Quiet  BY <1>3, <1>4 DEF Quiet
  <1>5. ASSUME NEW d \in Device, NEW s \in Slot, NEW th \in Thread, Again(d, s, call[d][th])
        PROVE  \A e \in Device, t \in Slot : OnTrack(e, sess[e][t])'
    <2>. DEFINE x == sess[d][s]  c == call[d][th]
                y == [x EXCEPT !.pend = c.idx,
                       !.asked = IF c.dir = "OUTBOUND" /\ ~Terminal(x) THEN c.idx ELSE x.asked]
    <2>1. Live(x) /\ x \in Session /\ x.file = c.file /\ c.pc = "get"
      BY <1>1, <1>5, LiveSession DEF Again
    <2>2. x.dir \in {"OUTBOUND", "INBOUND"} /\ x.file \in File  BY <2>1 DEF Session
    <2>3. c \in Call  BY DEF Inv, TypeOK
    <2>4. c.dir \in {"OUTBOUND", "INBOUND"}  BY <2>1, <2>3, CallIs
    <2>5. /\ AskedFrom(d, c.dir, c.file) /\ AskedFrom(d, x.dir, x.file)
          /\ c.dir = "OUTBOUND" => c.idx = Full
      BY <1>1, <2>1 DEF WellAsked, OnTrack
    <2>6. c.dir = x.dir  BY <2>1, <2>2, <2>4, <2>5 DEF AskedFrom, OneWay
    <2>7. /\ y.pc = x.pc /\ y.st = x.st /\ y.dir = x.dir /\ y.file = x.file /\ y.pend = c.idx
          /\ y.asked = IF c.dir = "OUTBOUND" /\ ~Terminal(x) THEN c.idx ELSE x.asked
      BY <2>1 DEF Session
    <2>8. sess' = [sess EXCEPT ![d][s] = y]  BY <1>5 DEF Again
    <2>. HIDE DEF y
    <2>9. sess'[d][s] = y /\ \A e \in Device, t \in Slot : e # d \/ t # s => sess'[e][t] = sess[e][t]
      BY <1>1, <2>8
    <2>10. store[d][x.file] \subseteq store'[d][x.file]  BY <1>2, <2>2
    <2>11. OnTrack(d, sess[d][s])'
      BY <1>1, <2>1, <2>5, <2>6, <2>7, <2>9, <2>10 DEF OnTrack
    <2>. QED  BY <1>3, <2>9, <2>11
  <1>6. ASSUME NEW d \in Device, NEW s \in Slot, NEW th \in Thread, Started(d, s, call[d][th])
        PROVE  \A e \in Device, t \in Slot : OnTrack(e, sess[e][t])'
    <2>. DEFINE c == call[d][th]
                y == [pc |-> "start", st |-> "IDLE", dir |-> c.dir, file |-> c.file,
                      pend |-> c.idx, asked |-> c.idx, sent |-> FALSE, tr |-> c.tr]
    <2>1. /\ y.pc = "start" /\ y.st = "IDLE" /\ y.dir = c.dir /\ y.file = c.file
          /\ y.pend = c.idx /\ y.asked = c.idx
      OBVIOUS
    <2>2. sess' = [sess EXCEPT ![d][s] = y] /\ c.pc = "add"  BY <1>6 DEF Started
    <2>. HIDE DEF y
    <2>3. sess'[d][s] = y /\ \A e \in Device, t \in Slot : e # d \/ t # s => sess'[e][t] = sess[e][t]
      BY <1>1, <2>2
    <2>4. AskedFrom(d, c.dir, c.file) /\ (c.dir = "OUTBOUND" => c.idx = Full)
      BY <1>1, <2>2 DEF WellAsked
    <2>5. OnTrack(d, sess[d][s])'  BY <2>1, <2>3, <2>4 DEF OnTrack
    <2>. QED  BY <1>3, <2>3, <2>5
  <1>7. ASSUME NEW d \in Device, NEW s \in Slot, NEW y \in Session, Moved(d, s, y)
        PROVE  \A e \in Device, t \in Slot : OnTrack(e, sess[e][t])'
    <2>. DEFINE x == sess[d][s]  missing == x.pend \ store[d][x.file]
    <2>1. /\ Live(x) /\ ~Terminal(x) /\ y.dir = x.dir /\ y.file = x.file /\ y.asked = x.asked
          /\ y.pend \in {x.pend, missing}
          /\ y.pc = "drain" \/ (y.st = "COMPLETE" /\ y.dir = "OUTBOUND") => x.pc = "drain" \/ missing = {}
          /\ sess' = [sess EXCEPT ![d][s] = y]
      BY <1>7 DEF Moved, MissingChunkIndices
    <2>2. sess'[d][s] = y /\ \A e \in Device, t \in Slot : e # d \/ t # s => sess'[e][t] = sess[e][t]
      BY <1>1, <2>1
    <2>3. x.file \in File  BY <1>1, <2>1, LiveSession DEF Session
    <2>4. store[d][x.file] \subseteq store'[d][x.file]  BY <1>2, <2>3
    <2>5. AskedFrom(d, y.dir, y.file)'  BY <1>1, <2>1 DEF OnTrack, AskedFrom
    <2>6. y.dir = "OUTBOUND" =>
            /\ y.asked = Full /\ Full \ y.pend \subseteq store'[d][y.file]
            /\ y.pc = "drain" \/ y.st = "COMPLETE" => Full \subseteq store'[d][y.file]
      BY <1>1, <2>1, <2>4 DEF OnTrack
    <2>7. OnTrack(d, sess[d][s])'  BY <2>2, <2>5, <2>6 DEF OnTrack
    <2>. QED  BY <1>3, <2>2, <2>7
  <1>8. ASSUME NEW d \in Device, NEW s \in Slot, Ended(d, s)
        PROVE  \A e \in Device, t \in Slot : OnTrack(e, sess[e][t])'
    <2>1. /\ sess'[d][s] = FreeSession
          /\ \A e \in Device, t \in Slot : e # d \/ t # s => sess'[e][t] = sess[e][t]
      BY <1>1, <1>8 DEF Ended
    <2>2. OnTrack(d, sess[d][s])'  BY <2>1, LiveSession DEF OnTrack
    <2>. QED  BY <1>3, <2>1, <2>2
  <1>. QED  BY <1>4, <1>5, <1>6, <1>7, <1>8, SessionSteps DEF SessionsStep

\* Nothing has been asked when the phones start.
LEMMA InitTracked == Init => Tracked
  <1>. SUFFICES ASSUME Init PROVE Tracked  OBVIOUS
  <1>1. \A d \in Device, s \in Slot : ~Live(sess[d][s])  BY LiveSession DEF Init
  <1>2. \A d \in Device, th \in Thread : call[d][th].pc = "idle"  BY DEF Init, IdleCall
  <1>3. \A d \in Device : wire[d] = <<>>  BY DEF Init
  <1>4. \A d \in Device : <<>> \in Seq(Requests(d))  OBVIOUS
  <1>. QED  BY <1>1, <1>2, <1>3, <1>4 DEF Tracked, OnTrack, WellAsked

\* Every step keeps the downloads on track.
LEMMA NextTracked ==
  ASSUME OneCount, OneWay
  PROVE  Inv /\ Tracked /\ [Next]_vars => Tracked'
  <1>. SUFFICES ASSUME Inv, Tracked, [Next]_vars PROVE Tracked'  OBVIOUS
  <1>1. CASE UNCHANGED vars
    <2>. USE <1>1 DEF vars, net
    <2>1. \A d \in Device, s \in Slot : OnTrack(d, sess[d][s])'  BY DEF Tracked, OnTrack
    <2>2. \A d \in Device, th \in Thread : WellAsked(d, call[d][th])'  BY DEF Tracked, WellAsked
    <2>3. \A d \in Device : wire'[d] \in Seq(Requests(d))  BY DEF Tracked
    <2>. QED  BY <2>1, <2>2, <2>3 DEF Tracked, Requests, AskedFrom
  <1>2. CASE Next
    <2>1. \A d \in Device : wire'[d] \in Seq(Requests(d))  BY <1>2, WireAsked
    <2>2. \A d \in Device : Requests(d)' = Requests(d)  BY DEF Requests, AskedFrom
    <2>. QED  BY <1>2, <2>1, <2>2, CallsAsked, SessionsOnTrack DEF Tracked
  <1>. QED  BY <1>1, <1>2

\* A download that ends COMPLETE has every chunk its user asked for in
\* storage, as long as a file is asked for with its one chunk count and not by
\* both devices.  Without either condition the code does not keep it.
THEOREM CompleteIsStoredHolds ==
  ASSUME OneCount, OneWay
  PROVE  Spec => []CompleteIsStored
  <1>1. Tracked => CompleteIsStored  BY DEF Tracked, OnTrack, CompleteIsStored
  <1>. QED  BY InitInv, NextInv, InitTracked, NextTracked, <1>1, PTL DEF Spec

-----------------------------------------------------------------------------
(* The refinement of ChunkDelivery.                                         *)

\* The download jobs, as ChunkDelivery sees them.
Jobs == [d \in Device |-> [s \in Slot |-> JobOf(sess[d][s])]]

\* A step of ChunkDelivery, or none.
DeliveryStep == Delivery!Next \/ UNCHANGED <<store, Jobs>>

\* The job of one session becomes j.
PutJob(d, s, j) == Jobs' = [Jobs EXCEPT ![d][s] = j]

\* Setting a session sets its job.
LEMMA SetJobs ==
  ASSUME sess \in [Device -> [Slot -> Session \cup {FreeSession}]],
         NEW d \in Device, NEW s \in Slot, NEW y, SetSess(d, s, y)
  PROVE  /\ PutJob(d, s, JobOf(y))
         /\ Jobs[d][s] = JobOf(sess[d][s])
         /\ JobOf(y) = JobOf(sess[d][s]) => Jobs' = Jobs
  <1>1. /\ sess'[d][s] = y
        /\ \A e \in Device, t \in Slot : e # d \/ t # s => sess'[e][t] = sess[e][t]
    BY DEF SetSess
  <1>. DEFINE V == {JobOf(sess[e][t]) : e \in Device, t \in Slot}
                     \cup {JobOf(sess'[e][t]) : e \in Device, t \in Slot}
  <1>2. Jobs \in [Device -> [Slot -> V]] /\ Jobs' \in [Device -> [Slot -> V]]  BY DEF Jobs
  <1>3. \A e \in Device, t \in Slot : Jobs[e][t] = JobOf(sess[e][t]) /\ Jobs'[e][t] = JobOf(sess'[e][t])
    BY DEF Jobs
  <1>4. JobOf(y) \in V  BY <1>1
  <1>5. /\ Jobs'[d][s] = JobOf(y)
        /\ \A e \in Device, t \in Slot : e # d \/ t # s => Jobs'[e][t] = Jobs[e][t]
    BY <1>1, <1>3
  <1>. DEFINE H == [Jobs EXCEPT ![d][s] = JobOf(y)]
  <1>. HIDE DEF Jobs, V
  <1>6. H \in [Device -> [Slot -> V]] /\ \A e \in Device, t \in Slot : H[e][t] = Jobs'[e][t]
    BY <1>2, <1>4, <1>5
  <1>7. H = Jobs'
    <2>. HIDE DEF H
    <2>. QED  BY <1>2, <1>6, TablesEqual
  <1>8. ASSUME JobOf(y) = JobOf(sess[d][s]) PROVE Jobs' = Jobs
    <2>1. \A e \in Device, t \in Slot : Jobs'[e][t] = Jobs[e][t]  BY <1>3, <1>5, <1>8
    <2>. QED  BY <1>2, <2>1, TablesEqual
  <1>. QED  BY <1>3, <1>7, <1>8 DEF PutJob

\* What chunks arrive without a change of the jobs is a copy.
LEMMA CopyRefines ==
  ASSUME Jobs' = Jobs,
         UNCHANGED store \/ \E d \in Device, f \in File, S \in SUBSET Chunk : Copied(d, f, S)
  PROVE  DeliveryStep
  <1>1. CASE UNCHANGED store  BY <1>1 DEF DeliveryStep
  <1>2. ASSUME NEW d \in Device, NEW f \in File, NEW S \in SUBSET Chunk, Copied(d, f, S)
        PROVE  DeliveryStep
    <2>1. Peer(d) \in Device \ {d}  BY PeerOf
    <2>2. Delivery!Copy(d, f, S)  BY <1>2, <2>1 DEF Delivery!Copy, Copied, Jobs
    <2>. QED  BY <2>2 DEF DeliveryStep, Delivery!Next
  <1>. QED  BY <1>1, <1>2

\* The job of a session, by its direction and state.
LEMMA JobIs ==
  ASSUME NEW x
  PROVE  /\ ~Live(x) \/ x.dir # "OUTBOUND" => JobOf(x) = [status |-> "none"]
         /\ Live(x) /\ x.dir = "OUTBOUND" /\ ~Terminal(x) =>
              JobOf(x) = [status |-> "open", file |-> x.file, asked |-> x.asked]
         /\ Live(x) /\ x.dir = "OUTBOUND" /\ x.st = "COMPLETE" =>
              JobOf(x) = [status |-> "done", file |-> x.file, asked |-> x.asked]
         /\ Live(x) /\ x.dir = "OUTBOUND" /\ x.st = "FAILED" =>
              JobOf(x) = [status |-> "abandoned", file |-> x.file, asked |-> x.asked]
  BY DEF JobOf, Terminal

\* Every step of the transfer is a step of ChunkDelivery or changes nothing
\* there.
LEMMA StepRefines ==
  ASSUME Inv, Tracked, Tracked', Next
  PROVE  DeliveryStep
  <1>1. /\ sess \in [Device -> [Slot -> Session \cup {FreeSession}]]
        /\ \A d \in Device, s \in Slot : Sound(d, sess[d][s])
    BY DEF Inv, TypeOK
  <1>2. UNCHANGED store \/ \E d \in Device, f \in File, S \in SUBSET Chunk : Copied(d, f, S)
    BY StorageCopies
  <1>3. CASE Quiet
    <2>1. Jobs' = Jobs  BY <1>3 DEF Quiet, Jobs
    <2>. QED  BY <1>2, <2>1, CopyRefines
  <1>4. ASSUME NEW d \in Device, NEW s \in Slot, NEW th \in Thread, Again(d, s, call[d][th])
        PROVE  DeliveryStep
    <2>. DEFINE x == sess[d][s]  c == call[d][th]
                y == [x EXCEPT !.pend = c.idx,
                       !.asked = IF c.dir = "OUTBOUND" /\ ~Terminal(x) THEN c.idx ELSE x.asked]
    <2>1. x \in Session /\ Live(x) /\ c.pc = "get"  BY <1>1, <1>4, LiveSession DEF Again
    <2>2. c \in Call  BY DEF Inv, TypeOK
    <2>3. c.idx \in SUBSET Chunk  BY <2>1, <2>2, CallIs
    <2>4. /\ y.pc = x.pc /\ y.st = x.st /\ y.dir = x.dir /\ y.file = x.file
          /\ y.asked = IF c.dir = "OUTBOUND" /\ ~Terminal(x) THEN c.idx ELSE x.asked
      BY <2>1 DEF Session
    <2>5. SetSess(d, s, y) /\ UNCHANGED store  BY <1>4 DEF Again, SetSess
    <2>. HIDE DEF y
    <2>6. PutJob(d, s, JobOf(y)) /\ Jobs[d][s] = JobOf(x)
          /\ (JobOf(y) = JobOf(x) => Jobs' = Jobs)
      BY <1>1, <2>5, SetJobs
    <2>7. Live(y) /\ (Terminal(y) <=> Terminal(x))  BY <2>1, <2>4 DEF Live, Terminal
    <2>8. CASE x.dir = "OUTBOUND" /\ ~Terminal(x) /\ c.dir = "OUTBOUND"
      <3>1. JobOf(x) = [status |-> "open", file |-> x.file, asked |-> x.asked]
        BY <2>1, <2>8, JobIs
      <3>2. JobOf(y) = [status |-> "open", file |-> x.file, asked |-> c.idx]
        BY <2>4, <2>7, <2>8, JobIs
      <3>3. Jobs[d][s].status = "open" /\ JobOf(y) = [Jobs[d][s] EXCEPT !.asked = c.idx]
        BY <2>6, <3>1, <3>2
      <3>4. Delivery!Reopen(d, s, c.idx)
        BY <2>5, <2>6, <3>3 DEF Delivery!Reopen, Delivery!SetJob, PutJob, Jobs
      <3>. QED  BY <2>3, <3>4 DEF DeliveryStep, Delivery!Next
    <2>9. CASE ~(x.dir = "OUTBOUND" /\ ~Terminal(x) /\ c.dir = "OUTBOUND")
      <3>1. JobOf(y) = JobOf(x)
        <4>1. CASE x.dir # "OUTBOUND"  BY <2>4, <4>1, JobIs
        <4>2. CASE x.dir = "OUTBOUND"
          <5>1. y.asked = x.asked  BY <2>4, <2>9, <4>2
          <5>. QED  BY <2>1, <2>4, <2>7, <5>1 DEF JobOf
        <4>. QED  BY <4>1, <4>2
      <3>. QED  BY <1>2, <2>6, <3>1, CopyRefines
    <2>. QED  BY <2>8, <2>9
  <1>5. ASSUME NEW d \in Device, NEW s \in Slot, NEW th \in Thread, Started(d, s, call[d][th])
        PROVE  DeliveryStep
    <2>. DEFINE c == call[d][th]
                y == [pc |-> "start", st |-> "IDLE", dir |-> c.dir, file |-> c.file,
                      pend |-> c.idx, asked |-> c.idx, sent |-> FALSE, tr |-> c.tr]
    <2>1. /\ SetSess(d, s, y) /\ c.pc = "add" /\ ~Live(sess[d][s])
          /\ UNCHANGED store
      BY <1>5 DEF Started, SetSess
    <2>2. c \in Call  BY DEF Inv, TypeOK
    <2>3. c.file \in File /\ c.idx \in SUBSET Chunk  BY <2>1, <2>2, CallIs
    <2>4. /\ y.pc = "start" /\ y.st = "IDLE" /\ y.dir = c.dir /\ y.file = c.file /\ y.asked = c.idx
      OBVIOUS
    <2>. HIDE DEF y
    <2>5. PutJob(d, s, JobOf(y)) /\ Jobs[d][s] = JobOf(sess[d][s])
          /\ (JobOf(y) = JobOf(sess[d][s]) => Jobs' = Jobs)
      BY <1>1, <2>1, SetJobs
    <2>6. JobOf(sess[d][s]) = [status |-> "none"]  BY <2>1, JobIs
    <2>7. CASE c.dir = "OUTBOUND"
      <3>1. Live(y) /\ ~Terminal(y)  BY <2>4 DEF Live, Terminal
      <3>2. JobOf(y) = [status |-> "open", file |-> c.file, asked |-> c.idx]
        BY <2>4, <2>7, <3>1, JobIs
      <3>3. Delivery!Open(d, s, c.file, c.idx)
        BY <2>1, <2>5, <2>6, <3>2 DEF Delivery!Open, Delivery!SetJob, PutJob, Delivery!NoJob, Jobs
      <3>. QED  BY <2>3, <3>3 DEF DeliveryStep, Delivery!Next
    <2>8. CASE c.dir # "OUTBOUND"
      <3>1. JobOf(y) = [status |-> "none"]  BY <2>4, <2>8, JobIs
      <3>. QED  BY <1>2, <2>5, <2>6, <3>1, CopyRefines
    <2>. QED  BY <2>7, <2>8
  <1>6. ASSUME NEW d \in Device, NEW s \in Slot, NEW y \in Session, Moved(d, s, y)
        PROVE  DeliveryStep
    <2>. DEFINE x == sess[d][s]
    <2>1. /\ SetSess(d, s, y) /\ Live(x) /\ ~Terminal(x)
          /\ y.dir = x.dir /\ y.file = x.file /\ y.asked = x.asked
          /\ \/ UNCHANGED store
             \/ y.st # "COMPLETE" /\ \E f \in File, S \in SUBSET Chunk : Copied(d, f, S)
      BY <1>6 DEF Moved, SetSess
    <2>2. PutJob(d, s, JobOf(y)) /\ Jobs[d][s] = JobOf(x)
          /\ (JobOf(y) = JobOf(x) => Jobs' = Jobs)
      BY <1>1, <2>1, SetJobs
    <2>3. Live(y)  BY LiveSession
    <2>4. CASE x.dir # "OUTBOUND" \/ ~Terminal(y)
      <3>1. JobOf(y) = JobOf(x)  BY <2>1, <2>3, <2>4, JobIs
      <3>. QED  BY <1>2, <2>2, <3>1, CopyRefines
    <2>5. CASE x.dir = "OUTBOUND" /\ y.st = "COMPLETE"
      <3>1. JobOf(x) = [status |-> "open", file |-> x.file, asked |-> x.asked]
        BY <2>1, <2>5, JobIs
      <3>2. JobOf(y) = [status |-> "done", file |-> x.file, asked |-> x.asked]
        BY <2>1, <2>3, <2>5, JobIs
      <3>3. sess'[d][s] = y  BY <1>1, <2>1 DEF SetSess
      <3>4. x.asked \subseteq store[d][x.file]
        <4>1. OnTrack(d, sess[d][s])'  BY DEF Tracked
        <4>. QED  BY <2>1, <2>3, <2>5, <3>3, <4>1 DEF OnTrack
      <3>5. /\ Jobs[d][s].status = "open" /\ Jobs[d][s].asked \subseteq store[d][Jobs[d][s].file]
            /\ PutJob(d, s, [Jobs[d][s] EXCEPT !.status = "done"]) /\ UNCHANGED store
        <4>1. JobOf(y) = [Jobs[d][s] EXCEPT !.status = "done"]  BY <2>2, <3>1, <3>2
        <4>. QED  BY <2>1, <2>2, <2>5, <3>1, <3>4, <4>1
      <3>6. Delivery!Finish(d, s)
        BY <3>5 DEF Delivery!Finish, Delivery!SetJob, PutJob, Jobs
      <3>. QED  BY <3>6 DEF DeliveryStep, Delivery!Next
    <2>6. CASE x.dir = "OUTBOUND" /\ y.st = "FAILED"
      <3>1. JobOf(x) = [status |-> "open", file |-> x.file, asked |-> x.asked]
        BY <2>1, <2>6, JobIs
      <3>2. JobOf(y) = [status |-> "abandoned", file |-> x.file, asked |-> x.asked]
        BY <2>1, <2>3, <2>6, JobIs
      <3>3. /\ Jobs[d][s].status = "open"
            /\ PutJob(d, s, [Jobs[d][s] EXCEPT !.status = "abandoned"])
        <4>1. JobOf(y) = [Jobs[d][s] EXCEPT !.status = "abandoned"]  BY <2>2, <3>1, <3>2
        <4>. QED  BY <2>2, <3>1, <4>1
      <3>4. \/ UNCHANGED store
            \/ \E f \in File, S \in SUBSET Chunk :
                 /\ \E e \in Device \ {d} : S \subseteq store[e][f]
                 /\ store' = [store EXCEPT ![d][f] = @ \cup S]
        BY <2>1, PeerOf DEF Copied
      <3>5. Delivery!Abandon(d, s)
        BY <3>3, <3>4 DEF Delivery!Abandon, Delivery!SetJob, PutJob, Jobs
      <3>. QED  BY <3>5 DEF DeliveryStep, Delivery!Next
    <2>. QED  BY <2>4, <2>5, <2>6 DEF Terminal
  <1>7. ASSUME NEW d \in Device, NEW s \in Slot, Ended(d, s)
        PROVE  DeliveryStep
    <2>. DEFINE x == sess[d][s]
    <2>1. SetSess(d, s, FreeSession) /\ UNCHANGED store  BY <1>7 DEF Ended, SetSess
    <2>2. PutJob(d, s, JobOf(FreeSession)) /\ Jobs[d][s] = JobOf(x)
          /\ (JobOf(FreeSession) = JobOf(x) => Jobs' = Jobs)
      BY <1>1, <2>1, SetJobs
    <2>3. JobOf(FreeSession) = [status |-> "none"]  BY LiveSession, JobIs
    <2>4. Live(x) /\ Terminal(x)  BY <1>1, <1>7 DEF Ended, Sound, Live
    <2>5. CASE x.dir # "OUTBOUND"
      <3>1. JobOf(x) = [status |-> "none"]  BY <2>5, JobIs
      <3>. QED  BY <1>2, <2>2, <2>3, <3>1, CopyRefines
    <2>6. CASE x.dir = "OUTBOUND"
      <3>1. Jobs[d][s].status \in {"done", "abandoned"}
        <4>1. x.st = "COMPLETE" \/ x.st = "FAILED"  BY <2>4 DEF Terminal
        <4>2. \/ JobOf(x) = [status |-> "done", file |-> x.file, asked |-> x.asked]
              \/ JobOf(x) = [status |-> "abandoned", file |-> x.file, asked |-> x.asked]
          BY <2>4, <2>6, <4>1, JobIs, Zenon
        <4>3. Jobs[d][s] = JobOf(x)  BY <2>2
        <4>. QED  BY <4>2, <4>3
      <3>2. Delivery!Forget(d, s)
        BY <2>1, <2>2, <2>3, <3>1 DEF Delivery!Forget, Delivery!SetJob, PutJob, Delivery!NoJob, Jobs
      <3>. QED  BY <3>2 DEF DeliveryStep, Delivery!Next
    <2>. QED  BY <2>5, <2>6
  <1>. QED  BY <1>3, <1>4, <1>5, <1>6, <1>7, SessionSteps DEF SessionsStep

\* Sessions, messages and links together implement ChunkDelivery: they only
\* copy chunks a peer holds and only close a download with all its chunks
\* there, as long as a file is asked for with its one chunk count and not by
\* both devices.
THEOREM RefinesDelivery ==
  ASSUME OneCount, OneWay
  PROVE  Spec => ImplementsDelivery
  <1>1. Init => Delivery!Init
    <2>. SUFFICES ASSUME Init PROVE Delivery!Init  OBVIOUS
    <2>1. \A d \in Device, s \in Slot : JobOf(sess[d][s]) = [status |-> "none"]
      BY LiveSession, JobIs DEF Init
    <2>. QED  BY <2>1 DEF Init, Delivery!Init, Delivery!NoJob
  <1>2. Inv /\ Tracked /\ Tracked' /\ [Next]_vars => [Delivery!Next]_(Delivery!vars)
    <2>. SUFFICES ASSUME Inv, Tracked, Tracked', [Next]_vars
                  PROVE  [Delivery!Next]_(Delivery!vars)
      OBVIOUS
    <2>1. CASE UNCHANGED vars  BY <2>1 DEF vars, Delivery!vars
    <2>2. CASE Next
      <3>1. DeliveryStep  BY <2>2, StepRefines
      <3>. QED  BY <3>1 DEF DeliveryStep, Delivery!vars, Jobs
    <2>. QED  BY <2>1, <2>2
  <1>. QED
    BY InitInv, NextInv, InitTracked, NextTracked, <1>1, <1>2, PTL
    DEF Spec, ImplementsDelivery, Delivery!Spec
=============================================================================
