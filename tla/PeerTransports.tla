--------------------------- MODULE PeerTransports ---------------------------
(***************************************************************************)
(* The peer transports of one node (cabi/flow_adapters.go) and the link    *)
(* events that merge them (cabi/exports.go).  Two phones often hold two    *)
(* BLE links to each other, each with its own numeric peer id.  The node   *)
(* keeps one transport per id, merges them into the largest id when a link *)
(* comes up, and hands a dropped link's transport to a survivor.           *)
(*                                                                         *)
(* Events of one link are serial; events of different links, the user's    *)
(* thread and the session goroutines interleave.  node.mu makes the map    *)
(* operations atomic, delegateMu covers all of linkDelegate, and nothing   *)
(* covers the gap between delegateRoot and the channel operation after it. *)
(***************************************************************************)
EXTENDS Naturals, Sequences, FiniteSets, FiniteSetsExt

CONSTANTS
  Link,           \* peer ids of the links
  Reader,         \* session goroutines
  QueueCap,       \* capacity of incoming: 32
  MaxEnvelopes,   \* bound: envelopes arriving over each link
  MaxConnects,    \* bound: ml_on_peer_connected calls
  MaxDrops,       \* bound: ml_on_peer_disconnected calls
  MaxSessions     \* bound: sessions started

ASSUME LinkAssumption == Link \subseteq Nat \ {0} /\ IsFiniteSet(Link) /\ Link # {}
ASSUME QueueAssumption == QueueCap \in Nat \ {0}
ASSUME BoundAssumption == {MaxEnvelopes, MaxConnects, MaxDrops, MaxSessions} \subseteq Nat

VARIABLES
  tr,         \* every cabiPeerTransport ever made, as a heap
  tmap,       \* node.PeerTransports: link -> index in tr, 0 when absent
  active,     \* node.ActivePeer, 0 when unset
  link,       \* link[p]: "new", "up" or "down", as the core was told
  call,       \* call[p]: what the thread of link p is doing in the core
  reader,     \* the session goroutines
  arrived,    \* arrived[p]: envelopes that came in over link p
  got,        \* got[r]: envelopes Recv and TryRecv gave the session of r
  crashed,    \* a goroutine or thread panicked, which ends the process
  connects, drops, sessions   \* how much of each bound is used

bounds == <<connects, drops, sessions>>
vars == <<tr, tmap, active, link, call, reader, arrived, got, crashed, bounds>>

Envelope == [from : Link, n : Nat \ {0}]

newCabiPeerTransport(p) ==
  [peer |-> p, incoming |-> <<>>, preRecv |-> <<>>, delegate |-> 0, closed |-> FALSE,
   locked |-> FALSE]

IdleCall == [pc |-> "idle"]
FreeReader == [pc |-> "free"]

-----------------------------------------------------------------------------
(* Following delegate links.                                                *)

\* Hops(t)[i] is the transport reached from t after at most i links.
Hops(t) ==
  LET hop[i \in 0 .. Len(tr)] ==
        IF i = 0 THEN t
        ELSE IF tr[hop[i - 1]].delegate = 0 THEN hop[i - 1] ELSE tr[hop[i - 1]].delegate
  IN hop

delegateRoot(t) == Hops(t)[Len(tr)]
Cyclic(t) == tr[delegateRoot(t)].delegate # 0
Chain(t) == {Hops(t)[i] : i \in 0 .. Len(tr)}

\* delegate() needs delegateMu, which linkDelegate holds to its end.
Walkable(t) == \A u \in Chain(t) : ~tr[u].locked

\* Mutant: the queue grows without bound.
Newest_unbounded(q) == q

\* enqueueLocked: keep the newest QueueCap envelopes.
Newest(q) == IF Len(q) <= QueueCap THEN q ELSE SubSeq(q, Len(q) - QueueCap + 1, Len(q))

\* ensurePeerTransport under node.mu.
Ensured(p) == IF tmap[p] = 0 THEN Len(tr) + 1 ELSE tmap[p]
ensurePeerTransport(p) ==
  /\ tmap' = [tmap EXCEPT ![p] = Ensured(p)]
  /\ tr' = IF tmap[p] = 0 THEN Append(tr, newCabiPeerTransport(p)) ELSE tr

Mapped(m) == {p \in Link : m[p] # 0}

maxTransportPeerID(m) == IF Mapped(m) = {} THEN 0 ELSE Max(Mapped(m))

\* pickSurvivorTransportLocked: the active peer while mapped, else the maximum.
pickSurvivor(m, a) == IF a \in Mapped(m) THEN a ELSE maxTransportPeerID(m)

Init ==
  /\ tr = <<>>
  /\ tmap = [p \in Link |-> 0]
  /\ active = 0
  /\ link = [p \in Link |-> "new"]
  /\ call = [p \in Link |-> IdleCall]
  /\ reader = [r \in Reader |-> FreeReader]
  /\ arrived = [p \in Link |-> 0]
  /\ got = [r \in Reader |-> <<>>]
  /\ crashed = FALSE
  /\ connects = 0 /\ drops = 0 /\ sessions = 0

SetCall(p, c) == call' = [call EXCEPT ![p] = c]
SetReader(r, x) == reader' = [reader EXCEPT ![r] = x]

-----------------------------------------------------------------------------
(* ml_on_peer_connected                                                     *)

peerConnected(p) ==
  /\ ~crashed /\ link[p] # "up" /\ call[p] = IdleCall /\ connects < MaxConnects
  /\ link' = [link EXCEPT ![p] = "up"]
  /\ connects' = connects + 1
  /\ ensurePeerTransport(p)
  /\ SetCall(p, [pc |-> "pick"])
  /\ UNCHANGED <<active, reader, arrived, got, crashed, drops, sessions>>

\* Mutant: only the transport of the link that came up is merged.
pickCanonical_ownOnly(p) ==
  /\ ~crashed /\ call[p].pc = "pick"
  /\ LET can == maxTransportPeerID(tmap) IN
       /\ active' = can
       /\ SetCall(p, [pc |-> "link", surv |-> tmap[can], old |-> 0, cur |-> 0,
                      todo |-> {tmap[p]} \ {tmap[can]}])
  /\ UNCHANGED <<tr, tmap, link, reader, arrived, got, crashed, bounds>>

\* Second critical section: the largest id becomes active, all others merge.
pickCanonical(p) ==
  /\ ~crashed /\ call[p].pc = "pick"
  /\ LET can == maxTransportPeerID(tmap) IN
       /\ active' = can
       /\ SetCall(p, [pc |-> "link", surv |-> tmap[can], old |-> 0, cur |-> 0,
                      todo |-> {tmap[q] : q \in Mapped(tmap) \ {can}}])
  /\ UNCHANGED <<tr, tmap, link, reader, arrived, got, crashed, bounds>>

-----------------------------------------------------------------------------
(* ml_on_peer_disconnected                                                  *)

peerDisconnected(p) ==
  /\ ~crashed /\ link[p] = "up" /\ call[p] = IdleCall /\ drops < MaxDrops
  /\ link' = [link EXCEPT ![p] = "down"]
  /\ drops' = drops + 1
  /\ tmap' = [tmap EXCEPT ![p] = 0]
  /\ LET kept == IF active = p THEN 0 ELSE active
         surv == pickSurvivor(tmap', kept) IN
       /\ active' = IF surv # 0 /\ kept = 0 THEN surv ELSE kept
       /\ IF surv = 0
          THEN /\ SetCall(p, IdleCall)
               /\ reader' = [r \in Reader |->
                    IF reader[r].pc # "free" /\ reader[r].peer = p
                    THEN [reader[r] EXCEPT !.registered = FALSE] ELSE reader[r]]
          ELSE /\ SetCall(p, [pc |-> "link", surv |-> tmap[surv], old |-> tmap[p], cur |-> 0,
                              todo |-> {tmap[q] : q \in Mapped(tmap') \ {surv}}])
               /\ UNCHANGED reader
  /\ UNCHANGED <<tr, arrived, got, crashed, connects, sessions>>

-----------------------------------------------------------------------------
(* linkDelegate, called for the dropped transport first, then the others.   *)

Target(p) == IF call[p].old # 0 THEN {call[p].old} ELSE call[p].todo

\* The caller goes on after transport t; after the dropped transport, its
\* sessions are rebound to the survivor.
linked(p, t) ==
  IF call[p].old = t
  THEN /\ SetCall(p, [call[p] EXCEPT !.pc = "link", !.old = 0, !.cur = 0])
       /\ reader' = [r \in Reader |->
            IF reader[r].pc # "free" /\ reader[r].registered /\ reader[r].peer = p
            THEN [reader[r] EXCEPT !.peer = tr[call[p].surv].peer] ELSE reader[r]]
  ELSE /\ SetCall(p, [call[p] EXCEPT !.pc = "link", !.cur = 0, !.todo = @ \ {t}])
       /\ UNCHANGED reader

\* A transport that was merged before is left alone.
linkSkip(p, t) ==
  /\ ~crashed /\ call[p].pc = "link" /\ t \in Target(p)
  /\ ~tr[t].locked /\ tr[t].closed
  /\ linked(p, t)
  /\ UNCHANGED <<tr, tmap, active, link, arrived, got, crashed, bounds>>

\* Mutant: the envelopes are copied to the survivor and stay behind as well.
linkDrain_copying(p, t) ==
  /\ ~crashed /\ call[p].pc = "link" /\ t \in Target(p)
  /\ ~tr[t].locked /\ ~tr[t].closed
  /\ tr' = [tr EXCEPT ![t].locked = TRUE,
       ![call[p].surv].incoming = Newest(@ \o tr[t].preRecv \o tr[t].incoming)]
  /\ SetCall(p, [call[p] EXCEPT !.pc = "close", !.cur = t])
  /\ UNCHANGED <<tmap, active, link, reader, arrived, got, crashed, bounds>>

\* Mutant: a transport that was merged before is merged again.
linkDrain_again(p, t) ==
  /\ ~crashed /\ call[p].pc = "link" /\ t \in Target(p) /\ ~tr[t].locked
  /\ tr' = [tr EXCEPT ![t].locked = TRUE]
  /\ SetCall(p, [call[p] EXCEPT !.pc = "close", !.cur = t])
  /\ UNCHANGED <<tmap, active, link, reader, arrived, got, crashed, bounds>>

\* Put-back envelopes, then queued ones, move to the survivor itself, not to
\* its root; sending on its closed channel panics.
linkDrain(p, t) ==
  /\ ~crashed /\ call[p].pc = "link" /\ t \in Target(p)
  /\ ~tr[t].locked /\ ~tr[t].closed
  /\ LET u == call[p].surv  moved == tr[t].preRecv \o tr[t].incoming IN
       IF moved # <<>> /\ tr[u].closed
       THEN crashed' = TRUE /\ UNCHANGED <<tr, call>>
       ELSE /\ tr' = [tr EXCEPT ![t].preRecv = <<>>, ![t].incoming = <<>>, ![t].locked = TRUE,
                                ![u].incoming = Newest(tr[u].incoming \o moved)]
            /\ SetCall(p, [call[p] EXCEPT !.pc = "close", !.cur = t])
            /\ UNCHANGED crashed
  /\ UNCHANGED <<tmap, active, link, reader, arrived, got, bounds>>

\* Mutant: delegateMu is not released.
linkClose_locked(p) ==
  /\ ~crashed /\ call[p].pc = "close"
  /\ LET t == call[p].cur IN
       /\ tr' = [tr EXCEPT ![t].delegate = call[p].surv, ![t].closed = TRUE]
       /\ linked(p, t)
  /\ UNCHANGED <<tmap, active, link, arrived, got, crashed, bounds>>

linkClose(p) ==
  /\ ~crashed /\ call[p].pc = "close"
  /\ LET t == call[p].cur IN
       /\ tr' = [tr EXCEPT ![t].delegate = call[p].surv, ![t].closed = TRUE, ![t].locked = FALSE]
       /\ linked(p, t)
  /\ UNCHANGED <<tmap, active, link, arrived, got, crashed, bounds>>

\* Everything merged: the handler sends its handshake or saves the peer.
linkDone(p) ==
  /\ ~crashed /\ call[p].pc = "link" /\ Target(p) = {}
  /\ SetCall(p, IdleCall)
  /\ UNCHANGED <<tr, tmap, active, link, reader, arrived, got, crashed, bounds>>

-----------------------------------------------------------------------------
(* ml_on_data_received for a record, a batch or a handshake.  Envelopes come *)
(* over links that are up, and over links older than the node: the app may  *)
(* create the node first and report the link to it afterwards.              *)

dataReceived(p) ==
  /\ ~crashed /\ link[p] # "down" /\ call[p] = IdleCall /\ arrived[p] < MaxEnvelopes
  /\ ensurePeerTransport(p)
  /\ arrived' = [arrived EXCEPT ![p] = @ + 1]
  /\ SetCall(p, [pc |-> "root", env |-> [from |-> p, n |-> arrived[p] + 1], to |-> Ensured(p)])
  /\ UNCHANGED <<active, link, reader, got, crashed, bounds>>

\* enqueue resolves the root; on a cycle the envelope is dropped.
enqueueRoot(p) ==
  /\ ~crashed /\ call[p].pc = "root" /\ Walkable(call[p].to)
  /\ SetCall(p, IF Cyclic(call[p].to) THEN IdleCall
                ELSE [call[p] EXCEPT !.pc = "enqueue", !.to = delegateRoot(@)])
  /\ UNCHANGED <<tr, tmap, active, link, reader, arrived, got, crashed, bounds>>

\* enqueueLocked, without any lock: the channel may be closed by now.
enqueueLocked(p) ==
  /\ ~crashed /\ call[p].pc = "enqueue"
  /\ IF tr[call[p].to].closed
     THEN crashed' = TRUE /\ UNCHANGED tr
     ELSE /\ tr' = [tr EXCEPT ![call[p].to].incoming = Newest(Append(@, call[p].env))]
          /\ UNCHANGED crashed
  /\ SetCall(p, IdleCall)
  /\ UNCHANGED <<tmap, active, link, reader, arrived, got, bounds>>

-----------------------------------------------------------------------------
(* Session goroutines.                                                      *)

\* ml_request_file: the active peer, else the largest mapped id, gets a
\* session over its transport.
startSession(r) ==
  /\ ~crashed /\ reader[r].pc = "free" /\ Mapped(tmap) # {} /\ sessions < MaxSessions
  /\ sessions' = sessions + 1
  /\ LET p == pickSurvivor(tmap, active) IN
       /\ active' = p
       /\ SetReader(r, [pc |-> "send", peer |-> p, tr |-> tmap[p], at |-> 0, registered |-> TRUE])
  /\ got' = [got EXCEPT ![r] = <<>>]
  /\ UNCHANGED <<tr, tmap, link, call, arrived, crashed, connects, drops>>

\* Send goes out through the root; the BLE layer ignores the id and uses any
\* link it has.
Send(r) ==
  /\ ~crashed /\ reader[r].pc = "send" /\ Walkable(reader[r].tr)
  /\ SetReader(r, [reader[r] EXCEPT !.pc =
       IF Cyclic(reader[r].tr) THEN "cycle"
       ELSE IF \A p \in Link : link[p] # "up" THEN "failed" ELSE "recv"])
  /\ UNCHANGED <<tr, tmap, active, link, call, arrived, got, crashed, bounds>>

\* The first transport on the chain of t with put-back envelopes, if any.
PutBackOn(t) == {i \in 0 .. Len(tr) : tr[Hops(t)[i]].preRecv # <<>>}
FirstPutBack(t) == Hops(t)[Min(PutBackOn(t))]

\* A session that got an envelope waits for more or has all its chunks.
received(r, env) ==
  /\ got' = [got EXCEPT ![r] = Append(@, env)]
  /\ \E next \in {"recv", "drain"} : SetReader(r, [reader[r] EXCEPT !.pc = next, !.at = 0])

\* Recv takes a put-back envelope, finds a cycle, or blocks on the root.
Recv(r) ==
  /\ ~crashed /\ reader[r].pc = "recv" /\ Walkable(reader[r].tr)
  /\ LET t == reader[r].tr IN
       \/ /\ PutBackOn(t) # {}
          /\ LET u == FirstPutBack(t) IN
               /\ received(r, Head(tr[u].preRecv))
               /\ tr' = [tr EXCEPT ![u].preRecv = Tail(@)]
       \/ /\ PutBackOn(t) = {}
          /\ SetReader(r, IF Cyclic(t) THEN [reader[r] EXCEPT !.pc = "cycle"]
                          ELSE [reader[r] EXCEPT !.pc = "blocked", !.at = delegateRoot(t)])
          /\ UNCHANGED <<tr, got>>
  /\ UNCHANGED <<tmap, active, link, call, arrived, crashed, bounds>>

\* The blocked receive: a queued envelope, or "transport closed".
RecvChannel(r) ==
  /\ ~crashed /\ reader[r].pc = "blocked"
  /\ LET u == reader[r].at IN
       \/ /\ tr[u].incoming # <<>>
          /\ received(r, Head(tr[u].incoming))
          /\ tr' = [tr EXCEPT ![u].incoming = Tail(@)]
       \/ /\ tr[u].incoming = <<>> /\ tr[u].closed
          /\ SetReader(r, [reader[r] EXCEPT !.pc = "closed"])
          /\ UNCHANGED <<tr, got>>
  /\ UNCHANGED <<tmap, active, link, call, arrived, crashed, bounds>>

\* TryRecv after the last chunk: a batch is stored, another envelope is held
\* to be put back, and with nothing there the session ends.
TryRecv(r) ==
  /\ ~crashed /\ reader[r].pc = "drain" /\ Walkable(reader[r].tr)
  /\ LET t == reader[r].tr
         u == IF PutBackOn(t) # {} THEN FirstPutBack(t) ELSE delegateRoot(t)
         q == tr[u].preRecv \o tr[u].incoming IN
       IF PutBackOn(t) = {} /\ (Cyclic(t) \/ q = <<>>)
       THEN SetReader(r, [reader[r] EXCEPT !.pc = "done"]) /\ UNCHANGED <<tr, got>>
       ELSE /\ tr' = [tr EXCEPT ![u].preRecv = IF @ # <<>> THEN Tail(@) ELSE @,
                               ![u].incoming = IF tr[u].preRecv # <<>> THEN @ ELSE Tail(@)]
            /\ \/ got' = [got EXCEPT ![r] = Append(@, Head(q))] /\ UNCHANGED reader
               \/ /\ SetReader(r, [pc |-> "putback", peer |-> reader[r].peer, tr |-> t,
                                   at |-> 0, registered |-> reader[r].registered,
                                   env |-> Head(q)])
                  /\ UNCHANGED got
  /\ UNCHANGED <<tmap, active, link, call, arrived, crashed, bounds>>

\* PutBack to the front of the root of this moment; lost on a cycle.
PutBack(r) ==
  /\ ~crashed /\ reader[r].pc = "putback" /\ Walkable(reader[r].tr)
  /\ LET t == reader[r].tr IN
       tr' = IF Cyclic(t) THEN tr
             ELSE [tr EXCEPT ![delegateRoot(t)].preRecv = <<reader[r].env>> \o @]
  /\ SetReader(r, [pc |-> "done", peer |-> reader[r].peer, tr |-> reader[r].tr, at |-> 0,
                   registered |-> reader[r].registered])
  /\ UNCHANGED <<tmap, active, link, call, arrived, got, crashed, bounds>>

\* The session ended, in success or with an error, and leaves the manager.
endSession(r) ==
  /\ ~crashed /\ reader[r].pc \in {"done", "failed", "cycle", "closed"}
  /\ SetReader(r, FreeReader)
  /\ UNCHANGED <<tr, tmap, active, link, call, arrived, got, crashed, bounds>>

-----------------------------------------------------------------------------
LinkThread(p) ==
  \/ peerConnected(p) \/ pickCanonical(p) \/ peerDisconnected(p)
  \/ \E t \in DOMAIN tr : linkSkip(p, t) \/ linkDrain(p, t)
  \/ linkClose(p) \/ linkDone(p)
  \/ dataReceived(p) \/ enqueueRoot(p) \/ enqueueLocked(p)

SessionThread(r) ==
  \/ startSession(r) \/ Send(r) \/ Recv(r) \/ RecvChannel(r)
  \/ TryRecv(r) \/ PutBack(r) \/ endSession(r)

Next ==
  \/ \E p \in Link : LinkThread(p)
  \/ \E r \in Reader : SessionThread(r)

Spec == Init /\ [][Next]_vars

\* Native threads inside the core and goroutines that can move keep moving;
\* new link events, envelopes and sessions are not forced.
InCore(p) ==
  \/ pickCanonical(p) \/ linkClose(p) \/ linkDone(p)
  \/ \E t \in DOMAIN tr : linkSkip(p, t) \/ linkDrain(p, t)
  \/ enqueueRoot(p) \/ enqueueLocked(p)

FairSpec == Spec /\ \A p \in Link : WF_vars(InCore(p))

-----------------------------------------------------------------------------
(* Properties.                                                              *)

Transport ==
  [peer : Link, incoming : Seq(Envelope), preRecv : Seq(Envelope), delegate : Nat,
   closed : BOOLEAN, locked : BOOLEAN]

Linking == [pc : {"link", "close"}, surv : DOMAIN tr, old : 0 .. Len(tr),
            cur : 0 .. Len(tr), todo : SUBSET DOMAIN tr]
Queueing == [pc : {"root", "enqueue"}, env : Envelope, to : DOMAIN tr]
Running == [pc : {"send", "recv", "drain", "done", "failed", "cycle", "closed"}, peer : Link,
            tr : DOMAIN tr, at : {0} \cup DOMAIN tr, registered : BOOLEAN]
Blocked == [pc : {"blocked"}, peer : Link, tr : DOMAIN tr, at : DOMAIN tr, registered : BOOLEAN]
Holding == [pc : {"putback"}, peer : Link, tr : DOMAIN tr, at : {0}, registered : BOOLEAN,
            env : Envelope]

\* Every variable has its type and every reference is to a transport made.
TypeOK ==
  /\ tr \in Seq(Transport)
  /\ \A t \in DOMAIN tr : tr[t].delegate \in 0 .. Len(tr) /\ Len(tr[t].incoming) <= QueueCap
  /\ tmap \in [Link -> 0 .. Len(tr)]
  /\ active \in Link \cup {0}
  /\ link \in [Link -> {"new", "up", "down"}]
  /\ call \in [Link -> {IdleCall, [pc |-> "pick"]} \cup Linking \cup Queueing]
  /\ reader \in [Reader -> {FreeReader} \cup Running \cup Blocked \cup Holding]
  /\ arrived \in [Link -> 0 .. MaxEnvelopes]
  /\ got \in [Reader -> Seq(Envelope)]
  /\ crashed \in BOOLEAN
  /\ {connects, drops, sessions} \subseteq Nat

\* Where an envelope can be: queued or put back at a transport, carried by a
\* link thread, held for PutBack, or handed to a session.
Place == ({"incoming", "preRecv"} \X DOMAIN tr) \cup ({"call"} \X Link)
           \cup ({"held", "got"} \X Reader)
Contents(at) ==
  CASE at[1] = "incoming" -> tr[at[2]].incoming
    [] at[1] = "preRecv" -> tr[at[2]].preRecv
    [] at[1] = "call" -> IF call[at[2]].pc \in {"root", "enqueue"} THEN <<call[at[2]].env>> ELSE <<>>
    [] at[1] = "held" -> IF reader[at[2]].pc = "putback" THEN <<reader[at[2]].env>> ELSE <<>>
    [] at[1] = "got" -> got[at[2]]

\* linkDelegate's draining, PutBack, and the walk of Recv along delegates never
\* duplicate an envelope: no session sees a batch or record twice, and no two
\* sessions see the same one.
AtMostOnce ==
  \A a, b \in Place : \A i \in DOMAIN Contents(a), j \in DOMAIN Contents(b) :
    Contents(a)[i] = Contents(b)[j] => a = b /\ i = j

\* node.ActivePeer, when set, names a link that still has its transport, so
\* ml_request_file never starts a session towards a link that was dropped.
ActiveHasTransport == active # 0 => tmap[active] # 0

\* Once linkDelegate has pointed a transport at a survivor, no later merge
\* points it elsewhere.
DelegationIsFinal ==
  [][\A t \in DOMAIN tr : tr[t].delegate # 0 => tr'[t].delegate = tr[t].delegate]_vars

\* A handler that is merging links or queueing an envelope returns: threads
\* that merge the same transports never block each other for good.
HandlersReturn == \A p \in Link : (call[p] # IdleCall) ~> (call[p] = IdleCall \/ crashed)

Quiet == \A p \in Link : call[p] = IdleCall

\* While no link has dropped and no handler is at work, following delegates
\* from any connected link ends at the transport of node.ActivePeer: links
\* that come up at once, from several threads, still merge into one.
JoinsReachActive ==
  Quiet /\ active # 0 /\ drops = 0 =>
    \A p \in Link : link[p] = "up" =>
      ~Cyclic(tmap[p]) /\ delegateRoot(tmap[p]) = tmap[active]

\* Links that come up merge upwards only: linkDelegate points a transport at
\* one with a larger peer id, so delegates cannot form a cycle until a link
\* drops (maxTransportPeerID picks the canonical transport).
LinksGoUp ==
  drops = 0 =>
    \A t \in DOMAIN tr : tr[t].delegate # 0 => tr[tr[t].delegate].peer > tr[t].peer

-----------------------------------------------------------------------------
(* What the comments and documents say and the code does not keep.          *)

\* A session blocked in Recv while its transport is merged goes on with the
\* survivor instead of ending with "transport closed".
BlockedRecvContinues == \A r \in Reader : reader[r].pc # "closed"

\* Link events may be delivered from different threads without bringing the
\* process down ("callbacks are safe").
NoPanic == ~crashed

\* Merging leaves no envelope behind in the channel it closes ("drains queued
\* envelopes into surv").
NothingStranded == \A t \in DOMAIN tr : tr[t].closed => tr[t].incoming = <<>>
=============================================================================
