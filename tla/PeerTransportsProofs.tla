------------------------ MODULE PeerTransportsProofs ------------------------
(***************************************************************************)
(* Proofs about PeerTransports, for any links, session goroutines, queue    *)
(* capacity and bounds: the transports stay well formed, a delegation is    *)
(* final, and links that come up, in whatever order and from however many   *)
(* threads, merge into the transport of node.ActivePeer.                    *)
(***************************************************************************)
EXTENDS PeerTransports, WellFoundedInduction, TLAPS

\* A transport is where sessions end up, or leads on, or is about to.
Settled(t) ==
  \/ active # 0 /\ t = tmap[active]
  \/ tr[t].delegate # 0
  \/ \E p \in Link : call[p].pc \in {"link", "close"} /\ t \in call[p].todo

\* The map, node.ActivePeer and the handlers refer to transports that are
\* there, and a transport is merged by one handler at a time, once.
Merging ==
  /\ \A p \in Link : tmap[p] # 0 => tr[tmap[p]].peer = p
  /\ \A p \in Link : link[p] = "up" \/ call[p].pc = "pick" => tmap[p] # 0
  /\ ActiveHasTransport
  /\ \A t \in DOMAIN tr : tr[t].closed <=> tr[t].delegate # 0
  /\ \A p \in Link : call[p].pc = "close" =>
       call[p].cur \in DOMAIN tr /\ tr[call[p].cur].locked /\ ~tr[call[p].cur].closed
  /\ \A p, q \in Link : call[p].pc = "close" /\ call[q].pc = "close" /\ call[p].cur = call[q].cur => p = q

\* While no link has dropped, merging goes upwards and forgets no transport.
Joining ==
  /\ \A t \in DOMAIN tr : tmap[tr[t].peer] = t
  /\ \A p \in Link : call[p].pc \in {"link", "close"} =>
       /\ call[p].old = 0 /\ Settled(call[p].surv)
       /\ \A t \in call[p].todo : tr[t].peer < tr[call[p].surv].peer
       /\ call[p].pc = "close" => call[p].cur \in call[p].todo
  /\ \A t \in DOMAIN tr : tr[t].delegate # 0 =>
       Settled(tr[t].delegate) /\ tr[t].peer < tr[tr[t].delegate].peer
  /\ \A p \in Link : link[p] = "up" /\ call[p].pc # "pick" => Settled(tmap[p])

Inv == TypeOK /\ Merging /\ (drops = 0 => Joining)

-----------------------------------------------------------------------------
(* Natural numbers and walks.  None of this is about the program.           *)

\* Every non-empty set of naturals has a least element.  Induction over data
\* is done with this: the least counterexample has a predecessor that is none.
LEMMA LeastOf ==
  ASSUME NEW T \in SUBSET Nat, NEW z \in T
  PROVE  \E m \in T : \A n \in T : m <= n
  <1>. DEFINE R == OpToRel(<, Nat)
  <1>1. IsWellFoundedOn(R, Nat)  BY NatLessThanWellFounded, Zenon
  <1>2. ASSUME NEW a \in Nat, NEW b \in Nat, a < b PROVE <<a, b>> \in R
    BY <1>2 DEF OpToRel
  <1>. HIDE DEF R
  <1>3. PICK m \in T : \A y \in T : ~(<<y, m>> \in R)  BY <1>1, WFMin, Zenon
  <1>4. ASSUME NEW n \in T PROVE m <= n
    <2>1. m \in Nat /\ n \in Nat  OBVIOUS
    <2>2. ~(n < m)  BY <1>2, <1>3, <2>1, Zenon
    <2>. QED  BY <2>1, <2>2
  <1>. QED  BY <1>4

\* The length of an unchanged sequence is at most what it was.
LEMMA AtMostItself == \A n \in Nat : n <= n
  OBVIOUS

\* A reference that is not 0 is a position, and 0 is none.
LEMMA NotZero == \A n \in Nat : 0 \notin 1 .. n /\ \A d \in 0 .. n : d # 0 => d \in 1 .. n
  OBVIOUS

\* Finitely many naturals are bounded.
LEMMA BoundOf ==
  ASSUME NEW n \in Nat, NEW q \in [1 .. n -> Nat]
  PROVE  \E b \in Nat : \A i \in 1 .. n : q[i] <= b
  <1>. DEFINE Bound(k, b) == \A i \in 1 .. k : q[i] <= b
              T == {k \in 0 .. n : ~\E b \in Nat : Bound(k, b)}
  <1>1. SUFFICES ASSUME n \in T PROVE FALSE
    OBVIOUS
  <1>2. T \in SUBSET Nat  OBVIOUS
  <1>3. PICK k \in T : \A l \in T : k <= l
    <2>. HIDE DEF T
    <2>. QED  BY <1>1, <1>2, LeastOf
  <1>4. k \in 0 .. n /\ k \in Nat  OBVIOUS
  <1>5. CASE k = 0
    <2>1. Bound(k, 0)  BY <1>5
    <2>. HIDE DEF Bound
    <2>. QED  BY <2>1
  <1>6. CASE k # 0
    <2>1. k - 1 \in 0 .. n /\ k - 1 < k  BY <1>4, <1>6
    <2>2. k - 1 \notin T
      <3>. HIDE DEF T
      <3>. QED  BY <1>3, <1>4, <2>1
    <2>3. PICK b \in Nat : Bound(k - 1, b)  BY <2>1, <2>2
    <2>. HIDE DEF T
    <2>4. k \in 1 .. n /\ q[k] \in Nat  BY <1>4, <1>6
    <2>5. ASSUME NEW i \in 1 .. k PROVE q[i] <= b + q[k]
      <3>1. i \in 1 .. n /\ q[i] \in Nat  BY <1>4
      <3>2. CASE i = k  BY <2>4, <3>2
      <3>3. CASE i # k
        <4>1. i \in 1 .. k - 1  BY <1>4, <3>3
        <4>2. q[i] <= b  BY <2>3, <4>1
        <4>. QED  BY <2>4, <3>1, <4>2
      <3>. QED  BY <3>2, <3>3
    <2>6. Bound(k, b + q[k]) /\ b + q[k] \in Nat  BY <2>4, <2>5
    <2>. HIDE DEF Bound
    <2>. QED  BY <2>6 DEF T
  <1>. QED  BY <1>5, <1>6

\* Every non-empty part of a finite set of naturals has a greatest element.
LEMMA GreatestOf ==
  ASSUME NEW L \in SUBSET Nat, IsFiniteSet(L), NEW S \in SUBSET L, NEW z \in S
  PROVE  \E m \in S : \A k \in S : k <= m
  <1>1. PICK q \in Seq(L) : \A s \in L : \E i \in 1 .. Len(q) : q[i] = s  BY DEF IsFiniteSet
  <1>2. PICK b \in Nat : \A i \in 1 .. Len(q) : q[i] <= b
    <2>1. Len(q) \in Nat /\ q \in [1 .. Len(q) -> L]  BY <1>1
    <2>2. q \in [1 .. Len(q) -> Nat]  BY <2>1, Zenon
    <2>. QED  BY <2>1, <2>2, BoundOf, Zenon
  <1>3. \A s \in S : s \in Nat /\ s <= b  BY <1>1, <1>2
  <1>. DEFINE T == {d \in Nat : \E s \in S : d = b - s}
  <1>4. b - z \in T  BY <1>3
  <1>5. PICK d \in T : \A e \in T : d <= e
    <2>1. T \in SUBSET Nat  OBVIOUS
    <2>. HIDE DEF T
    <2>. QED  BY <1>4, <2>1, LeastOf
  <1>6. PICK m \in S : d = b - m  OBVIOUS
  <1>7. ASSUME NEW k \in S PROVE k <= m
    <2>1. b - k \in T  BY <1>3
    <2>2. d <= b - k  BY <1>5, <2>1, Zenon
    <2>. QED  BY <1>3, <1>6, <2>2
  <1>. QED  BY <1>7

\* f follows nxt from t, n times.
IsWalk(f, S, nxt, t, n) ==
  /\ f \in [0 .. n -> S] /\ f[0] = t
  /\ \A i \in 1 .. n : f[i] = nxt[f[i - 1]]

\* A function can be followed any number of times.
LEMMA WalkExists ==
  ASSUME NEW S, NEW nxt \in [S -> S], NEW t \in S, NEW n \in Nat
  PROVE  \E f : IsWalk(f, S, nxt, t, n)
  <1>. DEFINE Walk(f, m) == f[0] = t /\ \A i \in 1 .. m : f[i] = nxt[f[i - 1]]
              T == {m \in 0 .. n : ~\E f \in [0 .. m -> S] : Walk(f, m)}
  <1>1. SUFFICES ASSUME n \in T PROVE FALSE
    BY DEF IsWalk
  <1>2. T \in SUBSET Nat  OBVIOUS
  <1>3. PICK m \in T : \A k \in T : m <= k
    <2>. HIDE DEF T
    <2>. QED  BY <1>1, <1>2, LeastOf
  <1>4. m \in 0 .. n /\ m \in Nat  OBVIOUS
  <1>5. CASE m = 0
    <2>. DEFINE f == [i \in 0 .. m |-> t]
    <2>1. f \in [0 .. m -> S] /\ f[0] = t /\ \A i \in 1 .. m : FALSE  BY <1>5
    <2>2. Walk(f, m)  BY <2>1
    <2>. QED  BY <2>1, <2>2
  <1>6. CASE m # 0
    <2>1. m - 1 \in 0 .. n /\ m - 1 < m /\ m - 1 \notin T
      <3>1. m - 1 \in 0 .. n /\ m - 1 < m  BY <1>4, <1>6
      <3>. HIDE DEF T
      <3>. QED  BY <1>3, <1>4, <3>1
    <2>2. PICK g \in [0 .. m - 1 -> S] : Walk(g, m - 1)  BY <2>1
    <2>. DEFINE f == [i \in 0 .. m |-> IF i = m THEN nxt[g[m - 1]] ELSE g[i]]
    <2>3. \A i \in 0 .. m : i = m \/ i \in 0 .. m - 1  BY <1>4
    <2>4. m - 1 \in 0 .. m - 1 /\ 0 \in 0 .. m - 1 /\ 0 \in 0 .. m  BY <1>4, <1>6
    <2>5. f \in [0 .. m -> S]
      <3>1. g[m - 1] \in S /\ nxt[g[m - 1]] \in S  BY <2>4
      <3>. QED  BY <2>3, <3>1
    <2>6. f[0] = t  BY <2>2, <2>4, <1>6
    <2>7. ASSUME NEW i \in 1 .. m PROVE f[i] = nxt[f[i - 1]]
      <3>1. i \in 0 .. m /\ i - 1 \in 0 .. m - 1 /\ i - 1 \in 0 .. m /\ i - 1 # m  BY <1>4
      <3>2. f[i - 1] = g[i - 1]  BY <3>1
      <3>3. CASE i = m  BY <3>1, <3>2, <3>3
      <3>4. CASE i # m
        <4>1. i \in 1 .. m - 1  BY <1>4, <3>4
        <4>2. g[i] = nxt[g[i - 1]]  BY <2>2, <4>1
        <4>. QED  BY <3>1, <3>2, <3>4, <4>2
      <3>. QED  BY <3>3, <3>4
    <2>8. Walk(f, m)  BY <2>6, <2>7, Zenon
    <2>. HIDE DEF f, Walk
    <2>. QED  BY <2>5, <2>8
  <1>. QED  BY <1>5, <1>6

-----------------------------------------------------------------------------
(* Following delegates.                                                     *)

\* The walk delegateRoot takes stays among the transports made, and each hop
\* follows a delegate or stays at a root.
LEMMA HopsAre ==
  ASSUME TypeOK, NEW t \in DOMAIN tr
  PROVE  /\ Hops(t) \in [0 .. Len(tr) -> DOMAIN tr] /\ Hops(t)[0] = t
         /\ \A i \in 1 .. Len(tr) : Hops(t)[i] =
              IF tr[Hops(t)[i - 1]].delegate = 0 THEN Hops(t)[i - 1] ELSE tr[Hops(t)[i - 1]].delegate
  <1>. DEFINE nxt == [u \in DOMAIN tr |-> IF tr[u].delegate = 0 THEN u ELSE tr[u].delegate]
              Eq(hop) == hop = [i \in 0 .. Len(tr) |->
                IF i = 0 THEN t
                ELSE IF tr[hop[i - 1]].delegate = 0 THEN hop[i - 1] ELSE tr[hop[i - 1]].delegate]
  <1>1. Len(tr) \in Nat /\ DOMAIN tr = 1 .. Len(tr)  BY DEF TypeOK
  <1>2. nxt \in [DOMAIN tr -> DOMAIN tr]
    <2>1. \A u \in DOMAIN tr : tr[u].delegate \in 0 .. Len(tr)  BY DEF TypeOK
    <2>2. \A u \in DOMAIN tr : tr[u].delegate # 0 => tr[u].delegate \in DOMAIN tr  BY <1>1, <2>1
    <2>. QED  BY <2>2
  <1>3. PICK f \in [0 .. Len(tr) -> DOMAIN tr] :
          f[0] = t /\ \A i \in 1 .. Len(tr) : f[i] = nxt[f[i - 1]]
    <2>1. \E f : IsWalk(f, DOMAIN tr, nxt, t, Len(tr))
      <3>. HIDE DEF nxt
      <3>. QED  BY <1>1, <1>2, WalkExists, Zenon
    <2>. QED  BY <2>1 DEF IsWalk
  <1>4. Eq(f)
    <2>. DEFINE g == [i \in 0 .. Len(tr) |->
                IF i = 0 THEN t
                ELSE IF tr[f[i - 1]].delegate = 0 THEN f[i - 1] ELSE tr[f[i - 1]].delegate]
    <2>1. ASSUME NEW i \in 0 .. Len(tr) PROVE f[i] = g[i]
      <3>1. CASE i = 0  BY <3>1, <1>3
      <3>2. CASE i # 0
        <4>1. i \in 1 .. Len(tr) /\ i - 1 \in 0 .. Len(tr)  BY <1>1, <3>2
        <4>2. f[i - 1] \in DOMAIN tr /\ f[i] = nxt[f[i - 1]]  BY <4>1, <1>3
        <4>. QED  BY <4>1, <4>2, <3>2
      <3>. QED  BY <3>1, <3>2
    <2>2. f = g
      <3>. HIDE DEF g
      <3>1. g = [i \in 0 .. Len(tr) |-> g[i]]  BY DEF g
      <3>. QED  BY <2>1, <3>1
    <2>. QED  BY <2>2
  <1>5. Hops(t) = CHOOSE hop : Eq(hop)  BY DEF Hops
  <1>6. Eq(Hops(t))
    <2>. HIDE DEF Eq
    <2>. QED  BY <1>4, <1>5
  <1>. DEFINE h == Hops(t)
  <1>7. h = [i \in 0 .. Len(tr) |->
                IF i = 0 THEN t
                ELSE IF tr[h[i - 1]].delegate = 0 THEN h[i - 1] ELSE tr[h[i - 1]].delegate]
    BY <1>6, Zenon
  <1>. HIDE DEF h, Eq, nxt
  <1>8. h[0] = t /\ DOMAIN h = 0 .. Len(tr)
    BY <1>1, <1>7
  <1>9. \A i \in 1 .. Len(tr) : h[i] =
              IF tr[h[i - 1]].delegate = 0 THEN h[i - 1] ELSE tr[h[i - 1]].delegate
    <2>. SUFFICES ASSUME NEW i \in 1 .. Len(tr)
                  PROVE  h[i] = IF tr[h[i - 1]].delegate = 0 THEN h[i - 1] ELSE tr[h[i - 1]].delegate
      OBVIOUS
    <2>1. i \in 0 .. Len(tr) /\ i # 0  BY <1>1
    <2>. QED  BY <1>7, <2>1
  <1>10. \A i \in 0 .. Len(tr) : h[i] \in DOMAIN tr
    <2>. DEFINE T == {i \in 0 .. Len(tr) : h[i] \notin DOMAIN tr}
    <2>. SUFFICES ASSUME NEW z \in T PROVE FALSE
      OBVIOUS
    <2>1. T \in SUBSET Nat  BY <1>1
    <2>2. PICK m \in T : \A k \in T : m <= k
      <3>. HIDE DEF T
      <3>. QED  BY <2>1, LeastOf
    <2>3. m \in 0 .. Len(tr) /\ h[m] \notin DOMAIN tr /\ m # 0  BY <1>8
    <2>4. m \in 1 .. Len(tr) /\ m - 1 \in 0 .. Len(tr) /\ m - 1 < m /\ m \in Nat  BY <1>1, <2>3
    <2>5. m - 1 \notin T
      <3>. HIDE DEF T
      <3>. QED  BY <2>2, <2>4
    <2>6. h[m - 1] \in DOMAIN tr  BY <2>4, <2>5
    <2>7. tr[h[m - 1]].delegate \in 0 .. Len(tr)  BY <2>6 DEF TypeOK
    <2>8. h[m] \in DOMAIN tr
      <3>. HIDE DEF T
      <3>1. h[m] = IF tr[h[m - 1]].delegate = 0 THEN h[m - 1] ELSE tr[h[m - 1]].delegate
        BY <1>9, <2>4
      <3>2. tr[h[m - 1]].delegate # 0 => tr[h[m - 1]].delegate \in DOMAIN tr
        BY <1>1, <2>7
      <3>. QED  BY <2>6, <3>1, <3>2
    <2>. QED  BY <2>3, <2>8
  <1>11. h \in [0 .. Len(tr) -> DOMAIN tr]
    BY <1>7, <1>8, <1>10
  <1>. QED  BY <1>8, <1>9, <1>11 DEF h

\* Roots, and the transports Recv looks at, are transports made.
LEMMA RootIsThere ==
  ASSUME TypeOK, NEW t \in DOMAIN tr
  PROVE  /\ delegateRoot(t) \in DOMAIN tr
         /\ PutBackOn(t) # {} => FirstPutBack(t) \in DOMAIN tr /\ tr[FirstPutBack(t)].preRecv # <<>>
  <1>1. Len(tr) \in Nat /\ Hops(t) \in [0 .. Len(tr) -> DOMAIN tr]
    BY HopsAre DEF TypeOK
  <1>2. delegateRoot(t) \in DOMAIN tr  BY <1>1 DEF delegateRoot
  <1>3. ASSUME PutBackOn(t) # {} PROVE FirstPutBack(t) \in DOMAIN tr /\ tr[FirstPutBack(t)].preRecv # <<>>
    <2>. DEFINE T == PutBackOn(t)
    <2>1. T \subseteq 0 .. Len(tr) /\ \A i \in T : tr[Hops(t)[i]].preRecv # <<>>  BY DEF PutBackOn
    <2>2. T \in SUBSET Nat  BY <1>1, <2>1
    <2>3. \E m \in T : \A k \in T : m <= k
      <3>1. PICK z : z \in T  BY <1>3
      <3>. HIDE DEF T
      <3>. QED  BY <2>2, <3>1, LeastOf
    <2>4. Min(T) \in T  BY <2>3 DEF Min
    <2>. QED  BY <1>1, <2>1, <2>4 DEF FirstPutBack
  <1>. QED  BY <1>2, <1>3

-----------------------------------------------------------------------------
(* Types.                                                                   *)

Calls == {IdleCall, [pc |-> "pick"]} \cup Linking \cup Queueing
Readers == {FreeReader} \cup Running \cup Blocked \cup Holding

TransportsOK(s) ==
  /\ s \in Seq(Transport)
  /\ \A t \in DOMAIN s : s[t].delegate \in 0 .. Len(s) /\ Len(s[t].incoming) <= QueueCap

\* A step that touches nothing of the transports but their queues.
QueuesOnly ==
  /\ Len(tr') = Len(tr) /\ DOMAIN tr' = DOMAIN tr
  /\ \A t \in DOMAIN tr :
       /\ tr'[t].peer = tr[t].peer /\ tr'[t].delegate = tr[t].delegate
       /\ tr'[t].closed = tr[t].closed /\ tr'[t].locked = tr[t].locked

\* The simple parts of the type invariant.
LEMMA Plain ==
  ASSUME TypeOK
  PROVE  /\ Len(tr) \in Nat /\ DOMAIN tr = 1 .. Len(tr)
         /\ tmap \in [Link -> 0 .. Len(tr)] /\ active \in Link \cup {0}
         /\ link \in [Link -> {"new", "up", "down"}] /\ arrived \in [Link -> 0 .. MaxEnvelopes]
         /\ {connects, drops, sessions} \subseteq Nat
         /\ connects \in Nat /\ drops \in Nat /\ sessions \in Nat /\ crashed \in BOOLEAN
         /\ TransportsOK(tr) /\ Len(tr) <= Len(tr)
  <1>1. Len(tr) \in Nat /\ DOMAIN tr = 1 .. Len(tr)  BY DEF TypeOK
  <1>2. Len(tr) <= Len(tr)  BY <1>1
  <1>. QED  BY <1>1, <1>2, Zenon DEF TypeOK, TransportsOK

\* Transports that are in order are a sequence.
LEMMA LengthOf == \A s : TransportsOK(s) => Len(s) \in Nat
  BY DEF TransportsOK

\* What a link thread is doing tells what its call holds.
LEMMA CallKinds ==
  ASSUME TypeOK, NEW p \in Link
  PROVE  /\ call[p].pc \in {"link", "close"} => call[p] \in Linking
         /\ call[p].pc \in {"root", "enqueue"} => call[p] \in Queueing
         /\ call[p].pc = "pick" => call[p] = [pc |-> "pick"]
         /\ call[p] \in Calls
  <1>1. call[p] \in Calls  BY DEF TypeOK, Calls
  <1>2. IdleCall.pc = "idle"  BY DEF IdleCall
  <1>3. \A c \in Linking : c.pc \in {"link", "close"}  BY DEF Linking
  <1>4. \A c \in Queueing : c.pc \in {"root", "enqueue"}  BY DEF Queueing
  <1>. QED  BY <1>1, <1>2, <1>3, <1>4 DEF Calls

\* What a session goroutine is doing tells what it holds.
LEMMA ReaderKinds ==
  ASSUME TypeOK, NEW r \in Reader
  PROVE  /\ reader[r].pc = "blocked" => reader[r] \in Blocked
         /\ reader[r].pc = "putback" => reader[r] \in Holding
         /\ reader[r].pc \in {"send", "recv", "drain", "done", "failed", "cycle", "closed"}
              => reader[r] \in Running
         /\ reader[r].pc # "free" =>
              reader[r].tr \in DOMAIN tr /\ reader[r].peer \in Link /\ reader[r].registered \in BOOLEAN
         /\ reader[r] \in Readers
  <1>1. reader[r] \in Readers  BY DEF TypeOK, Readers
  <1>2. FreeReader.pc = "free"  BY DEF FreeReader
  <1>3. \A x \in Running :
          /\ x.pc \in {"send", "recv", "drain", "done", "failed", "cycle", "closed"}
          /\ x.tr \in DOMAIN tr /\ x.peer \in Link /\ x.registered \in BOOLEAN
    BY DEF Running
  <1>4. \A x \in Blocked :
          x.pc = "blocked" /\ x.tr \in DOMAIN tr /\ x.peer \in Link /\ x.registered \in BOOLEAN
    BY DEF Blocked
  <1>5. \A x \in Holding :
          x.pc = "putback" /\ x.tr \in DOMAIN tr /\ x.peer \in Link /\ x.registered \in BOOLEAN
    BY DEF Holding
  <1>. QED  BY <1>1, <1>2, <1>3, <1>4, <1>5 DEF Readers

\* The queues of a transport hold envelopes.
LEMMA Queues ==
  ASSUME TypeOK, NEW u \in DOMAIN tr
  PROVE  /\ tr[u] \in Transport /\ tr[u].incoming \in Seq(Envelope) /\ tr[u].preRecv \in Seq(Envelope)
         /\ Len(tr[u].incoming) <= QueueCap
         /\ tr[u].peer \in Link /\ tr[u].delegate \in 0 .. Len(tr)
         /\ tr[u].closed \in BOOLEAN /\ tr[u].locked \in BOOLEAN
         /\ [tr[u] EXCEPT !.incoming = tr[u].incoming, !.preRecv = tr[u].preRecv] = tr[u]
  <1>1. tr[u] \in Transport  BY DEF TypeOK
  <1>. QED  BY <1>1, Zenon DEF Transport, TypeOK

-----------------------------------------------------------------------------
(* Picking peers.                                                           *)

\* maxTransportPeerID is a mapped peer, and no mapped peer has a larger id.
LEMMA MaxIsMapped ==
  ASSUME NEW m, Mapped(m) # {}
  PROVE  /\ maxTransportPeerID(m) \in Mapped(m) /\ maxTransportPeerID(m) \in Link
         /\ \A q \in Mapped(m) : q <= maxTransportPeerID(m)
  <1>. DEFINE S == Mapped(m)
  <1>1. S \subseteq Link /\ S \in SUBSET Nat  BY LinkAssumption, Zenon DEF Mapped
  <1>2. Link \in SUBSET Nat /\ IsFiniteSet(Link) /\ S \in SUBSET Link
    <2>. HIDE DEF S
    <2>. QED  BY <1>1, LinkAssumption
  <1>3. \E x \in S : \A y \in S : y <= x
    <2>1. PICK z : z \in S  OBVIOUS
    <2>. HIDE DEF S
    <2>. QED  BY <1>2, <2>1, GreatestOf
  <1>4. \E x \in S : \A y \in S : x >= y  BY <1>1, <1>3
  <1>5. Max(S) \in S /\ \A y \in S : Max(S) >= y
    <2>. HIDE DEF S
    <2>. QED  BY <1>4 DEF Max
  <1>6. maxTransportPeerID(m) = Max(S)  BY DEF maxTransportPeerID
  <1>. HIDE DEF S
  <1>7. \A q \in S : q <= Max(S)  BY <1>1, <1>5
  <1>. QED  BY <1>1, <1>5, <1>6, <1>7 DEF S

\* pickSurvivorTransportLocked is a mapped peer when there is one.
LEMMA SurvivorIsMapped ==
  ASSUME NEW m, NEW a
  PROVE  /\ Mapped(m) # {} => pickSurvivor(m, a) \in Mapped(m) /\ pickSurvivor(m, a) \in Link
         /\ Mapped(m) = {} => pickSurvivor(m, a) = 0
         /\ a \in Mapped(m) => pickSurvivor(m, a) = a
         /\ Mapped(m) \subseteq Link /\ 0 \notin Link
  <1>1. Mapped(m) \subseteq Link /\ 0 \notin Link  BY LinkAssumption DEF Mapped
  <1>2. Mapped(m) # {} => maxTransportPeerID(m) \in Mapped(m)  BY MaxIsMapped
  <1>. QED  BY <1>1, <1>2 DEF pickSurvivor, maxTransportPeerID

-----------------------------------------------------------------------------
(* Merging.                                                                *)

\* The transports after t was drained into u.
Drained(t, u) ==
  [tr EXCEPT ![t].preRecv = <<>>, ![t].incoming = <<>>, ![t].locked = TRUE,
             ![u].incoming = Newest(tr[u].incoming \o (tr[t].preRecv \o tr[t].incoming))]

-----------------------------------------------------------------------------
(* The theorems.                                                            *)

\* Every step keeps the invariant, and no step moves a delegation.
LEMMA StepKeeps ==
  Inv /\ [Next]_vars =>
    /\ Inv'
    /\ \A t \in DOMAIN tr : tr[t].delegate # 0 => tr'[t].delegate = tr[t].delegate

  \* enqueueLocked keeps at most QueueCap envelopes.
  <1>NewestFits.
      ASSUME NEW q \in Seq(Envelope)
      PROVE  Newest(q) \in Seq(Envelope) /\ Len(Newest(q)) <= QueueCap
    <2>. USE <1>NewestFits
    <2>1. CASE Len(q) <= QueueCap  BY <2>1 DEF Newest
    <2>2. CASE ~(Len(q) <= QueueCap)
      <3>. DEFINE a == Len(q) - QueueCap + 1
      <3>1. /\ Len(q) \in Nat /\ a \in 1 .. Len(q) + 1 /\ Len(q) - a + 1 = QueueCap
            /\ a <= Len(q) + 1 /\ QueueCap \in Nat
        BY <2>2, QueueAssumption
      <3>2. Newest(q) = SubSeq(q, a, Len(q))  BY <2>2, Zenon DEF Newest
      <3>. HIDE DEF a
      <3>3. SubSeq(q, a, Len(q)) \in Seq(Envelope) /\ Len(SubSeq(q, a, Len(q))) = QueueCap
        BY <3>1
      <3>. QED  BY <3>1, <3>2, <3>3
    <2>. QED  BY <2>1, <2>2

  \* A peer in the map has a transport.
  <1>MappedIsMade.
      ASSUME TypeOK, NEW q \in Link, tmap[q] # 0
      PROVE  tmap[q] \in DOMAIN tr
    <2>. USE <1>MappedIsMade
    <2>1. Len(tr) \in Nat /\ DOMAIN tr = 1 .. Len(tr) /\ tmap[q] \in 0 .. Len(tr)  BY Plain
    <2>. QED  BY <2>1

  \* More transports, more types.
  <1>TypesGrow.
      ASSUME Len(tr) \in Nat, Len(tr') \in Nat, Len(tr) <= Len(tr'), DOMAIN tr \subseteq DOMAIN tr'
      PROVE  Calls \subseteq Calls' /\ Readers \subseteq Readers'
    <2>. USE <1>TypesGrow
    <2>1. Linking \subseteq Linking'
      <3>1. 0 .. Len(tr) \subseteq 0 .. Len(tr')  OBVIOUS
      <3>. QED  BY <3>1 DEF Linking
    <2>2. Queueing \subseteq Queueing'  BY DEF Queueing
    <2>3. Running \subseteq Running' /\ Blocked \subseteq Blocked' /\ Holding \subseteq Holding'
      BY DEF Running, Blocked, Holding
    <2>. QED  BY <2>1, <2>2, <2>3 DEF Calls, Readers

  \* Replacing the queues of one transport.
  <1>QueueUpdate.
      ASSUME TypeOK, NEW u \in DOMAIN tr, NEW in \in Seq(Envelope), NEW pre \in Seq(Envelope),
             Len(in) <= QueueCap,
             tr' = [tr EXCEPT ![u] = [tr[u] EXCEPT !.incoming = in, !.preRecv = pre]]
      PROVE  TransportsOK(tr') /\ QueuesOnly
    <2>. USE <1>QueueUpdate
    <2>. DEFINE x == [tr[u] EXCEPT !.incoming = in, !.preRecv = pre]
    <2>1. tr \in Seq(Transport) /\ tr[u] \in Transport /\ TransportsOK(tr)
      BY DEF TypeOK, TransportsOK
    <2>2. /\ x \in Transport /\ x.incoming = in /\ x.delegate = tr[u].delegate
          /\ x.peer = tr[u].peer /\ x.closed = tr[u].closed /\ x.locked = tr[u].locked
      BY <2>1, Zenon DEF Transport
    <2>3. x.delegate \in 0 .. Len(tr) /\ Len(x.incoming) <= QueueCap
      BY <2>1, <2>2 DEF TransportsOK
    <2>4. tr' = [tr EXCEPT ![u] = x]  OBVIOUS
    <2>. HIDE DEF x
    <2>5. /\ TransportsOK(tr') /\ Len(tr') = Len(tr) /\ DOMAIN tr' = DOMAIN tr
          /\ tr'[u] = x /\ \A t \in DOMAIN tr : t # u => tr'[t] = tr[t]
      <3>1. tr' \in Seq(Transport) /\ Len(tr') = Len(tr) /\ DOMAIN tr' = DOMAIN tr
        BY <2>1, <2>2, <2>4
      <3>2. tr'[u] = x /\ \A t \in DOMAIN tr : t # u => tr'[t] = tr[t]  BY <2>1, <2>4
      <3>3. \A t \in DOMAIN tr' :
              tr'[t].delegate \in 0 .. Len(tr') /\ Len(tr'[t].incoming) <= QueueCap
        BY <2>1, <2>3, <3>1, <3>2 DEF TransportsOK
      <3>. QED  BY <3>1, <3>2, <3>3 DEF TransportsOK
    <2>6. QueuesOnly
      <3>. SUFFICES ASSUME NEW t \in DOMAIN tr
                    PROVE  /\ tr'[t].peer = tr[t].peer /\ tr'[t].delegate = tr[t].delegate
                           /\ tr'[t].closed = tr[t].closed /\ tr'[t].locked = tr[t].locked
        BY <2>5 DEF QueuesOnly
      <3>1. CASE t = u  BY <3>1, <2>2, <2>5
      <3>2. CASE t # u  BY <3>2, <2>5
      <3>. QED  BY <3>1, <3>2
    <2>. QED  BY <2>5, <2>6

  \* Nothing changes in the transports.
  <1>SameTransports.
      ASSUME TypeOK, tr' = tr
      PROVE  TransportsOK(tr') /\ QueuesOnly
    BY <1>SameTransports DEF TypeOK, TransportsOK, QueuesOnly

  \* Node.ActivePeer is a mapped peer or unset.
  <1>ActiveIsMapped.
      ASSUME TypeOK, Merging
      PROVE  active = 0 \/ active \in Mapped(tmap)
    BY <1>ActiveIsMapped DEF TypeOK, Merging, ActiveHasTransport, Mapped

  \* Delegations, the map and the merging calls stay: the invariant does too.
  <1>QueueStepKeeps.
      ASSUME Inv, TypeOK', QueuesOnly, UNCHANGED <<tmap, link, drops>>,
             \/ active' = active
             \/ active' \in Link /\ tmap[active'] # 0 /\ active = 0,
             \A p \in Link :
               \/ call'[p] = call[p]
               \/ call[p].pc \in {"root", "enqueue"} /\ call'[p].pc \in {"enqueue", "idle"}
      PROVE  Inv'
    <2>. USE <1>QueueStepKeeps
    <2>1. TypeOK /\ Merging /\ (drops = 0 => Joining)  BY DEF Inv
    <2>2. /\ Len(tr') = Len(tr) /\ DOMAIN tr' = DOMAIN tr /\ Len(tr) \in Nat /\ DOMAIN tr = 1 .. Len(tr)
          /\ \A t \in DOMAIN tr :
               /\ tr'[t].peer = tr[t].peer /\ tr'[t].delegate = tr[t].delegate
               /\ tr'[t].closed = tr[t].closed /\ tr'[t].locked = tr[t].locked
      BY <2>1 DEF QueuesOnly, TypeOK
    <2>3. \A p \in Link : tmap[p] # 0 => tmap[p] \in DOMAIN tr
      BY <2>1, <2>2 DEF TypeOK
    <2>4. Merging'
      <3>1. \A p \in Link : tmap'[p] # 0 => tr'[tmap'[p]].peer = p
        BY <2>1, <2>2, <2>3 DEF Merging
      <3>2. \A p \in Link : link'[p] = "up" \/ call'[p].pc = "pick" => tmap'[p] # 0
        BY <2>1 DEF Merging
      <3>3. ActiveHasTransport'  BY <2>1 DEF Merging, ActiveHasTransport
      <3>4. \A t \in DOMAIN tr' : tr'[t].closed <=> tr'[t].delegate # 0  BY <2>1, <2>2 DEF Merging
      <3>5. \A p \in Link : call'[p].pc = "close" => call'[p] = call[p]  OBVIOUS
      <3>6. \A p \in Link : call'[p].pc = "close" =>
              call'[p].cur \in DOMAIN tr' /\ tr'[call'[p].cur].locked /\ ~tr'[call'[p].cur].closed
        BY <2>1, <2>2, <3>5 DEF Merging
      <3>7. \A p, q \in Link :
              call'[p].pc = "close" /\ call'[q].pc = "close" /\ call'[p].cur = call'[q].cur => p = q
        BY <2>1, <3>5 DEF Merging
      <3>. QED  BY <3>1, <3>2, <3>3, <3>4, <3>6, <3>7 DEF Merging
    <2>5. ASSUME drops' = 0 PROVE Joining'
      <3>1. Joining  BY <2>1, <2>5
      <3>2. \A p \in Link : call'[p].pc \in {"link", "close"} => call'[p] = call[p]  OBVIOUS
      <3>3. \A p \in Link : call[p].pc \in {"link", "close"} => call'[p] = call[p]  OBVIOUS
      <3>4. \A t \in DOMAIN tr : Settled(t) => Settled(t)'
        BY <2>2, <3>3 DEF Settled
      <3>5. \A p \in Link : call[p].pc \in {"link", "close"} =>
              call[p].surv \in DOMAIN tr /\ call[p].todo \subseteq DOMAIN tr
        BY <2>1, CallKinds DEF Linking
      <3>6. \A t \in DOMAIN tr' : tmap'[tr'[t].peer] = t  BY <2>2, <3>1 DEF Joining
      <3>7. ASSUME NEW p \in Link, call'[p].pc \in {"link", "close"}
            PROVE  /\ call'[p].old = 0 /\ Settled(call[p].surv)'
                   /\ \A t \in call'[p].todo : tr'[t].peer < tr'[call'[p].surv].peer
                   /\ call'[p].pc = "close" => call'[p].cur \in call'[p].todo
        <4>1. call'[p] = call[p]  BY <3>2, <3>7
        <4>2. PICK s : s = call[p].surv  OBVIOUS
        <4>3. s \in DOMAIN tr /\ Settled(s) /\ call'[p].surv = s  BY <3>1, <3>5, <3>7, <4>1, <4>2 DEF Joining
        <4>4. Settled(s)'  BY <3>4, <4>3
        <4>5. Settled(call[p].surv)'  BY <4>3, <4>4 DEF Settled
        <4>6. /\ call[p].old = 0 /\ \A t \in call[p].todo : tr[t].peer < tr[call[p].surv].peer
              /\ call[p].pc = "close" => call[p].cur \in call[p].todo
          BY <3>1, <3>7, <4>1 DEF Joining
        <4>7. \A t \in call[p].todo : t \in DOMAIN tr  BY <3>5, <3>7, <4>1
        <4>8. \A t \in call[p].todo : tr'[t].peer < tr'[s].peer  BY <2>2, <4>2, <4>3, <4>6, <4>7
        <4>. QED  BY <4>1, <4>3, <4>5, <4>6, <4>8
      <3>8. ASSUME NEW t \in DOMAIN tr', tr'[t].delegate # 0
            PROVE  Settled(tr[t].delegate)' /\ tr'[t].peer < tr'[tr'[t].delegate].peer
        <4>1. PICK d : d = tr[t].delegate  OBVIOUS
        <4>2. tr'[t].delegate = d /\ d # 0 /\ t \in DOMAIN tr  BY <2>2, <3>8, <4>1
        <4>3. d \in DOMAIN tr
          <5>1. d \in 0 .. Len(tr)  BY <2>1, <4>1, <4>2 DEF TypeOK
          <5>. QED  BY <2>2, <4>2, <5>1
        <4>4. Settled(d) /\ tr[t].peer < tr[d].peer  BY <3>1, <4>1, <4>2 DEF Joining
        <4>5. Settled(d)'  BY <3>4, <4>3, <4>4
        <4>6. Settled(tr[t].delegate)'  BY <4>2, <4>5 DEF Settled
        <4>. QED  BY <2>2, <4>2, <4>3, <4>4, <4>6
      <3>9. ASSUME NEW p \in Link, link'[p] = "up", call'[p].pc # "pick"
            PROVE  Settled(tmap[p])'
        <4>1. call[p].pc # "pick"  BY <3>9
        <4>2. PICK s : s = tmap[p]  OBVIOUS
        <4>3. s \in DOMAIN tr /\ Settled(s) /\ tmap'[p] = s
          BY <2>1, <2>3, <3>1, <3>9, <4>1, <4>2 DEF Joining, Merging
        <4>4. Settled(s)'  BY <3>4, <4>3
        <4>. QED  BY <4>3, <4>4 DEF Settled
      <3>. QED  BY <3>6, <3>7, <3>8, <3>9 DEF Joining
    <2>. QED  BY <2>4, <2>5 DEF Inv

  \* The steps of session goroutines keep the invariant.
  <1>SessionKeeps.
      \A r \in Reader : Inv /\ SessionThread(r) => Inv' /\ QueuesOnly

      \* Taking an envelope from one of the queues of a transport.
    <2>TakeOne.
        ASSUME TypeOK, NEW u \in DOMAIN tr,
               \/ tr[u].incoming # <<>> /\ tr' = [tr EXCEPT ![u].incoming = Tail(@)]
               \/ tr[u].preRecv # <<>> /\ tr' = [tr EXCEPT ![u].preRecv = Tail(@)]
        PROVE  TransportsOK(tr') /\ QueuesOnly
      <3>. USE <2>TakeOne
      <3>1. /\ tr[u] \in Transport /\ tr[u].incoming \in Seq(Envelope) /\ tr[u].preRecv \in Seq(Envelope)
            /\ Len(tr[u].incoming) <= QueueCap /\ QueueCap \in Nat
        BY Queues, QueueAssumption, Zenon
      <3>2. CASE tr[u].incoming # <<>> /\ tr' = [tr EXCEPT ![u].incoming = Tail(@)]
        <4>. DEFINE in == Tail(tr[u].incoming)
        <4>1. in \in Seq(Envelope) /\ Len(in) <= QueueCap  BY <3>1, <3>2
        <4>2. [tr[u] EXCEPT !.incoming = in, !.preRecv = tr[u].preRecv] = [tr[u] EXCEPT !.incoming = in]
          BY <3>1, Zenon DEF Transport
        <4>3. tr' = [tr EXCEPT ![u] = [tr[u] EXCEPT !.incoming = in, !.preRecv = tr[u].preRecv]]
          BY <3>2, <4>2, Zenon
        <4>. HIDE DEF in
        <4>. QED  BY <3>1, <4>1, <4>3, <1>QueueUpdate, Zenon
      <3>3. CASE tr[u].preRecv # <<>> /\ tr' = [tr EXCEPT ![u].preRecv = Tail(@)]
        <4>. DEFINE pre == Tail(tr[u].preRecv)
        <4>1. pre \in Seq(Envelope)  BY <3>1, <3>3
        <4>2. [tr[u] EXCEPT !.incoming = tr[u].incoming, !.preRecv = pre] = [tr[u] EXCEPT !.preRecv = pre]
          BY <3>1, Zenon DEF Transport
        <4>3. tr' = [tr EXCEPT ![u] = [tr[u] EXCEPT !.incoming = tr[u].incoming, !.preRecv = pre]]
          BY <3>3, <4>2, Zenon
        <4>. HIDE DEF pre
        <4>. QED  BY <3>1, <4>1, <4>3, <1>QueueUpdate, Zenon
      <3>. QED  BY <3>2, <3>3

    \* What a session's step may change, typed, gives the type invariant.
    <2>SessionTypes.
        ASSUME TypeOK, TransportsOK(tr'), QueuesOnly,
               reader' \in [Reader -> Readers], got' \in [Reader -> Seq(Envelope)],
               active' \in Link \cup {0}, sessions' \in Nat,
               UNCHANGED <<tmap, link, call, arrived, crashed, connects, drops>>
        PROVE  TypeOK'
      <3>. USE <2>SessionTypes
      <3>1. Len(tr') = Len(tr) /\ DOMAIN tr' = DOMAIN tr /\ Len(tr) \in Nat  BY DEF QueuesOnly, TypeOK
      <3>2. Calls \subseteq Calls' /\ Readers \subseteq Readers'
        BY <3>1, <1>TypesGrow
      <3>3. call' \in [Link -> Calls']
        <4>1. call' \in [Link -> Calls]  BY DEF TypeOK, Calls
        <4>. QED  BY <3>2, <4>1
      <3>4. reader' \in [Reader -> Readers']  BY <3>2
      <3>5. tmap' \in [Link -> 0 .. Len(tr')]  BY <3>1 DEF TypeOK
      <3>. QED  BY <3>3, <3>4, <3>5 DEF TypeOK, TransportsOK, Calls, Readers

    \* One session goroutine moves on.
    <2>SetReaderTypes.
        ASSUME TypeOK, NEW r \in Reader, NEW x \in Readers, SetReader(r, x)
        PROVE  reader' \in [Reader -> Readers]
      <3>. USE <2>SetReaderTypes
      <3>1. reader \in [Reader -> Readers]  BY DEF TypeOK, Readers
      <3>. QED  BY <3>1 DEF SetReader

    \* A session that got an envelope.
    <2>ReceivedTypes.
        ASSUME TypeOK, NEW r \in Reader, NEW env \in Envelope, received(r, env),
               reader[r] \in Running \cup Blocked
        PROVE  reader' \in [Reader -> Readers] /\ got' \in [Reader -> Seq(Envelope)]
      <3>. USE <2>ReceivedTypes
      <3>1. got' \in [Reader -> Seq(Envelope)]
        <4>1. got \in [Reader -> Seq(Envelope)] /\ got' = [got EXCEPT ![r] = Append(@, env)]
          BY DEF received, TypeOK
        <4>2. Append(got[r], env) \in Seq(Envelope)  BY <4>1
        <4>. QED  BY <4>1, <4>2
      <3>2. PICK next \in {"recv", "drain"} : SetReader(r, [reader[r] EXCEPT !.pc = next, !.at = 0])
        BY Zenon DEF received
      <3>3. [reader[r] EXCEPT !.pc = next, !.at = 0] \in Running
        BY <3>2, Zenon DEF Running, Blocked
      <3>4. [reader[r] EXCEPT !.pc = next, !.at = 0] \in Readers  BY <3>3 DEF Readers
      <3>. QED  BY <3>1, <3>2, <3>4, <2>SetReaderTypes

    \* Send, and the end of a session.
    <2>SendStep.
        ASSUME TypeOK, NEW r \in Reader, Send(r) \/ endSession(r)
        PROVE  TypeOK' /\ QueuesOnly /\ UNCHANGED <<tmap, active, link, call, drops>>
      <3>. USE <2>SendStep
      <3>1. /\ UNCHANGED <<tr, tmap, active, link, call, arrived, got, crashed, connects, drops, sessions>>
        BY DEF Send, endSession, bounds
      <3>2. reader' \in [Reader -> Readers]
        <4>1. CASE Send(r)
          <5>1. PICK c \in {"cycle", "failed", "recv"} : SetReader(r, [reader[r] EXCEPT !.pc = c])
            BY <4>1 DEF Send
          <5>2. reader[r] \in Running  BY <4>1, ReaderKinds DEF Send
          <5>3. [reader[r] EXCEPT !.pc = c] \in Readers  BY <5>1, <5>2 DEF Running, Readers
          <5>. QED  BY <5>1, <5>3, <2>SetReaderTypes
        <4>2. CASE endSession(r)
          <5>1. SetReader(r, FreeReader) /\ FreeReader \in Readers  BY <4>2 DEF endSession, Readers
          <5>. QED  BY <5>1, <2>SetReaderTypes
        <4>. QED  BY <4>1, <4>2
      <3>3. TransportsOK(tr') /\ QueuesOnly  BY <3>1, <1>SameTransports
      <3>. QED  BY <3>1, <3>2, <3>3, <2>SessionTypes DEF TypeOK

    \* A new session gets a mapped peer, the active one if there is one.
    <2>StartStep.
        ASSUME TypeOK, NEW r \in Reader, startSession(r)
        PROVE  /\ TypeOK' /\ QueuesOnly /\ UNCHANGED <<tr, tmap, link, call, drops>>
               /\ active' \in Link /\ tmap[active'] # 0
               /\ active \in Mapped(tmap) => active' = active
      <3>. USE <2>StartStep
      <3>. DEFINE p == pickSurvivor(tmap, active)
      <3>1. /\ Mapped(tmap) # {} /\ sessions' = sessions + 1 /\ active' = p
            /\ SetReader(r, [pc |-> "send", peer |-> p, tr |-> tmap[p], at |-> 0, registered |-> TRUE])
            /\ got' = [got EXCEPT ![r] = <<>>]
            /\ UNCHANGED <<tr, tmap, link, call, arrived, crashed, connects, drops>>
        BY DEF startSession
      <3>2. p \in Mapped(tmap) /\ p \in Link /\ (active \in Mapped(tmap) => p = active)
        BY <3>1, SurvivorIsMapped
      <3>. HIDE DEF p
      <3>3. tmap[p] # 0 /\ tmap[p] \in 0 .. Len(tr) /\ DOMAIN tr = 1 .. Len(tr) /\ Len(tr) \in Nat
        BY <3>2 DEF Mapped, TypeOK
      <3>4. tmap[p] \in DOMAIN tr  BY <3>3
      <3>5. [pc |-> "send", peer |-> p, tr |-> tmap[p], at |-> 0, registered |-> TRUE] \in Readers
        BY <3>2, <3>4 DEF Running, Readers
      <3>6. reader' \in [Reader -> Readers]  BY <3>1, <3>5, <2>SetReaderTypes
      <3>7. got' \in [Reader -> Seq(Envelope)]
        <4>1. <<>> \in Seq(Envelope) /\ got \in [Reader -> Seq(Envelope)]  BY DEF TypeOK
        <4>. QED  BY <3>1, <4>1
      <3>8. TransportsOK(tr') /\ QueuesOnly  BY <3>1, <1>SameTransports
      <3>9. sessions' \in Nat  BY <3>1 DEF TypeOK
      <3>10. TypeOK'  BY <3>1, <3>2, <3>6, <3>7, <3>8, <3>9, <2>SessionTypes
      <3>. QED  BY <3>1, <3>2, <3>3, <3>8, <3>10

    \* Recv, before it blocks.
    <2>RecvStep.
        ASSUME TypeOK, NEW r \in Reader, Recv(r)
        PROVE  TypeOK' /\ QueuesOnly /\ UNCHANGED <<tmap, active, link, call, drops>>
      <3>. USE <2>RecvStep
      <3>. DEFINE t == reader[r].tr
      <3>1. /\ reader[r].pc = "recv"
            /\ UNCHANGED <<tmap, active, link, call, arrived, crashed, connects, drops, sessions>>
        BY DEF Recv, bounds
      <3>2. reader[r] \in Running /\ t \in DOMAIN tr  BY <3>1, ReaderKinds
      <3>3. TransportsOK(tr') /\ QueuesOnly /\ reader' \in [Reader -> Readers]
            /\ got' \in [Reader -> Seq(Envelope)]
        <4>1. CASE PutBackOn(t) # {} /\ received(r, Head(tr[FirstPutBack(t)].preRecv))
                   /\ tr' = [tr EXCEPT ![FirstPutBack(t)].preRecv = Tail(@)]
          <5>. DEFINE u == FirstPutBack(t)
          <5>1. u \in DOMAIN tr /\ tr[u].preRecv # <<>>  BY <3>2, <4>1, RootIsThere
          <5>. HIDE DEF u
          <5>2. tr[u].preRecv \in Seq(Envelope)  BY <5>1, Queues, Zenon
          <5>3. Head(tr[u].preRecv) \in Envelope  BY <5>1, <5>2
          <5>4. tr' = [tr EXCEPT ![u].preRecv = Tail(@)] /\ received(r, Head(tr[u].preRecv))
            BY <4>1 DEF u
          <5>5. TransportsOK(tr') /\ QueuesOnly  BY <5>1, <5>4, <2>TakeOne, Zenon
          <5>6. reader' \in [Reader -> Readers] /\ got' \in [Reader -> Seq(Envelope)]
            BY <3>2, <5>3, <5>4, <2>ReceivedTypes
          <5>. QED  BY <5>5, <5>6
        <4>2. CASE /\ UNCHANGED <<tr, got>>
                   /\ SetReader(r, IF Cyclic(t) THEN [reader[r] EXCEPT !.pc = "cycle"]
                              ELSE [reader[r] EXCEPT !.pc = "blocked", !.at = delegateRoot(t)])
          <5>1. delegateRoot(t) \in DOMAIN tr  BY <3>2, RootIsThere
          <5>2. PICK d \in DOMAIN tr : d = delegateRoot(t)  BY <5>1
          <5>3. [reader[r] EXCEPT !.pc = "cycle"] \in Readers  BY <3>2 DEF Running, Readers
          <5>4. [reader[r] EXCEPT !.pc = "blocked", !.at = d] \in Readers
            BY <3>2, <5>2, Zenon DEF Running, Blocked, Readers
          <5>5. \E x \in Readers : SetReader(r, x)  BY <4>2, <5>2, <5>3, <5>4
          <5>6. reader' \in [Reader -> Readers]  BY <5>5, <2>SetReaderTypes
          <5>. QED  BY <4>2, <5>6, <1>SameTransports DEF TypeOK
        <4>. QED  BY <4>1, <4>2 DEF Recv
      <3>. QED  BY <3>1, <3>3, <2>SessionTypes DEF TypeOK

    \* Recv, when an envelope comes or the channel is closed.
    <2>RecvChannelStep.
        ASSUME TypeOK, NEW r \in Reader, RecvChannel(r)
        PROVE  TypeOK' /\ QueuesOnly /\ UNCHANGED <<tmap, active, link, call, drops>>
      <3>. USE <2>RecvChannelStep
      <3>. DEFINE u == reader[r].at
      <3>1. /\ reader[r].pc = "blocked"
            /\ UNCHANGED <<tmap, active, link, call, arrived, crashed, connects, drops, sessions>>
        BY DEF RecvChannel, bounds
      <3>2. reader[r] \in Blocked  BY <3>1, ReaderKinds
      <3>3. u \in DOMAIN tr  BY <3>2 DEF Blocked
      <3>4. tr[u].incoming \in Seq(Envelope)  BY <3>3, Queues, Zenon
      <3>5. TransportsOK(tr') /\ QueuesOnly /\ reader' \in [Reader -> Readers]
            /\ got' \in [Reader -> Seq(Envelope)]
        <4>1. CASE /\ tr[u].incoming # <<>> /\ received(r, Head(tr[u].incoming))
                   /\ tr' = [tr EXCEPT ![u].incoming = Tail(@)]
          <5>1. Head(tr[u].incoming) \in Envelope  BY <3>4, <4>1
          <5>2. TransportsOK(tr') /\ QueuesOnly  BY <3>3, <4>1, <2>TakeOne, Zenon
          <5>. QED  BY <3>2, <4>1, <5>1, <5>2, <2>ReceivedTypes
        <4>2. CASE SetReader(r, [reader[r] EXCEPT !.pc = "closed"]) /\ UNCHANGED <<tr, got>>
          <5>1. [reader[r] EXCEPT !.pc = "closed"] \in Readers  BY <3>2 DEF Blocked, Running, Readers
          <5>2. reader' \in [Reader -> Readers]  BY <4>2, <5>1, <2>SetReaderTypes
          <5>. QED  BY <4>2, <5>2, <1>SameTransports DEF TypeOK
        <4>. QED  BY <4>1, <4>2 DEF RecvChannel
      <3>. QED  BY <3>1, <3>5, <2>SessionTypes DEF TypeOK

    \* TryRecv of a session that has its chunks.
    <2>TryRecvStep.
        ASSUME TypeOK, NEW r \in Reader, TryRecv(r)
        PROVE  TypeOK' /\ QueuesOnly /\ UNCHANGED <<tmap, active, link, call, drops>>
      <3>. USE <2>TryRecvStep
      <3>. DEFINE t == reader[r].tr
                  u == IF PutBackOn(t) # {} THEN FirstPutBack(t) ELSE delegateRoot(t)
                  q == tr[u].preRecv \o tr[u].incoming
      <3>1. /\ reader[r].pc = "drain"
            /\ UNCHANGED <<tmap, active, link, call, arrived, crashed, connects, drops, sessions>>
        BY Zenon DEF TryRecv, bounds
      <3>2. reader[r] \in Running /\ t \in DOMAIN tr  BY <3>1, ReaderKinds
      <3>3. u \in DOMAIN tr /\ (PutBackOn(t) # {} => tr[u].preRecv # <<>>)  BY <3>2, RootIsThere
      <3>4. \/ SetReader(r, [reader[r] EXCEPT !.pc = "done"]) /\ UNCHANGED <<tr, got>>
            \/ /\ PutBackOn(t) # {} \/ q # <<>>
               /\ tr' = [tr EXCEPT ![u].preRecv = IF @ # <<>> THEN Tail(@) ELSE @,
                                   ![u].incoming = IF tr[u].preRecv # <<>> THEN @ ELSE Tail(@)]
               /\ \/ got' = [got EXCEPT ![r] = Append(@, Head(q))] /\ UNCHANGED reader
                  \/ /\ SetReader(r, [pc |-> "putback", peer |-> reader[r].peer, tr |-> t,
                                      at |-> 0, registered |-> reader[r].registered,
                                      env |-> Head(q)])
                     /\ UNCHANGED got
        BY Zenon DEF TryRecv
      <3>. HIDE DEF u
      <3>5. /\ tr[u] \in Transport /\ tr[u].preRecv \in Seq(Envelope) /\ tr[u].incoming \in Seq(Envelope)
            /\ Len(tr[u].incoming) <= QueueCap /\ QueueCap \in Nat
        BY <3>3, Queues, QueueAssumption, Zenon
      <3>6. q \in Seq(Envelope)  BY <3>5
      <3>7. TransportsOK(tr') /\ QueuesOnly /\ reader' \in [Reader -> Readers]
            /\ got' \in [Reader -> Seq(Envelope)]
        <4>1. CASE SetReader(r, [reader[r] EXCEPT !.pc = "done"]) /\ UNCHANGED <<tr, got>>
          <5>1. [reader[r] EXCEPT !.pc = "done"] \in Readers  BY <3>2 DEF Running, Readers
          <5>2. reader' \in [Reader -> Readers]  BY <4>1, <5>1, <2>SetReaderTypes
          <5>. QED  BY <4>1, <5>2, <1>SameTransports DEF TypeOK
        <4>2. ASSUME PutBackOn(t) # {} \/ q # <<>>,
                     tr' = [tr EXCEPT ![u].preRecv = IF @ # <<>> THEN Tail(@) ELSE @,
                                   ![u].incoming = IF tr[u].preRecv # <<>> THEN @ ELSE Tail(@)],
                     \/ got' = [got EXCEPT ![r] = Append(@, Head(q))] /\ UNCHANGED reader
                     \/ /\ SetReader(r, [pc |-> "putback", peer |-> reader[r].peer, tr |-> t,
                                      at |-> 0, registered |-> reader[r].registered,
                                      env |-> Head(q)])
                        /\ UNCHANGED got
              PROVE  TransportsOK(tr') /\ QueuesOnly /\ reader' \in [Reader -> Readers]
                     /\ got' \in [Reader -> Seq(Envelope)]
          <5>. DEFINE in == IF tr[u].preRecv # <<>> THEN tr[u].incoming ELSE Tail(tr[u].incoming)
                      pre == IF tr[u].preRecv # <<>> THEN Tail(tr[u].preRecv) ELSE tr[u].preRecv
          <5>1. q # <<>> /\ (tr[u].preRecv = <<>> => tr[u].incoming # <<>>)
            BY <3>3, <3>5, <4>2
          <5>2. in \in Seq(Envelope) /\ pre \in Seq(Envelope) /\ Len(in) <= QueueCap
            BY <3>5, <5>1
          <5>3. tr' = [tr EXCEPT ![u] = [tr[u] EXCEPT !.incoming = in, !.preRecv = pre]]
            <6>1. [[tr[u] EXCEPT !.preRecv = pre] EXCEPT !.incoming = in]
                    = [tr[u] EXCEPT !.incoming = in, !.preRecv = pre]
              <7>. HIDE DEF in, pre
              <7>. QED  BY <3>5, Zenon DEF Transport
            <6>2. tr' = [tr EXCEPT ![u] = [[tr[u] EXCEPT !.preRecv = pre] EXCEPT !.incoming = in]]
              BY <3>3, <3>5, <4>2, Zenon DEF Transport
            <6>. HIDE DEF in, pre
            <6>. QED  BY <6>1, <6>2, Zenon
          <5>. HIDE DEF in, pre
          <5>4. TransportsOK(tr') /\ QueuesOnly  BY <3>3, <5>2, <5>3, <1>QueueUpdate, Zenon
          <5>. HIDE DEF q
          <5>5. Head(q) \in Envelope  BY <3>6, <5>1
          <5>6. CASE got' = [got EXCEPT ![r] = Append(@, Head(q))] /\ UNCHANGED reader
            <6>1. got \in [Reader -> Seq(Envelope)]  BY DEF TypeOK
            <6>2. Append(got[r], Head(q)) \in Seq(Envelope)  BY <5>5, <6>1
            <6>3. got' \in [Reader -> Seq(Envelope)]  BY <5>6, <6>1, <6>2
            <6>. QED  BY <5>4, <5>6, <6>3 DEF TypeOK, Readers
          <5>7. CASE SetReader(r, [pc |-> "putback", peer |-> reader[r].peer, tr |-> t,
                                   at |-> 0, registered |-> reader[r].registered,
                                   env |-> Head(q)]) /\ UNCHANGED got
            <6>1. reader[r].peer \in Link /\ reader[r].registered \in BOOLEAN  BY <3>1, ReaderKinds
            <6>2. [pc |-> "putback", peer |-> reader[r].peer, tr |-> t, at |-> 0,
                   registered |-> reader[r].registered, env |-> Head(q)] \in Readers
              BY <3>2, <5>5, <6>1 DEF Holding, Readers
            <6>3. reader' \in [Reader -> Readers]  BY <5>7, <6>2, <2>SetReaderTypes
            <6>. QED  BY <5>4, <5>7, <6>3 DEF TypeOK
          <5>. QED  BY <4>2, <5>6, <5>7
        <4>. QED  BY <3>4, <4>1, <4>2, Zenon
      <3>. QED  BY <3>1, <3>7, <2>SessionTypes DEF TypeOK

    \* PutBack at the end of a session.
    <2>PutBackStep.
        ASSUME TypeOK, NEW r \in Reader, PutBack(r)
        PROVE  TypeOK' /\ QueuesOnly /\ UNCHANGED <<tmap, active, link, call, drops>>
      <3>. USE <2>PutBackStep
      <3>. DEFINE t == reader[r].tr
                  u == delegateRoot(t)
      <3>1. /\ reader[r].pc = "putback"
            /\ tr' = IF Cyclic(t) THEN tr ELSE [tr EXCEPT ![u].preRecv = <<reader[r].env>> \o @]
            /\ SetReader(r, [pc |-> "done", peer |-> reader[r].peer, tr |-> reader[r].tr, at |-> 0,
                             registered |-> reader[r].registered])
            /\ UNCHANGED <<tmap, active, link, call, arrived, got, crashed, connects, drops, sessions>>
        BY DEF PutBack, bounds
      <3>2. reader[r] \in Holding /\ t \in DOMAIN tr /\ reader[r].env \in Envelope
        BY <3>1, ReaderKinds DEF Holding
      <3>3. u \in DOMAIN tr  BY <3>2, RootIsThere
      <3>. HIDE DEF u
      <3>4. TransportsOK(tr') /\ QueuesOnly
        <4>1. CASE tr' = tr  BY <4>1, <1>SameTransports
        <4>2. CASE tr' = [tr EXCEPT ![u].preRecv = <<reader[r].env>> \o @]
          <5>. DEFINE pre == <<reader[r].env>> \o tr[u].preRecv
          <5>1. /\ tr[u] \in Transport /\ tr[u].incoming \in Seq(Envelope)
                /\ tr[u].preRecv \in Seq(Envelope) /\ Len(tr[u].incoming) <= QueueCap
            BY <3>3, Queues, Zenon
          <5>2. pre \in Seq(Envelope)
            <6>1. \A e \in Envelope : <<e>> \in Seq(Envelope)  OBVIOUS
            <6>2. <<reader[r].env>> \in Seq(Envelope)  BY <3>2, <6>1
            <6>. QED  BY <5>1, <6>2
          <5>3. [tr[u] EXCEPT !.incoming = tr[u].incoming, !.preRecv = pre] = [tr[u] EXCEPT !.preRecv = pre]
            BY <5>1, Zenon DEF Transport
          <5>4. tr' = [tr EXCEPT ![u] = [tr[u] EXCEPT !.incoming = tr[u].incoming, !.preRecv = pre]]
            BY <4>2, <5>3, Zenon
          <5>. HIDE DEF pre
          <5>. QED  BY <3>3, <5>1, <5>2, <5>4, <1>QueueUpdate, Zenon
        <4>. QED  BY <3>1, <4>1, <4>2
      <3>5. [pc |-> "done", peer |-> reader[r].peer, tr |-> reader[r].tr, at |-> 0,
             registered |-> reader[r].registered] \in Readers
        BY <3>2 DEF Holding, Running, Readers
      <3>6. reader' \in [Reader -> Readers]  BY <3>1, <3>5, <2>SetReaderTypes
      <3>. QED  BY <3>1, <3>4, <3>6, <2>SessionTypes DEF TypeOK
    <2>. SUFFICES ASSUME NEW r \in Reader, Inv, SessionThread(r) PROVE Inv' /\ QueuesOnly
      OBVIOUS
    <2>1. TypeOK /\ Merging  BY DEF Inv
    <2>2. CASE startSession(r)
      <3>1. /\ TypeOK' /\ QueuesOnly /\ UNCHANGED <<tmap, link, call, drops>>
            /\ active' \in Link /\ tmap[active'] # 0
            /\ active \in Mapped(tmap) => active' = active
        BY <2>1, <2>2, <2>StartStep
      <3>2. active' = active \/ active = 0  BY <2>1, <3>1, <1>ActiveIsMapped
      <3>. QED  BY <3>1, <3>2, <1>QueueStepKeeps
    <2>3. CASE ~startSession(r)
      <3>1. TypeOK' /\ QueuesOnly /\ UNCHANGED <<tmap, active, link, call, drops>>
        BY <2>1, <2>3, <2>SendStep, <2>RecvStep, <2>RecvChannelStep, <2>TryRecvStep, <2>PutBackStep DEF SessionThread
      <3>. QED  BY <3>1, <1>QueueStepKeeps
    <2>. QED  BY <2>2, <2>3

  \* What a link thread may change, typed, gives the type invariant.
  <1>LinkTypes.
      ASSUME TypeOK, TransportsOK(tr'), Len(tr) <= Len(tr'), DOMAIN tr \subseteq DOMAIN tr',
             tmap' \in [Link -> 0 .. Len(tr')], active' \in Link \cup {0},
             link' \in [Link -> {"new", "up", "down"}],
             NEW p \in Link, NEW c \in Calls', SetCall(p, c),
             reader' \in [Reader -> Readers'], arrived' \in [Link -> 0 .. MaxEnvelopes], got' = got,
             crashed' \in BOOLEAN, connects' \in Nat, drops' \in Nat, sessions' \in Nat
      PROVE  TypeOK' /\ call'[p] = c /\ \A q \in Link : q # p => call'[q] = call[q]
    <2>. USE <1>LinkTypes
    <2>1. Len(tr) \in Nat /\ Len(tr') \in Nat  BY Plain, LengthOf, Zenon
    <2>2. Calls \subseteq Calls'  BY <2>1, <1>TypesGrow
    <2>3. call \in [Link -> Calls] /\ call' = [call EXCEPT ![p] = c]
      BY DEF TypeOK, Calls, SetCall
    <2>4. call' \in [Link -> Calls'] /\ call'[p] = c /\ \A q \in Link : q # p => call'[q] = call[q]
      BY <2>2, <2>3
    <2>. QED  BY <2>4, Zenon DEF TypeOK, TransportsOK, Calls, Readers

  \* Readers that stay as they are keep their types.
  <1>ReadersStay.
      ASSUME TypeOK, Len(tr') \in Nat, Len(tr) <= Len(tr'), DOMAIN tr \subseteq DOMAIN tr',
             reader' = reader
      PROVE  reader' \in [Reader -> Readers']
    <2>. USE <1>ReadersStay
    <2>1. Readers \subseteq Readers'
      <3>1. Len(tr) \in Nat  BY DEF TypeOK
      <3>. QED  BY <3>1, <1>TypesGrow
    <2>2. reader \in [Reader -> Readers]  BY DEF TypeOK, Readers
    <2>. QED  BY <2>1, <2>2

  \* What has to be seen of a step for Joining to survive it.
  <1>JoiningFrom.
      ASSUME TypeOK, Merging, Joining,
             DOMAIN tr \subseteq DOMAIN tr', \A t \in DOMAIN tr : tr'[t].peer = tr[t].peer,
             \A t \in DOMAIN tr : Settled(t) => Settled(t)',
             \A t \in DOMAIN tr' : tmap'[tr'[t].peer] = t,
             \A p \in Link : call'[p].pc \in {"link", "close"} =>
               /\ \/ /\ call[p].pc \in {"link", "close"} /\ call'[p].surv = call[p].surv
                     /\ call'[p].old = call[p].old /\ call'[p].todo \subseteq call[p].todo
                  \/ /\ call'[p].old = 0 /\ Settled(call[p].surv)'
                     /\ \A t \in call'[p].todo : tr'[t].peer < tr'[call'[p].surv].peer
               /\ call'[p].pc = "close" => call'[p].cur \in call'[p].todo,
             \A t \in DOMAIN tr' : tr'[t].delegate # 0 =>
               \/ t \in DOMAIN tr /\ tr'[t].delegate = tr[t].delegate
               \/ \E p \in Link : /\ call[p].pc \in {"link", "close"} /\ t \in call[p].todo
                                  /\ tr'[t].delegate = call[p].surv,
             \A p \in Link : link'[p] = "up" /\ call'[p].pc # "pick" =>
               \/ link[p] = "up" /\ call[p].pc # "pick" /\ tmap'[p] = tmap[p]
               \/ Settled(tmap[p])'
      PROVE  Joining'
    <2>. USE <1>JoiningFrom
    <2>1. Len(tr) \in Nat /\ DOMAIN tr = 1 .. Len(tr)  BY DEF TypeOK
    <2>2. \A p \in Link : call[p].pc \in {"link", "close"} =>
              call[p].surv \in DOMAIN tr /\ call[p].todo \subseteq DOMAIN tr
      BY CallKinds DEF Linking
    <2>3. ASSUME NEW p \in Link, call'[p].pc \in {"link", "close"}
          PROVE  /\ call'[p].old = 0 /\ Settled(call[p].surv)'
                 /\ \A t \in call'[p].todo : tr'[t].peer < tr'[call'[p].surv].peer
                 /\ call'[p].pc = "close" => call'[p].cur \in call'[p].todo
      <3>1. CASE /\ call[p].pc \in {"link", "close"} /\ call'[p].surv = call[p].surv
                 /\ call'[p].old = call[p].old /\ call'[p].todo \subseteq call[p].todo
        <4>1. PICK s : s = call[p].surv  OBVIOUS
        <4>2. s \in DOMAIN tr /\ Settled(s) /\ call[p].old = 0 /\ call[p].todo \subseteq DOMAIN tr
              /\ \A t \in call[p].todo : tr[t].peer < tr[s].peer
          BY <2>2, <3>1, <4>1 DEF Joining
        <4>3. Settled(s)' /\ call'[p].surv = s  BY <3>1, <4>1, <4>2
        <4>4. Settled(call[p].surv)'  BY <4>3 DEF Settled
        <4>5. \A t \in call'[p].todo : tr'[t].peer < tr'[s].peer  BY <3>1, <4>2
        <4>. QED  BY <2>3, <3>1, <4>2, <4>3, <4>4, <4>5
      <3>2. CASE ~(/\ call[p].pc \in {"link", "close"} /\ call'[p].surv = call[p].surv
                   /\ call'[p].old = call[p].old /\ call'[p].todo \subseteq call[p].todo)
        BY <2>3, <3>2
      <3>. QED  BY <3>1, <3>2
    <2>4. ASSUME NEW t \in DOMAIN tr', tr'[t].delegate # 0
          PROVE  Settled(tr[t].delegate)' /\ tr'[t].peer < tr'[tr'[t].delegate].peer
      <3>1. PICK d : d = tr'[t].delegate  OBVIOUS
      <3>2. d \in DOMAIN tr /\ t \in DOMAIN tr /\ Settled(d) /\ tr[t].peer < tr[d].peer
        <4>1. CASE t \in DOMAIN tr /\ d = tr[t].delegate
          <5>1. d \in 0 .. Len(tr) /\ d # 0  BY <2>4, <3>1, <4>1 DEF TypeOK
          <5>2. d \in DOMAIN tr  BY <2>1, <5>1, NotZero, Zenon
          <5>. QED  BY <4>1, <5>1, <5>2 DEF Joining
        <4>2. CASE \E p \in Link : /\ call[p].pc \in {"link", "close"} /\ t \in call[p].todo
                                   /\ d = call[p].surv
          BY <2>2, <4>2 DEF Joining
        <4>. QED  BY <2>4, <3>1, <4>1, <4>2
      <3>3. Settled(d)'  BY <3>2
      <3>. QED  BY <3>1, <3>2, <3>3 DEF Settled
    <2>5. ASSUME NEW p \in Link, link'[p] = "up", call'[p].pc # "pick"
          PROVE  Settled(tmap[p])'
      <3>1. CASE link[p] = "up" /\ call[p].pc # "pick" /\ tmap'[p] = tmap[p]
        <4>1. PICK s : s = tmap[p]  OBVIOUS
        <4>2. s \in 0 .. Len(tr) /\ s # 0  BY <3>1, <4>1 DEF Merging, TypeOK
        <4>3. s \in DOMAIN tr  BY <2>1, <4>2, NotZero, Zenon
        <4>4. Settled(s)  BY <3>1, <4>1, Zenon DEF Joining
        <4>5. Settled(s)'  BY <4>3, <4>4
        <4>. QED  BY <3>1, <4>1, <4>5 DEF Settled
      <3>2. CASE ~(link[p] = "up" /\ call[p].pc # "pick" /\ tmap'[p] = tmap[p])
        BY <2>5, <3>2
      <3>. QED  BY <3>1, <3>2
    <2>. QED  BY <2>3, <2>4, <2>5 DEF Joining

  \* enqueue, both halves.
  <1>EnqueueKeeps.
      ASSUME Inv, NEW p \in Link, enqueueRoot(p) \/ enqueueLocked(p)
      PROVE  Inv' /\ QueuesOnly
    <2>. USE <1>EnqueueKeeps
    <2>1. TypeOK  BY DEF Inv
    <2>2. /\ call[p].pc \in {"root", "enqueue"}
          /\ UNCHANGED <<tmap, active, link, reader, arrived, got, connects, drops, sessions>>
      BY DEF enqueueRoot, enqueueLocked, bounds
    <2>3. call[p] \in Queueing  BY <2>1, <2>2, CallKinds
    <2>4. call[p].to \in DOMAIN tr /\ call[p].env \in Envelope  BY <2>3 DEF Queueing
    <2>5. TransportsOK(tr') /\ QueuesOnly /\ crashed' \in BOOLEAN
      <3>1. CASE tr' = tr  BY <2>1, <3>1, <1>SameTransports, Zenon DEF enqueueRoot, enqueueLocked, TypeOK
      <3>2. CASE tr' # tr
        <4>. DEFINE u == call[p].to
                    in == Newest(Append(tr[u].incoming, call[p].env))
        <4>1. tr' = [tr EXCEPT ![u].incoming = in] /\ UNCHANGED crashed
          BY <3>2 DEF enqueueRoot, enqueueLocked
        <4>2. /\ tr[u] \in Transport /\ tr[u].incoming \in Seq(Envelope) /\ tr[u].preRecv \in Seq(Envelope)
          BY <2>1, <2>4, Queues, Zenon
        <4>3. in \in Seq(Envelope) /\ Len(in) <= QueueCap
          <5>1. Append(tr[u].incoming, call[p].env) \in Seq(Envelope)  BY <2>4, <4>2
          <5>. QED  BY <5>1, <1>NewestFits, Zenon
        <4>. HIDE DEF in
        <4>4. [tr[u] EXCEPT !.incoming = in, !.preRecv = tr[u].preRecv] = [tr[u] EXCEPT !.incoming = in]
          BY <4>2, Zenon DEF Transport
        <4>5. tr' = [tr EXCEPT ![u] = [tr[u] EXCEPT !.incoming = in, !.preRecv = tr[u].preRecv]]
          BY <4>1, <4>4, Zenon
        <4>6. TransportsOK(tr') /\ QueuesOnly  BY <2>1, <2>4, <4>2, <4>3, <4>5, <1>QueueUpdate, Zenon
        <4>. QED  BY <2>1, <4>1, <4>6 DEF TypeOK
      <3>. QED  BY <3>1, <3>2
    <2>6. PICK c \in Calls : SetCall(p, c) /\ c.pc \in {"enqueue", "idle"}
      <3>1. IdleCall \in Calls /\ IdleCall.pc = "idle"  BY DEF Calls, IdleCall
      <3>2. CASE enqueueRoot(p)
        <4>. DEFINE d == delegateRoot(call[p].to)
        <4>1. d \in DOMAIN tr  BY <2>1, <2>4, RootIsThere
        <4>2. \/ SetCall(p, IdleCall) \/ SetCall(p, [call[p] EXCEPT !.pc = "enqueue", !.to = d])
          BY <3>2 DEF enqueueRoot
        <4>. HIDE DEF d
        <4>3. /\ [call[p] EXCEPT !.pc = "enqueue", !.to = d] \in Calls
              /\ [call[p] EXCEPT !.pc = "enqueue", !.to = d].pc = "enqueue"
          BY <2>3, <4>1, Zenon DEF Queueing, Calls
        <4>. QED  BY <3>1, <4>2, <4>3, Zenon
      <3>3. CASE enqueueLocked(p)
        BY <3>1, <3>3 DEF enqueueLocked
      <3>. QED  BY <3>2, <3>3
    <2>7. Len(tr') = Len(tr) /\ DOMAIN tr' = DOMAIN tr /\ Len(tr) \in Nat
      BY <2>1, <2>5 DEF QueuesOnly, TypeOK
    <2>8. Calls \subseteq Calls' /\ reader' \in [Reader -> Readers']
      BY <2>1, <2>2, <2>7, <1>TypesGrow, <1>ReadersStay
    <2>9. c \in Calls'  BY <2>6, <2>8
    <2>10. TypeOK' /\ call'[p] = c /\ \A q \in Link : q # p => call'[q] = call[q]
      <3>1. /\ tmap' \in [Link -> 0 .. Len(tr')] /\ active' \in Link \cup {0}
            /\ link' \in [Link -> {"new", "up", "down"}] /\ arrived' \in [Link -> 0 .. MaxEnvelopes]
            /\ got' = got /\ connects' \in Nat /\ drops' \in Nat /\ sessions' \in Nat
            /\ Len(tr) <= Len(tr')
        BY <2>1, <2>2, <2>7, Plain, Zenon
      <3>. QED  BY <2>1, <2>5, <2>6, <2>7, <2>8, <2>9, <3>1, <1>LinkTypes
    <2>11. \A q \in Link :
             \/ call'[q] = call[q]
             \/ call[q].pc \in {"root", "enqueue"} /\ call'[q].pc \in {"enqueue", "idle"}
      BY <2>2, <2>6, <2>10
    <2>. QED  BY <2>2, <2>5, <2>10, <2>11, <1>QueueStepKeeps

  \* ml_on_peer_connected, its first critical section, and the arrival of an
  \* envelope.
  <1>ArrivalKeeps.
      \A p \in Link : Inv /\ (peerConnected(p) \/ dataReceived(p)) =>
        Inv' /\ \A t \in DOMAIN tr : tr'[t] = tr[t]

      \* ensurePeerTransport keeps the transports there are and maps the peer.
    <2>EnsureFacts.
        ASSUME TypeOK, NEW p \in Link, ensurePeerTransport(p)
        PROVE  /\ TransportsOK(tr') /\ Len(tr) <= Len(tr') /\ DOMAIN tr \subseteq DOMAIN tr'
               /\ tmap' \in [Link -> 0 .. Len(tr')]
               /\ \A t \in DOMAIN tr : tr'[t] = tr[t]
               /\ \A t \in DOMAIN tr' \ DOMAIN tr :
                    /\ tmap[p] = 0 /\ t = tmap'[p] /\ tr'[t].peer = p /\ tr'[t].delegate = 0
                    /\ ~tr'[t].closed
               /\ tmap'[p] \in DOMAIN tr' /\ tmap'[p] # 0 /\ tmap'[p] = Ensured(p)
               /\ tmap[p] = 0 => tr'[tmap'[p]].peer = p
               /\ tmap[p] # 0 => tmap'[p] = tmap[p]
               /\ \A q \in Link : q # p => tmap'[q] = tmap[q]
      <3>. USE <2>EnsureFacts
      <3>1. /\ tr \in Seq(Transport) /\ Len(tr) \in Nat /\ DOMAIN tr = 1 .. Len(tr)
            /\ tmap \in [Link -> 0 .. Len(tr)] /\ tmap[p] \in 0 .. Len(tr)
        BY DEF TypeOK
      <3>2. tmap' = [tmap EXCEPT ![p] = Ensured(p)]  BY DEF ensurePeerTransport
      <3>3. tmap'[p] = Ensured(p) /\ \A q \in Link : q # p => tmap'[q] = tmap[q]  BY <3>1, <3>2
      <3>4. CASE tmap[p] # 0
        <4>1. tr' = tr /\ Ensured(p) = tmap[p]  BY <3>4 DEF ensurePeerTransport, Ensured
        <4>2. tmap' \in [Link -> 0 .. Len(tr')]  BY <3>1, <3>2, <4>1
        <4>3. TransportsOK(tr')  BY <4>1 DEF TypeOK, TransportsOK
        <4>4. tmap'[p] \in DOMAIN tr' /\ Len(tr) <= Len(tr')  BY <3>1, <3>3, <3>4, <4>1
        <4>. QED  BY <3>3, <3>4, <4>1, <4>2, <4>3, <4>4
      <3>5. CASE tmap[p] = 0
        <4>. DEFINE x == newCabiPeerTransport(p)
                    n == Len(tr) + 1
        <4>1. tr' = Append(tr, x) /\ Ensured(p) = n  BY <3>5 DEF ensurePeerTransport, Ensured
        <4>2. /\ x \in Transport /\ x.peer = p /\ x.delegate = 0 /\ x.closed = FALSE
              /\ x.incoming = <<>>
          BY DEF newCabiPeerTransport, Transport
        <4>. HIDE DEF x
        <4>3. /\ tr' \in Seq(Transport) /\ Len(tr') = n /\ DOMAIN tr' = 1 .. n /\ tr'[n] = x
              /\ \A t \in DOMAIN tr : tr'[t] = tr[t]
          BY <3>1, <4>1, <4>2
        <4>4. \A t \in DOMAIN tr' : t \in DOMAIN tr \/ t = n  BY <3>1, <4>3
        <4>5. TransportsOK(tr')
          <5>. SUFFICES ASSUME NEW t \in DOMAIN tr'
                        PROVE  tr'[t].delegate \in 0 .. Len(tr') /\ Len(tr'[t].incoming) <= QueueCap
            BY <4>3 DEF TransportsOK
          <5>1. CASE t \in DOMAIN tr
            <6>1. tr[t].delegate \in 0 .. Len(tr) /\ Len(tr[t].incoming) <= QueueCap
              BY <5>1 DEF TypeOK
            <6>. QED  BY <3>1, <4>3, <5>1, <6>1
          <5>2. CASE t = n
            BY <3>1, <4>2, <4>3, <5>2, QueueAssumption
          <5>. QED  BY <4>4, <5>1, <5>2
        <4>6. tmap' \in [Link -> 0 .. Len(tr')]
          <5>1. \A q \in Link : tmap'[q] \in 0 .. n  BY <3>1, <3>3, <4>1
          <5>. QED  BY <3>1, <3>2, <4>3, <5>1
        <4>7. /\ tmap'[p] = n /\ n \in DOMAIN tr' /\ n # 0 /\ n \notin DOMAIN tr
              /\ Len(tr) <= Len(tr') /\ DOMAIN tr \subseteq DOMAIN tr'
          BY <3>1, <3>3, <4>1, <4>3
        <4>. HIDE DEF n
        <4>. QED  BY <3>3, <3>5, <4>2, <4>3, <4>4, <4>5, <4>6, <4>7
      <3>. QED  BY <3>4, <3>5

    \* A handler that only maps its peer keeps the invariant.
    <2>EnsureKeeps.
        ASSUME Inv, TypeOK', NEW p \in Link, ensurePeerTransport(p),
               active' = active, drops' = drops, call[p] = IdleCall,
               \A q \in Link : q # p => call'[q] = call[q] /\ link'[q] = link[q],
               call'[p].pc = "pick" \/ (call'[p].pc = "root" /\ link'[p] = link[p])
        PROVE  Inv'
      <3>. USE <2>EnsureKeeps
      <3>1. TypeOK /\ Merging /\ (drops = 0 => Joining)  BY DEF Inv
      <3>2. /\ DOMAIN tr \subseteq DOMAIN tr' /\ \A t \in DOMAIN tr : tr'[t] = tr[t]
            /\ \A t \in DOMAIN tr' \ DOMAIN tr :
                  /\ tmap[p] = 0 /\ t = tmap'[p] /\ tr'[t].peer = p /\ tr'[t].delegate = 0
                  /\ ~tr'[t].closed
            /\ tmap'[p] \in DOMAIN tr' /\ tmap'[p] # 0
            /\ tmap[p] = 0 => tr'[tmap'[p]].peer = p
            /\ tmap[p] # 0 => tmap'[p] = tmap[p]
            /\ \A q \in Link : q # p => tmap'[q] = tmap[q]
        BY <3>1, <2>EnsureFacts
      <3>3. /\ Len(tr) \in Nat /\ DOMAIN tr = 1 .. Len(tr)
            /\ \A q \in Link : tmap[q] \in 0 .. Len(tr)
        BY <3>1 DEF TypeOK
      <3>4. \A q \in Link : tmap[q] # 0 => tmap[q] \in DOMAIN tr /\ tmap'[q] = tmap[q]
        BY <3>2, <3>3
      <3>5. call[p].pc = "idle"  BY DEF IdleCall
      <3>6. Merging'
        <4>1. \A q \in Link : tmap'[q] # 0 => tr'[tmap'[q]].peer = q
          <5>. SUFFICES ASSUME NEW q \in Link, tmap'[q] # 0 PROVE tr'[tmap'[q]].peer = q
            OBVIOUS
          <5>1. CASE tmap[q] # 0  BY <3>1, <3>2, <3>4, <5>1 DEF Merging
          <5>2. CASE tmap[q] = 0  BY <3>2, <5>2
          <5>. QED  BY <5>1, <5>2
        <4>2. \A q \in Link : link'[q] = "up" \/ call'[q].pc = "pick" => tmap'[q] # 0
          BY <3>1, <3>2 DEF Merging
        <4>3. ActiveHasTransport'
          <5>1. active # 0 => active \in Link /\ tmap[active] # 0
            BY <3>1 DEF Merging, ActiveHasTransport, TypeOK
          <5>. QED  BY <3>4, <5>1 DEF ActiveHasTransport
        <4>4. \A t \in DOMAIN tr' : tr'[t].closed <=> tr'[t].delegate # 0
          BY <3>1, <3>2 DEF Merging
        <4>5. \A q \in Link : call'[q].pc = "close" => call'[q] = call[q]  OBVIOUS
        <4>6. \A q \in Link : call'[q].pc = "close" =>
                call'[q].cur \in DOMAIN tr' /\ tr'[call'[q].cur].locked /\ ~tr'[call'[q].cur].closed
          <5>. SUFFICES ASSUME NEW q \in Link, call'[q].pc = "close"
                        PROVE  LET t == call'[q].cur IN t \in DOMAIN tr' /\ tr'[t].locked /\ ~tr'[t].closed
            BY Zenon
          <5>1. call'[q] = call[q] /\ call[q].pc = "close"  BY <4>5
          <5>2. PICK t : t = call[q].cur  BY Zenon
          <5>3. t \in DOMAIN tr /\ tr[t].locked /\ ~tr[t].closed  BY <3>1, <5>1, <5>2, Zenon DEF Merging
          <5>4. t \in DOMAIN tr' /\ tr'[t] = tr[t]  BY <3>2, <5>3
          <5>. QED  BY <5>1, <5>2, <5>3, <5>4, Zenon
        <4>7. \A q, s \in Link :
                call'[q].pc = "close" /\ call'[s].pc = "close" /\ call'[q].cur = call'[s].cur => q = s
          BY <3>1, <4>5 DEF Merging
        <4>. QED  BY <4>1, <4>2, <4>3, <4>4, <4>6, <4>7 DEF Merging
      <3>7. ASSUME drops' = 0 PROVE Joining'
        <4>1. Joining  BY <3>1, <3>7
        <4>2. \A t \in DOMAIN tr : Settled(t) => Settled(t)'
          <5>. SUFFICES ASSUME NEW t \in DOMAIN tr, Settled(t) PROVE Settled(t)'
            OBVIOUS
          <5>1. CASE active # 0 /\ t = tmap[active]
            <6>1. active \in Link /\ tmap[active] # 0
              BY <3>1, <5>1 DEF Merging, ActiveHasTransport, TypeOK
            <6>. QED  BY <3>4, <5>1, <6>1 DEF Settled
          <5>2. CASE tr[t].delegate # 0  BY <3>2, <5>2 DEF Settled
          <5>3. CASE \E q \in Link : call[q].pc \in {"link", "close"} /\ t \in call[q].todo
            <6>1. PICK q \in Link : call[q].pc \in {"link", "close"} /\ t \in call[q].todo  BY <5>3
            <6>2. q # p  BY <3>5, <6>1
            <6>3. call'[q] = call[q]  BY <6>2
            <6>. QED  BY <6>1, <6>3 DEF Settled
          <5>. QED  BY <5>1, <5>2, <5>3 DEF Settled
        <4>3. \A t \in DOMAIN tr' : tmap'[tr'[t].peer] = t
          <5>. SUFFICES ASSUME NEW t \in DOMAIN tr' PROVE tmap'[tr'[t].peer] = t
            OBVIOUS
          <5>1. CASE t \in DOMAIN tr
            <6>1. tmap[tr[t].peer] = t /\ tr[t].peer \in Link  BY <3>1, <4>1, <5>1, Queues, Zenon DEF Joining
            <6>2. t # 0  BY <3>3, <5>1
            <6>. QED  BY <3>2, <3>4, <5>1, <6>1, <6>2
          <5>2. CASE t \notin DOMAIN tr  BY <3>2, <5>2
          <5>. QED  BY <5>1, <5>2
        <4>4. \A q \in Link : call'[q].pc \in {"link", "close"} => q # p /\ call'[q] = call[q]
          OBVIOUS
        <4>5. \A q \in Link : call'[q].pc \in {"link", "close"} =>
                /\ call[q].pc \in {"link", "close"} /\ call'[q].surv = call[q].surv
                /\ call'[q].old = call[q].old /\ call'[q].todo \subseteq call[q].todo
                /\ call'[q].pc = "close" => call'[q].cur \in call'[q].todo
          BY <4>1, <4>4 DEF Joining
        <4>6. \A t \in DOMAIN tr' : tr'[t].delegate # 0 =>
                t \in DOMAIN tr /\ tr'[t].delegate = tr[t].delegate
          BY <3>2
        <4>7. \A q \in Link : link'[q] = "up" /\ call'[q].pc # "pick" =>
                link[q] = "up" /\ call[q].pc # "pick" /\ tmap'[q] = tmap[q]
          <5>. SUFFICES ASSUME NEW q \in Link, link'[q] = "up", call'[q].pc # "pick"
                        PROVE  link[q] = "up" /\ call[q].pc # "pick" /\ tmap'[q] = tmap[q]
            OBVIOUS
          <5>1. link[q] = "up" /\ call[q].pc # "pick"
            <6>1. CASE q = p  BY <3>5, <6>1
            <6>2. CASE q # p  BY <6>2
            <6>. QED  BY <6>1, <6>2
          <5>2. tmap[q] # 0  BY <3>1, <5>1 DEF Merging
          <5>. QED  BY <3>4, <5>1, <5>2
        <4>. QED  BY <3>1, <3>2, <4>1, <4>2, <4>3, <4>5, <4>6, <4>7, <1>JoiningFrom
      <3>. QED  BY <3>6, <3>7 DEF Inv
    <2>. SUFFICES ASSUME NEW p \in Link, Inv, peerConnected(p) \/ dataReceived(p)
                  PROVE  Inv' /\ \A t \in DOMAIN tr : tr'[t] = tr[t]
      OBVIOUS
    <2>1. TypeOK  BY DEF Inv
    <2>2. /\ ensurePeerTransport(p) /\ call[p] = IdleCall
          /\ UNCHANGED <<active, reader, got, crashed, drops, sessions>>
      BY DEF peerConnected, dataReceived, bounds
    <2>3. /\ TransportsOK(tr') /\ Len(tr) <= Len(tr') /\ DOMAIN tr \subseteq DOMAIN tr'
          /\ tmap' \in [Link -> 0 .. Len(tr')] /\ tmap'[p] \in DOMAIN tr' /\ tmap'[p] = Ensured(p)
          /\ \A t \in DOMAIN tr : tr'[t] = tr[t]
      BY <2>1, <2>2, <2>EnsureFacts
    <2>4. Len(tr') \in Nat  BY <2>3 DEF TransportsOK
    <2>5. reader' \in [Reader -> Readers']  BY <2>1, <2>2, <2>3, <2>4, <1>ReadersStay
    <2>6. /\ link \in [Link -> {"new", "up", "down"}] /\ arrived \in [Link -> 0 .. MaxEnvelopes]
          /\ {connects, drops, sessions} \subseteq Nat /\ crashed \in BOOLEAN /\ active \in Link \cup {0}
      BY <2>1 DEF TypeOK
    <2>7. CASE peerConnected(p)
      <3>1. /\ link' = [link EXCEPT ![p] = "up"] /\ connects' = connects + 1
            /\ SetCall(p, [pc |-> "pick"]) /\ arrived' = arrived
        BY <2>7, Zenon DEF peerConnected
      <3>2. [pc |-> "pick"] \in Calls' /\ link' \in [Link -> {"new", "up", "down"}] /\ connects' \in Nat
        BY <2>6, <3>1 DEF Calls
      <3>3. TypeOK' /\ call'[p] = [pc |-> "pick"] /\ \A q \in Link : q # p => call'[q] = call[q]
        BY <2>1, <2>2, <2>3, <2>5, <2>6, <3>1, <3>2, <1>LinkTypes
      <3>4. \A q \in Link : q # p => link'[q] = link[q]  BY <2>6, <3>1
      <3>5. call'[p].pc = "pick"  BY <3>3
      <3>. QED  BY <2>2, <2>3, <3>3, <3>4, <3>5, <2>EnsureKeeps, Zenon
    <2>8. CASE dataReceived(p)
      <3>. DEFINE c == [pc |-> "root", env |-> [from |-> p, n |-> arrived[p] + 1], to |-> Ensured(p)]
      <3>1. /\ link' = link /\ connects' = connects /\ arrived[p] < MaxEnvelopes
            /\ SetCall(p, c) /\ arrived' = [arrived EXCEPT ![p] = @ + 1]
        BY <2>8, Zenon DEF dataReceived, bounds
      <3>2. arrived[p] + 1 \in 0 .. MaxEnvelopes /\ arrived[p] + 1 \in Nat \ {0}
        BY <2>6, <3>1, BoundAssumption
      <3>3. arrived' \in [Link -> 0 .. MaxEnvelopes]  BY <2>6, <3>1, <3>2
      <3>4. c \in Calls'
        <4>1. [from |-> p, n |-> arrived[p] + 1] \in Envelope  BY <3>2 DEF Envelope
        <4>2. Ensured(p) \in DOMAIN tr'  BY <2>3
        <4>. QED  BY <4>1, <4>2 DEF Calls, Queueing
      <3>5. c.pc = "root"  OBVIOUS
      <3>. HIDE DEF c
      <3>6. TypeOK' /\ call'[p] = c /\ \A q \in Link : q # p => call'[q] = call[q]
        BY <2>1, <2>2, <2>3, <2>5, <2>6, <3>1, <3>3, <3>4, <1>LinkTypes, Zenon
      <3>. QED  BY <2>2, <2>3, <3>1, <3>5, <3>6, <2>EnsureKeeps
    <2>. QED  BY <2>7, <2>8

  \* What has to be seen of a step of link p for Merging to survive it.
  <1>MergingFrom.
      ASSUME TypeOK, Merging, DOMAIN tr' = DOMAIN tr, \A t \in DOMAIN tr : tr'[t].peer = tr[t].peer,
             \A t \in DOMAIN tr : tr'[t].closed <=> tr'[t].delegate # 0,
             UNCHANGED <<tmap, link>>, ActiveHasTransport', NEW p \in Link,
             \A q \in Link : q # p => call'[q] = call[q], call'[p].pc # "pick",
             \A q \in Link : q # p /\ call[q].pc = "close" =>
               /\ tr'[call[q].cur].locked /\ ~tr'[call[q].cur].closed
               /\ call'[p].pc = "close" => call'[p].cur # call[q].cur,
             call'[p].pc = "close" =>
               /\ call'[p].cur \in DOMAIN tr
               /\ tr'[call'[p].cur].locked /\ ~tr'[call'[p].cur].closed
      PROVE  Merging'
    <2>. USE <1>MergingFrom
    <2>1. \A q \in Link : tmap[q] # 0 => tmap[q] \in DOMAIN tr  BY <1>MappedIsMade, Zenon
    <2>2. \A q \in Link : tmap'[q] # 0 => tr'[tmap'[q]].peer = q  BY <2>1, Zenon DEF Merging
    <2>3. \A q \in Link : link'[q] = "up" \/ call'[q].pc = "pick" => tmap'[q] # 0  BY DEF Merging
    <2>4. \A q \in Link : call'[q].pc = "close" =>
            call'[q].cur \in DOMAIN tr' /\ tr'[call'[q].cur].locked /\ ~tr'[call'[q].cur].closed
      BY DEF Merging
    <2>5. \A q, s \in Link :
            call'[q].pc = "close" /\ call'[s].pc = "close" /\ call'[q].cur = call'[s].cur => q = s
      BY DEF Merging
    <2>. QED  BY <2>2, <2>3, <2>4, <2>5 DEF Merging

  \* A session bound to another peer, or out of the manager, is a session still.
  <1>ReaderRebound.
      ASSUME TypeOK, NEW r \in Reader, reader[r].pc # "free", NEW q \in Link
      PROVE  /\ [reader[r] EXCEPT !.peer = q] \in Readers
             /\ [reader[r] EXCEPT !.registered = FALSE] \in Readers
    <2>. USE <1>ReaderRebound
    <2>1. reader[r] \in Readers /\ reader[r] # FreeReader  BY ReaderKinds DEF FreeReader
    <2>2. CASE reader[r] \in Running  BY <2>2, Zenon DEF Running, Readers
    <2>3. CASE reader[r] \in Blocked  BY <2>3, Zenon DEF Blocked, Readers
    <2>4. CASE reader[r] \in Holding  BY <2>4, Zenon DEF Holding, Readers
    <2>. QED  BY <2>1, <2>2, <2>3, <2>4 DEF Readers

  \* After one transport the handler goes on with the rest.
  <1>LinkedGoesOn.
      ASSUME TypeOK, NEW p \in Link, call[p].pc \in {"link", "close"}, NEW t, linked(p, t),
             Len(tr') = Len(tr), DOMAIN tr' = DOMAIN tr
      PROVE  /\ reader' \in [Reader -> Readers']
             /\ \E c \in Calls' :
                  /\ SetCall(p, c) /\ c.pc = "link" /\ c.surv = call[p].surv
                  /\ call[p].old # t => c.old = call[p].old /\ c.todo = call[p].todo \ {t}
    <2>. USE <1>LinkedGoesOn
    <2>1. Len(tr) \in Nat /\ call[p] \in Linking  BY CallKinds DEF TypeOK
    <2>2. Linking' = Linking /\ Calls' = Calls /\ Readers' = Readers
      BY DEF Linking, Calls, Readers, Running, Blocked, Holding, Queueing
    <2>3. reader \in [Reader -> Readers]  BY DEF TypeOK, Readers
    <2>4. CASE call[p].old = t
      <3>. DEFINE c == [call[p] EXCEPT !.pc = "link", !.old = 0, !.cur = 0]
      <3>1. SetCall(p, c)  BY <2>4 DEF linked
      <3>2. c \in Linking /\ c.pc = "link" /\ c.surv = call[p].surv
        <4>1. 0 \in 0 .. Len(tr)  BY <2>1
        <4>. QED  BY <2>1, <4>1, Zenon DEF Linking
      <3>. HIDE DEF c
      <3>3. c \in Calls'  BY <2>2, <3>2 DEF Calls
      <3>4. PICK q : q = tr[call[p].surv].peer  OBVIOUS
      <3>5. q \in Link
        <4>1. call[p].surv \in DOMAIN tr  BY <2>1 DEF Linking
        <4>. QED  BY <3>4, <4>1, Queues, Zenon
      <3>6. reader' = [r \in Reader |->
              IF reader[r].pc # "free" /\ reader[r].registered /\ reader[r].peer = p
              THEN [reader[r] EXCEPT !.peer = q] ELSE reader[r]]
        BY <2>4, <3>4 DEF linked
      <3>7. \A r \in Reader : reader[r].pc # "free" => [reader[r] EXCEPT !.peer = q] \in Readers
        BY <3>5, <1>ReaderRebound, Zenon
      <3>8. reader' \in [Reader -> Readers]  BY <2>3, <3>6, <3>7
      <3>. QED  BY <2>2, <2>4, <3>1, <3>2, <3>3, <3>8
    <2>5. CASE call[p].old # t
      <3>. DEFINE c == [call[p] EXCEPT !.pc = "link", !.cur = 0, !.todo = call[p].todo \ {t}]
      <3>1. SetCall(p, c) /\ reader' = reader  BY <2>5 DEF linked
      <3>2. /\ c \in Linking /\ c.pc = "link" /\ c.surv = call[p].surv
            /\ c.old = call[p].old /\ c.todo = call[p].todo \ {t}
        <4>1. PICK d : d = call[p].todo \ {t}  BY Zenon
        <4>2. 0 \in 0 .. Len(tr) /\ d \in SUBSET DOMAIN tr  BY <2>1, <4>1 DEF Linking
        <4>3. c = [call[p] EXCEPT !.pc = "link", !.cur = 0, !.todo = d]  BY <4>1
        <4>4. /\ c \in Linking /\ c.pc = "link" /\ c.surv = call[p].surv
              /\ c.old = call[p].old /\ c.todo = d
          <5>. HIDE DEF c
          <5>. QED  BY <2>1, <4>2, <4>3, Zenon DEF Linking
        <4>. QED  BY <4>1, <4>4
      <3>. HIDE DEF c
      <3>3. c \in Calls'  BY <2>2, <3>2 DEF Calls
      <3>. QED  BY <2>2, <2>3, <3>1, <3>2, <3>3
    <2>. QED  BY <2>4, <2>5

  \* The handler's last step.
  <1>DoneKeeps.
      ASSUME Inv, NEW p \in Link, linkDone(p)
      PROVE  Inv' /\ tr' = tr
    <2>. USE <1>DoneKeeps
    <2>1. TypeOK /\ Merging /\ (drops = 0 => Joining)  BY DEF Inv
    <2>2. /\ UNCHANGED <<tr, tmap, active, link, reader, arrived, got, crashed, connects, drops, sessions>>
          /\ call[p].pc = "link" /\ Target(p) = {} /\ SetCall(p, IdleCall)
      BY DEF linkDone, bounds
    <2>3. TypeOK' /\ call'[p] = IdleCall /\ \A q \in Link : q # p => call'[q] = call[q]
      <3>1. /\ TransportsOK(tr') /\ Len(tr) <= Len(tr') /\ DOMAIN tr \subseteq DOMAIN tr'
            /\ tmap' \in [Link -> 0 .. Len(tr')] /\ active' \in Link \cup {0}
            /\ link' \in [Link -> {"new", "up", "down"}] /\ arrived' \in [Link -> 0 .. MaxEnvelopes]
            /\ got' = got /\ connects' \in Nat /\ drops' \in Nat /\ sessions' \in Nat
            /\ crashed' \in BOOLEAN /\ Len(tr') \in Nat
        BY <2>1, <2>2, Plain, Zenon
      <3>2. reader' \in [Reader -> Readers']  BY <2>1, <2>2, <3>1, <1>ReadersStay, Zenon
      <3>3. IdleCall \in Calls'  BY DEF Calls
      <3>. QED  BY <2>1, <2>2, <3>1, <3>2, <3>3, <1>LinkTypes
    <2>4. call'[p].pc = "idle"  BY <2>3 DEF IdleCall
    <2>5. Merging'
      <3>1. ActiveHasTransport'  BY <2>1, <2>2 DEF Merging, ActiveHasTransport
      <3>2. \A t \in DOMAIN tr : tr'[t].closed <=> tr'[t].delegate # 0  BY <2>1, <2>2 DEF Merging
      <3>3. \A q \in Link : q # p /\ call[q].pc = "close" =>
               tr'[call[q].cur].locked /\ ~tr'[call[q].cur].closed
        BY <2>1, <2>2 DEF Merging
      <3>. QED  BY <2>1, <2>2, <2>3, <2>4, <3>1, <3>2, <3>3, <1>MergingFrom, Zenon
    <2>6. ASSUME drops' = 0 PROVE Joining'
      <3>1. Joining  BY <2>1, <2>2, <2>6
      <3>2. call[p].todo = {}  BY <2>2, <3>1 DEF Joining, Target
      <3>3. \A t \in DOMAIN tr : Settled(t) => Settled(t)'
        <4>. SUFFICES ASSUME NEW t \in DOMAIN tr, Settled(t) PROVE Settled(t)'
          OBVIOUS
        <4>1. CASE \E q \in Link : call[q].pc \in {"link", "close"} /\ t \in call[q].todo
          <5>1. PICK q \in Link : call[q].pc \in {"link", "close"} /\ t \in call[q].todo  BY <4>1
          <5>2. call'[q] = call[q]  BY <2>3, <3>2, <5>1
          <5>. QED  BY <5>1, <5>2 DEF Settled
        <4>. QED  BY <2>2, <4>1 DEF Settled
      <3>4. \A q \in Link : call'[q].pc \in {"link", "close"} => call'[q] = call[q]
        BY <2>3, <2>4
      <3>5. \A q \in Link : call'[q].pc \in {"link", "close"} =>
              /\ call[q].pc \in {"link", "close"} /\ call'[q].surv = call[q].surv
              /\ call'[q].old = call[q].old /\ call'[q].todo \subseteq call[q].todo
              /\ call'[q].pc = "close" => call'[q].cur \in call'[q].todo
        BY <3>1, <3>4 DEF Joining
      <3>6. \A t \in DOMAIN tr' : tmap'[tr'[t].peer] = t  BY <2>2, <3>1 DEF Joining
      <3>7. \A q \in Link : link'[q] = "up" /\ call'[q].pc # "pick" =>
              link[q] = "up" /\ call[q].pc # "pick" /\ tmap'[q] = tmap[q]
        BY <2>2, <2>3
      <3>. QED  BY <2>1, <2>2, <3>1, <3>3, <3>5, <3>6, <3>7, <1>JoiningFrom
    <2>. QED  BY <2>2, <2>3, <2>5, <2>6 DEF Inv

  \* Once transport t is merged, by this handler or before, the handler may
  \* forget it.
  <1>LinkedKeeps.
      ASSUME Inv, NEW p \in Link, NEW t \in DOMAIN tr, call[p].pc \in {"link", "close"}, linked(p, t),
             TransportsOK(tr'), Len(tr') = Len(tr), DOMAIN tr' = DOMAIN tr,
             \A u \in DOMAIN tr : u # t => tr'[u] = tr[u],
             tr'[t].peer = tr[t].peer, tr'[t].delegate # 0, tr'[t].closed,
             \/ tr'[t].delegate = tr[t].delegate
             \/ call[p].pc = "close" /\ t = call[p].cur /\ tr'[t].delegate = call[p].surv,
             \A q \in Link : q # p /\ call[q].pc = "close" => call[q].cur # t,
             UNCHANGED <<tmap, active, link, arrived, got, crashed, bounds>>
      PROVE  Inv'
    <2>. USE <1>LinkedKeeps
    <2>1. TypeOK /\ Merging /\ (drops = 0 => Joining)  BY DEF Inv
    <2>2. UNCHANGED <<tmap, active, link, arrived, got, crashed, connects, drops, sessions>>
      BY Zenon DEF bounds
    <2>3. reader' \in [Reader -> Readers']  BY <2>1, <1>LinkedGoesOn, Zenon
    <2>4. PICK c \in Calls' :
            /\ SetCall(p, c) /\ c.pc = "link" /\ c.surv = call[p].surv
            /\ call[p].old # t => c.old = call[p].old /\ c.todo = call[p].todo \ {t}
      BY <2>1, <1>LinkedGoesOn
    <2>5. TypeOK' /\ call'[p] = c /\ \A q \in Link : q # p => call'[q] = call[q]
      <3>1. /\ Len(tr) <= Len(tr')
            /\ tmap' \in [Link -> 0 .. Len(tr')] /\ active' \in Link \cup {0}
            /\ link' \in [Link -> {"new", "up", "down"}] /\ arrived' \in [Link -> 0 .. MaxEnvelopes]
            /\ got' = got /\ connects' \in Nat /\ drops' \in Nat /\ sessions' \in Nat
            /\ crashed' \in BOOLEAN
        <4>1. /\ tmap \in [Link -> 0 .. Len(tr)] /\ active \in Link \cup {0} /\ crashed \in BOOLEAN
              /\ link \in [Link -> {"new", "up", "down"}] /\ arrived \in [Link -> 0 .. MaxEnvelopes]
              /\ connects \in Nat /\ drops \in Nat /\ sessions \in Nat
          BY <2>1, Zenon DEF TypeOK
        <4>2. Len(tr) \in Nat  BY <2>1, Plain, Zenon
        <4>3. Len(tr) <= Len(tr')
          <5>1. Len(tr') = Len(tr)  BY <1>LinkedKeeps, Zenon
          <5>. QED  BY <4>2, <5>1, AtMostItself, Zenon
        <4>. QED  BY <2>2, <4>1, <4>3, Zenon
      <3>. QED  BY <2>1, <2>3, <2>4, <3>1, <1>LinkTypes
    <2>6. \A u \in DOMAIN tr : tr'[u].peer = tr[u].peer  OBVIOUS
    <2>7. Merging'
      <3>1. ActiveHasTransport'  BY <2>1, <2>2, Zenon DEF Merging, ActiveHasTransport
      <3>2. \A u \in DOMAIN tr : tr'[u].closed <=> tr'[u].delegate # 0  BY <2>1, Zenon DEF Merging
      <3>3. \A q \in Link : q # p /\ call[q].pc = "close" =>
               tr'[call[q].cur].locked /\ ~tr'[call[q].cur].closed
        BY <2>1 DEF Merging
      <3>4. call'[p].pc = "link"  BY <2>4, <2>5
      <3>. QED  BY <2>1, <2>2, <2>5, <2>6, <3>1, <3>2, <3>3, <3>4, <1>MergingFrom, Zenon
    <2>8. ASSUME drops' = 0 PROVE Joining'
      <3>1. Joining  BY <2>1, <2>2, <2>8
      <3>2. call[p].old = 0 /\ t # 0
        <4>1. call[p].old = 0  BY <3>1, Zenon DEF Joining
        <4>2. t # 0  BY <2>1, Plain, NotZero, Zenon
        <4>. QED  BY <4>1, <4>2
      <3>3. c.old = call[p].old /\ c.todo = call[p].todo \ {t}  BY <2>4, <3>2, Zenon
      <3>4. \A u \in DOMAIN tr : Settled(u) => Settled(u)'
        <4>. SUFFICES ASSUME NEW u \in DOMAIN tr, Settled(u) PROVE Settled(u)'
          OBVIOUS
        <4>1. CASE u = t  BY <4>1 DEF Settled
        <4>2. CASE u # t /\ \E q \in Link : call[q].pc \in {"link", "close"} /\ u \in call[q].todo
          <5>1. PICK q \in Link : call[q].pc \in {"link", "close"} /\ u \in call[q].todo  BY <4>2
          <5>2. call'[q].pc \in {"link", "close"} /\ u \in call'[q].todo
            BY <2>4, <2>5, <3>3, <4>2, <5>1, Zenon
          <5>. QED  BY <5>2 DEF Settled
        <4>3. CASE u # t /\ ((active # 0 /\ u = tmap[active]) \/ tr[u].delegate # 0)
          BY <2>2, <4>3, Zenon DEF Settled
        <4>. QED  BY <4>1, <4>2, <4>3 DEF Settled
      <3>5. \A q \in Link : call'[q].pc \in {"link", "close"} =>
              /\ call[q].pc \in {"link", "close"} /\ call'[q].surv = call[q].surv
              /\ call'[q].old = call[q].old /\ call'[q].todo \subseteq call[q].todo
              /\ call'[q].pc = "close" => call'[q].cur \in call'[q].todo
        <4>. SUFFICES ASSUME NEW q \in Link, call'[q].pc \in {"link", "close"}
                      PROVE  /\ call[q].pc \in {"link", "close"} /\ call'[q].surv = call[q].surv
                             /\ call'[q].old = call[q].old /\ call'[q].todo \subseteq call[q].todo
                             /\ call'[q].pc = "close" => call'[q].cur \in call'[q].todo
          OBVIOUS
        <4>1. CASE q = p  BY <2>4, <2>5, <3>3, <4>1, Zenon
        <4>2. CASE q # p
          <5>1. call'[q] = call[q]  BY <2>5, <4>2, Zenon
          <5>. QED  BY <3>1, <5>1, Zenon DEF Joining
        <4>. QED  BY <4>1, <4>2
      <3>6. \A u \in DOMAIN tr' : tmap'[tr'[u].peer] = u  BY <2>2, <2>6, <3>1 DEF Joining
      <3>7. \A u \in DOMAIN tr' : tr'[u].delegate # 0 =>
             \/ u \in DOMAIN tr /\ tr'[u].delegate = tr[u].delegate
             \/ \E q \in Link : /\ call[q].pc \in {"link", "close"} /\ u \in call[q].todo
                                /\ tr'[u].delegate = call[q].surv
        <4>. SUFFICES ASSUME NEW u \in DOMAIN tr', tr'[u].delegate # 0
                      PROVE  \/ u \in DOMAIN tr /\ tr'[u].delegate = tr[u].delegate
                             \/ \E q \in Link : /\ call[q].pc \in {"link", "close"} /\ u \in call[q].todo
                                                /\ tr'[u].delegate = call[q].surv
          OBVIOUS
        <4>1. u \in DOMAIN tr  BY Zenon
        <4>2. CASE u # t  BY <4>1, <4>2, Zenon
        <4>3. CASE u = t /\ tr'[t].delegate = tr[t].delegate  BY <4>1, <4>3, Zenon
        <4>4. CASE u = t /\ call[p].pc = "close" /\ t = call[p].cur /\ tr'[t].delegate = call[p].surv
          <5>1. call[p].cur \in call[p].todo  BY <3>1, <4>4, Zenon DEF Joining
          <5>. QED  BY <4>4, <5>1, Zenon
        <4>. QED  BY <4>2, <4>3, <4>4, Zenon
      <3>8. \A q \in Link : link'[q] = "up" /\ call'[q].pc # "pick" =>
              link[q] = "up" /\ call[q].pc # "pick" /\ tmap'[q] = tmap[q]
        BY <2>2, <2>5, Zenon
      <3>. QED  BY <2>1, <2>6, <3>1, <3>4, <3>5, <3>6, <3>7, <3>8, <1>JoiningFrom, Zenon
    <2>. QED  BY <2>5, <2>7, <2>8 DEF Inv

  \* linkDelegate on a transport that was merged before.
  <1>SkipKeeps.
      ASSUME Inv, NEW p \in Link, NEW t \in DOMAIN tr, linkSkip(p, t)
      PROVE  Inv' /\ tr' = tr
    <2>. USE <1>SkipKeeps
    <2>1. TypeOK /\ Merging  BY DEF Inv
    <2>2. /\ tr' = tr /\ call[p].pc = "link" /\ tr[t].closed /\ linked(p, t)
          /\ UNCHANGED <<tmap, active, link, arrived, got, crashed, bounds>>
      BY Zenon DEF linkSkip
    <2>3. TransportsOK(tr')  BY <2>1, <2>2 DEF TypeOK, TransportsOK
    <2>4. tr[t].delegate # 0  BY <2>1, <2>2 DEF Merging
    <2>5. \A q \in Link : q # p /\ call[q].pc = "close" => call[q].cur # t
      BY <2>1, <2>2 DEF Merging
    <2>. QED  BY <2>2, <2>3, <2>4, <2>5, <1>LinkedKeeps, Zenon

  \* The end of linkDelegate: the delegate is set where there was none.
  <1>CloseKeeps.
      ASSUME Inv, NEW p \in Link, linkClose(p)
      PROVE  /\ Inv' /\ DOMAIN tr' = DOMAIN tr
             /\ \A u \in DOMAIN tr : tr[u].delegate # 0 => tr'[u] = tr[u]
    <2>. USE <1>CloseKeeps
    <2>1. TypeOK /\ Merging  BY DEF Inv
    <2>2. PICK t : t = call[p].cur  OBVIOUS
    <2>3. PICK d : d = call[p].surv  OBVIOUS
    <2>4. call[p].pc = "close" /\ call[p] \in Linking  BY <2>1, CallKinds DEF linkClose
    <2>5. /\ t \in DOMAIN tr /\ ~tr[t].closed /\ tr[t].delegate = 0
          /\ \A q \in Link : q # p /\ call[q].pc = "close" => call[q].cur # t
      BY <2>1, <2>2, <2>4 DEF Merging
    <2>6. d \in DOMAIN tr  BY <2>3, <2>4 DEF Linking
    <2>7. Len(tr) \in Nat /\ DOMAIN tr = 1 .. Len(tr) /\ tr \in Seq(Transport)  BY <2>1 DEF TypeOK
    <2>. DEFINE x == [tr[t] EXCEPT !.delegate = d, !.closed = TRUE, !.locked = FALSE]
    <2>8. tr' = [tr EXCEPT ![t] = x]
      <3>1. tr' = [tr EXCEPT ![t].delegate = d, ![t].closed = TRUE, ![t].locked = FALSE]
        BY <2>2, <2>3 DEF linkClose
      <3>. QED  BY <2>5, <2>7, <3>1, Zenon
    <2>9. /\ x \in Transport /\ x.delegate = d /\ x.closed = TRUE /\ x.peer = tr[t].peer
          /\ x.incoming = tr[t].incoming
      <3>1. tr[t] \in Transport  BY <2>1, <2>5, Queues, Zenon
      <3>2. d \in Nat  BY <2>6, <2>7
      <3>. QED  BY <3>1, <3>2, Zenon DEF Transport
    <2>. HIDE DEF x
    <2>10. /\ tr' \in Seq(Transport) /\ Len(tr') = Len(tr) /\ DOMAIN tr' = DOMAIN tr /\ tr'[t] = x
           /\ \A u \in DOMAIN tr : u # t => tr'[u] = tr[u]
      BY <2>5, <2>7, <2>8, <2>9
    <2>11. TransportsOK(tr')
      <3>1. d \in 0 .. Len(tr)  BY <2>6, <2>7
      <3>2. \A u \in DOMAIN tr : tr[u].delegate \in 0 .. Len(tr) /\ Len(tr[u].incoming) <= QueueCap
        BY <2>1 DEF TypeOK
      <3>3. \A u \in DOMAIN tr' : tr'[u].delegate \in 0 .. Len(tr') /\ Len(tr'[u].incoming) <= QueueCap
        BY <2>5, <2>9, <2>10, <3>1, <3>2
      <3>. QED  BY <2>10, <3>3 DEF TransportsOK
    <2>12. linked(p, t) /\ UNCHANGED <<tmap, active, link, arrived, got, crashed, bounds>>
      BY <2>2 DEF linkClose
    <2>13. d # 0  BY <2>6, <2>7
    <2>14. Inv'
      <3>1. /\ tr'[t].peer = tr[t].peer /\ tr'[t].delegate # 0 /\ tr'[t].closed
            /\ call[p].pc = "close" /\ t = call[p].cur /\ tr'[t].delegate = call[p].surv
        BY <2>2, <2>3, <2>4, <2>9, <2>10, <2>13, Zenon
      <3>. QED  BY <2>5, <2>10, <2>11, <2>12, <3>1, <1>LinkedKeeps, Zenon
    <2>. QED  BY <2>5, <2>10, <2>14

  \* Draining moves envelopes and takes delegateMu, and changes nothing else of
  \* the transports.
  <1>DrainFacts.
      ASSUME TypeOK, NEW t \in DOMAIN tr, NEW u \in DOMAIN tr, tr' = Drained(t, u)
      PROVE  /\ TransportsOK(tr') /\ Len(tr') = Len(tr) /\ DOMAIN tr' = DOMAIN tr
             /\ \A i \in DOMAIN tr :
                  /\ tr'[i].peer = tr[i].peer /\ tr'[i].delegate = tr[i].delegate
                  /\ tr'[i].closed = tr[i].closed /\ tr'[i].locked = (i = t \/ tr[i].locked)
    <2>. USE <1>DrainFacts
    <2>. DEFINE moved == tr[t].preRecv \o tr[t].incoming
                x == [tr[t] EXCEPT !.preRecv = <<>>, !.incoming = <<>>, !.locked = TRUE]
                s == [tr EXCEPT ![t] = x]
                in == Newest(tr[u].incoming \o moved)
                y == [s[u] EXCEPT !.incoming = in]
    <2>1. tr \in Seq(Transport) /\ Len(tr) \in Nat /\ tr[t] \in Transport /\ tr[u] \in Transport
      <3>. HIDE DEF moved, x, s, in, y
      <3>. QED  BY DEF TypeOK
    <2>2. tr' = [s EXCEPT ![u] = y]
      <3>. DEFINE z == [tr EXCEPT ![t].preRecv = <<>>, ![t].incoming = <<>>, ![t].locked = TRUE]
      <3>1. z = s
        <4>. HIDE DEF moved
        <4>. QED  BY <2>1, Zenon
      <3>2. tr' = [z EXCEPT ![u].incoming = in]
        <4>. HIDE DEF s, x
        <4>. QED  BY DEF Drained
      <3>. HIDE DEF z, s, moved, in
      <3>. QED  BY <3>1, <3>2
    <2>3. moved \in Seq(Envelope)
      <3>1. tr[t].preRecv \in Seq(Envelope) /\ tr[t].incoming \in Seq(Envelope)
        BY <2>1 DEF Transport
      <3>. QED  BY <3>1
    <2>4. /\ x \in Transport /\ x.peer = tr[t].peer /\ x.delegate = tr[t].delegate
          /\ x.closed = tr[t].closed /\ x.locked = TRUE /\ x.incoming = <<>>
      <3>1. <<>> \in Seq(Envelope)  OBVIOUS
      <3>2. PICK e : e = <<>>  OBVIOUS
      <3>3. e \in Seq(Envelope) /\ x = [tr[t] EXCEPT !.preRecv = e, !.incoming = e, !.locked = TRUE]
        BY <3>1, <3>2
      <3>. HIDE DEF x, s, moved
      <3>. QED  BY <2>1, <3>2, <3>3, Zenon DEF Transport
    <2>. HIDE DEF moved, x
    <2>5. /\ s \in Seq(Transport) /\ Len(s) = Len(tr) /\ DOMAIN s = DOMAIN tr /\ s[t] = x
          /\ \A i \in DOMAIN tr : i # t => s[i] = tr[i]
      BY <2>1, <2>4
    <2>. HIDE DEF s
    <2>6. s[u] \in Transport  BY <2>5
    <2>7. in \in Seq(Envelope) /\ Len(in) <= QueueCap
      <3>1. tr[u].incoming \o moved \in Seq(Envelope)  BY <2>1, <2>3 DEF Transport
      <3>. QED  BY <3>1, <1>NewestFits, Zenon
    <2>. HIDE DEF in
    <2>8. /\ y \in Transport /\ y.peer = s[u].peer /\ y.delegate = s[u].delegate
          /\ y.closed = s[u].closed /\ y.locked = s[u].locked /\ y.incoming = in
      BY <2>6, <2>7 DEF Transport
    <2>. HIDE DEF y
    <2>9. /\ tr' \in Seq(Transport) /\ Len(tr') = Len(tr) /\ DOMAIN tr' = DOMAIN tr /\ tr'[u] = y
          /\ \A i \in DOMAIN tr : i # u => tr'[i] = s[i]
      BY <2>2, <2>5, <2>8
    <2>10. ASSUME NEW i \in DOMAIN tr
           PROVE  /\ tr'[i].peer = s[i].peer /\ tr'[i].delegate = s[i].delegate
                  /\ tr'[i].closed = s[i].closed /\ tr'[i].locked = s[i].locked
                  /\ tr'[i].incoming = in \/ tr'[i].incoming = s[i].incoming
      <3>1. CASE i = u  BY <2>8, <2>9, <3>1
      <3>2. CASE i # u  BY <2>9, <3>2
      <3>. QED  BY <3>1, <3>2
    <2>11. ASSUME NEW i \in DOMAIN tr
           PROVE  /\ s[i].peer = tr[i].peer /\ s[i].delegate = tr[i].delegate
                  /\ s[i].closed = tr[i].closed /\ s[i].locked = (i = t \/ tr[i].locked)
                  /\ s[i].incoming = <<>> \/ s[i].incoming = tr[i].incoming
      <3>1. CASE i = t  BY <2>4, <2>5, <3>1, Zenon
      <3>2. CASE i # t
        <4>1. s[i] = tr[i] /\ tr[i].locked \in BOOLEAN  BY <2>5, <3>2, Queues, Zenon
        <4>. QED  BY <3>2, <4>1
      <3>. QED  BY <3>1, <3>2
    <2>12. TransportsOK(tr')
      <3>1. Len(<<>>) = 0 /\ QueueCap \in Nat  BY QueueAssumption
      <3>2. ASSUME NEW i \in DOMAIN tr'
            PROVE  tr'[i].delegate \in 0 .. Len(tr') /\ Len(tr'[i].incoming) <= QueueCap
        <4>1. tr[i].delegate \in 0 .. Len(tr) /\ Len(tr[i].incoming) <= QueueCap /\ i \in DOMAIN tr
          BY <2>9, <3>2 DEF TypeOK
        <4>2. tr'[i].delegate = tr[i].delegate  BY <2>10, <2>11, <4>1
        <4>3. tr'[i].incoming = in \/ tr'[i].incoming = <<>> \/ tr'[i].incoming = tr[i].incoming
          BY <2>10, <2>11, <4>1
        <4>4. Len(tr'[i].incoming) <= QueueCap
          BY <2>7, <3>1, <4>1, <4>3
        <4>. QED  BY <2>9, <4>1, <4>2, <4>4
      <3>. QED  BY <2>9, <3>2 DEF TransportsOK
    <2>. QED  BY <2>9, <2>10, <2>11, <2>12

  \* linkDelegate up to the point where it sets the delegate.
  <1>DrainKeeps.
      ASSUME Inv, NEW p \in Link, NEW t \in DOMAIN tr, linkDrain(p, t)
      PROVE  /\ Inv' /\ DOMAIN tr' = DOMAIN tr
             /\ \A u \in DOMAIN tr : tr'[u].delegate = tr[u].delegate
    <2>. USE <1>DrainKeeps
    <2>1. TypeOK /\ Merging /\ (drops = 0 => Joining)  BY DEF Inv
    <2>2. /\ UNCHANGED <<tmap, active, link, reader, arrived, got, connects, drops, sessions>>
          /\ call[p].pc = "link" /\ t \in Target(p) /\ ~tr[t].locked /\ ~tr[t].closed
      BY DEF linkDrain, bounds
    <2>3. call[p] \in Linking  BY <2>1, <2>2, CallKinds
    <2>4. CASE crashed' = TRUE /\ UNCHANGED <<tr, call>>
      <3>1. TypeOK'
        BY <2>1, <2>2, <2>4 DEF TypeOK, Linking, Queueing, Running, Blocked, Holding
      <3>2. QueuesOnly  BY <2>4 DEF QueuesOnly
      <3>. QED  BY <2>2, <2>4, <3>1, <3>2, <1>QueueStepKeeps
    <2>5. CASE ~(crashed' = TRUE /\ UNCHANGED <<tr, call>>)
      <3>. DEFINE c == [call[p] EXCEPT !.pc = "close", !.cur = t]
      <3>1. PICK u : u = call[p].surv  OBVIOUS
      <3>2. u \in DOMAIN tr  BY <2>3, <3>1 DEF Linking
      <3>3. tr' = Drained(t, u) /\ SetCall(p, c) /\ crashed' = crashed
        BY <2>5, <3>1 DEF linkDrain, Drained
      <3>4. /\ TransportsOK(tr') /\ Len(tr') = Len(tr) /\ DOMAIN tr' = DOMAIN tr
            /\ \A i \in DOMAIN tr :
                 /\ tr'[i].peer = tr[i].peer /\ tr'[i].delegate = tr[i].delegate
                 /\ tr'[i].closed = tr[i].closed /\ tr'[i].locked = (i = t \/ tr[i].locked)
        BY <2>1, <3>2, <3>3, <1>DrainFacts
      <3>5. /\ c \in Linking /\ c.pc = "close" /\ c.cur = t /\ c.surv = call[p].surv
            /\ c.old = call[p].old /\ c.todo = call[p].todo
        <4>1. t \in 0 .. Len(tr)  BY <2>1 DEF TypeOK
        <4>. QED  BY <2>3, <4>1, Zenon DEF Linking
      <3>. HIDE DEF c
      <3>6. c \in Calls'
        <4>1. Linking' = Linking  BY <3>4 DEF Linking
        <4>. QED  BY <3>5, <4>1 DEF Calls
      <3>7. TypeOK' /\ call'[p] = c /\ \A q \in Link : q # p => call'[q] = call[q]
        <4>1. /\ Len(tr) \in Nat /\ tmap \in [Link -> 0 .. Len(tr)] /\ active \in Link \cup {0}
              /\ link \in [Link -> {"new", "up", "down"}] /\ arrived \in [Link -> 0 .. MaxEnvelopes]
              /\ {connects, drops, sessions} \subseteq Nat
          BY <2>1, Plain, Zenon
        <4>2. crashed' \in BOOLEAN
          <5>1. crashed' = crashed /\ crashed \in BOOLEAN  BY <2>1, <3>3 DEF TypeOK
          <5>. QED  BY <5>1
        <4>3. Len(tr') = Len(tr) /\ DOMAIN tr' = DOMAIN tr  BY <3>4
        <4>4. /\ Len(tr) <= Len(tr') /\ Len(tr') \in Nat
              /\ tmap' \in [Link -> 0 .. Len(tr')] /\ active' \in Link \cup {0}
              /\ link' \in [Link -> {"new", "up", "down"}] /\ arrived' \in [Link -> 0 .. MaxEnvelopes]
              /\ got' = got /\ connects' \in Nat /\ drops' \in Nat /\ sessions' \in Nat
          BY <2>2, <4>1, <4>3
        <4>5. reader' \in [Reader -> Readers']  BY <2>1, <2>2, <4>3, <4>4, <1>ReadersStay
        <4>. QED  BY <2>1, <3>3, <3>4, <3>6, <4>2, <4>4, <4>5, <1>LinkTypes, Zenon
      <3>8. Merging'
        <4>1. ActiveHasTransport'  BY <2>1, <2>2 DEF Merging, ActiveHasTransport
        <4>2. \A i \in DOMAIN tr : tr'[i].closed <=> tr'[i].delegate # 0  BY <2>1, <3>4 DEF Merging
        <4>3. \A q \in Link : q # p /\ call[q].pc = "close" =>
                /\ tr'[call[q].cur].locked /\ ~tr'[call[q].cur].closed
                /\ call'[p].cur # call[q].cur
          BY <2>1, <2>2, <3>4, <3>5, <3>7, Zenon DEF Merging
        <4>4. call'[p].cur \in DOMAIN tr /\ tr'[call'[p].cur].locked /\ ~tr'[call'[p].cur].closed
          BY <2>2, <3>4, <3>5, <3>7, Zenon
        <4>5. call'[p].pc = "close"  BY <3>5, <3>7
        <4>6. DOMAIN tr' = DOMAIN tr /\ \A i \in DOMAIN tr : tr'[i].peer = tr[i].peer
          BY <3>4, Zenon
        <4>7. call'[p].pc # "pick"  BY <4>5
        <4>8. \A q \in Link : q # p => call'[q] = call[q]  BY <3>7, Zenon
        <4>9. UNCHANGED <<tmap, link>>  BY <2>2
        <4>. QED  BY <2>1, <4>1, <4>2, <4>3, <4>4, <4>6, <4>7, <4>8, <4>9, <1>MergingFrom, Zenon
      <3>9. ASSUME drops' = 0 PROVE Joining'
        <4>1. Joining  BY <2>1, <2>2, <3>9
        <4>2. t \in call[p].todo  BY <2>2, <4>1, Zenon DEF Joining, Target
        <4>3. \A q \in Link : call[q].pc \in {"link", "close"} =>
                call'[q].pc \in {"link", "close"} /\ call'[q].todo = call[q].todo
          BY <3>5, <3>7
        <4>4. \A i \in DOMAIN tr : Settled(i) => Settled(i)'
          BY <2>2, <3>4, <4>3 DEF Settled
        <4>5. \A q \in Link : call'[q].pc \in {"link", "close"} =>
                /\ call[q].pc \in {"link", "close"} /\ call'[q].surv = call[q].surv
                /\ call'[q].old = call[q].old /\ call'[q].todo \subseteq call[q].todo
                /\ call'[q].pc = "close" => call'[q].cur \in call'[q].todo
          <5>. SUFFICES ASSUME NEW q \in Link, call'[q].pc \in {"link", "close"}
                        PROVE  /\ call[q].pc \in {"link", "close"} /\ call'[q].surv = call[q].surv
                               /\ call'[q].old = call[q].old /\ call'[q].todo \subseteq call[q].todo
                               /\ call'[q].pc = "close" => call'[q].cur \in call'[q].todo
            OBVIOUS
          <5>1. CASE q = p  BY <2>2, <3>5, <3>7, <4>2, <5>1
          <5>2. CASE q # p
            <6>1. call'[q] = call[q]  BY <3>7, <5>2
            <6>. QED  BY <4>1, <6>1 DEF Joining
          <5>. QED  BY <5>1, <5>2
        <4>6. \A i \in DOMAIN tr' : tmap'[tr'[i].peer] = i  BY <2>2, <3>4, <4>1 DEF Joining
        <4>7. \A q \in Link : link'[q] = "up" /\ call'[q].pc # "pick" =>
                link[q] = "up" /\ call[q].pc # "pick" /\ tmap'[q] = tmap[q]
          BY <2>2, <3>7
        <4>. QED  BY <2>1, <3>4, <4>1, <4>4, <4>5, <4>6, <4>7, <1>JoiningFrom
      <3>. QED  BY <3>4, <3>7, <3>8, <3>9 DEF Inv
    <2>. QED  BY <2>4, <2>5, Zenon

  \* The second critical section of ml_on_peer_connected.
  <1>PickKeeps.
      ASSUME Inv, NEW p \in Link, pickCanonical(p)
      PROVE  Inv' /\ tr' = tr
    <2>. USE <1>PickKeeps
    <2>1. TypeOK /\ Merging /\ (drops = 0 => Joining)  BY DEF Inv
    <2>2. PICK can : can = maxTransportPeerID(tmap)  OBVIOUS
    <2>. DEFINE td == {tmap[q] : q \in Mapped(tmap) \ {can}}
                c == [pc |-> "link", surv |-> tmap[can], old |-> 0, cur |-> 0, todo |-> td]
    <2>3. /\ call[p].pc = "pick" /\ active' = can /\ SetCall(p, c)
          /\ UNCHANGED <<tr, tmap, link, reader, arrived, got, crashed, connects, drops, sessions>>
      BY <2>2 DEF pickCanonical, bounds
    <2>4. p \in Mapped(tmap)  BY <2>1, <2>3 DEF Merging, Mapped
    <2>5. /\ can \in Link /\ tmap[can] # 0 /\ \A q \in Mapped(tmap) : q <= can
          /\ \A q \in Mapped(tmap) : q \in Link /\ tmap[q] # 0
      BY <2>2, <2>4, MaxIsMapped DEF Mapped
    <2>6. Len(tr) \in Nat /\ DOMAIN tr = 1 .. Len(tr) /\ \A q \in Link : tmap[q] \in 0 .. Len(tr)
      BY <2>1 DEF TypeOK
    <2>7. tmap[can] \in DOMAIN tr /\ td \in SUBSET DOMAIN tr /\ 0 \in 0 .. Len(tr)  BY <2>5, <2>6
    <2>8. /\ c \in Linking /\ c.pc = "link" /\ c.surv = tmap[can] /\ c.old = 0 /\ c.todo = td
      <3>. HIDE DEF td
      <3>. QED  BY <2>7 DEF Linking
    <2>. HIDE DEF c
    <2>9. TypeOK' /\ call'[p] = c /\ \A q \in Link : q # p => call'[q] = call[q]
      <3>. HIDE DEF td
      <3>1. /\ TransportsOK(tr') /\ Len(tr) <= Len(tr') /\ DOMAIN tr \subseteq DOMAIN tr'
            /\ tmap' \in [Link -> 0 .. Len(tr')] /\ active' \in Link \cup {0}
            /\ link' \in [Link -> {"new", "up", "down"}] /\ arrived' \in [Link -> 0 .. MaxEnvelopes]
            /\ got' = got /\ connects' \in Nat /\ drops' \in Nat /\ sessions' \in Nat
            /\ crashed' \in BOOLEAN /\ Len(tr') \in Nat
        BY <2>1, <2>3, <2>5, Plain, Zenon
      <3>2. reader' \in [Reader -> Readers']  BY <2>1, <2>3, <3>1, <1>ReadersStay
      <3>3. c \in Calls'
        <4>1. Linking' = Linking  BY <2>3 DEF Linking
        <4>. QED  BY <2>8, <4>1 DEF Calls
      <3>. QED  BY <2>1, <2>3, <3>1, <3>2, <3>3, <1>LinkTypes
    <2>10. Merging'
      <3>. HIDE DEF td
      <3>1. ActiveHasTransport'  BY <2>3, <2>5 DEF ActiveHasTransport
      <3>2. \A t \in DOMAIN tr : tr'[t].closed <=> tr'[t].delegate # 0  BY <2>1, <2>3 DEF Merging
      <3>3. \A q \in Link : q # p /\ call[q].pc = "close" =>
               tr'[call[q].cur].locked /\ ~tr'[call[q].cur].closed
        BY <2>1, <2>3 DEF Merging
      <3>4. call'[p].pc = "link"  BY <2>8, <2>9
      <3>. QED  BY <2>1, <2>3, <2>9, <3>1, <3>2, <3>3, <3>4, <1>MergingFrom
    <2>11. ASSUME drops' = 0 PROVE Joining'
      <3>1. Joining  BY <2>1, <2>3, <2>11
      <3>2. \A q \in Mapped(tmap) : q = can \/ tmap[q] \in td  OBVIOUS
      <3>3. \A t \in td : \E q \in Mapped(tmap) : q # can /\ t = tmap[q]  OBVIOUS
      <3>. HIDE DEF td
      <3>4. active = 0 \/ active \in Mapped(tmap)  BY <2>1, <1>ActiveIsMapped
      <3>5. \A t : t \in td \/ t = tmap[can] => Settled(t)'
        <4>1. can # 0  BY <2>5, LinkAssumption
        <4>2. call'[p].pc \in {"link", "close"} /\ call'[p].todo = td  BY <2>8, <2>9
        <4>. QED  BY <2>3, <4>1, <4>2, Zenon DEF Settled
      <3>6. \A q \in Mapped(tmap) : tmap[q] \in td \/ tmap[q] = tmap[can]  BY <3>2
      <3>7. \A t \in DOMAIN tr : Settled(t) => Settled(t)'
        <4>. SUFFICES ASSUME NEW t \in DOMAIN tr, Settled(t) PROVE Settled(t)'
          OBVIOUS
        <4>1. CASE active # 0 /\ t = tmap[active]  BY <3>4, <3>5, <3>6, <4>1
        <4>2. CASE tr[t].delegate # 0  BY <2>3, <4>2 DEF Settled
        <4>3. CASE \E q \in Link : call[q].pc \in {"link", "close"} /\ t \in call[q].todo
          <5>1. PICK q \in Link : call[q].pc \in {"link", "close"} /\ t \in call[q].todo  BY <4>3
          <5>2. call'[q] = call[q]  BY <2>3, <2>9, <5>1
          <5>. QED  BY <5>1, <5>2 DEF Settled
        <4>. QED  BY <4>1, <4>2, <4>3 DEF Settled
      <3>8. \A q \in Link : q # p /\ call'[q].pc \in {"link", "close"} =>
              /\ call[q].pc \in {"link", "close"} /\ call'[q].surv = call[q].surv
              /\ call'[q].old = call[q].old /\ call'[q].todo \subseteq call[q].todo
              /\ call'[q].pc = "close" => call'[q].cur \in call'[q].todo
        BY <2>9, <3>1 DEF Joining
      <3>9. call'[p].old = 0 /\ call'[p].pc = "link"  BY <2>8, <2>9
      <3>10. Settled(call[p].surv)'
        <4>1. PICK s : s = tmap[can]  OBVIOUS
        <4>2. Settled(s)'  BY <3>5, <4>1
        <4>3. call'[p].surv = s  BY <2>8, <2>9, <4>1
        <4>. QED  BY <4>2, <4>3 DEF Settled
      <3>11. \A t \in call'[p].todo : tr'[t].peer < tr'[call'[p].surv].peer
        <4>. SUFFICES ASSUME NEW t \in td PROVE tr[t].peer < tr[tmap[can]].peer
          BY <2>3, <2>8, <2>9
        <4>1. PICK q \in Mapped(tmap) : q # can /\ t = tmap[q]  BY <3>3
        <4>2. tr[tmap[q]].peer = q /\ tr[tmap[can]].peer = can  BY <2>1, <2>5 DEF Merging
        <4>3. q <= can /\ q \in Nat /\ can \in Nat  BY <2>5, LinkAssumption, Zenon
        <4>. QED  BY <4>1, <4>2, <4>3
      <3>12. \A t \in DOMAIN tr' : tmap'[tr'[t].peer] = t  BY <2>3, <3>1 DEF Joining
      <3>13. ASSUME NEW q \in Link, link'[q] = "up", call'[q].pc # "pick"
             PROVE  \/ link[q] = "up" /\ call[q].pc # "pick" /\ tmap'[q] = tmap[q]
                    \/ Settled(tmap[q])'
        <4>1. CASE q # p  BY <2>3, <2>9, <3>13, <4>1
        <4>2. CASE q = p
          <5>1. PICK s : s = tmap[p]  OBVIOUS
          <5>2. Settled(s)'  BY <2>4, <3>5, <3>6, <5>1
          <5>3. tmap'[q] = s  BY <2>3, <4>2, <5>1
          <5>. QED  BY <5>2, <5>3 DEF Settled
        <4>. QED  BY <4>1, <4>2
      <3>14. \A q \in Link : call'[q].pc \in {"link", "close"} =>
             /\ \/ /\ call[q].pc \in {"link", "close"} /\ call'[q].surv = call[q].surv
                   /\ call'[q].old = call[q].old /\ call'[q].todo \subseteq call[q].todo
                \/ /\ call'[q].old = 0 /\ Settled(call[q].surv)'
                   /\ \A t \in call'[q].todo : tr'[t].peer < tr'[call'[q].surv].peer
             /\ call'[q].pc = "close" => call'[q].cur \in call'[q].todo
        <4>. SUFFICES ASSUME NEW q \in Link, call'[q].pc \in {"link", "close"}
             PROVE
             /\ \/ /\ call[q].pc \in {"link", "close"} /\ call'[q].surv = call[q].surv
                   /\ call'[q].old = call[q].old /\ call'[q].todo \subseteq call[q].todo
                \/ /\ call'[q].old = 0 /\ Settled(call[q].surv)'
                   /\ \A t \in call'[q].todo : tr'[t].peer < tr'[call'[q].surv].peer
             /\ call'[q].pc = "close" => call'[q].cur \in call'[q].todo
          OBVIOUS
        <4>1. CASE q # p  BY <3>8, <4>1
        <4>2. CASE q = p
          <5>1. Settled(call[q].surv)'  BY <3>10, <4>2 DEF Settled
          <5>. QED  BY <3>9, <3>11, <4>2, <5>1
        <4>. QED  BY <4>1, <4>2
      <3>. QED  BY <2>1, <2>3, <3>1, <3>7, <3>12, <3>13, <3>14, <1>JoiningFrom
    <2>. QED  BY <2>3, <2>9, <2>10, <2>11 DEF Inv

  \* ml_on_peer_disconnected, its critical section.
  <1>DropKeeps.
      ASSUME Inv, NEW p \in Link, peerDisconnected(p)
      PROVE  Inv' /\ tr' = tr
    <2>. USE <1>DropKeeps
    <2>1. TypeOK /\ Merging  BY DEF Inv
    <2>2. PICK kept : kept = IF active = p THEN 0 ELSE active  OBVIOUS
    <2>3. PICK m : m = [tmap EXCEPT ![p] = 0]  BY Zenon
    <2>4. PICK surv : surv = pickSurvivor(m, kept)  OBVIOUS
    <2>. DEFINE td == {tmap[q] : q \in Mapped(m) \ {surv}}
                c == [pc |-> "link", surv |-> tmap[surv], old |-> tmap[p], cur |-> 0, todo |-> td]
    <2>5. /\ tr' = tr /\ tmap' = m /\ link' = [link EXCEPT ![p] = "down"] /\ drops' = drops + 1
          /\ call[p] = IdleCall
          /\ UNCHANGED <<arrived, got, crashed, connects, sessions>>
          /\ active' = IF surv # 0 /\ kept = 0 THEN surv ELSE kept
          /\ surv = 0 => SetCall(p, IdleCall)
          /\ surv # 0 => SetCall(p, c) /\ reader' = reader
      BY <2>2, <2>3, <2>4 DEF peerDisconnected
    <2>6. Len(tr) \in Nat /\ DOMAIN tr = 1 .. Len(tr) /\ tmap \in [Link -> 0 .. Len(tr)]
      BY <2>1 DEF TypeOK
    <2>7. m \in [Link -> 0 .. Len(tr)] /\ m[p] = 0 /\ \A q \in Link : q # p => m[q] = tmap[q]
      BY <2>3, <2>6
    <2>8. \A q \in Mapped(m) : q \in Link /\ q # p /\ m[q] = tmap[q] /\ tmap[q] \in DOMAIN tr
      BY <2>6, <2>7 DEF Mapped
    <2>9. surv # 0 => surv \in Mapped(m)  BY <2>4, SurvivorIsMapped
    <2>10. kept # 0 => kept \in Mapped(m)
      <3>1. active = 0 \/ active \in Mapped(tmap)  BY <2>1, <1>ActiveIsMapped
      <3>. QED  BY <2>2, <2>7, <3>1 DEF Mapped
    <2>11. active' # 0 => active' \in Mapped(m)  BY <2>5, <2>9, <2>10
    <2>12. reader' \in [Reader -> Readers']
      <3>. HIDE DEF td, c
      <3>1. CASE surv # 0  BY <2>1, <2>5, <2>6, <3>1, <1>ReadersStay
      <3>2. CASE surv = 0
        <4>1. Readers' = Readers  BY <2>5 DEF Readers, Running, Blocked, Holding
        <4>2. reader \in [Reader -> Readers]  BY <2>1 DEF TypeOK, Readers
        <4>3. reader' = [r \in Reader |->
                IF reader[r].pc # "free" /\ reader[r].peer = p
                THEN [reader[r] EXCEPT !.registered = FALSE] ELSE reader[r]]
          BY <2>2, <2>3, <2>4, <2>5, <3>2 DEF peerDisconnected
        <4>4. \A r \in Reader : reader[r].pc # "free" => [reader[r] EXCEPT !.registered = FALSE] \in Readers
          BY <2>1, <1>ReaderRebound, Zenon
        <4>. QED  BY <4>1, <4>2, <4>3, <4>4
      <3>. QED  BY <3>1, <3>2
    <2>13. PICK d \in Calls' : SetCall(p, d) /\ d.pc \in {"idle", "link"}
      <3>1. CASE surv = 0
        <4>. HIDE DEF c
        <4>. QED  BY <2>5, <3>1 DEF IdleCall, Calls
      <3>2. CASE surv # 0
        <4>1. tmap[surv] \in DOMAIN tr  BY <2>8, <2>9, <3>2
        <4>2. td \in SUBSET DOMAIN tr  BY <2>8
        <4>3. tmap[p] \in 0 .. Len(tr) /\ 0 \in 0 .. Len(tr)  BY <2>6
        <4>4. c \in Linking /\ c.pc = "link"
          <5>. HIDE DEF td
          <5>. QED  BY <4>1, <4>2, <4>3 DEF Linking
        <4>. HIDE DEF c
        <4>5. Linking' = Linking  BY <2>5 DEF Linking
        <4>6. c \in Calls'  BY <4>4, <4>5 DEF Calls
        <4>. QED  BY <2>5, <3>2, <4>4, <4>6
      <3>. QED  BY <3>1, <3>2
    <2>. HIDE DEF td, c
    <2>14. TypeOK' /\ call'[p] = d /\ \A q \in Link : q # p => call'[q] = call[q]
      <3>1. /\ TransportsOK(tr') /\ Len(tr) <= Len(tr') /\ DOMAIN tr \subseteq DOMAIN tr'
            /\ tmap' \in [Link -> 0 .. Len(tr')]
        <4>1. tr' = tr /\ tmap' = m  BY <2>5
        <4>2. TransportsOK(tr)  BY <2>1 DEF TypeOK, TransportsOK
        <4>3. TransportsOK(tr')  BY <4>1, <4>2
        <4>. QED  BY <2>6, <2>7, <4>1, <4>3
      <3>2. link' \in [Link -> {"new", "up", "down"}]
        <4>1. link \in [Link -> {"new", "up", "down"}]  BY <2>1 DEF TypeOK
        <4>. QED  BY <2>5, <4>1
      <3>3. /\ arrived' \in [Link -> 0 .. MaxEnvelopes] /\ got' = got /\ connects' \in Nat
            /\ drops' \in Nat /\ sessions' \in Nat /\ crashed' \in BOOLEAN
        <4>1. /\ arrived \in [Link -> 0 .. MaxEnvelopes] /\ connects \in Nat
              /\ drops \in Nat /\ sessions \in Nat /\ crashed \in BOOLEAN
          BY <2>1, Plain, Zenon
        <4>2. UNCHANGED <<arrived, got, crashed, connects, sessions>> /\ drops' = drops + 1
          BY <2>5, Zenon
        <4>3. drops' \in Nat  BY <4>1, <4>2
        <4>. QED  BY <4>1, <4>2, <4>3, Zenon
      <3>4. active' \in Link \cup {0}  BY <2>8, <2>11
      <3>. QED  BY <2>1, <2>12, <2>13, <3>1, <3>2, <3>3, <3>4, <1>LinkTypes, Zenon
    <2>15. Merging'
      <3>1. \A q \in Link : tmap'[q] # 0 => q # p /\ tmap'[q] = tmap[q]  BY <2>5, <2>7
      <3>2. \A q \in Link : tmap'[q] # 0 => tr'[tmap'[q]].peer = q  BY <2>1, <2>5, <3>1 DEF Merging
      <3>3. \A q \in Link : link'[q] = "up" \/ call'[q].pc = "pick" => tmap'[q] # 0
        <4>. SUFFICES ASSUME NEW q \in Link, link'[q] = "up" \/ call'[q].pc = "pick"
                      PROVE  tmap'[q] # 0
          OBVIOUS
        <4>1. link \in [Link -> {"new", "up", "down"}]  BY <2>1 DEF TypeOK
        <4>2. q # p  BY <2>5, <2>13, <2>14, <4>1
        <4>3. link'[q] = link[q] /\ call'[q] = call[q] /\ tmap'[q] = tmap[q]
          BY <2>5, <2>7, <2>14, <4>1, <4>2
        <4>. QED  BY <2>1, <4>3, Zenon DEF Merging
      <3>4. ActiveHasTransport'  BY <2>5, <2>11 DEF ActiveHasTransport, Mapped
      <3>5. \A t \in DOMAIN tr' : tr'[t].closed <=> tr'[t].delegate # 0  BY <2>1, <2>5 DEF Merging
      <3>6. \A q \in Link : call'[q].pc = "close" => call'[q] = call[q]  BY <2>13, <2>14
      <3>7. \A q \in Link : call'[q].pc = "close" =>
              call'[q].cur \in DOMAIN tr' /\ tr'[call'[q].cur].locked /\ ~tr'[call'[q].cur].closed
        BY <2>1, <2>5, <3>6 DEF Merging
      <3>8. \A q, s \in Link :
              call'[q].pc = "close" /\ call'[s].pc = "close" /\ call'[q].cur = call'[s].cur => q = s
        <4>1. \A q, s \in Link : call[q].pc = "close" /\ call[s].pc = "close" /\ call[q].cur = call[s].cur => q = s
          BY <2>1, Zenon DEF Merging
        <4>. QED  BY <3>6, <4>1, Zenon
      <3>. QED  BY <3>2, <3>3, <3>4, <3>5, <3>7, <3>8 DEF Merging
    <2>16. drops' # 0  BY <2>1, <2>5 DEF TypeOK
    <2>. QED  BY <2>5, <2>14, <2>15, <2>16 DEF Inv
  <1>. SUFFICES ASSUME Inv, [Next]_vars
                PROVE  /\ Inv'
                       /\ \A t \in DOMAIN tr : tr[t].delegate # 0 => tr'[t].delegate = tr[t].delegate
    OBVIOUS
  <1>1. TypeOK  BY DEF Inv
  <1>2. CASE UNCHANGED vars
    <2>1. UNCHANGED <<tr, tmap, active, link, call, reader, arrived, got, crashed, connects, drops, sessions>>
      BY <1>2 DEF vars, bounds
    <2>2. TypeOK'
      BY <1>1, <2>1 DEF TypeOK, Linking, Queueing, Running, Blocked, Holding
    <2>3. QueuesOnly  BY <2>1 DEF QueuesOnly
    <2>4. Inv'  BY <2>1, <2>2, <2>3, <1>QueueStepKeeps
    <2>. QED  BY <2>1, <2>4
  <1>3. ASSUME NEW p \in Link, LinkThread(p)
        PROVE  /\ Inv'
               /\ \A t \in DOMAIN tr : tr[t].delegate # 0 => tr'[t].delegate = tr[t].delegate
    <2>1. CASE peerConnected(p) \/ dataReceived(p)  BY <2>1, <1>ArrivalKeeps
    <2>2. CASE pickCanonical(p)  BY <2>2, <1>PickKeeps
    <2>3. CASE peerDisconnected(p)  BY <2>3, <1>DropKeeps
    <2>4. CASE \E t \in DOMAIN tr : linkSkip(p, t)  BY <2>4, <1>SkipKeeps
    <2>5. CASE \E t \in DOMAIN tr : linkDrain(p, t)  BY <2>5, <1>DrainKeeps
    <2>6. CASE linkClose(p)  BY <2>6, <1>CloseKeeps
    <2>7. CASE linkDone(p)  BY <2>7, <1>DoneKeeps
    <2>8. CASE enqueueRoot(p) \/ enqueueLocked(p)  BY <2>8, <1>EnqueueKeeps DEF QueuesOnly
    <2>. QED  BY <1>3, <2>1, <2>2, <2>3, <2>4, <2>5, <2>6, <2>7, <2>8, Zenon DEF LinkThread
  <1>4. ASSUME NEW r \in Reader, SessionThread(r)
        PROVE  /\ Inv'
               /\ \A t \in DOMAIN tr : tr[t].delegate # 0 => tr'[t].delegate = tr[t].delegate
    <2>1. Inv' /\ QueuesOnly  BY <1>4, <1>SessionKeeps
    <2>. QED  BY <2>1 DEF QueuesOnly
  <1>. QED  BY <1>2, <1>3, <1>4 DEF Next

\* The invariant holds in every state the core reaches.
THEOREM Invariance == Spec => []Inv
  <1>1. Init => Inv
    <2>. SUFFICES ASSUME Init PROVE Inv
      OBVIOUS
    <2>1. /\ tr = <<>> /\ DOMAIN tr = {} /\ Len(tr) = 0 /\ active = 0 /\ drops = 0
          /\ \A p \in Link : tmap[p] = 0 /\ link[p] = "new" /\ call[p] = IdleCall
      BY DEF Init
    <2>2. \A p \in Link : call[p].pc = "idle"  BY <2>1 DEF IdleCall
    <2>3. TypeOK
      <3>1. tr \in Seq(Transport) /\ tmap \in [Link -> 0 .. Len(tr)]  BY <2>1 DEF Init
      <3>2. /\ call \in [Link -> {IdleCall, [pc |-> "pick"]} \cup Linking \cup Queueing]
            /\ reader \in [Reader -> {FreeReader} \cup Running \cup Blocked \cup Holding]
        BY DEF Init
      <3>3. arrived \in [Link -> 0 .. MaxEnvelopes]
        <4>1. 0 \in 0 .. MaxEnvelopes  BY BoundAssumption
        <4>. QED  BY <4>1 DEF Init
      <3>4. got \in [Reader -> Seq(Envelope)]
        <4>1. <<>> \in Seq(Envelope)  OBVIOUS
        <4>. QED  BY <4>1 DEF Init
      <3>5. link \in [Link -> {"new", "up", "down"}]  BY DEF Init
      <3>6. {connects, drops, sessions} \subseteq Nat  BY DEF Init
      <3>7. crashed \in BOOLEAN
        <4>1. crashed = FALSE  BY DEF Init
        <4>. QED  BY <4>1, Zenon
      <3>. QED  BY <2>1, <3>1, <3>2, <3>3, <3>4, <3>5, <3>6, <3>7 DEF TypeOK
    <2>4. Merging  BY <2>1, <2>2 DEF Merging, ActiveHasTransport
    <2>5. Joining  BY <2>1, <2>2 DEF Joining
    <2>. QED  BY <2>3, <2>4, <2>5 DEF Inv
  <1>2. Inv /\ [Next]_vars => Inv'  BY StepKeeps
  <1>. QED  BY <1>1, <1>2, PTL DEF Spec

\* Every reference in the map, in a handler and in a session is to a transport
\* made, and no incoming channel exceeds its capacity.
THEOREM TypeCorrect == Spec => []TypeOK
  <1>1. Inv => TypeOK  BY DEF Inv
  <1>. QED  BY <1>1, Invariance, PTL

\* node.ActivePeer, when set, is a link with a transport, through all drops.
THEOREM ActiveIsThere == Spec => []ActiveHasTransport
  <1>1. Inv => ActiveHasTransport  BY DEF Inv, Merging
  <1>. QED  BY <1>1, Invariance, PTL

\* Joins delegate to larger peer ids only.
THEOREM JoinsGoUp == Spec => []LinksGoUp
  <1>1. Inv => LinksGoUp
    <2>. SUFFICES ASSUME Inv, drops = 0, NEW t \in DOMAIN tr, tr[t].delegate # 0
                  PROVE  tr[tr[t].delegate].peer > tr[t].peer
      BY DEF LinksGoUp
    <2>1. TypeOK /\ Joining  BY DEF Inv
    <2>2. PICK d : d = tr[t].delegate  OBVIOUS
    <2>3. d \in DOMAIN tr
      <3>1. d \in 0 .. Len(tr) /\ d # 0 /\ Len(tr) \in Nat /\ DOMAIN tr = 1 .. Len(tr)
        BY <2>1, <2>2 DEF TypeOK
      <3>. QED  BY <3>1
    <2>4. tr[t].peer < tr[d].peer  BY <2>1, <2>2 DEF Joining
    <2>5. tr[t].peer \in Nat /\ tr[d].peer \in Nat  BY <2>1, <2>3, Queues, LinkAssumption, Zenon
    <2>. QED  BY <2>2, <2>4, <2>5
  <1>. QED  BY <1>1, Invariance, PTL

\* Once linkDelegate has pointed a transport at a survivor, nothing points it
\* elsewhere.
THEOREM DelegationsStay == Spec => DelegationIsFinal
  <1>1. Inv /\ [Next]_vars =>
          [\A t \in DOMAIN tr : tr[t].delegate # 0 => tr'[t].delegate = tr[t].delegate]_vars
    BY StepKeeps
  <1>. QED  BY <1>1, Invariance, PTL DEF Spec, DelegationIsFinal

\* However many links come up, in whatever order and from whatever threads,
\* once their handlers are done every connected link's transport leads to the
\* transport of node.ActivePeer, as long as no link has dropped.
THEOREM JoinsMeet == Spec => []JoinsReachActive
  \* A function that grows at every step grows over any distance.
  <1>StepwiseGrowth.
      ASSUME NEW n \in Nat, NEW g \in [1 .. n -> Int],
             \A i \in 1 .. n - 1 : g[i] < g[i + 1],
             NEW a \in 1 .. n, NEW b \in 1 .. n, a < b
      PROVE  g[a] < g[b]
    <2>. USE <1>StepwiseGrowth
    <2>. DEFINE T == {k \in a + 1 .. n : ~(g[a] < g[k])}
    <2>1. SUFFICES ASSUME b \in T PROVE FALSE
      OBVIOUS
    <2>2. T \in SUBSET Nat  OBVIOUS
    <2>3. PICK m \in T : \A k \in T : m <= k
      <3>. HIDE DEF T
      <3>. QED  BY <2>1, <2>2, LeastOf, Zenon
    <2>4. m \in a + 1 .. n /\ ~(g[a] < g[m]) /\ g[a] \in Int /\ g[m] \in Int  OBVIOUS
    <2>5. m - 1 \in 1 .. n - 1 /\ g[m - 1] < g[m] /\ g[m - 1] \in Int
      <3>1. m - 1 \in 1 .. n - 1 /\ m - 1 + 1 = m  BY <2>4
      <3>. QED  BY <3>1
    <2>6. CASE m = a + 1
      BY <2>4, <2>5, <2>6
    <2>7. CASE m # a + 1
      <3>1. m - 1 \in a + 1 .. n /\ m - 1 \notin T
        BY <2>3, <2>4, <2>7
      <3>2. g[a] < g[m - 1]  BY <3>1
      <3>. QED  BY <2>4, <2>5, <3>2
    <2>. QED  BY <2>6, <2>7

  \* Of n + 1 places among n, two are the same.
  <1>PigeonHole.
      ASSUME NEW n \in Nat, NEW f \in [1 .. n + 1 -> 1 .. n]
      PROVE  \E a, b \in 1 .. n + 1 : a # b /\ f[a] = f[b]
    <2>. USE <1>PigeonHole
    <2>. DEFINE Inj(h, k) == \A a, b \in 1 .. k + 1 : h[a] = h[b] => a = b
                T == {k \in Nat : \E h \in [1 .. k + 1 -> 1 .. k] : Inj(h, k)}
    <2>1. SUFFICES ASSUME n \in T PROVE FALSE
      OBVIOUS
    <2>2. PICK k \in T : \A l \in T : k <= l
      <3>1. T \in SUBSET Nat  OBVIOUS
      <3>. HIDE DEF T
      <3>. QED  BY <2>1, <3>1, LeastOf, Zenon
    <2>3. k \in Nat  OBVIOUS
    <2>4. PICK h \in [1 .. k + 1 -> 1 .. k] : Inj(h, k)  BY Zenon
    <2>5. k + 1 \in 1 .. k + 1 /\ h[k + 1] \in 1 .. k  BY <2>3
    <2>6. k - 1 \in Nat /\ k - 1 < k /\ (k - 1) + 1 = k  BY <2>3, <2>5
    <2>. DEFINE g == [i \in 1 .. k |-> IF h[i] = k THEN h[k + 1] ELSE h[i]]
    <2>7. \A i \in 1 .. k : i \in 1 .. k + 1 /\ i # k + 1 /\ h[i] # h[k + 1] /\ h[i] \in 1 .. k
      <3>1. \A i \in 1 .. k : i \in 1 .. k + 1 /\ i # k + 1  BY <2>3
      <3>. QED  BY <2>4, <2>5, <3>1, Zenon
    <2>8. g \in [1 .. k -> 1 .. k - 1]
      <3>1. ASSUME NEW i \in 1 .. k PROVE (IF h[i] = k THEN h[k + 1] ELSE h[i]) \in 1 .. k - 1
        <4>1. CASE h[i] = k
          <5>1. h[k + 1] # k  BY <2>7, <4>1
          <5>2. h[k + 1] \in 1 .. k - 1  BY <2>3, <2>5, <5>1
          <5>. QED  BY <4>1, <5>2
        <4>2. CASE h[i] # k
          <5>1. h[i] \in 1 .. k - 1  BY <2>3, <2>7, <4>2
          <5>. QED  BY <4>2, <5>1
        <4>. QED  BY <4>1, <4>2
      <3>. QED  BY <3>1, Zenon
    <2>9. \A a, b \in 1 .. k : g[a] = g[b] => a = b
      BY <2>4, <2>7, Zenon
    <2>10. k - 1 \in T
      <3>1. g \in [1 .. (k - 1) + 1 -> 1 .. k - 1] /\ Inj(g, k - 1)
        <4>. HIDE DEF g
        <4>. QED  BY <2>6, <2>8, <2>9, Zenon
      <3>. HIDE DEF Inj, g
      <3>. QED  BY <2>6, <3>1, Zenon
    <2>. HIDE DEF T
    <2>. QED  BY <2>2, <2>3, <2>6, <2>10

  \* A climb through n + 1 places among n visits one place twice, so its heights
  \* cannot grow with every step.
  <1>NoLongClimb.
      ASSUME NEW n \in Nat, NEW h \in [0 .. n -> 1 .. n], NEW w \in [1 .. n -> Nat]
      PROVE  ~\A i \in 1 .. n : w[h[i - 1]] < w[h[i]]
    <2>. USE <1>NoLongClimb
    <2>1. PICK k : k = n + 1  OBVIOUS
    <2>2. k \in Nat /\ k - 1 = n /\ \A i \in 1 .. k : i - 1 \in 0 .. n  BY <2>1
    <2>. DEFINE f == [i \in 1 .. k |-> h[i - 1]]
                g == [i \in 1 .. k |-> w[h[i - 1]]]
    <2>3. /\ f \in [1 .. k -> 1 .. n] /\ g \in [1 .. k -> Int]
          /\ \A i \in 1 .. k : f[i] = h[i - 1] /\ g[i] = w[f[i]]
      <3>1. \A i \in 1 .. k : h[i - 1] \in 1 .. n  BY <2>2, Zenon
      <3>2. \A j \in 1 .. n : w[j] \in Int  OBVIOUS
      <3>3. \A i \in 1 .. k : w[h[i - 1]] \in Int  BY <3>1, <3>2, Zenon
      <3>. QED  BY <3>1, <3>3, Zenon
    <2>. HIDE DEF f, g
    <2>4. ASSUME \A i \in 1 .. n : w[h[i - 1]] < w[h[i]]
          PROVE  \A i \in 1 .. k - 1 : g[i] < g[i + 1]
      <3>. SUFFICES ASSUME NEW i \in 1 .. n PROVE g[i] < g[i + 1]
        BY <2>2
      <3>1. i \in 1 .. k /\ i + 1 \in 1 .. k /\ (i + 1) - 1 = i  BY <2>1
      <3>2. g[i] = w[h[i - 1]] /\ g[i + 1] = w[h[i]]  BY <2>3, <3>1
      <3>. QED  BY <2>4, <3>2
    <2>5. \E a, b \in 1 .. k : a # b /\ f[a] = f[b]  BY <2>1, <2>3, <1>PigeonHole, Zenon
    <2>6. PICK a \in 1 .. k, b \in 1 .. k : a # b /\ f[a] = f[b]  BY <2>5
    <2>7. a < b \/ b < a  BY <2>2, <2>6
    <2>8. (\A i \in 1 .. k - 1 : g[i] < g[i + 1]) => g[a] < g[b] \/ g[b] < g[a]
      BY <2>2, <2>3, <2>6, <2>7, <1>StepwiseGrowth, Zenon
    <2>9. g[a] = g[b] /\ g[a] \in Int  BY <2>3, <2>6, Zenon
    <2>10. ~(g[a] < g[b]) /\ ~(g[b] < g[a])
      <3>1. PICK x \in Int : x = g[a] /\ x = g[b]  BY <2>9, Zenon
      <3>2. ~(x < x)  OBVIOUS
      <3>. QED  BY <3>1, <3>2, Zenon
    <2>. QED  BY <2>4, <2>8, <2>10

  \* With no handler at work, a settled transport leads to the active one.
  <1>SettledLeadsToActive.
      ASSUME Inv, drops = 0, Quiet, active # 0, NEW t \in DOMAIN tr, Settled(t)
      PROVE  ~Cyclic(t) /\ delegateRoot(t) = tmap[active]
    <2>. USE <1>SettledLeadsToActive
    <2>1. TypeOK /\ Joining  BY DEF Inv
    <2>2. PICK n : n = Len(tr)  BY Zenon
    <2>3. n \in Nat /\ DOMAIN tr = 1 .. n /\ n \in 0 .. n  BY <2>1, <2>2 DEF TypeOK
    <2>4. PICK h : h = Hops(t)  OBVIOUS
    <2>5. /\ h \in [0 .. n -> DOMAIN tr] /\ h[0] = t
          /\ \A i \in 1 .. n : h[i] =
               IF tr[h[i - 1]].delegate = 0 THEN h[i - 1] ELSE tr[h[i - 1]].delegate
      BY <2>1, <2>2, <2>4, HopsAre
    <2>6. \A u \in DOMAIN tr : Settled(u) => u = tmap[active] \/ tr[u].delegate # 0
      BY DEF Quiet, Settled, IdleCall
    <2>7. \A i \in 0 .. n : Settled(h[i])
      <3>. DEFINE T == {i \in 0 .. n : ~Settled(h[i])}
      <3>. SUFFICES ASSUME NEW z \in T PROVE FALSE
        OBVIOUS
      <3>1. T \in SUBSET Nat  BY <2>3
      <3>2. PICK m \in T : \A k \in T : m <= k
        <4>. HIDE DEF T
        <4>. QED  BY <3>1, LeastOf
      <3>3. m \in 0 .. n /\ ~Settled(h[m])  OBVIOUS
      <3>4. m # 0
        <4>1. CASE m = 0  BY <2>5, <3>3, <4>1
        <4>. QED  BY <4>1
      <3>5. m \in 1 .. n /\ m - 1 \in 0 .. n /\ ~(m <= m - 1)  BY <2>3, <3>3, <3>4
      <3>6. m - 1 \notin T
        <4>. HIDE DEF T
        <4>. QED  BY <3>2, <3>5
      <3>7. Settled(h[m - 1]) /\ h[m - 1] \in DOMAIN tr  BY <2>5, <3>5, <3>6
      <3>8. h[m] = IF tr[h[m - 1]].delegate = 0 THEN h[m - 1] ELSE tr[h[m - 1]].delegate
        <4>. HIDE DEF T
        <4>. QED  BY <2>5, <3>5
      <3>9. Settled(h[m])
        <4>. HIDE DEF T
        <4>1. CASE tr[h[m - 1]].delegate = 0  BY <3>7, <3>8, <4>1
        <4>2. CASE tr[h[m - 1]].delegate # 0
          <5>1. Settled(tr[h[m - 1]].delegate)  BY <2>1, <3>7, <4>2 DEF Joining
          <5>. QED  BY <3>8, <4>2, <5>1
        <4>. QED  BY <4>1, <4>2
      <3>. QED  BY <3>3, <3>9
    <2>8. tr[h[n]].delegate = 0
      <3>. SUFFICES ASSUME tr[h[n]].delegate # 0 PROVE FALSE
        OBVIOUS
      <3>1. \A i \in 0 .. n : tr[h[i]].delegate # 0
        <4>. DEFINE T == {k \in 0 .. n : tr[h[n - k]].delegate = 0}
        <4>1. SUFFICES ASSUME NEW i \in 0 .. n, tr[h[i]].delegate = 0 PROVE FALSE
          OBVIOUS
        <4>2. n - i \in T  BY <2>3, <4>1
        <4>3. T \in SUBSET Nat  BY <2>3
        <4>4. PICK m \in T : \A k \in T : m <= k
          <5>. HIDE DEF T
          <5>. QED  BY <4>2, <4>3, LeastOf, Zenon
        <4>5. m \in 0 .. n /\ tr[h[n - m]].delegate = 0 /\ m # 0
          <5>1. m \in 0 .. n /\ tr[h[n - m]].delegate = 0  OBVIOUS
          <5>2. CASE m = 0
            <6>1. n - m = n  BY <2>3, <5>2
            <6>. QED  BY <5>1, <6>1
          <5>. QED  BY <5>1, <5>2
        <4>6. PICK j : j = n - m + 1  OBVIOUS
        <4>7. /\ j \in 1 .. n /\ j - 1 = n - m /\ m - 1 \in 0 .. n /\ n - (m - 1) = j
              /\ ~(m <= m - 1)
          BY <2>3, <4>5, <4>6
        <4>8. h[j] = h[j - 1]
          <5>. HIDE DEF T
          <5>. QED  BY <2>5, <4>5, <4>7
        <4>9. m - 1 \in T  BY <4>5, <4>7, <4>8
        <4>. HIDE DEF T
        <4>. QED  BY <4>4, <4>7, <4>9
      <3>. DEFINE w == [u \in 1 .. n |-> tr[u].peer]
      <3>2. w \in [1 .. n -> Nat]
        <4>1. \A u \in DOMAIN tr : tr[u].peer \in Nat  BY <2>1, Queues, LinkAssumption, Zenon
        <4>. QED  BY <2>3, <4>1
      <3>3. \A i \in 1 .. n : w[h[i - 1]] < w[h[i]]
        <4>. SUFFICES ASSUME NEW i \in 1 .. n PROVE w[h[i - 1]] < w[h[i]]
          OBVIOUS
        <4>1. i - 1 \in 0 .. n /\ i \in 0 .. n  BY <2>3
        <4>2. h[i - 1] \in DOMAIN tr /\ h[i] \in DOMAIN tr /\ tr[h[i - 1]].delegate # 0
          BY <2>5, <3>1, <4>1
        <4>3. h[i] = tr[h[i - 1]].delegate  BY <2>5, <4>2
        <4>4. tr[h[i - 1]].peer < tr[h[i]].peer  BY <2>1, <4>2, <4>3 DEF Joining
        <4>. QED  BY <2>3, <4>2, <4>4
      <3>. HIDE DEF w
      <3>. QED  BY <2>3, <2>5, <3>2, <3>3, <1>NoLongClimb, Zenon
    <2>9. delegateRoot(t) = h[n]  BY <2>2, <2>4 DEF delegateRoot
    <2>10. h[n] \in DOMAIN tr /\ Settled(h[n])  BY <2>3, <2>5, <2>7
    <2>11. h[n] = tmap[active]  BY <2>6, <2>8, <2>10
    <2>. QED  BY <2>8, <2>9, <2>11 DEF Cyclic
  <1>1. Inv => JoinsReachActive
    <2>. SUFFICES ASSUME Inv, Quiet, active # 0, drops = 0, NEW p \in Link, link[p] = "up"
                  PROVE  ~Cyclic(tmap[p]) /\ delegateRoot(tmap[p]) = tmap[active]
      BY DEF JoinsReachActive
    <2>1. TypeOK /\ Merging /\ Joining  BY DEF Inv
    <2>2. PICK s : s = tmap[p]  OBVIOUS
    <2>3. call[p].pc # "pick"  BY DEF Quiet, IdleCall
    <2>4. s \in DOMAIN tr
      <3>1. s # 0 /\ s \in 0 .. Len(tr) /\ Len(tr) \in Nat /\ DOMAIN tr = 1 .. Len(tr)
        BY <2>1, <2>2, Plain, Zenon DEF Merging
      <3>. QED  BY <3>1
    <2>5. Settled(s)  BY <2>1, <2>2, <2>3, Zenon DEF Joining
    <2>6. ~Cyclic(s) /\ delegateRoot(s) = tmap[active]  BY <2>4, <2>5, <1>SettledLeadsToActive
    <2>. QED  BY <2>2, <2>6
  <1>. QED  BY <1>1, Invariance, PTL

=============================================================================
