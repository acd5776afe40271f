---------------------- MODULE PeerTransportsOnceProofs ----------------------
(***************************************************************************)
(* Proof that PeerTransports hands out every envelope at most once, however *)
(* links come and go, handlers merge transports and sessions put back.      *)
(***************************************************************************)
EXTENDS PeerTransportsProofs

-----------------------------------------------------------------------------
(* Sequences at places, none of which share an element.                     *)

\* F has sequences over K at the places C, and no element twice.
Distinct(F, C, K) ==
  /\ F \in [C -> Seq(K)]
  /\ \A a, b \in C : \A i \in 1 .. Len(F[a]), j \in 1 .. Len(F[b]) : F[a][i] = F[b][j] => a = b /\ i = j

\* G is a function on C.
IsTable(G, C) == G = [c \in C |-> G[c]]

\* What is left of p after its first elements are gone.
Rest(q, p) == \E s \in Nat : Len(q) + s <= Len(p) /\ \A i \in 1 .. Len(q) : q[i] = p[i + s]

\* Dropping elements makes no duplicate.
LEMMA Shortened ==
  ASSUME NEW C, NEW K, NEW F, NEW G, Distinct(F, C, K), G \in [C -> Seq(K)],
         \A c \in C : Rest(G[c], F[c])
  PROVE  Distinct(G, C, K)
  <1>. SUFFICES ASSUME NEW a \in C, NEW b \in C, NEW i \in 1 .. Len(G[a]), NEW j \in 1 .. Len(G[b]),
                       G[a][i] = G[b][j]
                PROVE  a = b /\ i = j
    BY DEF Distinct
  <1>1. G[a] \in Seq(K) /\ G[b] \in Seq(K) /\ F[a] \in Seq(K) /\ F[b] \in Seq(K)  BY DEF Distinct
  <1>2. PICK s \in Nat : Len(G[a]) + s <= Len(F[a]) /\ \A k \in 1 .. Len(G[a]) : G[a][k] = F[a][k + s]
    BY Zenon DEF Rest
  <1>3. PICK r \in Nat : Len(G[b]) + r <= Len(F[b]) /\ \A k \in 1 .. Len(G[b]) : G[b][k] = F[b][k + r]
    BY Zenon DEF Rest
  <1>4. Len(G[a]) \in Nat /\ Len(G[b]) \in Nat /\ Len(F[a]) \in Nat /\ Len(F[b]) \in Nat  BY <1>1
  <1>5. i + s \in 1 .. Len(F[a]) /\ j + r \in 1 .. Len(F[b])  BY <1>2, <1>3, <1>4
  <1>6. F[a][i + s] = F[b][j + r]  BY <1>2, <1>3
  <1>7. a = b /\ i + s = j + r  BY <1>5, <1>6 DEF Distinct
  <1>8. j + s \in 1 .. Len(F[a]) /\ F[a][j + s] = F[b][j + r]  BY <1>2, <1>3, <1>4, <1>7
  <1>9. j + s = j + r  BY <1>5, <1>7, <1>8 DEF Distinct
  <1>. QED  BY <1>4, <1>7, <1>9

\* Moving a whole sequence to the end of another, or to its front, makes no
\* duplicate.
LEMMA AllMoved ==
  ASSUME NEW C, NEW K, NEW F, NEW G, Distinct(F, C, K), NEW a \in C, NEW b \in C, a # b,
         IsTable(G, C), G[a] = <<>>, G[b] = F[b] \o F[a] \/ G[b] = F[a] \o F[b],
         \A c \in C : c \notin {a, b} => G[c] = F[c]
  PROVE  Distinct(G, C, K)
  <1>1. F \in [C -> Seq(K)] /\ F[a] \in Seq(K) /\ F[b] \in Seq(K)  BY DEF Distinct
  <1>. DEFINE n == Len(F[a])  m == Len(F[b])
  <1>2. n \in Nat /\ m \in Nat /\ <<>> \in Seq(K) /\ Len(<<>>) = 0  BY <1>1
  <1>3. ASSUME NEW p \in Seq(K), NEW q \in Seq(K)
        PROVE  /\ p \o q \in Seq(K) /\ Len(p \o q) = Len(p) + Len(q)
               /\ \A i \in 1 .. Len(p) : (p \o q)[i] = p[i]
               /\ \A i \in Len(p) + 1 .. Len(p) + Len(q) : (p \o q)[i] = q[i - Len(p)]
    OBVIOUS
  <1>4. PICK back \in {0, 1} : G[b] = IF back = 1 THEN F[b] \o F[a] ELSE F[a] \o F[b]
    <2>1. CASE G[b] = F[b] \o F[a]
      <3>1. G[b] = IF 1 = 1 THEN F[b] \o F[a] ELSE F[a] \o F[b]  BY <2>1
      <3>. QED  BY <3>1
    <2>2. CASE G[b] = F[a] \o F[b]
      <3>1. G[b] = IF 0 = 1 THEN F[b] \o F[a] ELSE F[a] \o F[b]  BY <2>2
      <3>. QED  BY <3>1
    <2>. QED  BY <2>1, <2>2, Zenon
  <1>5. PICK w : w = IF back = 1 THEN F[b] \o F[a] ELSE F[a] \o F[b]  BY Zenon
  <1>6. /\ w \in Seq(K) /\ Len(w) = n + m
        /\ back = 1 => /\ \A i \in 1 .. m : w[i] = F[b][i]
                   /\ \A i \in m + 1 .. m + n : w[i] = F[a][i - m]
        /\ back = 0 => /\ \A i \in 1 .. n : w[i] = F[a][i]
                    /\ \A i \in n + 1 .. n + m : w[i] = F[b][i - n]
    <2>1. CASE back = 1
      <3>1. w = F[b] \o F[a]  BY <1>5, <2>1
      <3>. QED  BY <1>1, <1>2, <1>3, <2>1, <3>1
    <2>2. CASE back = 0
      <3>1. w = F[a] \o F[b]  BY <1>5, <2>2
      <3>. QED  BY <1>1, <1>2, <1>3, <2>2, <3>1
    <2>. QED  BY <2>1, <2>2, Zenon
  <1>7. /\ G \in [C -> Seq(K)] /\ G[a] = <<>> /\ G[b] = w
        /\ \A c \in C : c # a /\ c # b => G[c] = F[c]
    <2>1. \A c \in C : G[c] \in Seq(K)  BY <1>1, <1>2, <1>4, <1>5, <1>6, Zenon
    <2>. QED  BY <1>4, <1>5, <2>1, Zenon DEF IsTable
  <1>. DEFINE From(c, i, x, k) ==
                \/ c # a /\ c # b /\ x = c /\ k = i
                \/ c = b /\ back = 1 /\ i <= m /\ x = b /\ k = i
                \/ c = b /\ back = 1 /\ i > m /\ x = a /\ k = i - m
                \/ c = b /\ back = 0 /\ i <= n /\ x = a /\ k = i
                \/ c = b /\ back = 0 /\ i > n /\ x = b /\ k = i - n
  <1>8. ASSUME NEW c \in C, NEW i \in 1 .. Len(G[c])
        PROVE  \E x \in C : \E k \in 1 .. Len(F[x]) : From(c, i, x, k) /\ G[c][i] = F[x][k]
    <2>1. CASE c # a /\ c # b  BY <1>7, <2>1
    <2>2. CASE c = a  BY <1>2, <1>7, <2>2
    <2>3. CASE c = b
      <3>. HIDE DEF n, m
      <3>a. Len(G[c]) = n + m  BY <1>6, <1>7, <2>3
      <3>0. i \in 1 .. n + m /\ i \in Nat  BY <1>2, <3>a
      <3>1. CASE back = 1 /\ i <= m
        <4>1. i \in 1 .. m /\ G[c][i] = F[b][i]  BY <1>2, <1>6, <1>7, <2>3, <3>0, <3>1
        <4>. QED  BY <2>3, <3>1, <4>1 DEF n, m
      <3>2. CASE back = 1 /\ i > m
        <4>0. i \in m + 1 .. m + n /\ i - m \in 1 .. n  BY <1>2, <3>0, <3>2
        <4>1. i - m \in 1 .. n /\ G[c][i] = F[a][i - m]  BY <1>6, <1>7, <2>3, <3>2, <4>0
        <4>. QED  BY <2>3, <3>2, <4>1 DEF n, m
      <3>3. CASE back = 0 /\ i <= n
        <4>1. i \in 1 .. n /\ G[c][i] = F[a][i]  BY <1>2, <1>6, <1>7, <2>3, <3>0, <3>3
        <4>. QED  BY <2>3, <3>3, <4>1 DEF n, m
      <3>4. CASE back = 0 /\ i > n
        <4>0. i \in n + 1 .. n + m /\ i - n \in 1 .. m  BY <1>2, <3>0, <3>4
        <4>1. i - n \in 1 .. m /\ G[c][i] = F[b][i - n]  BY <1>6, <1>7, <2>3, <3>4, <4>0
        <4>. QED  BY <2>3, <3>4, <4>1 DEF n, m
      <3>5. \/ back = 1 /\ i <= m
            \/ back = 1 /\ i > m
            \/ back = 0 /\ i <= n
            \/ back = 0 /\ i > n
        BY <1>2, <1>4, <3>0
      <3>. QED  BY <3>1, <3>2, <3>3, <3>4, <3>5
    <2>. QED  BY <2>1, <2>2, <2>3
  <1>9. ASSUME NEW c \in C, NEW d \in C, NEW i \in 1 .. Len(G[c]), NEW j \in 1 .. Len(G[d]),
               G[c][i] = G[d][j]
        PROVE  c = d /\ i = j
    <2>0. Len(G[c]) \in Nat /\ Len(G[d]) \in Nat  BY <1>7
    <2>1. PICK x \in C : \E k \in 1 .. Len(F[x]) : From(c, i, x, k) /\ G[c][i] = F[x][k]  BY <1>8, Zenon
    <2>1a. PICK k \in 1 .. Len(F[x]) : From(c, i, x, k) /\ G[c][i] = F[x][k]  BY <2>1
    <2>2. PICK y \in C : \E l \in 1 .. Len(F[y]) : From(d, j, y, l) /\ G[d][j] = F[y][l]  BY <1>8
    <2>2a. PICK l \in 1 .. Len(F[y]) : From(d, j, y, l) /\ G[d][j] = F[y][l]  BY <2>2
    <2>3. x = y /\ k = l
      <3>1. F[x][k] = F[y][l]  BY <1>9, <2>1a, <2>2a, Zenon
      <3>. HIDE DEF From
      <3>. QED  BY <3>1 DEF Distinct
    <2>. HIDE DEF n, m
    <2>. QED  BY <1>2, <2>0, <2>1a, <2>2a, <2>3
  <1>. HIDE DEF From
  <1>. QED  BY <1>7, <1>9 DEF Distinct

\* An element that is nowhere may be put where nothing is.
LEMMA OneAdded ==
  ASSUME NEW C, NEW K, NEW L, K \subseteq L, NEW F, NEW G, Distinct(F, C, K), NEW a \in C,
         F[a] = <<>>, NEW e \in L, e \notin K, IsTable(G, C), G[a] = <<e>>, \A c \in C : c # a => G[c] = F[c]
  PROVE  Distinct(G, C, L)
  <1>1. F \in [C -> Seq(K)]  BY DEF Distinct
  <1>2. \A q \in Seq(K) : q \in Seq(L) /\ Len(q) \in Nat /\ \A i \in 1 .. Len(q) : q[i] \in K  OBVIOUS
  <1>3. <<e>> \in Seq(L) /\ Len(<<e>>) = 1 /\ <<e>>[1] = e  OBVIOUS
  <1>4. G \in [C -> Seq(L)] /\ G[a] = <<e>> /\ \A c \in C : c # a => G[c] = F[c]
    <2>1. \A c \in C : G[c] \in Seq(L)  BY <1>1, <1>2, <1>3, Zenon
    <2>. QED  BY <2>1 DEF IsTable
  <1>5. ASSUME NEW c \in C, NEW d \in C, NEW i \in 1 .. Len(G[c]), NEW j \in 1 .. Len(G[d]),
               G[c][i] = G[d][j]
        PROVE  c = d /\ i = j
    <2>1. CASE c # a /\ d # a
      <3>1. G[c] = F[c] /\ G[d] = F[d]  BY <1>4, <2>1
      <3>2. i \in 1 .. Len(F[c]) /\ j \in 1 .. Len(F[d]) /\ F[c][i] = F[d][j]  BY <1>5, <3>1
      <3>. QED  BY <3>2 DEF Distinct
    <2>2. CASE c = a /\ d = a
      <3>1. Len(G[c]) = 1 /\ Len(G[d]) = 1  BY <1>3, <1>4, <2>2, Zenon
      <3>2. i \in 1 .. 1 /\ j \in 1 .. 1  BY <3>1
      <3>3. i = 1 /\ j = 1  BY <3>2
      <3>. QED  BY <2>2, <3>3
    <2>3. CASE c = a /\ d # a
      <3>1. G[c][i] = e /\ G[d][j] \in K  BY <1>1, <1>2, <1>3, <1>4, <2>3
      <3>. QED  BY <1>5, <3>1
    <2>4. CASE c # a /\ d = a
      <3>1. G[d][j] = e /\ G[c][i] \in K  BY <1>1, <1>2, <1>3, <1>4, <2>4
      <3>. QED  BY <1>5, <3>1
    <2>. QED  BY <2>1, <2>2, <2>3, <2>4
  <1>. QED  BY <1>4, <1>5 DEF Distinct

-----------------------------------------------------------------------------
(* The places of PeerTransports, made or still to be made.                  *)

\* The transports are the naturals, so that the places do not change.
AllPlaces == ({"incoming", "preRecv"} \X Nat) \cup ({"call"} \X Link) \cup ({"held", "got"} \X Reader)

\* What is where.
Table == [c \in AllPlaces |-> IF c \in Place THEN Contents(c) ELSE <<>>]

\* The queues of a transport, the envelope a link thread carries and the one a
\* session holds for PutBack.
In(t) == IF t \in DOMAIN tr THEN tr[t].incoming ELSE <<>>
Pre(t) == IF t \in DOMAIN tr THEN tr[t].preRecv ELSE <<>>
Carried(p) == IF call[p].pc \in {"root", "enqueue"} THEN <<call[p].env>> ELSE <<>>
Held(r) == IF reader[r].pc = "putback" THEN <<reader[r].env>> ELSE <<>>

\* The envelopes that have come in.
Known == {e \in Envelope : e.n <= arrived[e.from]}

\* A handler never merges a transport into itself.
Apart ==
  \A p \in Link : call[p].pc \in {"link", "close"} =>
    call[p].surv \notin call[p].todo /\ call[p].surv # call[p].old

\* The inductive invariant behind AtMostOnce.
Once == Distinct(Table, AllPlaces, Known) /\ Apart

\* What the table has at each kind of place.
LEMMA TableAt ==
  ASSUME DOMAIN tr \subseteq Nat
  PROVE  /\ IsTable(Table, AllPlaces)
         /\ \A t \in Nat : <<"incoming", t>> \in AllPlaces /\ Table[<<"incoming", t>>] = In(t)
         /\ \A t \in Nat : <<"preRecv", t>> \in AllPlaces /\ Table[<<"preRecv", t>>] = Pre(t)
         /\ \A p \in Link : <<"call", p>> \in AllPlaces /\ Table[<<"call", p>>] = Carried(p)
         /\ \A r \in Reader : <<"held", r>> \in AllPlaces /\ Table[<<"held", r>>] = Held(r)
         /\ \A r \in Reader : <<"got", r>> \in AllPlaces /\ Table[<<"got", r>>] = got[r]
  <1>1. IsTable(Table, AllPlaces)  BY DEF IsTable, Table
  <1>2. ASSUME NEW t \in Nat
        PROVE  /\ <<"incoming", t>> \in AllPlaces /\ Table[<<"incoming", t>>] = In(t)
               /\ <<"preRecv", t>> \in AllPlaces /\ Table[<<"preRecv", t>>] = Pre(t)
    BY DEF AllPlaces, Table, Place, Contents, In, Pre
  <1>3. ASSUME NEW p \in Link
        PROVE  <<"call", p>> \in AllPlaces /\ Table[<<"call", p>>] = Carried(p)
    BY DEF AllPlaces, Table, Place, Contents, Carried
  <1>4. ASSUME NEW r \in Reader
        PROVE  /\ <<"held", r>> \in AllPlaces /\ Table[<<"held", r>>] = Held(r)
               /\ <<"got", r>> \in AllPlaces /\ Table[<<"got", r>>] = got[r]
    BY DEF AllPlaces, Table, Place, Contents, Held
  <1>. QED  BY <1>1, <1>2, <1>3, <1>4

\* Places are of five kinds.
LEMMA Kinds ==
  ASSUME NEW c \in AllPlaces
  PROVE  \/ \E t \in Nat : c = <<"incoming", t>> \/ c = <<"preRecv", t>>
         \/ \E p \in Link : c = <<"call", p>>
         \/ \E r \in Reader : c = <<"held", r>> \/ c = <<"got", r>>
  BY DEF AllPlaces

\* AtMostOnce is about the table.
LEMMA OnceIs ==
  ASSUME TypeOK, Distinct(Table, AllPlaces, Known)
  PROVE  AtMostOnce
  <1>1. Len(tr) \in Nat /\ DOMAIN tr = 1 .. Len(tr)  BY DEF TypeOK
  <1>2. Place \subseteq AllPlaces
    <2>1. DOMAIN tr \subseteq Nat  BY <1>1
    <2>. QED  BY <2>1 DEF Place, AllPlaces
  <1>3. \A c \in Place : Contents(c) = Table[c] /\ DOMAIN Contents(c) = 1 .. Len(Table[c])
    <2>1. \A c \in Place : Contents(c) = Table[c]  BY <1>2 DEF Table
    <2>2. \A c \in Place : Table[c] \in Seq(Known)  BY <1>2 DEF Distinct
    <2>3. \A c \in Place : DOMAIN Table[c] = 1 .. Len(Table[c])  BY <2>2
    <2>. QED  BY <2>1, <2>3
  <1>. QED  BY <1>2, <1>3 DEF AtMostOnce, Distinct

\* A step leaves all places but those of X as they are.
SameExcept(X) ==
  /\ \A t \in Nat : <<"incoming", t>> \notin X => In(t)' = In(t)
  /\ \A t \in Nat : <<"preRecv", t>> \notin X => Pre(t)' = Pre(t)
  /\ \A p \in Link : <<"call", p>> \notin X => Carried(p)' = Carried(p)
  /\ \A r \in Reader : <<"held", r>> \notin X => Held(r)' = Held(r)
  /\ \A r \in Reader : <<"got", r>> \notin X => got'[r] = got[r]

\* What the table has after a step.
LEMMA TableAfter ==
  ASSUME TypeOK, TypeOK', NEW X, SameExcept(X)
  PROVE  /\ IsTable(Table', AllPlaces)
         /\ \A c \in AllPlaces : c \notin X => Table'[c] = Table[c]
         /\ \A t \in Nat : Table'[<<"incoming", t>>] = In(t)' /\ Table'[<<"preRecv", t>>] = Pre(t)'
         /\ \A p \in Link : Table'[<<"call", p>>] = Carried(p)'
         /\ \A r \in Reader : Table'[<<"held", r>>] = Held(r)' /\ Table'[<<"got", r>>] = got'[r]
  <1>. DOMAIN tr \subseteq Nat /\ DOMAIN tr' \subseteq Nat
    <2>1. /\ Len(tr) \in Nat /\ DOMAIN tr = 1 .. Len(tr)
          /\ Len(tr') \in Nat /\ DOMAIN tr' = 1 .. Len(tr')
      BY DEF TypeOK
    <2>. QED  BY <2>1
  <1>0. IsTable(Table', AllPlaces)  BY DEF IsTable, Table
  <1>1. ASSUME NEW t \in Nat
        PROVE  Table'[<<"incoming", t>>] = In(t)' /\ Table'[<<"preRecv", t>>] = Pre(t)'
    BY DEF AllPlaces, Table, Place, Contents, In, Pre
  <1>2. ASSUME NEW p \in Link
        PROVE  Table'[<<"call", p>>] = Carried(p)'
    BY DEF AllPlaces, Table, Place, Contents, Carried
  <1>3. ASSUME NEW r \in Reader
        PROVE  Table'[<<"held", r>>] = Held(r)' /\ Table'[<<"got", r>>] = got'[r]
    BY DEF AllPlaces, Table, Place, Contents, Held
  <1>4. ASSUME NEW c \in AllPlaces, c \notin X PROVE Table'[c] = Table[c]
    <2>1. ASSUME NEW t \in Nat, c = <<"incoming", t>> \/ c = <<"preRecv", t>>
          PROVE  Table'[c] = Table[c]
      BY <1>1, <1>4, <2>1, TableAt DEF SameExcept
    <2>2. ASSUME NEW p \in Link, c = <<"call", p>> PROVE Table'[c] = Table[c]
      BY <1>2, <1>4, <2>2, TableAt DEF SameExcept
    <2>3. ASSUME NEW r \in Reader, c = <<"held", r>> \/ c = <<"got", r>>
          PROVE  Table'[c] = Table[c]
      BY <1>3, <1>4, <2>3, TableAt DEF SameExcept
    <2>. QED  BY <2>1, <2>2, <2>3, Kinds
  <1>. QED  BY <1>0, <1>1, <1>2, <1>3, <1>4

\* Envelopes stay known, and no envelope becomes known unless one comes in.
LEMMA KnownStays ==
  ASSUME UNCHANGED arrived
  PROVE  Known' = Known
  BY DEF Known

\* No duplicate comes of envelopes that stay where they are or are lost.
LEMMA Emptied ==
  ASSUME TypeOK, TypeOK', Distinct(Table, AllPlaces, Known), UNCHANGED arrived,
         NEW X, SameExcept(X), \A c \in AllPlaces : c \in X => Table'[c] = <<>>
  PROVE  Distinct(Table', AllPlaces, Known')
  <1>1. /\ IsTable(Table', AllPlaces)
        /\ \A c \in AllPlaces : c \notin X => Table'[c] = Table[c]
    BY TableAfter
  <1>2. \A c \in AllPlaces : Table[c] \in Seq(Known)  BY DEF Distinct
  <1>3. <<>> \in Seq(Known) /\ \A q \in Seq(Known) : Rest(q, q) /\ Rest(<<>>, q)
    <2>1. ASSUME NEW q \in Seq(Known) PROVE Rest(q, q) /\ Rest(<<>>, q)
      <3>1. Len(q) \in Nat /\ Len(<<>>) = 0 /\ Len(q) + 0 <= Len(q) /\ \A i \in 1 .. Len(q) : q[i] = q[i + 0]
        OBVIOUS
      <3>2. 0 \in Nat /\ \A i \in 1 .. Len(<<>>) : <<>>[i] = q[i + 0]  BY <3>1
      <3>3. Rest(q, q)  BY <3>1, <3>2, Zenon DEF Rest
      <3>4. Len(<<>>) + 0 <= Len(q)  BY <3>1
      <3>5. Rest(<<>>, q)  BY <3>2, <3>4, Zenon DEF Rest
      <3>. QED  BY <3>3, <3>5
    <2>. QED  BY <2>1
  <1>4. \A c \in AllPlaces : Table'[c] \in Seq(Known) /\ Rest(Table'[c], Table[c])
    BY <1>1, <1>2, <1>3
  <1>5. Table' \in [AllPlaces -> Seq(Known)]  BY <1>1, <1>4 DEF IsTable
  <1>6. Known' = Known  BY KnownStays
  <1>. QED  BY <1>4, <1>5, <1>6, Shortened

\* Replacing one of the queues of a transport.
SetIncoming(u, q) == tr' = [tr EXCEPT ![u].incoming = q]
SetPreRecv(u, q) == tr' = [tr EXCEPT ![u].preRecv = q]

\* Doing so leaves every other queue alone.
LEMMA QueueSet ==
  ASSUME TypeOK, NEW u \in DOMAIN tr, NEW q
  PROVE  /\ u \in Nat /\ In(u) = tr[u].incoming /\ Pre(u) = tr[u].preRecv
         /\ SetIncoming(u, q) =>
              /\ In(u)' = q /\ \A t \in Nat : t # u => In(t)' = In(t)
              /\ \A t \in Nat : Pre(t)' = Pre(t)
         /\ SetPreRecv(u, q) =>
              /\ Pre(u)' = q /\ \A t \in Nat : t # u => Pre(t)' = Pre(t)
              /\ \A t \in Nat : In(t)' = In(t)
  <1>1. /\ tr \in Seq(Transport) /\ Len(tr) \in Nat /\ DOMAIN tr = 1 .. Len(tr)
        /\ \A t \in DOMAIN tr : tr[t] \in Transport
    BY DEF TypeOK
  <1>2. u \in Nat /\ In(u) = tr[u].incoming /\ Pre(u) = tr[u].preRecv  BY <1>1 DEF In, Pre
  <1>3. ASSUME SetIncoming(u, q)
        PROVE  /\ DOMAIN tr' = DOMAIN tr /\ tr'[u].incoming = q
               /\ \A t \in DOMAIN tr : t # u => tr'[t].incoming = tr[t].incoming
               /\ \A t \in DOMAIN tr : tr'[t].preRecv = tr[t].preRecv
    BY <1>1, <1>3 DEF SetIncoming, Transport
  <1>4. ASSUME SetPreRecv(u, q)
        PROVE  /\ DOMAIN tr' = DOMAIN tr /\ tr'[u].preRecv = q
               /\ \A t \in DOMAIN tr : t # u => tr'[t].preRecv = tr[t].preRecv
               /\ \A t \in DOMAIN tr : tr'[t].incoming = tr[t].incoming
    BY <1>1, <1>4 DEF SetPreRecv, Transport
  <1>. QED  BY <1>2, <1>3, <1>4 DEF In, Pre

\* No step of a session duplicates an envelope.
LEMMA SessionOnce ==
  \A r \in Reader :
    TypeOK /\ TypeOK' /\ Distinct(Table, AllPlaces, Known) /\ SessionThread(r) =>
      Distinct(Table', AllPlaces, Known')

  \* Moving the first element of one sequence to the end of another makes no
  \* duplicate.
  <1>HeadMoved.
      ASSUME NEW C, NEW K, NEW F, NEW G, Distinct(F, C, K), NEW a \in C, NEW b \in C, a # b, F[a] # <<>>,
             IsTable(G, C), G[a] = Tail(F[a]), G[b] = Append(F[b], Head(F[a])),
             \A c \in C : c \notin {a, b} => G[c] = F[c]
      PROVE  Distinct(G, C, K)
    <2>. USE <1>HeadMoved
    <2>1. F \in [C -> Seq(K)] /\ F[a] \in Seq(K) /\ F[b] \in Seq(K)  BY DEF Distinct
    <2>2. /\ Tail(F[a]) \in Seq(K) /\ Len(Tail(F[a])) = Len(F[a]) - 1 /\ Len(F[a]) \in Nat \ {0}
          /\ \A i \in 1 .. Len(F[a]) - 1 : Tail(F[a])[i] = F[a][i + 1]
          /\ Head(F[a]) = F[a][1] /\ Head(F[a]) \in K
      BY <2>1
    <2>3. /\ Append(F[b], Head(F[a])) \in Seq(K) /\ Len(F[b]) \in Nat
          /\ Len(Append(F[b], Head(F[a]))) = Len(F[b]) + 1
          /\ \A i \in 1 .. Len(F[b]) : Append(F[b], Head(F[a]))[i] = F[b][i]
          /\ Append(F[b], Head(F[a]))[Len(F[b]) + 1] = F[a][1]
      BY <2>1, <2>2
    <2>4. /\ G \in [C -> Seq(K)] /\ G[a] = Tail(F[a]) /\ G[b] = Append(F[b], Head(F[a]))
          /\ \A c \in C : c # a /\ c # b => G[c] = F[c]
      <3>1. \A c \in C : G[c] \in Seq(K)  BY <2>1, <2>2, <2>3, Zenon
      <3>. QED  BY <3>1 DEF IsTable
    <2>. DEFINE From(c, i, x, k) ==
                  \/ c # a /\ c # b /\ x = c /\ k = i
                  \/ c = a /\ x = a /\ k = i + 1
                  \/ c = b /\ i <= Len(F[b]) /\ x = b /\ k = i
                  \/ c = b /\ i = Len(F[b]) + 1 /\ x = a /\ k = 1
    <2>5. ASSUME NEW c \in C, NEW i \in 1 .. Len(G[c])
          PROVE  \E x \in C : \E k \in 1 .. Len(F[x]) : From(c, i, x, k) /\ G[c][i] = F[x][k]
      <3>1. CASE c # a /\ c # b  BY <2>4, <3>1
      <3>2. CASE c = a
        <4>0. Len(G[a]) = Len(F[a]) - 1  BY <2>2, <2>4
        <4>1. i \in 1 .. Len(F[a]) - 1  BY <3>2, <4>0, Zenon
        <4>2. i + 1 \in 1 .. Len(F[a])  BY <2>2, <4>1
        <4>3. G[a][i] = F[a][i + 1]  BY <2>2, <2>4, <4>1
        <4>. QED  BY <3>2, <4>2, <4>3, Zenon
      <3>3. CASE c = b
        <4>1. i <= Len(F[b]) \/ i = Len(F[b]) + 1  BY <2>3, <2>4, <3>3
        <4>2. CASE i <= Len(F[b])
          <5>1. i \in 1 .. Len(F[b])  BY <2>3, <2>4, <3>3, <4>2
          <5>2. G[b][i] = F[b][i]  BY <2>3, <2>4, <5>1, Zenon
          <5>. QED  BY <3>3, <4>2, <5>1, <5>2, Zenon
        <4>3. CASE i = Len(F[b]) + 1
          <5>1. 1 \in 1 .. Len(F[a]) /\ G[b][i] = F[a][1]  BY <2>2, <2>3, <2>4, <4>3
          <5>. QED  BY <3>3, <4>3, <5>1
        <4>. QED  BY <4>1, <4>2, <4>3
      <3>. QED  BY <3>1, <3>2, <3>3
    <2>6. ASSUME NEW c \in C, NEW d \in C, NEW i \in 1 .. Len(G[c]), NEW j \in 1 .. Len(G[d]),
                 G[c][i] = G[d][j]
          PROVE  c = d /\ i = j
      <3>1. PICK x \in C : \E k \in 1 .. Len(F[x]) : From(c, i, x, k) /\ G[c][i] = F[x][k]  BY <2>5, Zenon
      <3>1a. PICK k \in 1 .. Len(F[x]) : From(c, i, x, k) /\ G[c][i] = F[x][k]  BY <3>1
      <3>2. PICK y \in C : \E m \in 1 .. Len(F[y]) : From(d, j, y, m) /\ G[d][j] = F[y][m]  BY <2>5, Zenon
      <3>2a. PICK m \in 1 .. Len(F[y]) : From(d, j, y, m) /\ G[d][j] = F[y][m]  BY <3>2
      <3>3. x = y /\ k = m
        <4>1. F[x][k] = F[y][m]  BY <2>6, <3>1a, <3>2a, Zenon
        <4>. HIDE DEF From
        <4>. QED  BY <4>1 DEF Distinct
      <3>. QED  BY <2>2, <2>3, <3>1a, <3>2a, <3>3
    <2>. HIDE DEF From
    <2>. QED  BY <2>4, <2>6 DEF Distinct

  \* No duplicate comes of taking an envelope from the front of a queue.
  <1>Taken.
      ASSUME TypeOK, TypeOK', Distinct(Table, AllPlaces, Known), UNCHANGED arrived,
             NEW a \in AllPlaces, NEW b \in AllPlaces, a # b, Table[a] # <<>>, SameExcept({a, b}),
             Table'[a] = Tail(Table[a]), Table'[b] = Append(Table[b], Head(Table[a]))
      PROVE  Distinct(Table', AllPlaces, Known')
    <2>. USE <1>Taken
    <2>1. /\ IsTable(Table', AllPlaces)
          /\ \A c \in AllPlaces : c \notin {a, b} => Table'[c] = Table[c]
      BY TableAfter
    <2>2. Known' = Known  BY KnownStays
    <2>. QED  BY <2>1, <2>2, <1>HeadMoved

  \* A session that takes an envelope from a queue, to keep it or to put it back.
  <1>SessionTakes.
      ASSUME TypeOK, TypeOK', Distinct(Table, AllPlaces, Known), UNCHANGED <<call, arrived>>,
             NEW u \in DOMAIN tr, NEW r \in Reader, NEW q, q # <<>>,
             \/ q = tr[u].incoming /\ SetIncoming(u, Tail(q))
             \/ q = tr[u].preRecv /\ SetPreRecv(u, Tail(q)),
             \/ /\ got'[r] = Append(got[r], Head(q)) /\ \A s \in Reader : s # r => got'[s] = got[s]
                /\ \A s \in Reader : Held(s)' = Held(s)
             \/ /\ Held(r) = <<>> /\ Held(r)' = <<Head(q)>>
                /\ \A s \in Reader : s # r => Held(s)' = Held(s)
                /\ \A s \in Reader : got'[s] = got[s]
      PROVE  Distinct(Table', AllPlaces, Known')
    <2>. USE <1>SessionTakes
    <2>0. DOMAIN tr \subseteq Nat
      <3>1. Len(tr) \in Nat /\ DOMAIN tr = 1 .. Len(tr)  BY DEF TypeOK
      <3>. QED  BY <3>1
    <2>1. \A p \in Link : Carried(p)' = Carried(p)  BY DEF Carried
    <2>2. PICK a \in {<<"incoming", u>>, <<"preRecv", u>>} :
            \/ a = <<"incoming", u>> /\ q = tr[u].incoming /\ SetIncoming(u, Tail(q))
            \/ a = <<"preRecv", u>> /\ q = tr[u].preRecv /\ SetPreRecv(u, Tail(q))
      OBVIOUS
    <2>3. PICK b \in {<<"got", r>>, <<"held", r>>} :
            \/ /\ b = <<"got", r>>
               /\ got'[r] = Append(got[r], Head(q)) /\ \A s \in Reader : s # r => got'[s] = got[s]
               /\ \A s \in Reader : Held(s)' = Held(s)
            \/ /\ b = <<"held", r>>
               /\ Held(r) = <<>> /\ Held(r)' = <<Head(q)>>
               /\ \A s \in Reader : s # r => Held(s)' = Held(s)
               /\ \A s \in Reader : got'[s] = got[s]
      OBVIOUS
    <2>4. /\ u \in Nat
          /\ \A t \in Nat : <<"incoming", t>> # a => In(t)' = In(t)
          /\ \A t \in Nat : <<"preRecv", t>> # a => Pre(t)' = Pre(t)
          /\ a = <<"incoming", u>> => In(u) = q /\ In(u)' = Tail(q)
          /\ a = <<"preRecv", u>> => Pre(u) = q /\ Pre(u)' = Tail(q)
      <3>1. CASE a = <<"incoming", u>> /\ q = tr[u].incoming /\ SetIncoming(u, Tail(q))
        <4>1. /\ u \in Nat /\ In(u) = q /\ In(u)' = Tail(q)
              /\ \A t \in Nat : t # u => In(t)' = In(t)
              /\ \A t \in Nat : Pre(t)' = Pre(t)
          BY <3>1, QueueSet
        <4>. QED  BY <3>1, <4>1
      <3>2. CASE a = <<"preRecv", u>> /\ q = tr[u].preRecv /\ SetPreRecv(u, Tail(q))
        <4>1. /\ u \in Nat /\ Pre(u) = q /\ Pre(u)' = Tail(q)
              /\ \A t \in Nat : t # u => Pre(t)' = Pre(t)
              /\ \A t \in Nat : In(t)' = In(t)
          BY <3>2, QueueSet
        <4>. QED  BY <3>2, <4>1
      <3>. QED  BY <2>2, <3>1, <3>2
    <2>5. SameExcept({a, b})
      <3>1. \A s \in Reader : <<"held", s>> # b => Held(s)' = Held(s)  BY <2>3
      <3>2. \A s \in Reader : <<"got", s>> # b => got'[s] = got[s]  BY <2>3
      <3>. QED  BY <2>1, <2>4, <3>1, <3>2 DEF SameExcept
    <2>6. a \in AllPlaces /\ b \in AllPlaces /\ a # b  BY <2>4, <2>3, <2>2 DEF AllPlaces
    <2>7. Table[a] = q /\ Table'[a] = Tail(q)  BY <2>0, <2>2, <2>4, <2>5, TableAt, TableAfter
    <2>8. Table'[b] = Append(Table[b], Head(q))
      <3>1. Append(<<>>, Head(q)) = <<Head(q)>>  OBVIOUS
      <3>2. Table[<<"got", r>>] = got[r] /\ Table[<<"held", r>>] = Held(r)  BY <2>0, TableAt
      <3>3. Table'[<<"got", r>>] = got'[r] /\ Table'[<<"held", r>>] = Held(r)'  BY <2>5, TableAfter
      <3>. QED  BY <2>3, <3>1, <3>2, <3>3
    <2>. QED  BY <2>5, <2>6, <2>7, <2>8, <1>Taken

  \* A session whose step moves no envelope, but may forget what it got.
  <1>SessionStill.
      ASSUME TypeOK, TypeOK', Distinct(Table, AllPlaces, Known), UNCHANGED <<call, arrived, tr>>,
             NEW r \in Reader, \A s \in Reader : s # r => got'[s] = got[s],
             \A s \in Reader : s # r => Held(s)' = Held(s),
             Held(r)' \in {<<>>, Held(r)}, got'[r] \in {<<>>, got[r]}
      PROVE  Distinct(Table', AllPlaces, Known')
    <2>. USE <1>SessionStill
    <2>1. \A p \in Link : Carried(p)' = Carried(p)  BY DEF Carried
    <2>2. \A t \in Nat : In(t)' = In(t) /\ Pre(t)' = Pre(t)  BY DEF In, Pre
    <2>. DEFINE X == {c \in {<<"held", r>>, <<"got", r>>} : Table'[c] = <<>>}
    <2>3. Table'[<<"held", r>>] = Held(r)' /\ Table'[<<"got", r>>] = got'[r]
      <3>1. SameExcept({<<"held", r>>, <<"got", r>>})  BY <2>1, <2>2 DEF SameExcept
      <3>. QED  BY <3>1, TableAfter
    <2>4. SameExcept(X)
      <3>1. <<"held", r>> \notin X => Held(r)' = Held(r)  BY <2>3
      <3>2. <<"got", r>> \notin X => got'[r] = got[r]  BY <2>3
      <3>. HIDE DEF X
      <3>. QED  BY <2>1, <2>2, <3>1, <3>2 DEF SameExcept
    <2>5. \A c \in AllPlaces : c \in X => Table'[c] = <<>>  OBVIOUS
    <2>. HIDE DEF X
    <2>. QED  BY <2>4, <2>5, Emptied

  \* What a session that moves on holds.
  <1>HeldAfter.
      ASSUME TypeOK, NEW r \in Reader, NEW x, SetReader(r, x)
      PROVE  /\ reader'[r] = x /\ \A s \in Reader : s # r => Held(s)' = Held(s)
             /\ x.pc # "putback" => Held(r)' = <<>>
             /\ x.pc = "putback" => Held(r)' = <<x.env>>
             /\ reader[r].pc # "putback" => Held(r) = <<>>
             /\ reader[r].pc = "putback" => Held(r) = <<reader[r].env>>
    <2>. USE <1>HeldAfter
    <2>1. reader'[r] = x /\ \A s \in Reader : s # r => reader'[s] = reader[s]
      BY DEF SetReader, TypeOK
    <2>. QED  BY <2>1 DEF Held

  \* A session that received an envelope.
  <1>ReceivedAfter.
      ASSUME TypeOK, NEW r \in Reader, NEW env, received(r, env), reader[r] \in Running \cup Blocked
      PROVE  /\ got'[r] = Append(got[r], env) /\ \A s \in Reader : s # r => got'[s] = got[s]
             /\ \A s \in Reader : Held(s)' = Held(s)
    <2>. USE <1>ReceivedAfter
    <2>1. got'[r] = Append(got[r], env) /\ \A s \in Reader : s # r => got'[s] = got[s]
      BY DEF received, TypeOK
    <2>2. PICK next \in {"recv", "drain"} : SetReader(r, [reader[r] EXCEPT !.pc = next, !.at = 0])
      BY DEF received
    <2>3. [reader[r] EXCEPT !.pc = next, !.at = 0].pc # "putback" /\ reader[r].pc # "putback"
      BY <2>2 DEF Running, Blocked
    <2>4. Held(r)' = Held(r) /\ \A s \in Reader : s # r => Held(s)' = Held(s)
      BY <2>2, <2>3, <1>HeldAfter
    <2>. QED  BY <2>1, <2>4

  \* The steps of a session that take no envelope.
  <1>QuietSession.
      ASSUME TypeOK, TypeOK', Distinct(Table, AllPlaces, Known), NEW r \in Reader,
             startSession(r) \/ Send(r) \/ endSession(r)
      PROVE  Distinct(Table', AllPlaces, Known')
    <2>. USE <1>QuietSession
    <2>1. UNCHANGED <<call, arrived, tr>> /\ got \in [Reader -> Seq(Envelope)]
      BY DEF startSession, Send, endSession, TypeOK
    <2>2. CASE startSession(r)
      <3>. DEFINE p == pickSurvivor(tmap, active)
                  x == [pc |-> "send", peer |-> p, tr |-> tmap[p], at |-> 0, registered |-> TRUE]
      <3>1. SetReader(r, x) /\ got' = [got EXCEPT ![r] = <<>>]  BY <2>2 DEF startSession
      <3>2. x.pc # "putback"  OBVIOUS
      <3>. HIDE DEF x
      <3>3. Held(r)' = <<>> /\ \A s \in Reader : s # r => Held(s)' = Held(s)  BY <3>1, <3>2, <1>HeldAfter
      <3>4. got'[r] = <<>> /\ \A s \in Reader : s # r => got'[s] = got[s]  BY <2>1, <3>1
      <3>. QED  BY <2>1, <3>3, <3>4, <1>SessionStill
    <2>3. CASE Send(r) \/ endSession(r)
      <3>1. PICK x : SetReader(r, x) /\ x.pc # "putback"
        <4>1. CASE Send(r)
          <5>1. PICK c \in {"cycle", "failed", "recv"} : SetReader(r, [reader[r] EXCEPT !.pc = c])
            BY <4>1 DEF Send
          <5>2. reader[r] \in Running  BY <4>1, ReaderKinds DEF Send
          <5>3. [reader[r] EXCEPT !.pc = c].pc # "putback"  BY <5>1, <5>2 DEF Running
          <5>. QED  BY <5>1, <5>3
        <4>2. CASE endSession(r)
          <5>1. SetReader(r, FreeReader)  BY <4>2, Zenon DEF endSession
          <5>2. FreeReader.pc # "putback"  BY DEF FreeReader
          <5>. QED  BY <5>1, <5>2, Zenon
        <4>. QED  BY <2>3, <4>1, <4>2
      <3>2. Held(r)' = <<>> /\ \A s \in Reader : s # r => Held(s)' = Held(s)  BY <3>1, <1>HeldAfter
      <3>3. \A s \in Reader : got'[s] = got[s]  BY <2>3 DEF Send, endSession
      <3>. QED  BY <2>1, <3>2, <3>3, <1>SessionStill
    <2>. QED  BY <2>2, <2>3

  \* Recv moves an envelope at most.
  <1>RecvOnce.
      ASSUME TypeOK, TypeOK', Distinct(Table, AllPlaces, Known), NEW r \in Reader,
             Recv(r) \/ RecvChannel(r)
      PROVE  Distinct(Table', AllPlaces, Known')
    <2>. USE <1>RecvOnce
    <2>1. UNCHANGED <<call, arrived>>  BY DEF Recv, RecvChannel
    <2>2. reader[r] \in Running \cup Blocked /\ reader[r].tr \in DOMAIN tr
          /\ (RecvChannel(r) => reader[r].at \in DOMAIN tr)
      <3>1. CASE Recv(r)
        <4>1. reader[r].pc = "recv"  BY <3>1 DEF Recv
        <4>2. reader[r] \in Running /\ ~RecvChannel(r)  BY <4>1, ReaderKinds DEF RecvChannel
        <4>. QED  BY <4>1, <4>2, ReaderKinds
      <3>2. CASE RecvChannel(r)
        <4>1. reader[r].pc = "blocked"  BY <3>2 DEF RecvChannel
        <4>2. reader[r] \in Blocked  BY <4>1, ReaderKinds
        <4>. QED  BY <4>2 DEF Blocked
      <3>. QED  BY <3>1, <3>2
    <2>3. ASSUME NEW u \in DOMAIN tr, NEW q, q # <<>>, received(r, Head(q)),
                 \/ q = tr[u].incoming /\ SetIncoming(u, Tail(q))
                 \/ q = tr[u].preRecv /\ SetPreRecv(u, Tail(q))
          PROVE  Distinct(Table', AllPlaces, Known')
      <3>1. /\ got'[r] = Append(got[r], Head(q)) /\ \A s \in Reader : s # r => got'[s] = got[s]
            /\ \A s \in Reader : Held(s)' = Held(s)
        BY <2>2, <2>3, <1>ReceivedAfter
      <3>. QED  BY <2>1, <2>3, <3>1, <1>SessionTakes
    <2>4. ASSUME UNCHANGED <<tr, got>>, NEW x, SetReader(r, x), x.pc # "putback"
          PROVE  Distinct(Table', AllPlaces, Known')
      <3>1. Held(r)' = <<>> /\ \A s \in Reader : s # r => Held(s)' = Held(s)  BY <2>4, <1>HeldAfter
      <3>. QED  BY <2>1, <2>4, <3>1, <1>SessionStill
    <2>5. CASE Recv(r)
      <3>. DEFINE t == reader[r].tr
      <3>1. CASE PutBackOn(t) # {} /\ received(r, Head(tr[FirstPutBack(t)].preRecv))
                 /\ tr' = [tr EXCEPT ![FirstPutBack(t)].preRecv = Tail(@)]
        <4>1. PICK u : u = FirstPutBack(t)  OBVIOUS
        <4>2. u \in DOMAIN tr /\ tr[u].preRecv # <<>>  BY <2>2, <3>1, <4>1, RootIsThere
        <4>3. SetPreRecv(u, Tail(tr[u].preRecv)) /\ received(r, Head(tr[u].preRecv))
          BY <3>1, <4>1 DEF SetPreRecv
        <4>. QED  BY <2>3, <4>2, <4>3
      <3>2. CASE /\ UNCHANGED <<tr, got>>
                 /\ SetReader(r, IF Cyclic(t) THEN [reader[r] EXCEPT !.pc = "cycle"]
                            ELSE [reader[r] EXCEPT !.pc = "blocked", !.at = delegateRoot(t)])
        <4>1. \E x : SetReader(r, x) /\ x.pc # "putback"
          <5>1. [reader[r] EXCEPT !.pc = "cycle"].pc # "putback"  BY <2>2 DEF Running, Blocked
          <5>2. PICK d : d = delegateRoot(t)  OBVIOUS
          <5>3. [reader[r] EXCEPT !.pc = "blocked", !.at = d].pc # "putback"
            BY <2>2 DEF Running, Blocked
          <5>. QED  BY <3>2, <5>1, <5>2, <5>3
        <4>. QED  BY <2>4, <3>2, <4>1
      <3>. QED  BY <2>5, <3>1, <3>2 DEF Recv
    <2>6. CASE RecvChannel(r)
      <3>. DEFINE u == reader[r].at
      <3>1. CASE /\ tr[u].incoming # <<>> /\ received(r, Head(tr[u].incoming))
                 /\ tr' = [tr EXCEPT ![u].incoming = Tail(@)]
        <4>1. SetIncoming(u, Tail(tr[u].incoming))  BY <3>1 DEF SetIncoming
        <4>. QED  BY <2>2, <2>3, <2>6, <3>1, <4>1
      <3>2. CASE SetReader(r, [reader[r] EXCEPT !.pc = "closed"]) /\ UNCHANGED <<tr, got>>
        <4>1. [reader[r] EXCEPT !.pc = "closed"].pc # "putback"  BY <2>2 DEF Running, Blocked
        <4>. QED  BY <2>4, <3>2, <4>1
      <3>. QED  BY <2>6, <3>1, <3>2 DEF RecvChannel
    <2>. QED  BY <2>5, <2>6

  \* TryRecv moves an envelope at most.
  <1>TryRecvOnce.
      ASSUME TypeOK, TypeOK', Distinct(Table, AllPlaces, Known), NEW r \in Reader, TryRecv(r)
      PROVE  Distinct(Table', AllPlaces, Known')
    <2>. USE <1>TryRecvOnce
    <2>. DEFINE t == reader[r].tr
                u == IF PutBackOn(t) # {} THEN FirstPutBack(t) ELSE delegateRoot(t)
                q == tr[u].preRecv \o tr[u].incoming
    <2>1. reader[r].pc = "drain" /\ UNCHANGED <<call, arrived>>  BY DEF TryRecv
    <2>2. reader[r] \in Running /\ t \in DOMAIN tr  BY <2>1, ReaderKinds
    <2>3. u \in DOMAIN tr /\ (PutBackOn(t) # {} => tr[u].preRecv # <<>>)  BY <2>2, RootIsThere
    <2>4. \/ SetReader(r, [reader[r] EXCEPT !.pc = "done"]) /\ UNCHANGED <<tr, got>>
          \/ /\ PutBackOn(t) # {} \/ q # <<>>
             /\ tr' = [tr EXCEPT ![u].preRecv = IF @ # <<>> THEN Tail(@) ELSE @,
                                 ![u].incoming = IF tr[u].preRecv # <<>> THEN @ ELSE Tail(@)]
             /\ \/ got' = [got EXCEPT ![r] = Append(@, Head(q))] /\ UNCHANGED reader
                \/ /\ SetReader(r, [pc |-> "putback", peer |-> reader[r].peer, tr |-> t,
                                    at |-> 0, registered |-> reader[r].registered,
                                    env |-> Head(q)])
                   /\ UNCHANGED got
      BY DEF TryRecv
    <2>. HIDE DEF u
    <2>5. /\ tr \in Seq(Transport) /\ tr[u] \in Transport
          /\ tr[u].preRecv \in Seq(Envelope) /\ tr[u].incoming \in Seq(Envelope)
      BY <2>3, Queues DEF TypeOK
    <2>6. CASE SetReader(r, [reader[r] EXCEPT !.pc = "done"]) /\ UNCHANGED <<tr, got>>
      <3>1. [reader[r] EXCEPT !.pc = "done"].pc # "putback"  BY <2>2 DEF Running
      <3>2. Held(r)' = <<>> /\ \A s \in Reader : s # r => Held(s)' = Held(s)
        BY <2>6, <3>1, <1>HeldAfter
      <3>. QED  BY <2>1, <2>6, <3>2, <1>SessionStill
    <2>7. ASSUME PutBackOn(t) # {} \/ q # <<>>,
                 tr' = [tr EXCEPT ![u].preRecv = IF @ # <<>> THEN Tail(@) ELSE @,
                                 ![u].incoming = IF tr[u].preRecv # <<>> THEN @ ELSE Tail(@)],
                 \/ got' = [got EXCEPT ![r] = Append(@, Head(q))] /\ UNCHANGED reader
                 \/ /\ SetReader(r, [pc |-> "putback", peer |-> reader[r].peer, tr |-> t,
                                    at |-> 0, registered |-> reader[r].registered,
                                    env |-> Head(q)])
                    /\ UNCHANGED got
          PROVE  Distinct(Table', AllPlaces, Known')
      <3>1. PICK w : /\ w # <<>> /\ Head(w) = Head(q)
                     /\ \/ w = tr[u].incoming /\ SetIncoming(u, Tail(w))
                        \/ w = tr[u].preRecv /\ SetPreRecv(u, Tail(w))
        <4>1. CASE tr[u].preRecv # <<>>
          <5>1. Head(q) = Head(tr[u].preRecv)
            <6>1. \A v, z \in Seq(Envelope) : v # <<>> =>
                    v \o z \in Seq(Envelope) /\ v \o z # <<>> /\ (v \o z)[1] = v[1]
              OBVIOUS
            <6>2. \A v \in Seq(Envelope) : v # <<>> => Head(v) = v[1]  OBVIOUS
            <6>. QED  BY <2>5, <4>1, <6>1, <6>2
          <5>. DEFINE pre == Tail(tr[u].preRecv)  in == tr[u].incoming
          <5>2. [[tr[u] EXCEPT !.preRecv = pre] EXCEPT !.incoming = in] = [tr[u] EXCEPT !.preRecv = pre]
            <6>. HIDE DEF pre
            <6>. QED  BY <2>5 DEF Transport
          <5>3. tr' = [tr EXCEPT ![u] = [[tr[u] EXCEPT !.preRecv = pre] EXCEPT !.incoming = in]]
            BY <2>3, <2>5, <2>7, <4>1 DEF Transport
          <5>4. SetPreRecv(u, pre)
            <6>. HIDE DEF pre, in
            <6>. QED  BY <5>2, <5>3 DEF SetPreRecv
          <5>. QED  BY <4>1, <5>1, <5>4
        <4>2. CASE tr[u].preRecv = <<>>
          <5>1. q = tr[u].incoming /\ q # <<>>  BY <2>3, <2>5, <2>7, <4>2
          <5>. DEFINE pre == tr[u].preRecv  in == Tail(tr[u].incoming)
          <5>2. [[tr[u] EXCEPT !.preRecv = pre] EXCEPT !.incoming = in] = [tr[u] EXCEPT !.incoming = in]
            <6>. HIDE DEF in
            <6>. QED  BY <2>5 DEF Transport
          <5>3. tr' = [tr EXCEPT ![u] = [[tr[u] EXCEPT !.preRecv = pre] EXCEPT !.incoming = in]]
            BY <2>3, <2>5, <2>7, <4>2 DEF Transport
          <5>4. SetIncoming(u, in)
            <6>. HIDE DEF pre, in
            <6>. QED  BY <5>2, <5>3 DEF SetIncoming
          <5>. QED  BY <5>1, <5>4
        <4>. QED  BY <4>1, <4>2
      <3>. HIDE DEF q
      <3>2. CASE got' = [got EXCEPT ![r] = Append(@, Head(q))] /\ UNCHANGED reader
        <4>1. got'[r] = Append(got[r], Head(w)) /\ \A s \in Reader : s # r => got'[s] = got[s]
          BY <3>1, <3>2 DEF TypeOK
        <4>2. \A s \in Reader : Held(s)' = Held(s)  BY <3>2 DEF Held
        <4>. QED  BY <2>1, <2>3, <3>1, <4>1, <4>2, <1>SessionTakes
      <3>3. CASE SetReader(r, [pc |-> "putback", peer |-> reader[r].peer, tr |-> t,
                               at |-> 0, registered |-> reader[r].registered,
                               env |-> Head(q)]) /\ UNCHANGED got
        <4>1. PICK x : SetReader(r, x) /\ x.pc = "putback" /\ x.env = Head(w)  BY <3>1, <3>3
        <4>2. /\ Held(r) = <<>> /\ Held(r)' = <<Head(w)>>
              /\ \A s \in Reader : s # r => Held(s)' = Held(s)
          BY <2>1, <4>1, <1>HeldAfter
        <4>3. \A s \in Reader : got'[s] = got[s]  BY <3>3
        <4>. QED  BY <2>1, <2>3, <3>1, <4>2, <4>3, <1>SessionTakes
      <3>. QED  BY <2>7, <3>2, <3>3
    <2>. QED  BY <2>4, <2>6, <2>7

  \* PutBack moves the envelope it has to the front of a queue, or loses it.
  <1>PutBackOnce.
      ASSUME TypeOK, TypeOK', Distinct(Table, AllPlaces, Known), NEW r \in Reader, PutBack(r)
      PROVE  Distinct(Table', AllPlaces, Known')
    <2>. USE <1>PutBackOnce
    <2>. DEFINE t == reader[r].tr
                x == [pc |-> "done", peer |-> reader[r].peer, tr |-> reader[r].tr, at |-> 0,
                      registered |-> reader[r].registered]
    <2>1. /\ reader[r].pc = "putback" /\ SetReader(r, x) /\ UNCHANGED <<call, arrived, got>>
          /\ tr' = IF Cyclic(t) THEN tr
                   ELSE [tr EXCEPT ![delegateRoot(t)].preRecv = <<reader[r].env>> \o @]
      BY DEF PutBack
    <2>2. x.pc # "putback"  OBVIOUS
    <2>. HIDE DEF x
    <2>3. /\ Held(r)' = <<>> /\ Held(r) = <<reader[r].env>>
          /\ \A s \in Reader : s # r => Held(s)' = Held(s)
      BY <2>1, <2>2, <1>HeldAfter
    <2>4. PICK u \in DOMAIN tr : u = delegateRoot(t)
      <3>1. t \in DOMAIN tr  BY <2>1, ReaderKinds
      <3>. QED  BY <3>1, RootIsThere
    <2>5. CASE tr' = tr  BY <2>1, <2>3, <2>5, <1>SessionStill
    <2>6. CASE tr' = [tr EXCEPT ![u].preRecv = <<reader[r].env>> \o @]
      <3>. DEFINE a == <<"held", r>>  b == <<"preRecv", u>>
      <3>1. SetPreRecv(u, Held(r) \o Pre(u))
        <4>1. Pre(u) = tr[u].preRecv  BY DEF Pre
        <4>. QED  BY <2>3, <2>6, <4>1 DEF SetPreRecv
      <3>2. /\ u \in Nat /\ Pre(u)' = Held(r) \o Pre(u)
            /\ \A i \in Nat : i # u => Pre(i)' = Pre(i)
            /\ \A i \in Nat : In(i)' = In(i)
        BY <3>1, QueueSet
      <3>3. SameExcept({a, b})
        <4>1. \A p \in Link : Carried(p)' = Carried(p)  BY <2>1 DEF Carried
        <4>. QED  BY <2>1, <2>3, <3>2, <4>1 DEF SameExcept
      <3>4. /\ IsTable(Table', AllPlaces) /\ Table'[a] = Held(r)' /\ Table'[b] = Pre(u)'
            /\ \A c \in AllPlaces : c \notin {a, b} => Table'[c] = Table[c]
        BY <3>2, <3>3, TableAfter
      <3>5. /\ a \in AllPlaces /\ b \in AllPlaces /\ a # b
            /\ Table[a] = Held(r) /\ Table[b] = Pre(u)
        <4>1. DOMAIN tr \subseteq Nat
          <5>1. Len(tr) \in Nat /\ DOMAIN tr = 1 .. Len(tr)  BY DEF TypeOK
          <5>. QED  BY <5>1
        <4>. QED  BY <3>2, <4>1, TableAt
      <3>6. Table'[a] = <<>> /\ Table'[b] = Table[a] \o Table[b]  BY <2>3, <3>2, <3>4, <3>5
      <3>7. Known' = Known  BY <2>1, KnownStays
      <3>. HIDE DEF a, b
      <3>. QED  BY <3>4, <3>5, <3>6, <3>7, AllMoved
    <2>. QED  BY <2>1, <2>4, <2>5, <2>6
  <1>. QED  BY <1>QuietSession, <1>RecvOnce, <1>TryRecvOnce, <1>PutBackOnce DEF SessionThread

\* Keeping the newest envelopes drops the oldest.
LEMMA NewestIsRest ==
  ASSUME NEW K, NEW q \in Seq(K)
  PROVE  Newest(q) \in Seq(K) /\ Rest(Newest(q), q)
  <1>1. Len(q) \in Nat /\ QueueCap \in Nat  BY QueueAssumption
  <1>2. CASE Len(q) <= QueueCap
    <2>1. Newest(q) = q /\ 0 \in Nat /\ Len(q) + 0 <= Len(q) /\ \A i \in 1 .. Len(q) : q[i] = q[i + 0]
      BY <1>1, <1>2 DEF Newest
    <2>. QED  BY <2>1 DEF Rest
  <1>3. CASE ~(Len(q) <= QueueCap)
    <2>. DEFINE s == Len(q) - QueueCap  w == SubSeq(q, s + 1, Len(q))
    <2>1. s \in Nat /\ s + 1 \in 1 .. Len(q) + 1 /\ Len(q) - (s + 1) + 1 = QueueCap /\ s + QueueCap = Len(q)
      BY <1>1, <1>3
    <2>2. Newest(q) = w  BY <1>3 DEF Newest
    <2>. HIDE DEF s
    <2>3. w \in Seq(K) /\ Len(w) = QueueCap /\ \A i \in 1 .. QueueCap : w[i] = q[i + s]
      <3>1. w \in Seq(K) /\ Len(w) = QueueCap  BY <1>1, <2>1
      <3>2. ASSUME NEW i \in 1 .. QueueCap PROVE w[i] = q[i + s]
        <4>1. i \in 1 .. Len(q) - (s + 1) + 1 /\ s + 1 + i - 1 = i + s  BY <1>1, <2>1
        <4>. QED  BY <1>1, <2>1, <4>1
      <3>. QED  BY <3>1, <3>2
    <2>. HIDE DEF w
    <2>4. Len(w) + s <= Len(q)  BY <1>1, <2>1, <2>3
    <2>. QED  BY <2>1, <2>2, <2>3, <2>4 DEF Rest
  <1>. QED  BY <1>2, <1>3

\* Keeping only the newest at one place makes no duplicate.
LEMMA CutToNewest ==
  ASSUME NEW C, NEW K, NEW F, NEW G, Distinct(F, C, K), IsTable(G, C), NEW b \in C,
         G[b] = Newest(F[b]), \A c \in C : c # b => G[c] = F[c]
  PROVE  Distinct(G, C, K)
  <1>1. \A c \in C : F[c] \in Seq(K)  BY DEF Distinct
  <1>2. \A q \in Seq(K) : Rest(q, q)
    <2>1. ASSUME NEW q \in Seq(K) PROVE Rest(q, q)
      <3>1. 0 \in Nat /\ Len(q) + 0 <= Len(q) /\ \A i \in 1 .. Len(q) : q[i] = q[i + 0]  OBVIOUS
      <3>. QED  BY <3>1 DEF Rest
    <2>. QED  BY <2>1
  <1>3. G[b] \in Seq(K) /\ Rest(G[b], F[b])  BY <1>1, NewestIsRest
  <1>4. \A c \in C : G[c] \in Seq(K) /\ Rest(G[c], F[c])  BY <1>1, <1>2, <1>3
  <1>5. G \in [C -> Seq(K)]  BY <1>4 DEF IsTable
  <1>. QED  BY <1>4, <1>5, Shortened

\* No duplicate comes of moving all of a queue to the end of another, of
\* which the newest are kept.
LEMMA Queued ==
  ASSUME TypeOK, TypeOK', Distinct(Table, AllPlaces, Known), UNCHANGED arrived,
         NEW a \in AllPlaces, NEW b \in AllPlaces, a # b, SameExcept({a, b}),
         Table'[a] = <<>>, Table'[b] = Newest(Table[b] \o Table[a])
  PROVE  Distinct(Table', AllPlaces, Known')
  <1>1. /\ IsTable(Table', AllPlaces)
        /\ \A c \in AllPlaces : c \notin {a, b} => Table'[c] = Table[c]
    BY TableAfter
  <1>2. Known' = Known  BY KnownStays
  <1>3. PICK H : /\ IsTable(H, AllPlaces) /\ H[a] = <<>> /\ H[b] = Table[b] \o Table[a]
                 /\ \A c \in AllPlaces : c \notin {a, b} => H[c] = Table[c]
    <2>. DEFINE G == [c \in AllPlaces |-> IF c = a THEN <<>> ELSE IF c = b THEN Table[b] \o Table[a]
                                          ELSE Table[c]]
    <2>1. /\ IsTable(G, AllPlaces) /\ G[a] = <<>> /\ G[b] = Table[b] \o Table[a]
          /\ \A c \in AllPlaces : c \notin {a, b} => G[c] = Table[c]
      BY DEF IsTable
    <2>. HIDE DEF G
    <2>. QED  BY <2>1
  <1>4. Distinct(H, AllPlaces, Known)  BY <1>3, AllMoved
  <1>5. Table'[b] = Newest(H[b]) /\ \A c \in AllPlaces : c # b => Table'[c] = H[c]  BY <1>1, <1>3
  <1>. QED  BY <1>1, <1>2, <1>4, <1>5, CutToNewest

\* The same for two queues moved one after the other.
LEMMA QueuedBoth ==
  ASSUME TypeOK, TypeOK', Distinct(Table, AllPlaces, Known), UNCHANGED arrived,
         NEW a \in AllPlaces, NEW d \in AllPlaces, NEW b \in AllPlaces, a # b, d # b, a # d,
         SameExcept({a, b, d}), Table'[a] = <<>>, Table'[d] = <<>>,
         Table'[b] = Newest(Table[b] \o (Table[a] \o Table[d]))
  PROVE  Distinct(Table', AllPlaces, Known')
  <1>1. /\ IsTable(Table', AllPlaces)
        /\ \A c \in AllPlaces : c \notin {a, b, d} => Table'[c] = Table[c]
    BY TableAfter
  <1>2. Known' = Known  BY KnownStays
  <1>3. PICK H : /\ IsTable(H, AllPlaces) /\ H[a] = <<>> /\ H[b] = Table[b] \o Table[a]
                 /\ \A c \in AllPlaces : c \notin {a, b} => H[c] = Table[c]
    <2>. DEFINE G == [c \in AllPlaces |-> IF c = a THEN <<>> ELSE IF c = b THEN Table[b] \o Table[a]
                                          ELSE Table[c]]
    <2>1. /\ IsTable(G, AllPlaces) /\ G[a] = <<>> /\ G[b] = Table[b] \o Table[a]
          /\ \A c \in AllPlaces : c \notin {a, b} => G[c] = Table[c]
      BY DEF IsTable
    <2>. HIDE DEF G
    <2>. QED  BY <2>1
  <1>4. Distinct(H, AllPlaces, Known)  BY <1>3, AllMoved
  <1>5. PICK J : /\ IsTable(J, AllPlaces) /\ J[d] = <<>> /\ J[b] = H[b] \o H[d]
                 /\ \A c \in AllPlaces : c \notin {d, b} => J[c] = H[c]
    <2>. DEFINE G == [c \in AllPlaces |-> IF c = d THEN <<>> ELSE IF c = b THEN H[b] \o H[d]
                                          ELSE H[c]]
    <2>1. /\ IsTable(G, AllPlaces) /\ G[d] = <<>> /\ G[b] = H[b] \o H[d]
          /\ \A c \in AllPlaces : c \notin {d, b} => G[c] = H[c]
      BY DEF IsTable
    <2>. HIDE DEF G
    <2>. QED  BY <2>1
  <1>6. Distinct(J, AllPlaces, Known)  BY <1>4, <1>5, AllMoved
  <1>7. J[b] = Table[b] \o (Table[a] \o Table[d])
    <2>1. J[b] = (Table[b] \o Table[a]) \o Table[d]  BY <1>3, <1>5
    <2>2. Table[a] \in Seq(Known) /\ Table[b] \in Seq(Known) /\ Table[d] \in Seq(Known)
      BY DEF Distinct
    <2>3. \A x, y, z \in Seq(Known) : (x \o y) \o z = x \o (y \o z)  OBVIOUS
    <2>4. (Table[b] \o Table[a]) \o Table[d] = Table[b] \o (Table[a] \o Table[d])  BY <2>2, <2>3
    <2>. QED  BY <2>1, <2>4, Zenon
  <1>8. Table'[b] = Newest(J[b])  BY <1>7, Zenon
  <1>9. \A c \in AllPlaces : c # b => Table'[c] = J[c]  BY <1>1, <1>3, <1>5
  <1>. QED  BY <1>1, <1>2, <1>6, <1>8, <1>9, CutToNewest

-----------------------------------------------------------------------------
(* The link threads' steps.                                                 *)

\* No duplicate comes of a step that leaves the queues and the sessions alone
\* and at most loses the envelope a link thread carries.
LEMMA LinkStill ==
  ASSUME TypeOK, TypeOK', Distinct(Table, AllPlaces, Known), UNCHANGED <<arrived, got>>,
         NEW p \in Link, \A t \in Nat : In(t)' = In(t) /\ Pre(t)' = Pre(t),
         \A r \in Reader : Held(r)' = Held(r),
         \A q \in Link : q # p => Carried(q)' = Carried(q),
         Carried(p)' \in {<<>>, Carried(p)}
  PROVE  Distinct(Table', AllPlaces, Known')
  <1>. DEFINE X == {c \in {<<"call", p>>} : Table'[c] = <<>>}
  <1>1. Table'[<<"call", p>>] = Carried(p)'
    <2>1. SameExcept({<<"call", p>>})  BY DEF SameExcept
    <2>. QED  BY <2>1, TableAfter
  <1>2. SameExcept(X)
    <2>1. <<"call", p>> \notin X => Carried(p)' = Carried(p)  BY <1>1
    <2>. HIDE DEF X
    <2>. QED  BY <2>1 DEF SameExcept
  <1>3. \A c \in AllPlaces : c \in X => Table'[c] = <<>>  OBVIOUS
  <1>. HIDE DEF X
  <1>. QED  BY <1>2, <1>3, Emptied

\* What a link thread that moves on carries.
LEMMA CarriedAfter ==
  ASSUME TypeOK, NEW p \in Link, NEW c, SetCall(p, c)
  PROVE  /\ call'[p] = c /\ \A q \in Link : q # p => call'[q] = call[q]
         /\ \A q \in Link : q # p => Carried(q)' = Carried(q)
         /\ c.pc \notin {"root", "enqueue"} => Carried(p)' = <<>>
         /\ c.pc \in {"root", "enqueue"} => Carried(p)' = <<c.env>>
         /\ call[p].pc \notin {"root", "enqueue"} => Carried(p) = <<>>
         /\ call[p].pc \in {"root", "enqueue"} => Carried(p) = <<call[p].env>>
  <1>1. call'[p] = c /\ \A q \in Link : q # p => call'[q] = call[q]
    BY DEF SetCall, TypeOK
  <1>. QED  BY <1>1 DEF Carried

\* Rebinding a session, or taking it out of the manager, leaves what it holds.
LEMMA HeldRebound ==
  ASSUME TypeOK, NEW r \in Reader, NEW x,
         \/ reader'[r] = reader[r]
         \/ /\ reader[r].pc # "free"
            /\ \/ reader'[r] = [reader[r] EXCEPT !.peer = x]
               \/ reader'[r] = [reader[r] EXCEPT !.registered = FALSE]
  PROVE  Held(r)' = Held(r)
  <1>1. CASE reader'[r] = reader[r]  BY <1>1 DEF Held
  <1>2. CASE /\ reader[r].pc # "free"
             /\ \/ reader'[r] = [reader[r] EXCEPT !.peer = x]
                \/ reader'[r] = [reader[r] EXCEPT !.registered = FALSE]
    <2>1. reader[r] \in Running \/ reader[r] \in Blocked \/ reader[r] \in Holding
      BY <1>2, ReaderKinds DEF Readers, FreeReader
    <2>2. CASE reader[r] \in Running \/ reader[r] \in Blocked
      <3>1. reader'[r].pc = reader[r].pc /\ reader[r].pc # "putback"
        BY <1>2, <2>2 DEF Running, Blocked
      <3>. QED  BY <3>1 DEF Held
    <2>3. CASE reader[r] \in Holding
      <3>1. reader'[r].pc = reader[r].pc /\ reader'[r].env = reader[r].env
        BY <1>2, <2>3 DEF Holding
      <3>. QED  BY <3>1 DEF Held
    <2>. QED  BY <2>1, <2>2, <2>3
  <1>. QED  BY <1>1, <1>2

\* ensurePeerTransport's new transport has nothing in its queues.
LEMMA EnsuredEmpty ==
  ASSUME TypeOK, NEW p \in Link, ensurePeerTransport(p), NEW t \in Nat
  PROVE  In(t)' = In(t) /\ Pre(t)' = Pre(t)
  <1>1. tr \in Seq(Transport) /\ Len(tr) \in Nat /\ DOMAIN tr = 1 .. Len(tr)  BY DEF TypeOK
  <1>2. CASE tr' = tr  BY <1>2 DEF In, Pre
  <1>3. CASE tr' = Append(tr, newCabiPeerTransport(p))
    <2>1. PICK x : x = newCabiPeerTransport(p)  OBVIOUS
    <2>2. x.incoming = <<>> /\ x.preRecv = <<>>  BY <2>1 DEF newCabiPeerTransport
    <2>3. /\ DOMAIN tr' = 1 .. Len(tr) + 1 /\ tr'[Len(tr) + 1] = x
          /\ \A i \in 1 .. Len(tr) : tr'[i] = tr[i]
      BY <1>1, <1>3, <2>1
    <2>4. CASE t \in 1 .. Len(tr)
      <3>1. t \in DOMAIN tr /\ t \in DOMAIN tr' /\ tr'[t] = tr[t]  BY <1>1, <2>3, <2>4
      <3>. QED  BY <3>1 DEF In, Pre
    <2>5. CASE t = Len(tr) + 1
      <3>1. t \notin DOMAIN tr /\ t \in DOMAIN tr' /\ tr'[t] = x  BY <1>1, <2>3, <2>5
      <3>. QED  BY <2>2, <3>1 DEF In, Pre
    <2>6. CASE t \notin 1 .. Len(tr) /\ t # Len(tr) + 1
      <3>1. t \notin DOMAIN tr /\ t \notin DOMAIN tr'  BY <1>1, <2>3, <2>6
      <3>. QED  BY <3>1 DEF In, Pre
    <2>. QED  BY <2>4, <2>5, <2>6
  <1>. QED  BY <1>2, <1>3 DEF ensurePeerTransport

\* How the caller of linkDelegate goes on, and what its sessions hold.
LEMMA LinkedOnce ==
  ASSUME TypeOK, NEW p \in Link, call[p].pc \in {"link", "close"}, NEW t, linked(p, t)
  PROVE  /\ \E c : /\ SetCall(p, c) /\ c.pc = "link" /\ c.surv = call[p].surv
                   /\ c.old \in {0, call[p].old} /\ c.todo \subseteq call[p].todo
         /\ \A r \in Reader : Held(r)' = Held(r)
  <1>1. call[p] \in Linking  BY CallKinds
  <1>2. CASE call[p].old = t
    <2>. DEFINE c == [call[p] EXCEPT !.pc = "link", !.old = 0, !.cur = 0]
    <2>1. SetCall(p, c)  BY <1>2 DEF linked
    <2>2. /\ c.pc = "link" /\ c.surv = call[p].surv /\ c.old = 0 /\ c.todo = call[p].todo
      BY <1>1 DEF Linking
    <2>. HIDE DEF c
    <2>3. ASSUME NEW r \in Reader PROVE Held(r)' = Held(r)
      <3>1. PICK q : q = tr[call[p].surv].peer  OBVIOUS
      <3>2. \/ reader'[r] = reader[r]
            \/ reader[r].pc # "free" /\ reader'[r] = [reader[r] EXCEPT !.peer = q]
        BY <1>2, <3>1 DEF linked
      <3>. QED  BY <3>2, HeldRebound
    <2>. QED  BY <2>1, <2>2, <2>3
  <1>3. CASE call[p].old # t
    <2>. DEFINE c == [call[p] EXCEPT !.pc = "link", !.cur = 0, !.todo = call[p].todo \ {t}]
    <2>1. SetCall(p, c) /\ reader' = reader  BY <1>3 DEF linked
    <2>2. /\ c.pc = "link" /\ c.surv = call[p].surv /\ c.old = call[p].old
          /\ c.todo = call[p].todo \ {t}
      BY <1>1 DEF Linking
    <2>. HIDE DEF c
    <2>3. \A r \in Reader : Held(r)' = Held(r)  BY <2>1 DEF Held
    <2>. QED  BY <2>1, <2>2, <2>3
  <1>. QED  BY <1>2, <1>3

\* The steps of a link thread that leave every transport as it is, apart from
\* linkDelegate's end and a transport made.
LEMMA QuietLink ==
  ASSUME TypeOK, TypeOK', Distinct(Table, AllPlaces, Known), NEW p \in Link,
         \/ peerConnected(p) \/ pickCanonical(p) \/ linkDone(p) \/ enqueueRoot(p)
         \/ linkClose(p) \/ \E t \in DOMAIN tr : linkSkip(p, t)
  PROVE  Distinct(Table', AllPlaces, Known')
  <1>1. UNCHANGED <<arrived, got>>
    BY DEF peerConnected, pickCanonical, linkDone, enqueueRoot, linkClose, linkSkip
  <1>2. \A t \in Nat : In(t)' = In(t) /\ Pre(t)' = Pre(t)
    <2>1. CASE tr' = tr  BY <2>1 DEF In, Pre
    <2>2. CASE peerConnected(p)  BY <2>2, EnsuredEmpty DEF peerConnected
    <2>3. CASE linkClose(p)
      <3>1. PICK t : t = call[p].cur  OBVIOUS
      <3>2. tr' = [tr EXCEPT ![t].delegate = call[p].surv, ![t].closed = TRUE, ![t].locked = FALSE]
        BY <2>3, <3>1 DEF linkClose
      <3>3. tr \in Seq(Transport) /\ \A i \in DOMAIN tr : tr[i] \in Transport
        <4>1. tr \in Seq(Transport)  BY Zenon DEF TypeOK
        <4>. QED  BY <4>1
      <3>4. DOMAIN tr' = DOMAIN tr  BY <3>2, <3>3
      <3>5. \A i \in DOMAIN tr : tr'[i].incoming = tr[i].incoming /\ tr'[i].preRecv = tr[i].preRecv
        <4>1. ASSUME NEW i \in DOMAIN tr, i = t
              PROVE  tr'[i].incoming = tr[i].incoming /\ tr'[i].preRecv = tr[i].preRecv
          BY <3>2, <3>3, <4>1 DEF Transport
        <4>2. ASSUME NEW i \in DOMAIN tr, i # t PROVE tr'[i] = tr[i]  BY <3>2, <3>3, <4>2
        <4>. QED  BY <4>1, <4>2
      <3>. QED  BY <3>4, <3>5 DEF In, Pre
    <2>. QED  BY <2>1, <2>2, <2>3 DEF pickCanonical, linkDone, enqueueRoot, linkSkip
  <1>3. \A r \in Reader : Held(r)' = Held(r)
    <2>1. CASE reader' = reader  BY <2>1 DEF Held
    <2>2. ASSUME NEW t \in DOMAIN tr, linkSkip(p, t) PROVE \A r \in Reader : Held(r)' = Held(r)
      BY <2>2, LinkedOnce DEF linkSkip
    <2>3. CASE linkClose(p)  BY <2>3, LinkedOnce DEF linkClose
    <2>. QED  BY <2>1, <2>2, <2>3 DEF peerConnected, pickCanonical, linkDone, enqueueRoot
  <1>4. \E c : SetCall(p, c) /\ (c.pc \notin {"root", "enqueue"} \/ <<c.env>> = Carried(p))
    <2>1. CASE peerConnected(p)
      <3>1. [pc |-> "pick"].pc \notin {"root", "enqueue"}  OBVIOUS
      <3>. QED  BY <2>1, <3>1 DEF peerConnected
    <2>2. CASE pickCanonical(p)
      <3>. DEFINE can == maxTransportPeerID(tmap)
                  c == [pc |-> "link", surv |-> tmap[can], old |-> 0, cur |-> 0,
                        todo |-> {tmap[q] : q \in Mapped(tmap) \ {can}}]
      <3>1. SetCall(p, c)  BY <2>2 DEF pickCanonical
      <3>2. c.pc = "link"  OBVIOUS
      <3>. HIDE DEF c
      <3>. QED  BY <3>1, <3>2
    <2>3. CASE linkDone(p)
      <3>1. SetCall(p, IdleCall)  BY <2>3, Zenon DEF linkDone
      <3>2. IdleCall.pc \notin {"root", "enqueue"}  BY DEF IdleCall
      <3>. QED  BY <3>1, <3>2, Zenon
    <2>4. CASE enqueueRoot(p)
      <3>1. call[p].pc = "root" /\ call[p] \in Queueing  BY <2>4, CallKinds DEF enqueueRoot
      <3>2. Carried(p) = <<call[p].env>>  BY <3>1 DEF Carried
      <3>3. PICK u : u = delegateRoot(call[p].to)  OBVIOUS
      <3>. DEFINE c == [call[p] EXCEPT !.pc = "enqueue", !.to = u]
      <3>4. SetCall(p, IdleCall) \/ SetCall(p, c)  BY <2>4, <3>3 DEF enqueueRoot
      <3>5. c.env = call[p].env  BY <3>1 DEF Queueing
      <3>6. IdleCall.pc \notin {"root", "enqueue"}  BY DEF IdleCall
      <3>. HIDE DEF c
      <3>. QED  BY <3>2, <3>4, <3>5, <3>6
    <2>5. CASE linkClose(p)
      <3>1. \E c : SetCall(p, c) /\ c.pc = "link"  BY <2>5, LinkedOnce DEF linkClose
      <3>. QED  BY <3>1
    <2>6. ASSUME NEW t \in DOMAIN tr, linkSkip(p, t)
          PROVE  \E c : SetCall(p, c) /\ c.pc = "link"
      BY <2>6, LinkedOnce DEF linkSkip
    <2>. QED  BY <2>1, <2>2, <2>3, <2>4, <2>5, <2>6
  <1>5. PICK c : SetCall(p, c) /\ (c.pc \notin {"root", "enqueue"} \/ <<c.env>> = Carried(p))
    BY <1>4
  <1>6. /\ \A q \in Link : q # p => Carried(q)' = Carried(q)
        /\ Carried(p)' \in {<<>>, Carried(p)}
    BY <1>5, CarriedAfter
  <1>. QED  BY <1>1, <1>2, <1>3, <1>6, LinkStill

\* Neither does a dropped link move an envelope.
LEMMA DropOnce ==
  ASSUME TypeOK, TypeOK', Distinct(Table, AllPlaces, Known), NEW p \in Link, peerDisconnected(p)
  PROVE  Distinct(Table', AllPlaces, Known')
  <1>1. UNCHANGED <<arrived, got, tr>>  BY DEF peerDisconnected
  <1>2. \A t \in Nat : In(t)' = In(t) /\ Pre(t)' = Pre(t)  BY <1>1 DEF In, Pre
  <1>3. PICK surv : surv = pickSurvivor(tmap', IF active = p THEN 0 ELSE active)  OBVIOUS
  <1>. DEFINE c == [pc |-> "link", surv |-> tmap[surv], old |-> tmap[p], cur |-> 0,
                    todo |-> {tmap[q] : q \in Mapped(tmap') \ {surv}}]
              Out == [r \in Reader |->
                       IF reader[r].pc # "free" /\ reader[r].peer = p
                       THEN [reader[r] EXCEPT !.registered = FALSE] ELSE reader[r]]
  <1>4. IF surv = 0 THEN SetCall(p, IdleCall) /\ reader' = Out ELSE SetCall(p, c) /\ reader' = reader
    BY <1>3 DEF peerDisconnected
  <1>5. c.pc = "link" /\ IdleCall.pc = "idle"  BY DEF IdleCall
  <1>. HIDE DEF c
  <1>6. \A r \in Reader : Held(r)' = Held(r)
    <2>1. ASSUME NEW r \in Reader PROVE Held(r)' = Held(r)
      <3>1. \/ reader'[r] = reader[r]
            \/ reader[r].pc # "free" /\ reader'[r] = [reader[r] EXCEPT !.registered = FALSE]
        BY <1>4
      <3>. HIDE DEF Out
      <3>. QED  BY <3>1, HeldRebound
    <2>. QED  BY <2>1
  <1>. HIDE DEF Out
  <1>7. (\A q \in Link : q # p => Carried(q)' = Carried(q)) /\ Carried(p)' = <<>>
    BY <1>4, <1>5, CarriedAfter
  <1>. QED  BY <1>1, <1>2, <1>6, <1>7, LinkStill

\* An envelope that arrives is a new one.
LEMMA ArrivalOnce ==
  ASSUME TypeOK, TypeOK', Distinct(Table, AllPlaces, Known), NEW p \in Link, dataReceived(p)
  PROVE  Distinct(Table', AllPlaces, Known')
  <1>. DEFINE a == <<"call", p>>
              e == [from |-> p, n |-> arrived[p] + 1]
              c == [pc |-> "root", env |-> e, to |-> Ensured(p)]
  <1>1. /\ call[p] = IdleCall /\ ensurePeerTransport(p) /\ SetCall(p, c)
        /\ arrived' = [arrived EXCEPT ![p] = arrived[p] + 1] /\ UNCHANGED <<reader, got>>
    BY DEF dataReceived
  <1>2. c.pc = "root" /\ c.env = e /\ call[p].pc = "idle"  BY <1>1 DEF IdleCall
  <1>3. arrived \in [Link -> 0 .. MaxEnvelopes] /\ arrived[p] \in Nat
    <2>1. arrived \in [Link -> 0 .. MaxEnvelopes]  BY Plain
    <2>. QED  BY <2>1, BoundAssumption
  <1>4. /\ arrived'[p] = arrived[p] + 1 /\ \A q \in Link : q # p => arrived'[q] = arrived[q]
    BY <1>1, <1>3
  <1>5. e \in Known' /\ e \notin Known /\ Known \subseteq Known'
    <2>1. e \in Envelope /\ e.from = p /\ e.n = arrived[p] + 1  BY <1>3 DEF Envelope
    <2>. HIDE DEF e
    <2>2. e \in Known' /\ e \notin Known  BY <1>3, <1>4, <2>1 DEF Known
    <2>3. ASSUME NEW x \in Known PROVE x \in Known'
      <3>1. x \in Envelope /\ x.n <= arrived[x.from] /\ x.from \in Link /\ x.n \in Nat
        BY DEF Known, Envelope
      <3>2. CASE x.from = p
        <4>1. x.n <= arrived'[p]  BY <1>3, <1>4, <3>1, <3>2
        <4>. QED  BY <3>1, <3>2, <4>1 DEF Known
      <3>3. CASE x.from # p  BY <1>4, <3>1, <3>3 DEF Known
      <3>. QED  BY <3>2, <3>3
    <2>. QED  BY <2>2, <2>3
  <1>. HIDE DEF e, c
  <1>6. /\ Carried(p) = <<>> /\ Carried(p)' = <<e>>
        /\ \A q \in Link : q # p => Carried(q)' = Carried(q)
    BY <1>1, <1>2, CarriedAfter
  <1>7. \A t \in Nat : In(t)' = In(t) /\ Pre(t)' = Pre(t)  BY <1>1, EnsuredEmpty
  <1>8. SameExcept({a})
    <2>1. \A r \in Reader : Held(r)' = Held(r)  BY <1>1 DEF Held
    <2>. QED  BY <1>1, <1>6, <1>7, <2>1 DEF SameExcept
  <1>9. /\ IsTable(Table', AllPlaces) /\ Table'[a] = <<e>>
        /\ \A d \in AllPlaces : d # a => Table'[d] = Table[d]
    <2>1. /\ IsTable(Table', AllPlaces) /\ \A d \in AllPlaces : d \notin {a} => Table'[d] = Table[d]
          /\ Table'[<<"call", p>>] = Carried(p)'
      <3>. HIDE DEF a
      <3>. QED  BY <1>8, TableAfter
    <2>. QED  BY <1>6, <2>1, Zenon
  <1>10. a \in AllPlaces /\ Table[a] = <<>>
    <2>1. DOMAIN tr \subseteq Nat
      <3>1. Len(tr) \in Nat /\ DOMAIN tr = 1 .. Len(tr)  BY Plain
      <3>. QED  BY <3>1
    <2>. QED  BY <1>6, <2>1, TableAt
  <1>. HIDE DEF a
  <1>. QED  BY <1>5, <1>9, <1>10, OneAdded

\* Queueing moves the envelope a link thread carries to the end of a queue, or
\* the process ends and the envelope with it.
LEMMA EnqueueOnce ==
  ASSUME TypeOK, TypeOK', Distinct(Table, AllPlaces, Known), NEW p \in Link, enqueueLocked(p)
  PROVE  Distinct(Table', AllPlaces, Known')
  <1>1. /\ call[p].pc = "enqueue" /\ SetCall(p, IdleCall) /\ UNCHANGED <<reader, arrived, got>>
    BY DEF enqueueLocked
  <1>2. PICK u \in DOMAIN tr : u = call[p].to
    <2>1. call[p] \in Queueing  BY <1>1, CallKinds
    <2>. QED  BY <2>1 DEF Queueing
  <1>3. /\ Carried(p) = <<call[p].env>> /\ Carried(p)' = <<>>
        /\ \A q \in Link : q # p => Carried(q)' = Carried(q)
    <2>1. IdleCall.pc \notin {"root", "enqueue"}  BY DEF IdleCall
    <2>. QED  BY <1>1, <2>1, CarriedAfter
  <1>4. \A r \in Reader : Held(r)' = Held(r)  BY <1>1 DEF Held
  <1>5. CASE tr' = tr
    <2>1. \A t \in Nat : In(t)' = In(t) /\ Pre(t)' = Pre(t)  BY <1>5 DEF In, Pre
    <2>. QED  BY <1>1, <1>3, <1>4, <2>1, LinkStill
  <1>6. CASE tr' = [tr EXCEPT ![u].incoming = Newest(Append(tr[u].incoming, call[p].env))]
    <2>. DEFINE a == <<"call", p>>  b == <<"incoming", u>>
    <2>1. tr[u].incoming = In(u) /\ In(u) \in Seq(Envelope)
      BY Queues DEF In
    <2>2. SetIncoming(u, Newest(In(u) \o Carried(p)))
      <3>1. Append(In(u), call[p].env) = In(u) \o Carried(p)
        <4>1. \A q \in Seq(Envelope) : \A x : Append(q, x) = q \o <<x>>  OBVIOUS
        <4>. QED  BY <1>3, <2>1, <4>1
      <3>. QED  BY <1>6, <2>1, <3>1 DEF SetIncoming
    <2>3. /\ u \in Nat /\ In(u)' = Newest(In(u) \o Carried(p))
          /\ \A i \in Nat : i # u => In(i)' = In(i)
          /\ \A i \in Nat : Pre(i)' = Pre(i)
      BY <2>2, QueueSet
    <2>4. SameExcept({a, b})  BY <1>1, <1>3, <1>4, <2>3 DEF SameExcept
    <2>5. Table'[a] = Carried(p)' /\ Table'[b] = In(u)'  BY <2>3, <2>4, TableAfter
    <2>6. /\ a \in AllPlaces /\ b \in AllPlaces /\ a # b
          /\ Table[a] = Carried(p) /\ Table[b] = In(u)
      <3>1. DOMAIN tr \subseteq Nat
        <4>1. Len(tr) \in Nat /\ DOMAIN tr = 1 .. Len(tr)  BY Plain
        <4>. QED  BY <4>1
      <3>. QED  BY <2>3, <3>1, TableAt
    <2>7. Table'[a] = <<>> /\ Table'[b] = Newest(Table[b] \o Table[a])  BY <1>3, <2>3, <2>5, <2>6
    <2>. HIDE DEF a, b
    <2>. QED  BY <1>1, <2>4, <2>6, <2>7, Queued
  <1>. QED  BY <1>2, <1>5, <1>6 DEF enqueueLocked

\* What draining one transport into another does to the queues.
LEMMA DrainQueues ==
  ASSUME TypeOK, NEW t \in DOMAIN tr, NEW u \in DOMAIN tr, t # u, tr' = Drained(t, u)
  PROVE  /\ In(t)' = <<>> /\ Pre(t)' = <<>>
         /\ In(u)' = Newest(In(u) \o (Pre(t) \o In(t)))
         /\ \A i \in Nat : i \notin {t, u} => In(i)' = In(i)
         /\ \A i \in Nat : i # t => Pre(i)' = Pre(i)
  <1>1. /\ tr \in Seq(Transport) /\ \A i \in DOMAIN tr : tr[i] \in Transport
    BY DEF TypeOK
  <1>2. PICK in : in = Newest(tr[u].incoming \o (tr[t].preRecv \o tr[t].incoming))  OBVIOUS
  <1>3. tr' = [tr EXCEPT ![t].preRecv = <<>>, ![t].incoming = <<>>, ![t].locked = TRUE,
                         ![u].incoming = in]
    BY <1>2 DEF Drained
  <1>4. DOMAIN tr' = DOMAIN tr  BY <1>1, <1>3
  <1>5. tr'[t].incoming = <<>> /\ tr'[t].preRecv = <<>>
    <2>. DEFINE x == [tr[t] EXCEPT !.preRecv = <<>>, !.incoming = <<>>, !.locked = TRUE]
                z == [tr EXCEPT ![t].preRecv = <<>>, ![t].incoming = <<>>, ![t].locked = TRUE]
    <2>1. x.incoming = <<>> /\ x.preRecv = <<>>  BY <1>1 DEF Transport
    <2>2. z[t] = x /\ DOMAIN z = DOMAIN tr  BY <1>1, Zenon
    <2>3. tr' = [z EXCEPT ![u].incoming = in]
      <3>. HIDE DEF x
      <3>. QED  BY <1>3
    <2>. HIDE DEF x, z
    <2>4. tr'[t] = z[t]  BY <2>2, <2>3
    <2>. QED  BY <2>1, <2>2, <2>4
  <1>6. tr'[u].incoming = in /\ tr'[u].preRecv = tr[u].preRecv  BY <1>1, <1>3 DEF Transport
  <1>7. \A i \in DOMAIN tr : i # t /\ i # u => tr'[i] = tr[i]  BY <1>1, <1>3
  <1>8. In(t) = tr[t].incoming /\ Pre(t) = tr[t].preRecv /\ In(u) = tr[u].incoming  BY DEF In, Pre
  <1>9. In(t)' = <<>> /\ Pre(t)' = <<>> /\ In(u)' = in  BY <1>4, <1>5, <1>6 DEF In, Pre
  <1>10. \A i \in Nat : i \notin {t, u} => In(i)' = In(i)  BY <1>4, <1>7 DEF In
  <1>11. \A i \in Nat : i # t => Pre(i)' = Pre(i)  BY <1>4, <1>6, <1>7 DEF Pre
  <1>. QED  BY <1>2, <1>8, <1>9, <1>10, <1>11

\* Draining moves every envelope of a transport to the end of another's queue.
LEMMA DrainOnce ==
  ASSUME TypeOK, TypeOK', Distinct(Table, AllPlaces, Known), Apart, NEW p \in Link,
         NEW t \in DOMAIN tr, linkDrain(p, t)
  PROVE  Distinct(Table', AllPlaces, Known')
  <1>1. /\ call[p].pc = "link" /\ t \in Target(p) /\ UNCHANGED <<reader, arrived, got>>
    BY DEF linkDrain
  <1>2. call[p] \in Linking  BY <1>1, CallKinds
  <1>3. PICK u \in DOMAIN tr : u = call[p].surv  BY <1>2 DEF Linking
  <1>4. t # u
    <2>1. u \notin call[p].todo /\ u # call[p].old  BY <1>1, <1>3 DEF Apart
    <2>. QED  BY <1>1, <2>1 DEF Target
  <1>5. \A r \in Reader : Held(r)' = Held(r)  BY <1>1 DEF Held
  <1>6. CASE UNCHANGED <<tr, call>>
    <2>1. \A i \in Nat : In(i)' = In(i) /\ Pre(i)' = Pre(i)  BY <1>6 DEF In, Pre
    <2>2. \A q \in Link : Carried(q)' = Carried(q)  BY <1>6 DEF Carried
    <2>. QED  BY <1>1, <1>5, <2>1, <2>2, LinkStill
  <1>7. CASE tr' = Drained(t, u) /\ SetCall(p, [call[p] EXCEPT !.pc = "close", !.cur = t])
    <2>. DEFINE a == <<"preRecv", t>>  d == <<"incoming", t>>  b == <<"incoming", u>>
    <2>1. DOMAIN tr \subseteq Nat
      <3>1. Len(tr) \in Nat /\ DOMAIN tr = 1 .. Len(tr)  BY Plain
      <3>. QED  BY <3>1
    <2>2. /\ In(t)' = <<>> /\ Pre(t)' = <<>>
          /\ In(u)' = Newest(In(u) \o (Pre(t) \o In(t)))
          /\ \A i \in Nat : i \notin {t, u} => In(i)' = In(i)
          /\ \A i \in Nat : i # t => Pre(i)' = Pre(i)
      BY <1>4, <1>7, DrainQueues
    <2>3. \A q \in Link : Carried(q)' = Carried(q)
      <3>1. PICK c : c = [call[p] EXCEPT !.pc = "close", !.cur = t]  OBVIOUS
      <3>2. c.pc = "close"  BY <1>2, <3>1 DEF Linking
      <3>3. SetCall(p, c)  BY <1>7, <3>1
      <3>4. /\ \A q \in Link : q # p => Carried(q)' = Carried(q)
            /\ Carried(p) = <<>> /\ Carried(p)' = <<>>
        BY <1>1, <3>2, <3>3, CarriedAfter
      <3>. QED  BY <3>4
    <2>4. SameExcept({a, b, d})  BY <1>1, <1>5, <2>2, <2>3 DEF SameExcept
    <2>5. Table'[a] = Pre(t)' /\ Table'[d] = In(t)' /\ Table'[b] = In(u)'
      BY <2>1, <2>4, TableAfter
    <2>6. /\ a \in AllPlaces /\ b \in AllPlaces /\ d \in AllPlaces
          /\ Table[a] = Pre(t) /\ Table[d] = In(t) /\ Table[b] = In(u)
      BY <2>1, TableAt
    <2>7. a # b /\ d # b /\ a # d  BY <1>4
    <2>8. /\ Table'[a] = <<>> /\ Table'[d] = <<>>
          /\ Table'[b] = Newest(Table[b] \o (Table[a] \o Table[d]))
      BY <2>2, <2>5, <2>6
    <2>. HIDE DEF a, b, d
    <2>. QED  BY <1>1, <2>4, <2>6, <2>7, <2>8, QueuedBoth
  <1>8. \/ UNCHANGED <<tr, call>>
        \/ tr' = Drained(t, u) /\ SetCall(p, [call[p] EXCEPT !.pc = "close", !.cur = t])
    BY <1>3 DEF linkDrain, Drained
  <1>. QED  BY <1>6, <1>7, <1>8

\* Two peers of the map have two transports.
LEMMA MapIsInjective ==
  ASSUME TypeOK, Merging, NEW p \in Link, NEW q \in Link, p # q, tmap[p] # 0
  PROVE  tmap[p] # tmap[q]
  <1>1. \A i \in Link : tmap[i] # 0 => tr[tmap[i]].peer = i  BY DEF Merging
  <1>. QED  BY <1>1

\* No step makes a handler merge a transport into itself.
LEMMA ApartStays ==
  ASSUME TypeOK, Merging, Apart, NEW p \in Link, LinkThread(p)
  PROVE  Apart'
  <1>1. ASSUME NEW c, SetCall(p, c),
               c.pc \in {"link", "close"} => c.surv \notin c.todo /\ c.surv # c.old
        PROVE  Apart'
    <2>1. call'[p] = c /\ \A q \in Link : q # p => call'[q] = call[q]  BY <1>1, CarriedAfter
    <2>. QED  BY <1>1, <2>1 DEF Apart
  <1>2. CASE peerConnected(p)
    <2>1. [pc |-> "pick"].pc \notin {"link", "close"}  OBVIOUS
    <2>. QED  BY <1>1, <1>2, <2>1 DEF peerConnected
  <1>3. CASE pickCanonical(p)
    <2>. DEFINE can == maxTransportPeerID(tmap)
                td == {tmap[q] : q \in Mapped(tmap) \ {can}}
                c == [pc |-> "link", surv |-> tmap[can], old |-> 0, cur |-> 0, todo |-> td]
    <2>1. call[p].pc = "pick" /\ SetCall(p, c)  BY <1>3 DEF pickCanonical
    <2>2. p \in Mapped(tmap)  BY <2>1 DEF Merging, Mapped
    <2>3. can \in Link /\ tmap[can] # 0  BY <2>2, MaxIsMapped DEF Mapped
    <2>4. c.surv = tmap[can] /\ c.old = 0 /\ c.todo = td  OBVIOUS
    <2>. HIDE DEF can
    <2>5. tmap[can] \notin td
      <3>1. \A q \in Mapped(tmap) : q \in Link  BY DEF Mapped
      <3>2. \A q \in Mapped(tmap) \ {can} : tmap[q] # tmap[can]  BY <2>3, <3>1, MapIsInjective
      <3>. QED  BY <3>2
    <2>. HIDE DEF c, td
    <2>. QED  BY <1>1, <2>1, <2>3, <2>4, <2>5
  <1>4. CASE peerDisconnected(p)
    <2>1. PICK surv : surv = pickSurvivor(tmap', IF active = p THEN 0 ELSE active)  OBVIOUS
    <2>. DEFINE td == {tmap[q] : q \in Mapped(tmap') \ {surv}}
                c == [pc |-> "link", surv |-> tmap[surv], old |-> tmap[p], cur |-> 0, todo |-> td]
    <2>2. IF surv = 0 THEN SetCall(p, IdleCall) ELSE SetCall(p, c)
      BY <1>4, <2>1 DEF peerDisconnected
    <2>3. CASE surv = 0
      <3>. HIDE DEF c
      <3>. QED  BY <1>1, <2>2, <2>3 DEF IdleCall
    <2>4. CASE surv # 0
      <3>1. tmap \in [Link -> 0 .. Len(tr)] /\ tmap' = [tmap EXCEPT ![p] = 0]
        BY <1>4, Plain DEF peerDisconnected
      <3>2. tmap'[p] = 0 /\ \A q \in Link : q # p => tmap'[q] = tmap[q]  BY <3>1
      <3>3. surv \in Mapped(tmap')  BY <2>1, <2>4, SurvivorIsMapped
      <3>4. \A q \in Mapped(tmap') : q \in Link /\ q # p /\ tmap[q] # 0  BY <3>2 DEF Mapped
      <3>5. c.surv = tmap[surv] /\ c.old = tmap[p] /\ c.todo = td  OBVIOUS
      <3>6. tmap[surv] \notin td
        <4>1. \A q \in Mapped(tmap') \ {surv} : tmap[q] # tmap[surv]
          BY <3>3, <3>4, MapIsInjective
        <4>. QED  BY <4>1
      <3>7. tmap[surv] # tmap[p]  BY <3>3, <3>4, MapIsInjective
      <3>. HIDE DEF c, td
      <3>. QED  BY <1>1, <2>2, <2>4, <3>5, <3>6, <3>7
    <2>. QED  BY <2>3, <2>4
  <1>5. ASSUME NEW t, call[p].pc \in {"link", "close"}, linked(p, t) PROVE Apart'
    <2>1. PICK c : /\ SetCall(p, c) /\ c.surv = call[p].surv
                   /\ c.old \in {0, call[p].old} /\ c.todo \subseteq call[p].todo
      BY <1>5, LinkedOnce
    <2>2. call[p].surv \notin call[p].todo /\ call[p].surv # call[p].old  BY <1>5 DEF Apart
    <2>3. call[p].surv # 0
      <3>1. call[p].surv \in DOMAIN tr  BY <1>5, CallKinds DEF Linking
      <3>2. Len(tr) \in Nat /\ DOMAIN tr = 1 .. Len(tr)  BY Plain
      <3>. QED  BY <3>1, <3>2
    <2>. QED  BY <1>1, <2>1, <2>2, <2>3
  <1>6. ASSUME NEW t \in DOMAIN tr, linkSkip(p, t) PROVE Apart'
    BY <1>5, <1>6 DEF linkSkip
  <1>7. ASSUME NEW t \in DOMAIN tr, linkDrain(p, t) PROVE Apart'
    <2>1. CASE call' = call  BY <2>1 DEF Apart
    <2>2. CASE SetCall(p, [call[p] EXCEPT !.pc = "close", !.cur = t])
      <3>1. PICK c : c = [call[p] EXCEPT !.pc = "close", !.cur = t]  OBVIOUS
      <3>2. call[p].pc = "link" /\ call[p] \in Linking  BY <1>7, CallKinds DEF linkDrain
      <3>3. c.surv = call[p].surv /\ c.old = call[p].old /\ c.todo = call[p].todo
        BY <3>1, <3>2 DEF Linking
      <3>4. call[p].surv \notin call[p].todo /\ call[p].surv # call[p].old  BY <3>2 DEF Apart
      <3>5. SetCall(p, c)  BY <2>2, <3>1
      <3>. QED  BY <1>1, <3>3, <3>4, <3>5
    <2>. QED  BY <1>7, <2>1, <2>2 DEF linkDrain
  <1>8. CASE linkClose(p)  BY <1>5, <1>8 DEF linkClose
  <1>9. CASE linkDone(p) \/ enqueueLocked(p)
    <2>1. SetCall(p, IdleCall) /\ IdleCall.pc = "idle"
      BY <1>9 DEF linkDone, enqueueLocked, IdleCall
    <2>. QED  BY <1>1, <2>1
  <1>10. CASE dataReceived(p)
    <2>. DEFINE c == [pc |-> "root", env |-> [from |-> p, n |-> arrived[p] + 1], to |-> Ensured(p)]
    <2>1. SetCall(p, c) /\ c.pc = "root"  BY <1>10 DEF dataReceived
    <2>. HIDE DEF c
    <2>. QED  BY <1>1, <2>1
  <1>11. CASE enqueueRoot(p)
    <2>1. PICK u : u = delegateRoot(call[p].to)  OBVIOUS
    <2>. DEFINE c == [call[p] EXCEPT !.pc = "enqueue", !.to = u]
    <2>2. SetCall(p, IdleCall) \/ SetCall(p, c)  BY <1>11, <2>1 DEF enqueueRoot
    <2>3. call[p] \in Queueing  BY <1>11, CallKinds DEF enqueueRoot
    <2>4. c.pc = "enqueue" /\ IdleCall.pc = "idle"  BY <2>3 DEF Queueing, IdleCall
    <2>. HIDE DEF c
    <2>. QED  BY <1>1, <2>2, <2>4
  <1>. QED  BY <1>2, <1>3, <1>4, <1>6, <1>7, <1>8, <1>9, <1>10, <1>11, Zenon DEF LinkThread

\* No step makes a duplicate.
LEMMA OnceStays ==
  ASSUME Inv, Inv', Once, [Next]_vars
  PROVE  Once'
  <1>1. TypeOK /\ TypeOK' /\ Merging  BY DEF Inv
  <1>2. Distinct(Table, AllPlaces, Known) /\ Apart  BY DEF Once
  <1>3. CASE UNCHANGED vars
    <2>1. UNCHANGED <<tr, call, reader, arrived, got>>  BY <1>3 DEF vars
    <2>2. Table' = Table /\ Known' = Known  BY <2>1 DEF Table, Place, Contents, Known
    <2>3. Apart'  BY <1>2, <2>1 DEF Apart
    <2>. QED  BY <1>2, <2>2, <2>3 DEF Once
  <1>4. ASSUME NEW p \in Link, LinkThread(p) PROVE Once'
    <2>1. Apart'  BY <1>1, <1>2, <1>4, ApartStays
    <2>2. CASE \/ peerConnected(p) \/ pickCanonical(p) \/ linkDone(p) \/ enqueueRoot(p)
               \/ linkClose(p) \/ \E t \in DOMAIN tr : linkSkip(p, t)
      <3>1. Distinct(Table', AllPlaces, Known')  BY <1>1, <1>2, <2>2, QuietLink
      <3>. QED  BY <2>1, <3>1 DEF Once
    <2>3. CASE peerDisconnected(p) \/ dataReceived(p) \/ enqueueLocked(p)
      <3>1. Distinct(Table', AllPlaces, Known')
        BY <1>1, <1>2, <2>3, DropOnce, ArrivalOnce, EnqueueOnce
      <3>. QED  BY <2>1, <3>1 DEF Once
    <2>4. CASE \E t \in DOMAIN tr : linkDrain(p, t)
      <3>1. Distinct(Table', AllPlaces, Known')  BY <1>1, <1>2, <2>4, DrainOnce
      <3>. QED  BY <2>1, <3>1 DEF Once
    <2>. QED  BY <1>4, <2>2, <2>3, <2>4, Zenon DEF LinkThread
  <1>5. ASSUME NEW r \in Reader, SessionThread(r) PROVE Once'
    <2>1. call' = call
      BY <1>5 DEF SessionThread, startSession, Send, Recv, RecvChannel, TryRecv, PutBack, endSession
    <2>2. Apart'  BY <1>2, <2>1 DEF Apart
    <2>3. Distinct(Table', AllPlaces, Known')
      BY <1>1, <1>2, <1>5, SessionOnce
    <2>. QED  BY <2>2, <2>3 DEF Once
  <1>. QED  BY <1>3, <1>4, <1>5 DEF Next

\* No envelope is ever in two queues, hands or sessions, or twice in one: a
\* session never sees a batch or record twice, and no two see the same one,
\* whatever the merging of links, the put-backs and the order of threads.
THEOREM AtMostOnceHolds == Spec => []AtMostOnce
  <1>1. Init => Once
    <2>. SUFFICES ASSUME Init PROVE Once
      OBVIOUS
    <2>1. /\ tr = <<>> /\ DOMAIN tr = {} /\ \A p \in Link : call[p] = IdleCall
          /\ \A r \in Reader : reader[r] = FreeReader /\ got[r] = <<>>
      BY DEF Init
    <2>2. /\ \A p \in Link : Carried(p) = <<>> /\ call[p].pc = "idle"
          /\ \A r \in Reader : Held(r) = <<>>
          /\ \A t \in Nat : In(t) = <<>> /\ Pre(t) = <<>>
      BY <2>1 DEF Carried, Held, In, Pre, IdleCall, FreeReader
    <2>3. IsTable(Table, AllPlaces) /\ \A c \in AllPlaces : Table[c] = <<>>
      BY <2>1, <2>2, TableAt, Kinds
    <2>4. <<>> \in Seq(Known) /\ Len(<<>>) = 0  OBVIOUS
    <2>5. Table \in [AllPlaces -> Seq(Known)]  BY <2>3, <2>4 DEF IsTable
    <2>6. Distinct(Table, AllPlaces, Known)  BY <2>3, <2>4, <2>5 DEF Distinct
    <2>7. Apart  BY <2>2 DEF Apart
    <2>. QED  BY <2>6, <2>7 DEF Once
  <1>2. Inv /\ Inv' /\ Once /\ [Next]_vars => Once'  BY OnceStays
  <1>3. Inv /\ Once => AtMostOnce  BY OnceIs DEF Inv, Once
  <1>. QED  BY <1>1, <1>2, <1>3, Invariance, PTL DEF Spec
=============================================================================
