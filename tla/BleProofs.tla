------------------------------ MODULE BleProofs ------------------------------
(***************************************************************************)
(* Proofs about the two halves of BleTransportManager.kt.                  *)
(*                                                                         *)
(* BleWriter, for any number of frames per send, attempts, connections and *)
(* failures: frames leave in the order of send, at most once, and none is  *)
(* lost while nothing fails.                                               *)
(*                                                                         *)
(* BleFraming, for every width of the header fields, every set of message  *)
(* lengths, any loss and any restarts: type correctness, and delivery of   *)
(* what was sent, whole, until a message id comes round.                   *)
(***************************************************************************)
EXTENDS BleFraming, BleWriter, FiniteSetTheorems, TLAPS

-----------------------------------------------------------------------------
(* The write queue of BleWriter.                                           *)

Sorted(s) == \A i, j \in DOMAIN s : i < j => s[i] < s[j]

\* Whole calls of send have been made.
WholeSends == \E k \in 0 .. MaxSends : frames = k * FramesPerSend

\* Before the first connection nothing has been sent.
NothingBefore == drops = 0 /\ ~up => frames = 0

Inv == TypeOK /\ WholeSends /\ FramesInOrder /\ NothingBefore /\ NoFrameLost

-----------------------------------------------------------------------------
(* Sequences of increasing numbers.                                         *)

\* What precedes is increasing by itself, also without an element behind it.
LEMMA SortedParts ==
  ASSUME NEW n \in Nat, NEW a \in Seq(1 .. n), NEW b \in Seq(1 .. n), NEW c \in Seq(1 .. n),
         Sorted(a \o b \o c)
  PROVE  Sorted(a) /\ Sorted(a \o <<>> \o c)
  <1>. DEFINE s == a \o b \o c  u == a \o <<>> \o c
              at(i) == IF i <= Len(a) THEN i ELSE i + Len(b)
  <1>1. /\ Len(a) \in Nat /\ Len(b) \in Nat /\ Len(c) \in Nat
        /\ DOMAIN s = 1 .. Len(a) + Len(b) + Len(c) /\ DOMAIN u = 1 .. Len(a) + Len(c)
        /\ DOMAIN a = 1 .. Len(a)
    OBVIOUS
  <1>2. \A i \in DOMAIN u : at(i) \in DOMAIN s /\ u[i] = s[at(i)]
    OBVIOUS
  <1>3. \A i \in DOMAIN a : i \in DOMAIN u /\ a[i] = u[i]
    OBVIOUS
  <1>4. \A i, j \in DOMAIN u : i < j => at(i) < at(j)
    BY <1>1
  <1>5. Sorted(u)
    <2>. HIDE DEF s, u, at
    <2>. QED  BY <1>2, <1>4 DEF Sorted, s
  <1>6. Sorted(a)
    <2>. HIDE DEF u
    <2>. QED  BY <1>3, <1>5 DEF Sorted
  <1>. QED  BY <1>5, <1>6

\* The head of the queue may as well stand before it.
LEMMA HeadMoves ==
  ASSUME NEW S, NEW a \in Seq(S), NEW q \in Seq(S), q # <<>>
  PROVE  a \o <<Head(q)>> \o Tail(q) = a \o <<>> \o q
  OBVIOUS

\* A delivered frame leaves the frame being written and joins the delivered ones.
LEMMA TailMoves ==
  ASSUME NEW S, NEW a \in Seq(S), NEW q \in Seq(S), NEW f \in S
  PROVE  Append(a, f) \o <<>> \o q = a \o <<f>> \o q
  <1>1. Append(a, f) = a \o <<f>> /\ a \o <<f>> \in Seq(S)  OBVIOUS
  <1>2. (a \o <<f>>) \o <<>> = a \o <<f>>  BY <1>1
  <1>. QED  BY <1>1, <1>2

\* Appending to the queue appends to the line.
LEMMA Associative ==
  ASSUME NEW a \in Seq(Nat), NEW b \in Seq(Nat), NEW c \in Seq(Nat)
  PROVE  a \o (b \o c) = (a \o b) \o c
  OBVIOUS

\* Frames numbered from n + 1 on continue an increasing sequence up to n.
LEMMA SortedGrows ==
  ASSUME NEW n \in Nat, NEW k \in Nat, NEW s \in Seq(1 .. n), Sorted(s)
  PROVE  LET t == s \o [i \in 1 .. k |-> n + i]
         IN  t \in Seq(1 .. n + k) /\ Sorted(t) /\ Len(t) = Len(s) + k
  <1>. DEFINE new == [i \in 1 .. k |-> n + i]  t == s \o new
  <1>1. new \in Seq(1 .. n + k) /\ Len(new) = k  OBVIOUS
  <1>2. s \in Seq(1 .. n + k)  OBVIOUS
  <1>3. t \in Seq(1 .. n + k) /\ Len(t) = Len(s) + k  BY <1>1, <1>2
  <1>4. \A i \in DOMAIN t : /\ i \in DOMAIN s => t[i] = s[i] /\ s[i] <= n
                            /\ i \notin DOMAIN s => t[i] = n + (i - Len(s)) /\ i > Len(s)
    BY <1>1, <1>2
  <1>5. Sorted(t)
    <2>. SUFFICES ASSUME NEW i \in DOMAIN t, NEW j \in DOMAIN t, i < j PROVE t[i] < t[j]
      BY DEF Sorted
    <2>1. i \in Nat /\ j \in Nat /\ Len(s) \in Nat /\ DOMAIN s = 1 .. Len(s) /\ i > 0 /\ j > 0
      BY <1>3
    <2>. HIDE DEF t
    <2>2. CASE i \in DOMAIN s /\ j \in DOMAIN s  BY <1>4, <2>2 DEF Sorted
    <2>3. CASE i \in DOMAIN s /\ j \notin DOMAIN s  BY <1>4, <2>1, <2>3
    <2>4. CASE i \notin DOMAIN s  BY <1>4, <2>1, <2>4
    <2>. QED  BY <2>2, <2>3, <2>4
  <1>. QED  BY <1>3, <1>5

-----------------------------------------------------------------------------
(* The types.                                                               *)

USE NumberAssumption

\* The flags, the number types and the operation, one by one.
Flags == {up, char, discover, cccdReady, inFlight, drainPosted} \subseteq BOOLEAN
Numbers ==
  /\ retries \in 0 .. 1 /\ issued \in 0 .. CccdMaxAttempts
  /\ streak \in 0 .. MaxStreak - 1 /\ kicks \in Nat
  /\ connects \in 0 .. MaxConnects /\ drops \in 0 .. MaxDrops /\ faults \in 0 .. MaxFaults
Queues ==
  /\ frames \in 0 .. MaxSends * FramesPerSend
  /\ queue \in Seq(1 .. frames) /\ delivered \in Seq(1 .. frames)
Looper == posts \subseteq Post /\ callback \in {"none", "empty", "more"}
Stacks ==
  \/ op \in {Idle, Op("mtu"), Op("discover"), Op("cccd")}
  \/ \E f \in 1 .. frames : op = WriteOp(f)

\* TypeOK is the conjunction of the five groups, before and after a step.
LEMMA TypeParts ==
  /\ TypeOK <=> Flags /\ Numbers /\ Queues /\ Looper /\ Stacks
  /\ TypeOK' <=> (Flags /\ Numbers /\ Queues /\ Looper /\ Stacks)'
  BY DEF TypeOK, Flags, Numbers, Queues, Looper, Stacks

\* Every step keeps the flags Boolean.
LEMMA FlagsStep == ASSUME TypeOK, Next PROVE Flags'
  <1>1. Flags  BY TypeParts
  <1>2. CASE connected \/ disconnected \/ stop
    BY <1>1, <1>2, Zenon DEF Flags, connected, disconnected, stop, Reset
  <1>3. CASE onMtuChanged \/ onServicesDiscovered \/ onDescriptorWrite \/ writeOutboundCccdNow
    BY <1>1, <1>3, Zenon DEF Flags, onMtuChanged, onServicesDiscovered, onDescriptorWrite, writeOutboundCccdNow, setup
  <1>4. CASE send
    BY <1>1, <1>4, Zenon DEF Flags, send, setup
  <1>5. ASSUME NEW rest, NEW left, NEW paced \in BOOLEAN, kickOutboundWrite(rest, left, paced) PROVE Flags'
    BY <1>1, <1>5, Zenon DEF Flags, kickOutboundWrite, setup
  <1>6. CASE runKick \/ runDrain
    <2>1. drainPosted \in BOOLEAN /\ FALSE \in BOOLEAN  BY <1>1, Zenon DEF Flags
    <2>. QED  BY <1>5, <1>6, <2>1, Zenon DEF runKick, runDrain
  <1>7. CASE writeDone \/ writeFailed
    BY <1>1, <1>7, Zenon DEF Flags, writeDone, writeFailed, setup
  <1>8. CASE writeDoneEnd
    BY <1>1, <1>8, Zenon DEF Flags, writeDoneEnd, setup
  <1>. QED  BY <1>2, <1>3, <1>4, <1>6, <1>7, <1>8 DEF Next

\* Every step keeps the counters in their ranges: a CCCD write is issued only
\* while attempts are left, and the streak is reset before it reaches its limit.
LEMMA NumbersStep == ASSUME TypeOK, Next PROVE Numbers'
  <1>1. Numbers  BY TypeParts
  <1>2. CASE connected \/ disconnected \/ stop
    <2>1. CASE connected  BY <1>1, <2>1 DEF Numbers, connected, Reset
    <2>2. CASE disconnected  BY <1>1, <2>2 DEF Numbers, disconnected, Reset
    <2>3. CASE stop  BY <1>1, <2>3 DEF Numbers, stop, Reset
    <2>. QED  BY <1>2, <2>1, <2>2, <2>3
  <1>3. CASE onMtuChanged \/ onDescriptorWrite \/ writeOutboundCccdNow
    BY <1>1, <1>3 DEF Numbers, onMtuChanged, onDescriptorWrite, writeOutboundCccdNow,
                      mayRetry, Faulty, setup, bounds
  <1>4. CASE onServicesDiscovered
    BY <1>1, <1>4 DEF Numbers, onServicesDiscovered, Faulty, bounds
  <1>5. CASE send
    BY <1>1, <1>5 DEF Numbers, send, setup, bounds
  <1>6. ASSUME NEW rest, NEW left \in Nat, NEW paced, kickOutboundWrite(rest, left, paced) PROVE Numbers'
    <2>1. UNCHANGED <<retries, issued>>  BY <1>6, Zenon DEF kickOutboundWrite, setup
    <2>2. UNCHANGED <<connects, drops, faults>> \/ Faulty  BY <1>6, Zenon DEF kickOutboundWrite, bounds
    <2>3. \/ streak' = streak \/ streak' = 0
          \/ streak + 1 < MaxStreak /\ streak' = streak + 1
      BY <1>6, Zenon DEF kickOutboundWrite
    <2>4. kicks' = left \/ kicks' = left + 1  BY <1>6, Zenon DEF kickOutboundWrite
    <2>5. connects' \in 0 .. MaxConnects /\ drops' \in 0 .. MaxDrops /\ faults' \in 0 .. MaxFaults
      BY <1>1, <2>2 DEF Numbers, Faulty
    <2>6. streak' \in 0 .. MaxStreak - 1  BY <1>1, <2>3 DEF Numbers
    <2>7. kicks' \in Nat  BY <2>4
    <2>. QED  BY <1>1, <2>1, <2>5, <2>6, <2>7 DEF Numbers
  <1>7. CASE runKick \/ runDrain
    <2>1. kicks \in Nat /\ (kicks > 0 => kicks - 1 \in Nat)  BY <1>1 DEF Numbers
    <2>2. \/ kicks - 1 \in Nat /\ kickOutboundWrite(posts, kicks - 1, drainPosted)
          \/ kickOutboundWrite(posts \ {"busyRetry"}, kicks, drainPosted)
          \/ kickOutboundWrite(posts \ {"drain"}, kicks, FALSE)
      BY <1>7, <2>1, Zenon DEF runKick, runDrain
    <2>. QED  BY <1>6, <2>1, <2>2, Zenon
  <1>8. CASE writeDone \/ writeDoneEnd \/ writeFailed
    <2>1. CASE writeDone  BY <1>1, <2>1 DEF Numbers, writeDone, setup, bounds
    <2>2. CASE writeDoneEnd  BY <1>1, <2>2 DEF Numbers, writeDoneEnd, setup, bounds
    <2>3. CASE writeFailed  BY <1>1, <2>3 DEF Numbers, writeFailed, Faulty, setup, bounds
    <2>. QED  BY <1>8, <2>1, <2>2, <2>3
  <1>. QED  BY <1>2, <1>3, <1>4, <1>5, <1>7, <1>8 DEF Next

\* Every step posts only the class's own runnables.
LEMMA LooperStep == ASSUME TypeOK, Next PROVE Looper'
  <1>1. Looper  BY TypeParts
  <1>2. CASE connected \/ disconnected \/ stop
    BY <1>1, <1>2 DEF Looper, connected, disconnected, stop, Reset
  <1>3. CASE onMtuChanged \/ onServicesDiscovered \/ onDescriptorWrite \/ writeOutboundCccdNow \/ send
    BY <1>1, <1>3 DEF Looper, Post, onMtuChanged, onServicesDiscovered, onDescriptorWrite,
                      writeOutboundCccdNow, send
  <1>4. ASSUME NEW rest \in SUBSET Post, NEW left, NEW paced, kickOutboundWrite(rest, left, paced)
        PROVE  Looper'
    BY <1>1, <1>4 DEF Looper, Post, kickOutboundWrite
  <1>5. CASE runKick \/ runDrain
    <2>1. posts \in SUBSET Post /\ posts \ {"busyRetry"} \in SUBSET Post /\ posts \ {"drain"} \in SUBSET Post
      BY <1>1 DEF Looper
    <2>. QED  BY <1>4, <1>5, <2>1 DEF runKick, runDrain
  <1>6. CASE writeDone \/ writeDoneEnd \/ writeFailed
    BY <1>1, <1>6 DEF Looper, Post, writeDone, writeDoneEnd, writeFailed
  <1>. QED  BY <1>2, <1>3, <1>5, <1>6 DEF Next

-----------------------------------------------------------------------------
(* What a step does to the frames.                                          *)

\* The line stays: at most its head is being written, or has been.
SameLine == Queues' /\ Stacks' /\ Line' = Line /\ UNCHANGED frames

\* A connection begins or ends: only what was delivered remains.
Cleared ==
  /\ Queues' /\ Stacks' /\ Line' = delivered \o <<>> \o <<>> /\ UNCHANGED frames
  /\ \/ up' /\ ~up /\ UNCHANGED drops
     \/ drops' # 0

\* Frames are lost, and the stack has reported it.
Lossy ==
  /\ Queues' /\ Stacks' /\ UNCHANGED frames /\ faults' # 0
  /\ Line' = delivered \o Writing \o <<>> \/ Line' = delivered \o <<>> \o queue

\* send adds its frames at the end.
Sent ==
  /\ frames < MaxSends * FramesPerSend /\ frames' = frames + FramesPerSend /\ up
  /\ Line' = Line \o NewFrames /\ queue' = queue \o NewFrames /\ UNCHANGED <<delivered, op>>

\* A write operation carries its frame.
LEMMA IsWriting == \A f : WriteOp(f).kind = "write" /\ WriteOp(f).frame = f
  BY DEF WriteOp

\* No other operation counts as a write.
LEMMA NotWriting == Idle.kind # "write" /\ \A k : Op(k).kind = k
  BY DEF Idle, Op

\* The frame being written is one that send handed over.
LEMMA WritingType == ASSUME TypeOK PROVE Writing \in Seq(1 .. frames)
  <1>1. Stacks  BY TypeParts
  <1>2. CASE op \in {Idle, Op("mtu"), Op("discover"), Op("cccd")}
    <2>1. op.kind # "write"  BY <1>2, NotWriting
    <2>. QED  BY <2>1 DEF Writing
  <1>3. CASE \E f \in 1 .. frames : op = WriteOp(f)
    <2>1. PICK f \in 1 .. frames : op = WriteOp(f)  BY <1>3
    <2>2. op.kind = "write" /\ op.frame = f  BY <2>1, IsWriting
    <2>3. Writing = <<f>>  BY <2>2 DEF Writing
    <2>. QED  BY <2>3
  <1>. QED  BY <1>1, <1>2, <1>3 DEF Stacks

\* What is delivered, written and queued has the type of a line of frames.
LEMMA LineParts ==
  ASSUME TypeOK
  PROVE  /\ frames \in Nat /\ delivered \in Seq(1 .. frames) /\ queue \in Seq(1 .. frames)
         /\ Writing \in Seq(1 .. frames) /\ Line \in Seq(1 .. frames)
  <1>1. Queues /\ Writing \in Seq(1 .. frames)  BY TypeParts, WritingType
  <1>. QED  BY <1>1 DEF Queues, Line

\* A connection that begins or ends clears the queue and the operation.
LEMMA LinkStep == ASSUME TypeOK, connected \/ disconnected \/ stop PROVE Cleared
  <1>1. Queues /\ Numbers  BY TypeParts
  <1>2. queue' = <<>> /\ op' \in {Op("mtu"), Idle} /\ UNCHANGED <<frames, delivered>>
    BY DEF connected, disconnected, stop, Reset
  <1>3. op'.kind # "write"  BY <1>2, NotWriting
  <1>4. Writing' = <<>>  BY <1>3 DEF Writing
  <1>5. Queues' /\ Stacks'  BY <1>1, <1>2 DEF Queues, Stacks
  <1>6. Line' = delivered \o <<>> \o <<>>  BY <1>2, <1>4 DEF Line
  <1>7. (up' /\ ~up /\ UNCHANGED drops) \/ drops' # 0
    BY <1>1 DEF connected, disconnected, stop, Numbers
  <1>. QED  BY <1>2, <1>5, <1>6, <1>7 DEF Cleared

\* The callbacks that set the link up leave the frames alone.
LEMMA SetupStep ==
  ASSUME TypeOK,
         onMtuChanged \/ onServicesDiscovered \/ onDescriptorWrite \/ writeOutboundCccdNow
  PROVE  SameLine
  <1>1. Queues /\ Stacks  BY TypeParts
  <1>2. UNCHANGED <<queue, frames, delivered>>
    BY DEF onMtuChanged, onServicesDiscovered, onDescriptorWrite, writeOutboundCccdNow
  <1>3. \/ UNCHANGED op
        \/ /\ op \in {Idle, Op("mtu"), Op("discover"), Op("cccd")}
           /\ op' \in {Idle, Op("mtu"), Op("discover"), Op("cccd")}
    BY DEF onMtuChanged, onServicesDiscovered, onDescriptorWrite, writeOutboundCccdNow
  <1>4. Writing' = Writing
    <2>1. CASE UNCHANGED op  BY <2>1 DEF Writing
    <2>2. CASE /\ op \in {Idle, Op("mtu"), Op("discover"), Op("cccd")}
               /\ op' \in {Idle, Op("mtu"), Op("discover"), Op("cccd")}
      <3>1. op.kind # "write" /\ op'.kind # "write"  BY <2>2, NotWriting
      <3>. QED  BY <3>1 DEF Writing
    <2>. QED  BY <1>3, <2>1, <2>2
  <1>5. Queues' /\ Stacks'  BY <1>1, <1>2, <1>3 DEF Queues, Stacks
  <1>. QED  BY <1>2, <1>4, <1>5 DEF SameLine, Line

\* send adds the frames of one envelope at the end of the line.
LEMMA SendStep == ASSUME TypeOK, send PROVE Sent
  <1>1. frames \in Nat /\ delivered \in Seq(1 .. frames) /\ queue \in Seq(1 .. frames)
        /\ Writing \in Seq(1 .. frames)
    BY LineParts
  <1>2. /\ frames < MaxSends * FramesPerSend /\ frames' = frames + FramesPerSend /\ up
        /\ queue' = queue \o NewFrames /\ UNCHANGED <<delivered, op>>
    BY DEF send, enqueued
  <1>3. Writing' = Writing  BY <1>2 DEF Writing
  <1>4. NewFrames \in Seq(Nat)  BY <1>1 DEF NewFrames
  <1>5. /\ delivered \in Seq(Nat) /\ queue \in Seq(Nat) /\ Writing \in Seq(Nat)
    BY <1>1
  <1>6. delivered \o Writing \o (queue \o NewFrames) = (delivered \o Writing \o queue) \o NewFrames
    <2>1. delivered \o Writing \in Seq(Nat)  BY <1>5
    <2>. QED  BY <1>4, <1>5, <2>1, Associative
  <1>. QED  BY <1>2, <1>3, <1>6 DEF Sent, Line

\* A kick moves the head of the queue into the stack, puts it back, or gives the
\* whole queue up after a failure.
LEMMA KickStep ==
  ASSUME TypeOK, NEW rest, NEW left, NEW paced, kickOutboundWrite(rest, left, paced)
  PROVE  SameLine \/ Lossy
  <1>1. Queues /\ Stacks /\ Numbers  BY TypeParts
  <1>2. /\ frames \in Nat /\ delivered \in Seq(1 .. frames) /\ queue \in Seq(1 .. frames)
        /\ Writing \in Seq(1 .. frames)
    BY LineParts
  <1>3. UNCHANGED <<frames, delivered>>  BY DEF kickOutboundWrite
  <1>4. CASE UNCHANGED <<queue, op>>
    <2>1. Writing' = Writing  BY <1>4 DEF Writing
    <2>. QED  BY <1>1, <1>3, <1>4, <2>1 DEF SameLine, Line, Queues, Stacks
  <1>5. CASE queue # <<>> /\ op = Idle /\ op' = WriteOp(Head(queue)) /\ queue' = Tail(queue)
    <2>1. Head(queue) \in 1 .. frames /\ Tail(queue) \in Seq(1 .. frames)  BY <1>2, <1>5
    <2>2. Queues' /\ Stacks'  BY <1>1, <1>3, <1>5, <2>1 DEF Queues, Stacks
    <2>3. op.kind # "write"  BY <1>5, NotWriting
    <2>4. op'.kind = "write" /\ op'.frame = Head(queue)  BY <1>5, IsWriting
    <2>5. Writing = <<>>  BY <2>3 DEF Writing
    <2>6. Writing' = <<Head(queue)>>  BY <2>4 DEF Writing
    <2>7. delivered \o <<Head(queue)>> \o Tail(queue) = delivered \o <<>> \o queue
      BY <1>2, <1>5, HeadMoves
    <2>8. Line' = Line  BY <1>3, <1>5, <2>5, <2>6, <2>7 DEF Line
    <2>. QED  BY <1>3, <2>2, <2>8 DEF SameLine
  <1>6. CASE queue' = <<>> /\ UNCHANGED op /\ faults' # 0
    <2>1. Writing' = Writing  BY <1>6 DEF Writing
    <2>2. Queues' /\ Stacks'  BY <1>1, <1>3, <1>6 DEF Queues, Stacks
    <2>3. Line' = delivered \o Writing \o <<>>  BY <1>3, <1>6, <2>1 DEF Line
    <2>. QED  BY <1>3, <1>6, <2>2, <2>3 DEF Lossy
  <1>7. queue # <<>> => offerFirst(Head(queue), Tail(queue)) = queue
    BY <1>2 DEF offerFirst
  <1>8. Faulty => faults' # 0  BY <1>1 DEF Faulty, Numbers
  <1>. QED  BY <1>4, <1>5, <1>6, <1>7, <1>8 DEF kickOutboundWrite, MayWrite

\* The stack's answer delivers the frame being written, or loses it and counts
\* as a failure.
LEMMA AnswerStep == ASSUME TypeOK, writeDone \/ writeDoneEnd \/ writeFailed PROVE SameLine \/ Lossy
  <1>1. Queues /\ Stacks /\ Numbers  BY TypeParts
  <1>2. /\ frames \in Nat /\ delivered \in Seq(1 .. frames) /\ queue \in Seq(1 .. frames)
        /\ Writing \in Seq(1 .. frames)
    BY LineParts
  <1>3. CASE writeDoneEnd
    <2>1. UNCHANGED <<queue, op, frames, delivered>>  BY <1>3 DEF writeDoneEnd
    <2>2. Writing' = Writing  BY <2>1 DEF Writing
    <2>. QED  BY <1>1, <2>1, <2>2 DEF SameLine, Line, Queues, Stacks
  <1>4. ASSUME op' = Idle PROVE Writing' = <<>> /\ Stacks'
    <2>1. op'.kind # "write"  BY <1>4, NotWriting
    <2>. QED  BY <1>4, <2>1 DEF Writing, Stacks
  <1>5. CASE writeDone
    <2>1. /\ op.kind = "write" /\ op' = Idle /\ delivered' = Append(delivered, op.frame)
          /\ UNCHANGED <<queue, frames>>
      BY <1>5 DEF writeDone
    <2>2. Writing = <<op.frame>>  BY <2>1 DEF Writing
    <2>3. op.frame \in 1 .. frames  BY <1>2, <2>2
    <2>4. Queues'  BY <1>1, <2>1, <2>3 DEF Queues
    <2>5. Append(delivered, op.frame) \o <<>> \o queue = delivered \o <<op.frame>> \o queue
      BY <1>2, <2>3, TailMoves
    <2>6. Line' = Line  BY <1>4, <2>1, <2>2, <2>5 DEF Line
    <2>. QED  BY <1>4, <2>1, <2>4, <2>6 DEF SameLine
  <1>6. CASE writeFailed
    <2>1. op' = Idle /\ UNCHANGED <<queue, frames, delivered>>  BY <1>6 DEF writeFailed
    <2>2. faults' # 0  BY <1>1, <1>6 DEF writeFailed, Faulty, Numbers
    <2>3. Line' = delivered \o <<>> \o queue  BY <1>4, <2>1 DEF Line
    <2>4. Queues'  BY <1>1, <2>1 DEF Queues
    <2>. QED  BY <1>4, <2>1, <2>2, <2>3, <2>4 DEF Lossy
  <1>. QED  BY <1>3, <1>5, <1>6

\* Every step treats the line of frames in one of the four ways.
LEMMA LineStep == ASSUME TypeOK, Next PROVE SameLine \/ Cleared \/ Lossy \/ Sent
  <1>1. CASE connected \/ disconnected \/ stop  BY <1>1, LinkStep
  <1>2. CASE onMtuChanged \/ onServicesDiscovered \/ onDescriptorWrite \/ writeOutboundCccdNow
    BY <1>2, SetupStep
  <1>3. CASE send  BY <1>3, SendStep
  <1>4. CASE runKick \/ runDrain  BY <1>4, KickStep DEF runKick, runDrain
  <1>5. CASE writeDone \/ writeDoneEnd \/ writeFailed  BY <1>5, AnswerStep
  <1>. QED  BY <1>1, <1>2, <1>3, <1>4, <1>5 DEF Next

-----------------------------------------------------------------------------
(* The invariant.                                                           *)

\* A call of send hands over all the frames of one envelope, so the number of
\* frames stays within the bound of TypeOK.
LEMMA SentFits ==
  ASSUME TypeOK, WholeSends, Sent
  PROVE  WholeSends' /\ frames' \in 0 .. MaxSends * FramesPerSend
  <1>1. PICK k \in 0 .. MaxSends : frames = k * FramesPerSend  BY DEF WholeSends
  <1>2. k \in Nat /\ MaxSends \in Nat /\ FramesPerSend \in Nat /\ k <= MaxSends
    BY <1>1
  <1>3. k # MaxSends  BY <1>1, <1>2 DEF Sent
  <1>4. frames' = (k + 1) * FramesPerSend  BY <1>1, <1>2 DEF Sent
  <1>5. k + 1 \in 0 .. MaxSends  BY <1>2, <1>3
  <1>6. PICK m \in Nat : MaxSends = (k + 1) + m
    <2>1. MaxSends - (k + 1) \in Nat /\ MaxSends = (k + 1) + (MaxSends - (k + 1))  BY <1>2, <1>5
    <2>. QED  BY <2>1
  <1>7. MaxSends * FramesPerSend = (k + 1) * FramesPerSend + m * FramesPerSend
    BY <1>2, <1>6
  <1>8. m * FramesPerSend \in Nat /\ (k + 1) * FramesPerSend \in Nat  BY <1>2, <1>6
  <1>. QED  BY <1>4, <1>5, <1>7, <1>8 DEF WholeSends

\* The frames keep their types.
LEMMA QueuesStep == ASSUME Inv, Next PROVE (Queues /\ Stacks)'
  <1>1. TypeOK /\ WholeSends  BY DEF Inv
  <1>2. Queues /\ Stacks  BY <1>1, TypeParts
  <1>3. CASE SameLine \/ Cleared \/ Lossy  BY <1>3 DEF SameLine, Cleared, Lossy
  <1>4. CASE Sent
    <2>1. frames' \in 0 .. MaxSends * FramesPerSend  BY <1>1, <1>4, SentFits
    <2>2. frames \in Nat /\ frames' = frames + FramesPerSend  BY <1>2, <1>4 DEF Queues, Sent
    <2>3. queue \in Seq(1 .. frames') /\ delivered \in Seq(1 .. frames')  BY <1>2, <2>2 DEF Queues
    <2>4. NewFrames \in Seq(1 .. frames')  BY <2>2 DEF NewFrames
    <2>5. Queues'  BY <1>4, <2>1, <2>3, <2>4 DEF Queues, Sent
    <2>6. Stacks'  BY <1>2, <1>4, <2>2 DEF Stacks, Sent
    <2>. QED  BY <2>5, <2>6
  <1>. QED  BY <1>1, <1>3, <1>4, LineStep

\* The counters of disconnections and failures never go back.
LEMMA CountsGrow ==
  ASSUME TypeOK, Next
  PROVE  (drops' = 0 => drops = 0) /\ (faults' = 0 => faults = 0)
  <1>1. Numbers  BY TypeParts
  <1>2. CASE connected \/ disconnected \/ stop
    BY <1>1, <1>2 DEF Numbers, connected, disconnected, stop
  <1>3. CASE onMtuChanged \/ onServicesDiscovered \/ onDescriptorWrite \/ writeOutboundCccdNow \/ send
    BY <1>1, <1>3 DEF Numbers, onMtuChanged, onServicesDiscovered, onDescriptorWrite,
                      writeOutboundCccdNow, send, Faulty, bounds
  <1>4. ASSUME NEW rest, NEW left, NEW paced, kickOutboundWrite(rest, left, paced)
        PROVE  (drops' = 0 => drops = 0) /\ (faults' = 0 => faults = 0)
    <2>1. drops' = drops /\ faults' \in {faults, faults + 1}
      BY <1>4 DEF kickOutboundWrite, Faulty, bounds
    <2>. QED  BY <1>1, <2>1 DEF Numbers
  <1>5. CASE runKick \/ runDrain  BY <1>4, <1>5 DEF runKick, runDrain
  <1>6. CASE writeDone \/ writeDoneEnd \/ writeFailed
    BY <1>1, <1>6 DEF Numbers, writeDone, writeDoneEnd, writeFailed, Faulty, bounds
  <1>. QED  BY <1>2, <1>3, <1>5, <1>6 DEF Next

\* The writer starts with nothing sent.
LEMMA InitInv == Init => Inv
  <1>. SUFFICES ASSUME Init PROVE Inv  OBVIOUS
  <1>1. Writing = <<>> /\ Line = <<>> \o <<>> \o <<>>  BY NotWriting DEF Init, Writing, Line
  <1>2. Line = <<>>  BY <1>1
  <1>3. 0 \in 0 .. MaxSends * FramesPerSend /\ 0 = 0 * FramesPerSend  OBVIOUS
  <1>4. Flags /\ Looper  BY Zenon DEF Init, Flags, Looper
  <1>5. Numbers /\ Queues /\ Stacks  BY <1>3 DEF Init, Numbers, Queues, Stacks
  <1>6. WholeSends  BY <1>3 DEF Init, WholeSends
  <1>7. FramesInOrder  BY <1>2 DEF FramesInOrder
  <1>8. NothingBefore /\ NoFrameLost  BY <1>2 DEF Init, NothingBefore, NoFrameLost
  <1>. QED  BY <1>4, <1>5, <1>6, <1>7, <1>8, TypeParts DEF Inv

\* Every step keeps the invariant.
LEMMA NextInv == Inv /\ [Next]_vars => Inv'
  <1>. SUFFICES ASSUME Inv, [Next]_vars PROVE Inv'  OBVIOUS
  <1>1. CASE UNCHANGED vars
    BY <1>1 DEF Inv, vars, setup, bounds, TypeOK, WholeSends, FramesInOrder, NothingBefore,
                NoFrameLost, Line, Writing
  <1>2. CASE Next
    <2>1. TypeOK /\ WholeSends /\ FramesInOrder /\ NothingBefore /\ NoFrameLost  BY DEF Inv
    <2>2. TypeOK'
      BY <1>2, <2>1, FlagsStep, NumbersStep, LooperStep, QueuesStep, TypeParts
    <2>3. /\ frames \in Nat /\ delivered \in Seq(1 .. frames) /\ queue \in Seq(1 .. frames)
          /\ Writing \in Seq(1 .. frames) /\ Line \in Seq(1 .. frames)
      BY <2>1, LineParts
    <2>4. Sorted(Line)  BY <2>1 DEF FramesInOrder, Sorted
    <2>5. Sorted(Line') => FramesInOrder'  BY DEF FramesInOrder, Sorted
    <2>6. drops' = 0 /\ ~up' => frames' = 0
      <3>1. Numbers  BY <2>1, TypeParts
      <3>2. CASE connected \/ send  BY <3>2 DEF connected, send, setup
      <3>3. CASE disconnected \/ stop  BY <3>1, <3>3 DEF disconnected, stop, Numbers
      <3>4. CASE onMtuChanged \/ onServicesDiscovered \/ onDescriptorWrite \/ writeOutboundCccdNow
        BY <2>1, <3>4 DEF NothingBefore, onMtuChanged, onServicesDiscovered, onDescriptorWrite,
           writeOutboundCccdNow, Faulty, setup, bounds
      <3>5. ASSUME NEW rest, NEW left, NEW paced, kickOutboundWrite(rest, left, paced)
            PROVE  drops' = 0 /\ ~up' => frames' = 0
        BY <2>1, <3>5 DEF NothingBefore, kickOutboundWrite, Faulty, setup, bounds
      <3>6. CASE runKick \/ runDrain  BY <3>5, <3>6 DEF runKick, runDrain
      <3>7. CASE writeDone \/ writeDoneEnd \/ writeFailed
        BY <2>1, <3>7 DEF NothingBefore, writeDone, writeDoneEnd, writeFailed, Faulty, setup, bounds
      <3>. QED  BY <1>2, <3>2, <3>3, <3>4, <3>6, <3>7 DEF Next
    <2>7. NothingBefore'  BY <2>6 DEF NothingBefore
    <2>8. (drops' = 0 => drops = 0) /\ (faults' = 0 => faults = 0)  BY <1>2, <2>1, CountsGrow
    <2>9. CASE SameLine
      <3>1. Line' = Line /\ frames' = frames  BY <2>9 DEF SameLine
      <3>2. WholeSends' /\ NoFrameLost'  BY <2>1, <2>8, <3>1 DEF WholeSends, NoFrameLost
      <3>3. FramesInOrder'  BY <2>4, <2>5, <3>1
      <3>. QED  BY <2>2, <2>7, <3>2, <3>3 DEF Inv
    <2>10. CASE Cleared
      <3>1. Line' = delivered \o <<>> \o <<>> /\ frames' = frames  BY <2>10 DEF Cleared
      <3>2. delivered \o <<>> \o <<>> = delivered  BY <2>3
      <3>3. Sorted(delivered)  BY <2>3, <2>4, SortedParts DEF Line
      <3>4. FramesInOrder'  BY <2>5, <3>1, <3>2, <3>3
      <3>5. drops' = 0 => frames = 0  BY <2>1, <2>8, <2>10 DEF Cleared, NothingBefore
      <3>6. frames = 0 => delivered = <<>>  BY <2>3
      <3>7. NoFrameLost'  BY <3>1, <3>2, <3>5, <3>6 DEF NoFrameLost
      <3>8. WholeSends'  BY <2>1, <3>1 DEF WholeSends
      <3>. QED  BY <2>2, <2>7, <3>4, <3>7, <3>8 DEF Inv
    <2>11. CASE Lossy
      <3>1. /\ Line' = delivered \o Writing \o <<>> \/ Line' = delivered \o <<>> \o queue
            /\ frames' = frames /\ faults' # 0
        BY <2>11 DEF Lossy
      <3>2. Sorted(delivered \o <<>> \o queue)  BY <2>3, <2>4, SortedParts DEF Line
      <3>3. Sorted(delivered \o Writing \o <<>>)
        <4>1. delivered \o Writing \in Seq(1 .. frames) /\ <<>> \in Seq(1 .. frames)  BY <2>3
        <4>2. (delivered \o Writing) \o <<>> \o queue = Line
          BY <2>3, <4>1 DEF Line
        <4>3. Sorted(delivered \o Writing)  BY <2>3, <2>4, <4>1, <4>2, SortedParts
        <4>4. delivered \o Writing \o <<>> = delivered \o Writing  BY <4>1
        <4>. QED  BY <4>3, <4>4
      <3>4. FramesInOrder'  BY <2>5, <3>1, <3>2, <3>3
      <3>5. NoFrameLost' /\ WholeSends'  BY <2>1, <3>1 DEF NoFrameLost, WholeSends
      <3>. QED  BY <2>2, <2>7, <3>4, <3>5 DEF Inv
    <2>12. CASE Sent
      <3>1. Line' = Line \o NewFrames /\ frames' = frames + FramesPerSend  BY <2>12 DEF Sent
      <3>2. FramesPerSend \in Nat  OBVIOUS
      <3>3. /\ Sorted(Line \o NewFrames) /\ Len(Line \o NewFrames) = Len(Line) + FramesPerSend
        BY <2>3, <2>4, <3>2, SortedGrows DEF NewFrames
      <3>4. FramesInOrder'  BY <2>5, <3>1, <3>3
      <3>5. NoFrameLost'  BY <2>1, <2>8, <3>1, <3>3 DEF NoFrameLost
      <3>6. WholeSends'  BY <2>1, <2>12, SentFits
      <3>. QED  BY <2>2, <2>7, <3>4, <3>5, <3>6 DEF Inv
    <2>. QED  BY <1>2, <2>1, <2>9, <2>10, <2>11, <2>12, LineStep
  <1>. QED  BY <1>1, <1>2

-----------------------------------------------------------------------------
(* The theorems.                                                            *)

\* Every variable of the writer keeps its type: in particular a CCCD write is
\* tried at most CCCD_MAX_ATTEMPTS times and the failure streak stays below
\* its limit.
THEOREM TypeCorrect == Spec => []TypeOK
  <1>1. Inv => TypeOK  BY DEF Inv
  <1>. QED  BY InitInv, NextInv, <1>1, PTL DEF Spec

\* Through retries, pacing, reconnections and dropped queues, frames leave in
\* the order of send and none leaves twice.
THEOREM FramesInOrderHolds == Spec => []FramesInOrder
  <1>1. Inv => FramesInOrder  BY DEF Inv
  <1>. QED  BY InitInv, NextInv, <1>1, PTL DEF Spec

\* While no failure is reported and the link holds, every frame handed to send
\* is delivered, being written or queued.
THEOREM NoFrameLostHolds == Spec => []NoFrameLost
  <1>1. Inv => NoFrameLost  BY DEF Inv
  <1>. QED  BY InitInv, NextInv, <1>1, PTL DEF Spec

-----------------------------------------------------------------------------
(* The frames of makeFrames and onBleFrame.                                *)

(* A frame names the message it was cut from, and its place in it.         *)
FrameOK(f) ==
  /\ f.id \in DOMAIN sent
  /\ f.total = sent[f.id]
  /\ f.index < sent[f.id]
  /\ f.payload = [msg |-> f.id, place |-> f.index]

(* An assembly holds parts of the one message its key names.               *)
AssemblyOK(k) ==
  \/ inbound[k] = NoAssembly
  \/ /\ k \in DOMAIN sent
     /\ inbound[k].total = sent[k]
     /\ inbound[k].parts \subseteq Whole(k)

(* What holds while message ids are unique ...                             *)
Unmixed ==
  /\ seq = Len(sent) + 1
  /\ \A i \in DOMAIN air : FrameOK(air[i])
  /\ \A k \in Id : AssemblyOK(k)
  /\ EnvelopesIntact

(* ... and the inductive invariant: nothing is said of the assemblies once *)
(* an id has come round.                                                  *)
UniqueInv == FramingTypeOK /\ (IdsAreUnique => Unmixed)

(* Masking a number that fits leaves it alone.                             *)
LEMMA MaskFits ==
  ASSUME NEW n \in Nat, NEW w \in Nat, n < w
  PROVE  n % w = n
  OBVIOUS

(* Masking yields a value of a header field.                               *)
LEMMA MaskIsId ==
  ASSUME NEW n \in Nat
  PROVE  n % Width \in Id
  BY WidthAssumption DEF Id

USE WidthAssumption, LengthAssumption, BoundAssumption

-----------------------------------------------------------------------------
(* Type correctness.                                                       *)

(* Every frame makeFrames makes is a frame, whatever it is masked from.    *)
LEMMA FramesTyped ==
  ASSUME seq \in Nat, NEW m \in Nat, NEW n \in Lengths
  PROVE  makeFrames(m, n) \in Seq(Frame) /\ Len(makeFrames(m, n)) = n
<1>1. n \in Nat /\ seq % Width \in Id /\ n % Width \in Id
  BY MaskIsId
<1>2. ASSUME NEW i \in 1 .. n PROVE makeFrames(m, n)[i] \in Frame
  <2>1. i - 1 \in Nat /\ (i - 1) % Width \in Id
    BY <1>1, MaskIsId
  <2> QED
    BY <1>1, <2>1 DEF makeFrames, Frame, Part
<1>3. makeFrames(m, n) \in [1 .. n -> Frame]
  BY <1>2 DEF makeFrames
<1> QED
  BY <1>1, <1>3

(* The two phones' variables keep their types in every step.               *)
LEMMA FramingTypeStep ==
  ASSUME FramingTypeOK, [FramingNext]_framingVars
  PROVE  FramingTypeOK'
<1> DEFINE Assembly == [total : Id, parts : SUBSET Slice]
<1> USE DEF FramingTypeOK
<1>1. ASSUME NEW n \in Lengths, sendFramed(n) PROVE FramingTypeOK'
  <2>1. Len(sent) + 1 \in Nat
    OBVIOUS
  <2>2. makeFrames(Len(sent) + 1, n) \in Seq(Frame)
    BY <2>1, FramesTyped
  <2> QED
    BY <1>1, <2>2 DEF sendFramed
<1>2. CASE Lose
  BY <1>2 DEF Lose
<1>3. CASE Restart
  BY <1>3 DEF Restart
<1>4. CASE onBleFrame
  <2> DEFINE f == Head(air)
             parts == WithPart(Entry(f), f)
             total == Entry(f).total
  <2>1. /\ air # << >> /\ air' = Tail(air) /\ f \in Frame /\ air' \in Seq(Frame)
        /\ UNCHANGED << seq, sent, losses, restarts >>
    BY <1>4 DEF onBleFrame
  <2>2. f.id \in Id /\ f.total \in Id /\ f.index \in Nat /\ f.payload \in Part
    <3> HIDE DEF f, FramingTypeOK
    <3> QED
      BY <2>1 DEF Frame, Id
  <2>3. Entry(f) \in Assembly
    BY <2>2 DEF Entry
  <2>4. parts \subseteq Slice /\ total \in Id
    BY <2>2, <2>3 DEF WithPart, Slice
  <2>5. [total |-> total, parts |-> parts] \in Assembly /\ NoAssembly \in Assembly
    BY <2>4 DEF NoAssembly, Id
  <2>6. \/ UNCHANGED << inbound, handed >>
        \/ /\ inbound' = [inbound EXCEPT ![f.id] = [total |-> total, parts |-> parts]]
           /\ UNCHANGED handed
        \/ /\ inbound' = [inbound EXCEPT ![f.id] = NoAssembly]
           /\ handed' = handed \cup {parts}
    BY <1>4 DEF onBleFrame
  <2> HIDE DEF f, parts, total, Assembly
  <2>7. inbound \in [Id -> Assembly]
    BY DEF Assembly
  <2>8. inbound' \in [Id -> Assembly] /\ handed' \in SUBSET (SUBSET Slice)
    BY <2>4, <2>5, <2>6, <2>7
  <2> QED
    BY <2>1, <2>8 DEF Assembly
<1>5. CASE UNCHANGED framingVars
  BY <1>5 DEF framingVars
<1> QED
  BY <1>1, <1>2, <1>3, <1>4, <1>5 DEF FramingNext

(* The header fields of every frame, and the keys and totals of every      *)
(* assembly, stay within 16 bits (Width), however many messages are sent   *)
(* and however long they are.                                              *)
THEOREM FramingTypeCorrect == FramingSpec => []FramingTypeOK
<1>1. FramingInit => FramingTypeOK
  BY DEF FramingInit, FramingTypeOK, Id, NoAssembly
<1>2. FramingTypeOK /\ [FramingNext]_framingVars => FramingTypeOK'
  BY FramingTypeStep
<1> QED
  BY <1>1, <1>2, PTL DEF FramingSpec

-----------------------------------------------------------------------------
(* Delivery while message ids are unique.                                  *)

(* Ids that are unique after a step were unique before it.                 *)
LEMMA UniqueBefore ==
  ASSUME FramingTypeOK, [FramingNext]_framingVars, IdsAreUnique'
  PROVE  IdsAreUnique
<1> USE DEF FramingTypeOK, IdsAreUnique
<1>1. ASSUME NEW n \in Lengths, sendFramed(n) PROVE IdsAreUnique
  <2>1. /\ sent' = Append(sent, n) /\ restarts' = restarts
        /\ Len(sent') = Len(sent) + 1
        /\ \A m \in DOMAIN sent : m \in DOMAIN sent' /\ sent'[m] = sent[m]
    BY <1>1 DEF sendFramed
  <2> QED
    BY <2>1
<1>2. CASE Lose
  BY <1>2 DEF Lose
<1>3. CASE Restart
  BY <1>3 DEF Restart
<1>4. CASE onBleFrame
  BY <1>4 DEF onBleFrame
<1>5. CASE UNCHANGED framingVars
  BY <1>5 DEF framingVars
<1> QED
  BY <1>1, <1>2, <1>3, <1>4, <1>5 DEF FramingNext

(* The frames of a message with an id of its own name it, and its places.  *)
LEMMA FramesNamed ==
  ASSUME FramingTypeOK, seq = Len(sent) + 1, seq < Width, NEW n \in Lengths, n < Width
  PROVE  \A i \in 1 .. n :
           makeFrames(Len(sent) + 1, n)[i] =
             [id |-> seq, total |-> n, index |-> i - 1,
              payload |-> [msg |-> seq, place |-> i - 1]]
<1>1. seq \in Nat /\ seq % Width = seq /\ n \in Nat /\ n % Width = n
  BY MaskFits DEF FramingTypeOK
<1>2. \A i \in 1 .. n : i - 1 \in Nat /\ i - 1 < Width /\ (i - 1) % Width = i - 1
  BY <1>1, MaskFits
<1> QED
  BY <1>1, <1>2 DEF makeFrames

(* send: the new frames name the new message, under an id of its own.      *)
LEMMA SendUnmixed ==
  ASSUME FramingTypeOK, Unmixed, IdsAreUnique', NEW n \in Lengths, sendFramed(n)
  PROVE  Unmixed'
<1> DEFINE fs == makeFrames(Len(sent) + 1, n)
<1>1. /\ sent' = Append(sent, n) /\ air' = air \o fs /\ seq' = seq + 1
      /\ UNCHANGED << inbound, handed, losses, restarts >>
  BY DEF sendFramed
<1>2. /\ sent \in Seq(Lengths) /\ air \in Seq(Frame) /\ seq = Len(sent) + 1
      /\ Len(sent) \in Nat
      /\ \A i \in DOMAIN air : FrameOK(air[i])
  BY DEF FramingTypeOK, Unmixed
<1>3. /\ Len(sent') = Len(sent) + 1 /\ DOMAIN sent \subseteq DOMAIN sent'
      /\ \A k \in DOMAIN sent : sent'[k] = sent[k]
      /\ seq \in DOMAIN sent' /\ sent'[seq] = n
  BY <1>1, <1>2
<1>4. seq < Width /\ n < Width
  BY <1>2, <1>3 DEF IdsAreUnique
<1>5. /\ fs \in Seq(Frame) /\ Len(fs) = n
      /\ \A i \in 1 .. n : fs[i] = [id |-> seq, total |-> n, index |-> i - 1,
                                   payload |-> [msg |-> seq, place |-> i - 1]]
  BY <1>2, <1>4, FramesTyped, FramesNamed DEF FramingTypeOK
<1> HIDE DEF fs
<1>6. \A k \in DOMAIN sent : Whole(k)' = Whole(k)
  BY <1>3 DEF Whole
<1>7. ASSUME NEW i \in DOMAIN air' PROVE FrameOK(air[i])'
  <2>1. CASE i \in DOMAIN air
    <3>1. air'[i] = air[i] /\ FrameOK(air[i])
      BY <1>1, <1>2, <1>5, <2>1
    <3> QED
      BY <3>1, <1>3 DEF FrameOK
  <2>2. CASE i \notin DOMAIN air
    <3>1. i - Len(air) \in 1 .. n /\ air'[i] = fs[i - Len(air)]
      BY <1>1, <1>2, <1>5, <2>2
    <3> DEFINE j == i - Len(air)
    <3>2. /\ n \in Nat /\ j - 1 < n
          /\ air'[i] = [id |-> seq, total |-> n, index |-> j - 1,
                        payload |-> [msg |-> seq, place |-> j - 1]]
      <4>1. air'[i] = fs[j] /\ j \in 1 .. n
        BY <3>1
      <4>2. n \in Nat /\ j - 1 < n
        BY <4>1, LengthAssumption
      <4> HIDE DEF j
      <4> QED
        BY <4>1, <4>2, <1>5, Zenon
    <3> HIDE DEF j
    <3> QED
      BY <3>2, <1>3 DEF FrameOK
  <2> QED
    BY <2>1, <2>2
<1>8. ASSUME NEW k \in Id PROVE AssemblyOK(k)'
  BY <1>1, <1>3, <1>6 DEF Unmixed, AssemblyOK
<1>9. EnvelopesIntact'
  BY <1>1, <1>3, <1>6 DEF Unmixed, EnvelopesIntact
<1>10. seq' = Len(sent') + 1
  BY <1>1, <1>2, <1>3
<1> QED
  BY <1>7, <1>8, <1>9, <1>10 DEF Unmixed

(* Taking the first frame off the link leaves the others as they are.      *)
LEMMA TailAir ==
  ASSUME FramingTypeOK, Unmixed, air # << >>, air' = Tail(air), sent' = sent
  PROVE  /\ \A i \in DOMAIN air' : FrameOK(air[i])'
         /\ Head(air) \in Frame /\ FrameOK(Head(air))
<1>1. air \in Seq(Frame) /\ \A i \in DOMAIN air : FrameOK(air[i])
  BY DEF FramingTypeOK, Unmixed
<1>2. Head(air) \in Frame /\ FrameOK(Head(air))
  BY <1>1
<1>3. ASSUME NEW i \in DOMAIN air' PROVE FrameOK(air[i])'
  <2>1. i + 1 \in DOMAIN air /\ air'[i] = air[i + 1]
    BY <1>1
  <2> QED
    BY <1>1, <2>1 DEF FrameOK
<1> QED
  BY <1>2, <1>3

(* Lose: a frame fewer, and no assembly changes.                           *)
LEMMA LoseUnmixed ==
  ASSUME FramingTypeOK, Unmixed, Lose
  PROVE  Unmixed'
<1>1. /\ air # << >> /\ air' = Tail(air)
      /\ UNCHANGED << seq, sent, inbound, handed >>
  BY DEF Lose
<1>2. \A i \in DOMAIN air' : FrameOK(air[i])'
  BY <1>1, TailAir
<1>3. (\A k \in Id : AssemblyOK(k))' /\ EnvelopesIntact'
  <2>1. \A k : Whole(k)' = Whole(k)
    BY <1>1 DEF Whole
  <2>2. (\A k \in Id : AssemblyOK(k))'
    BY <1>1, <2>1 DEF Unmixed, AssemblyOK
  <2>3. EnvelopesIntact'
    BY <1>1, <2>1 DEF Unmixed, EnvelopesIntact
  <2> QED
    BY <2>2, <2>3
<1> QED
  BY <1>1, <1>2, <1>3 DEF Unmixed

(* onBleFrame adds a part of the message the frame names to the assembly   *)
(* of that message, so an assembly with every index is that message.       *)
LEMMA FrameParts ==
  ASSUME FramingTypeOK, Unmixed, NEW f \in Frame, FrameOK(f)
  PROVE  LET parts == WithPart(Entry(f), f)
         IN  /\ f.id \in Id /\ f.id \in DOMAIN sent
             /\ Entry(f).total = sent[f.id] /\ parts \subseteq Whole(f.id)
             /\ Complete(parts, Entry(f).total) => parts = Whole(f.id)
<1> DEFINE k == f.id
           parts == WithPart(Entry(f), f)
<1>1. /\ k \in Id /\ f.total \in Id /\ f.index \in Nat /\ f.index \in Id
      /\ k \in DOMAIN sent /\ sent \in Seq(Lengths) /\ sent[k] \in Nat
      /\ k \in Nat
      /\ f.total = sent[k] /\ f.index < sent[k]
      /\ f.payload = [msg |-> k, place |-> f.index]
      /\ inbound[k] \in [total : Id, parts : SUBSET Slice]
      /\ AssemblyOK(k)
  <2>1. /\ f.id \in Id /\ f.total \in Id /\ f.index \in Id
    BY DEF Frame
  <2>2. f.index \in Nat /\ k \in Nat
    BY <2>1 DEF Id
  <2>3. /\ k \in DOMAIN sent /\ f.total = sent[k] /\ f.index < sent[k]
        /\ f.payload = [msg |-> k, place |-> f.index]
    BY Zenon DEF FrameOK
  <2>4. sent \in Seq(Lengths) /\ inbound[k] \in [total : Id, parts : SUBSET Slice]
    BY <2>1, Zenon DEF FramingTypeOK
  <2>5. sent[k] \in Nat
    BY <2>1, <2>3 DEF Id
  <2>6. AssemblyOK(k)
    BY <2>1, Zenon DEF Unmixed
  <2> QED
    BY <2>1, <2>2, <2>3, <2>4, <2>5, <2>6, Zenon
<1>2. Entry(f).total = sent[k] /\ Entry(f).parts \subseteq Whole(k)
  <2>1. CASE inbound[k] = NoAssembly
    <3>1. Entry(f) = [total |-> f.total, parts |-> {}]
      BY <2>1 DEF Entry
    <3>2. Entry(f).total = f.total /\ Entry(f).parts = {}
      BY <3>1
    <3> QED
      BY <3>2, <1>1, Zenon
  <2>2. CASE inbound[k] # NoAssembly
    <3>1. Entry(f) = inbound[k]
      BY <2>2 DEF Entry
    <3> QED
      BY <3>1, <2>2, <1>1 DEF AssemblyOK
  <2> QED
    BY <2>1, <2>2
<1>3. f.index \in 0 .. sent[k] - 1
  <2>1. PICK i \in Nat : i = f.index
    BY <1>1, Zenon
  <2>2. PICK n \in Nat : n = sent[k]
    BY <1>1, Zenon
  <2>3. i < n
    BY <1>1, <2>1, <2>2, Zenon
  <2>4. i \in 0 .. n - 1
    BY <2>3
  <2> QED
    BY <2>1, <2>2, <2>4, Zenon
<1>4. [index |-> f.index, payload |-> f.payload] \in Whole(k)
  BY <1>1, <1>3 DEF Whole
<1>5. parts \subseteq Whole(k)
  BY <1>2, <1>4 DEF WithPart
<1>6. ASSUME Complete(parts, sent[k]), NEW p \in Whole(k) PROVE p \in parts
  <2>1. PICK i \in 0 .. sent[k] - 1 : p = [index |-> i, payload |-> [msg |-> k, place |-> i]]
    BY DEF Whole
  <2>2. PICK q \in parts : q.index = i
    BY <1>6 DEF Complete
  <2>3. PICK j \in 0 .. sent[k] - 1 : q = [index |-> j, payload |-> [msg |-> k, place |-> j]]
    BY <1>5, <2>2 DEF Whole
  <2> QED
    BY <2>1, <2>2, <2>3
<1> QED
  BY <1>1, <1>2, <1>5, <1>6

(* onBleFrame, by its three outcomes: ignore, keep, deliver.               *)
LEMMA FrameUnmixed ==
  ASSUME FramingTypeOK, Unmixed, onBleFrame
  PROVE  Unmixed'
<1> DEFINE f == Head(air)
           parts == WithPart(Entry(f), f)
           total == Entry(f).total
<1>1. air # << >> /\ air' = Tail(air) /\ UNCHANGED << seq, sent, losses, restarts >>
  BY DEF onBleFrame
<1>2. /\ \A i \in DOMAIN air' : FrameOK(air[i])'
      /\ f \in Frame /\ FrameOK(f)
  BY <1>1, TailAir
<1>3. /\ f.id \in Id /\ f.id \in DOMAIN sent /\ total = sent[f.id]
      /\ parts \subseteq Whole(f.id)
      /\ Complete(parts, total) => parts = Whole(f.id)
  BY <1>2, FrameParts
<1>4. \A k : Whole(k)' = Whole(k)
  BY <1>1 DEF Whole
<1>5. \/ UNCHANGED << inbound, handed >>
      \/ /\ inbound' = [inbound EXCEPT ![f.id] = [total |-> total, parts |-> parts]]
         /\ UNCHANGED handed
      \/ /\ inbound' = [inbound EXCEPT ![f.id] = NoAssembly]
         /\ handed' = handed \cup {parts}
         /\ Complete(parts, total)
  BY DEF onBleFrame
<1> HIDE DEF f, parts, total
<1>6. ASSUME NEW k \in Id PROVE AssemblyOK(k)'
  <2>1. inbound \in [Id -> [total : Id, parts : SUBSET Slice]] /\ AssemblyOK(k)
    BY DEF Unmixed, FramingTypeOK
  <2>2. CASE inbound'[k] = inbound[k]
    BY <2>1, <2>2, <1>1, <1>4 DEF AssemblyOK
  <2>3. CASE inbound'[k] = NoAssembly
    BY <2>3 DEF AssemblyOK
  <2>4. CASE k = f.id /\ inbound'[k] = [total |-> total, parts |-> parts]
    <3>1. inbound'[k].total = total /\ inbound'[k].parts = parts
      BY <2>4
    <3>2. k \in DOMAIN sent' /\ inbound'[k].total = sent'[k] /\ inbound'[k].parts \subseteq Whole(k)'
      BY <2>4, <3>1, <1>1, <1>3, <1>4, Zenon
    <3> QED
      BY <3>2, Zenon DEF AssemblyOK
  <2> QED
    BY <2>1, <2>2, <2>3, <2>4, <1>5
<1>7. EnvelopesIntact'
  <2>1. \A d \in handed' : d \in handed \/ d = Whole(f.id)
    BY <1>3, <1>5
  <2> QED
    BY <2>1, <1>1, <1>3, <1>4 DEF Unmixed, EnvelopesIntact
<1> QED
  BY <1>1, <1>2, <1>6, <1>7 DEF Unmixed

(* Every step keeps the invariant.                                         *)
LEMMA UniqueStep ==
  ASSUME UniqueInv, [FramingNext]_framingVars
  PROVE  UniqueInv'
<1>1. FramingTypeOK /\ FramingTypeOK'
  BY FramingTypeStep DEF UniqueInv
<1>2. SUFFICES ASSUME IdsAreUnique' PROVE Unmixed'
  BY <1>1 DEF UniqueInv
<1>3. IdsAreUnique /\ Unmixed
  BY <1>1, <1>2, UniqueBefore DEF UniqueInv
<1>4. CASE \E n \in Lengths : sendFramed(n)
  BY <1>1, <1>2, <1>3, <1>4, SendUnmixed
<1>5. CASE Lose
  BY <1>1, <1>3, <1>5, LoseUnmixed
<1>6. CASE Restart
  <2>1. restarts \in Nat
    BY <1>1 DEF FramingTypeOK
  <2>2. restarts' = restarts + 1 /\ restarts' = 0
    BY <1>2, <1>6 DEF Restart, IdsAreUnique
  <2> QED
    BY <2>1, <2>2
<1>7. CASE onBleFrame
  BY <1>1, <1>3, <1>7, FrameUnmixed
<1>8. CASE UNCHANGED framingVars
  <2>1. UNCHANGED << seq, sent, air, inbound, handed >>
    BY <1>8 DEF framingVars
  <2>2. \A k : Whole(k)' = Whole(k)
    BY <2>1 DEF Whole
  <2>3. (\A i \in DOMAIN air : FrameOK(air[i]))'
    BY <1>3, <2>1 DEF Unmixed, FrameOK
  <2>4. (\A k \in Id : AssemblyOK(k))'
    BY <1>3, <2>1, <2>2 DEF Unmixed, AssemblyOK
  <2>5. EnvelopesIntact'
    BY <1>3, <2>1, <2>2 DEF Unmixed, EnvelopesIntact
  <2>6. seq' = Len(sent') + 1
    BY <1>3, <2>1 DEF Unmixed
  <2> QED
    BY <2>3, <2>4, <2>5, <2>6 DEF Unmixed
<1> QED
  BY <1>4, <1>5, <1>6, <1>7, <1>8 DEF FramingNext

(* makeFrames and onBleFrame deliver only messages that were sent, whole   *)
(* and unmixed, until a message id comes round, a message needs more       *)
(* frames than the header can count, or the sender restarts: for any       *)
(* width, any lengths, any loss, any interleaving.                         *)
THEOREM FramesReassemble == FramingSpec => []DeliveredIsSent
<1>1. FramingInit => UniqueInv
  <2> SUFFICES ASSUME FramingInit PROVE UniqueInv
    OBVIOUS
  <2>1. FramingTypeOK
    BY DEF FramingInit, FramingTypeOK, Id, NoAssembly
  <2>2. \A k \in Id : AssemblyOK(k)
    BY DEF FramingInit, AssemblyOK
  <2>3. seq = Len(sent) + 1 /\ DOMAIN air = {} /\ EnvelopesIntact
    BY DEF FramingInit, EnvelopesIntact
  <2> QED
    BY <2>1, <2>2, <2>3 DEF UniqueInv, Unmixed
<1>2. UniqueInv /\ [FramingNext]_framingVars => UniqueInv'
  BY UniqueStep
<1>3. UniqueInv => DeliveredIsSent
  BY DEF UniqueInv, Unmixed, DeliveredIsSent
<1> QED
  BY <1>1, <1>2, <1>3, PTL DEF FramingSpec

-----------------------------------------------------------------------------
(* Delivery when message ids repeat.                                       *)

(* An assembly is empty, or finite with a total a frame announced.         *)
AssembliesFinite ==
  \A k \in Id :
    /\ IsFiniteSet(inbound[k].parts)
    /\ inbound[k] = NoAssembly \/ inbound[k].total > 0

ContiguousInv == FramingTypeOK /\ AssembliesFinite /\ DeliveredIsContiguous

(* As many parts as the total, with every index below it, have no other    *)
(* index: what the two tests of onBleFrame are worth together.             *)
LEMMA CompleteIsContiguous ==
  ASSUME NEW parts \in SUBSET Slice, IsFiniteSet(parts), NEW n \in Nat, n > 0,
         Complete(parts, n)
  PROVE  {p.index : p \in parts} = 0 .. n - 1 /\ Cardinality(parts) = n
<1> DEFINE I == {p.index : p \in parts}
           g == [p \in parts |-> p.index]
<1>1. Cardinality(parts) = n /\ 0 .. n - 1 \subseteq I
  BY DEF Complete
<1>2. g \in Surjection(parts, I)
  BY DEF Surjection
<1>3. IsFiniteSet(I) /\ Cardinality(I) <= n /\ Cardinality(I) \in Nat
  <2> HIDE DEF I, g
  <2> QED
    BY <1>1, <1>2, FS_Surjection, FS_CardinalityType
<1>4. Cardinality(0 .. n - 1) = n
  <2>1. 0 \in Int /\ n - 1 \in Int /\ ~(0 > n - 1) /\ n - 1 - 0 + 1 = n
    OBVIOUS
  <2> QED
    BY <2>1, FS_Interval
<1>5. I = 0 .. n - 1
  <2> HIDE DEF I
  <2>1. Cardinality(0 .. n - 1) <= Cardinality(I)
    BY <1>1, <1>3, FS_Subset
  <2>2. Cardinality(I) = Cardinality(0 .. n - 1)
    BY <2>1, <1>3, <1>4
  <2> QED
    BY <2>2, <1>1, <1>3, FS_Subset
<1> QED
  BY <1>1, <1>5

(* onBleFrame delivers contiguous assemblies only.                         *)
LEMMA FrameContiguous ==
  ASSUME ContiguousInv, onBleFrame
  PROVE  AssembliesFinite' /\ DeliveredIsContiguous'
<1> DEFINE f == Head(air)
           parts == WithPart(Entry(f), f)
           total == Entry(f).total
<1>1. FramingTypeOK /\ AssembliesFinite /\ DeliveredIsContiguous
  BY DEF ContiguousInv
<1>2. air # << >> /\ f \in Frame
  <2>1. air # << >>
    BY DEF onBleFrame
  <2>2. air \in Seq(Frame)
    BY <1>1 DEF FramingTypeOK
  <2> QED
    BY <2>1, <2>2
<1>3. \/ UNCHANGED << inbound, handed >>
      \/ /\ f.total > 0
         /\ inbound' = [inbound EXCEPT ![f.id] = [total |-> total, parts |-> parts]]
         /\ UNCHANGED handed
      \/ /\ f.total > 0
         /\ inbound' = [inbound EXCEPT ![f.id] = NoAssembly]
         /\ handed' = handed \cup {parts}
         /\ Complete(parts, total)
  BY DEF onBleFrame
<1> HIDE DEF f
<1>4. f.id \in Id /\ f.total \in Id /\ f.index \in Nat /\ f.payload \in Part
  BY <1>2 DEF Frame, Id
<1>5. inbound \in [Id -> [total : Id, parts : SUBSET Slice]]
  BY <1>1 DEF FramingTypeOK
<1>6. /\ Entry(f).parts \subseteq Slice /\ IsFiniteSet(Entry(f).parts) /\ total \in Id
      /\ f.total > 0 => total > 0
  <2>1. CASE inbound[f.id] = NoAssembly
    <3>1. Entry(f) = [total |-> f.total, parts |-> {}]
      BY <2>1 DEF Entry
    <3> QED
      BY <3>1, <1>4, FS_EmptySet
  <2>2. CASE inbound[f.id] # NoAssembly
    <3>1. Entry(f) = inbound[f.id]
      BY <2>2 DEF Entry
    <3>2. inbound[f.id].parts \subseteq Slice /\ inbound[f.id].total \in Id
      BY <1>4, <1>5
    <3>3. IsFiniteSet(inbound[f.id].parts) /\ inbound[f.id].total > 0
      BY <2>2, <1>1, <1>4 DEF AssembliesFinite
    <3> QED
      BY <3>1, <3>2, <3>3
  <2> QED
    BY <2>1, <2>2
<1>7. parts \subseteq Slice /\ IsFiniteSet(parts)
  <2> DEFINE kept == {p \in Entry(f).parts : p.index # f.index}
  <2>1. IsFiniteSet(kept)
    <3>1. kept \subseteq Entry(f).parts
      OBVIOUS
    <3> HIDE DEF kept
    <3> QED
      BY <3>1, <1>6, FS_Subset
  <2>2. parts = kept \cup {[index |-> f.index, payload |-> f.payload]}
    BY DEF WithPart
  <2>3. kept \subseteq Slice /\ [index |-> f.index, payload |-> f.payload] \in Slice
    BY <1>4, <1>6 DEF Slice
  <2> HIDE DEF kept, parts
  <2> QED
    BY <2>1, <2>2, <2>3, FS_AddElement
<1> HIDE DEF parts, total
<1>8. AssembliesFinite'
  <2> SUFFICES ASSUME NEW k \in Id
               PROVE  IsFiniteSet(inbound'[k].parts) /\ (inbound'[k] = NoAssembly \/ inbound'[k].total > 0)
    BY DEF AssembliesFinite
  <2>1. CASE inbound'[k] = inbound[k]
    BY <2>1, <1>1 DEF AssembliesFinite
  <2>2. CASE inbound'[k] = NoAssembly
    <3>1. inbound'[k].parts = {}
      BY <2>2 DEF NoAssembly
    <3> QED
      BY <3>1, <2>2, FS_EmptySet
  <2>3. CASE f.total > 0 /\ inbound'[k] = [total |-> total, parts |-> parts]
    <3>1. inbound'[k].parts = parts /\ inbound'[k].total = total
      BY <2>3
    <3> QED
      BY <3>1, <2>3, <1>6, <1>7
  <2>4. \/ inbound'[k] = inbound[k] \/ inbound'[k] = NoAssembly
        \/ f.total > 0 /\ inbound'[k] = [total |-> total, parts |-> parts]
    BY <1>3, <1>5
  <2> QED
    BY <2>1, <2>2, <2>3, <2>4
<1>9. DeliveredIsContiguous'
  <2>1. CASE handed' = handed
    BY <2>1, <1>1 DEF DeliveredIsContiguous
  <2>2. CASE f.total > 0 /\ handed' = handed \cup {parts} /\ Complete(parts, total)
    <3>1. total \in 1 .. Width - 1 /\ total \in Nat /\ total > 0
      BY <2>2, <1>6 DEF Id
    <3>2. {p.index : p \in parts} = 0 .. total - 1 /\ Cardinality(parts) = total
      BY <2>2, <3>1, <1>7, CompleteIsContiguous
    <3>3. ASSUME NEW d \in handed' PROVE d \in handed \/ d = parts
      BY <2>2
    <3> QED
      BY <3>1, <3>2, <3>3, <1>1 DEF DeliveredIsContiguous
  <2> QED
    BY <2>1, <2>2, <1>3
<1> QED
  BY <1>8, <1>9

(* What onBleFrame delivers has every index from 0 on, once each, for any  *)
(* width, lengths, losses and restarts, also after message ids repeat.     *)
THEOREM FramesContiguous == FramingSpec => []DeliveredIsContiguous
<1>1. FramingInit => ContiguousInv
  <2> SUFFICES ASSUME FramingInit PROVE ContiguousInv
    OBVIOUS
  <2>1. FramingTypeOK
    BY DEF FramingInit, FramingTypeOK, Id, NoAssembly
  <2>2. AssembliesFinite
    <3>1. \A k \in Id : inbound[k] = NoAssembly /\ inbound[k].parts = {}
      BY DEF FramingInit, NoAssembly
    <3> QED
      BY <3>1, FS_EmptySet DEF AssembliesFinite
  <2>3. DeliveredIsContiguous
    BY DEF FramingInit, DeliveredIsContiguous
  <2> QED
    BY <2>1, <2>2, <2>3 DEF ContiguousInv
<1>2. ContiguousInv /\ [FramingNext]_framingVars => ContiguousInv'
  <2> SUFFICES ASSUME ContiguousInv, [FramingNext]_framingVars PROVE ContiguousInv'
    OBVIOUS
  <2>1. FramingTypeOK'
    BY FramingTypeStep DEF ContiguousInv
  <2>2. CASE UNCHANGED << inbound, handed >>
    BY <2>1, <2>2 DEF ContiguousInv, AssembliesFinite, DeliveredIsContiguous
  <2>3. CASE onBleFrame
    BY <2>1, <2>3, FrameContiguous DEF ContiguousInv
  <2> QED
    BY <2>2, <2>3 DEF FramingNext, sendFramed, Lose, Restart, framingVars
<1>3. ContiguousInv => DeliveredIsContiguous
  BY DEF ContiguousInv
<1> QED
  BY <1>1, <1>2, <1>3, PTL DEF FramingSpec

=============================================================================
