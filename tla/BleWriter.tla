------------------------------ MODULE BleWriter -----------------------------
(***************************************************************************)
(* The outbound half of BleTransportManager.kt on the phone that is the    *)
(* GATT client: link set-up (MTU, services, CCCD), the write queue, its     *)
(* pacing and its retries.                                                 *)
(*                                                                         *)
(* Three kinds of threads meet here: the core calls send, the Bluetooth    *)
(* stack calls back on its own thread, and the main looper runs what was   *)
(* posted to it.  The stack is external: it works on one operation at a    *)
(* time, answers it with success or failure, and calls back on one thread. *)
(*                                                                         *)
(* One GATT object at a time: a disconnect closes it, and a closed object  *)
(* calls back no more.                                                     *)
(***************************************************************************)
EXTENDS Naturals, Sequences, FiniteSets

CONSTANTS
  CccdMaxAttempts,  \* CCCD_MAX_ATTEMPTS
  MaxStreak,        \* rejected writes in a row before the queue is dropped (64)
  FramesPerSend,    \* frames of one envelope
  MaxSends,         \* bound on the calls of send
  MaxConnects,      \* bound on the connections
  MaxDrops,         \* bound on the disconnections and stops
  MaxFaults         \* bound on the failures the stack reports

ASSUME NumberAssumption ==
  /\ CccdMaxAttempts \in Nat \ {0}
  /\ MaxStreak \in Nat \ {0}
  /\ FramesPerSend \in Nat \ {0}
  /\ {MaxSends, MaxConnects, MaxDrops, MaxFaults} \subseteq Nat

VARIABLES
  up,          \* outboundGatt and outboundDevice are set
  char,        \* outboundChar is set
  discover,    \* pendingOutboundServiceDiscover
  retries,     \* servicesDiscoverRetries
  cccdReady,   \* outboundCccdReady
  issued,      \* cccdWritesIssued
  queue,       \* outboundWriteQueue: frames, numbered in the order of send
  inFlight,    \* outboundWriteInFlight
  drainPosted, \* outboundWriteDrainPosted
  streak,      \* consecutiveOutboundWriteFailures
  posts,       \* the runnables of the class that wait in the main looper
  kicks,       \* calls of kickOutboundWrite posted to the main looper
  callback,    \* where onCharacteristicWrite is: "none", "empty", "more"
  op,          \* the stack's current operation
  frames,      \* frames handed to send so far
  delivered,   \* frames the stack has acknowledged, in order
  connects, drops, faults

setup == << up, char, discover, retries, issued >>
bounds == << connects, drops, faults >>
vars == << setup, cccdReady, queue, inFlight, drainPosted, streak, posts,
           kicks, callback, op, frames, delivered, bounds >>

Post == {"busyRetry", "cccdFirst", "cccdRetry", "drain"}
Idle == [kind |-> "none"]
Op(kind) == [kind |-> kind]
WriteOp(f) == [kind |-> "write", frame |-> f]

Init ==
  /\ up = FALSE
  /\ char = FALSE
  /\ discover = FALSE
  /\ retries = 0
  /\ cccdReady = FALSE
  /\ issued = 0
  /\ queue = << >>
  /\ inFlight = FALSE
  /\ drainPosted = FALSE
  /\ streak = 0
  /\ posts = {}
  /\ kicks = 0
  /\ callback = "none"
  /\ op = Idle
  /\ frames = 0
  /\ delivered = << >>
  /\ connects = 0
  /\ drops = 0
  /\ faults = 0

Faulty ==
  /\ faults < MaxFaults
  /\ faults' = faults + 1
  /\ UNCHANGED << connects, drops >>

-----------------------------------------------------------------------------
(* The callbacks that set the link up.                                    *)

(* What both branches of onConnectionStateChange reset.  The first CCCD    *)
(* write is not removed, but does nothing once its link is gone.          *)
Reset ==
  /\ cccdReady' = FALSE
  /\ issued' = 0
  /\ queue' = << >>
  /\ inFlight' = FALSE
  /\ drainPosted' = FALSE
  /\ streak' = 0
  /\ posts' = posts \ {"busyRetry", "cccdFirst", "cccdRetry", "drain"}

connected ==
  /\ ~up
  /\ callback = "none"
  /\ connects < MaxConnects
  /\ connects' = connects + 1
  /\ up' = TRUE
  /\ retries' = 0
  /\ discover' = TRUE
  /\ op' = Op("mtu")
  /\ Reset
  /\ UNCHANGED << char, kicks, callback, frames, delivered, drops, faults >>

disconnected ==
  /\ up
  /\ callback = "none"
  /\ drops < MaxDrops
  /\ drops' = drops + 1
  /\ up' = FALSE
  /\ char' = FALSE
  /\ discover' = FALSE
  /\ op' = Idle
  /\ Reset
  /\ UNCHANGED << retries, kicks, callback, frames, delivered, connects, faults >>

(* stop, on the main thread, also while a callback is under way.  What the *)
(* callbacks set anew on the next connection is left as it is.             *)
stop ==
  /\ up
  /\ drops < MaxDrops
  /\ drops' = drops + 1
  /\ up' = FALSE
  /\ char' = FALSE
  /\ op' = Idle
  /\ cccdReady' = FALSE
  /\ queue' = << >>
  /\ inFlight' = FALSE
  /\ drainPosted' = FALSE
  /\ streak' = 0
  /\ posts' = {}
  /\ UNCHANGED << discover, retries, issued, kicks, callback, frames,
                  delivered, connects, faults >>

(* The kick of line 797 would need a CCCD written before the MTU answer.  *)
onMtuChanged ==
  /\ op = Op("mtu")
  /\ discover
  /\ discover' = FALSE
  /\ retries' = 0
  /\ op' = Op("discover")
  /\ UNCHANGED << up, char, issued, cccdReady, queue, inFlight, drainPosted,
                  streak, posts, kicks, callback, frames, delivered,
                  bounds >>

(* A second failure finds no service and leaves the link without one.     *)
onServicesDiscovered ==
  /\ op = Op("discover")
  /\ \/ /\ Faulty
        /\ retries < 1
        /\ retries' = retries + 1
        /\ UNCHANGED << op, char, issued, posts >>
     \/ /\ Faulty
        /\ retries >= 1
        /\ op' = Idle
        /\ UNCHANGED << retries, char, issued, posts >>
     \/ /\ op' = Idle
        /\ char' = TRUE
        /\ issued' = 1
        /\ posts' = (posts \ {"cccdRetry"}) \cup {"cccdFirst"}
        /\ UNCHANGED << retries, bounds >>
  /\ UNCHANGED << up, discover, cccdReady, queue, inFlight, drainPosted,
                  streak, kicks, callback, frames, delivered >>

\* Mutant: a retry does not write the descriptor again.
writeOutboundCccdNow_once ==
  /\ \E p \in posts \cap {"cccdFirst", "cccdRetry"} : posts' = posts \ {p}
  /\ op' = IF up /\ char /\ op = Idle /\ issued = 1 THEN Op("cccd") ELSE op
  /\ UNCHANGED << setup, cccdReady, queue, inFlight, drainPosted, streak,
                  kicks, callback, frames, delivered, bounds >>

(* Posted by onServicesDiscovered and by onDescriptorWrite.  The result of *)
(* writeDescriptor is not looked at: a busy stack just drops the request.  *)
writeOutboundCccdNow ==
  /\ \E p \in posts \cap {"cccdFirst", "cccdRetry"} : posts' = posts \ {p}
  /\ op' = IF up /\ char /\ op = Idle THEN Op("cccd") ELSE op
  /\ UNCHANGED << setup, cccdReady, queue, inFlight, drainPosted, streak,
                  kicks, callback, frames, delivered, bounds >>

\* Mutant: one CCCD write more than CCCD_MAX_ATTEMPTS.
mayRetry_onceMore == issued <= CccdMaxAttempts

mayRetry == issued < CccdMaxAttempts

onDescriptorWrite ==
  /\ op = Op("cccd")
  /\ op' = Idle
  /\ \/ /\ cccdReady' = TRUE
        /\ issued' = 0
        /\ posts' = posts \ {"cccdRetry"}
        /\ kicks' = kicks + 1
        /\ UNCHANGED bounds
     \/ /\ Faulty
        /\ cccdReady' = FALSE
        /\ mayRetry
        /\ issued' = issued + 1
        /\ posts' = posts \cup {"cccdRetry"}
        /\ UNCHANGED kicks
     \/ /\ Faulty
        /\ cccdReady' = FALSE
        /\ ~mayRetry
        /\ UNCHANGED << issued, posts, kicks >>
  /\ UNCHANGED << up, char, discover, retries, queue, inFlight, drainPosted,
                  streak, callback, frames, delivered >>

-----------------------------------------------------------------------------
(* send, on a thread of the core: queue the frames and ask for a kick when *)
(* the characteristic is known.                                           *)

NewFrames == [i \in 1 .. FramesPerSend |-> frames + i]

\* Mutant: what is sent before the characteristic is known is forgotten.
enqueued_whenReady == IF char THEN queue \o NewFrames ELSE queue

enqueued == queue \o NewFrames

send ==
  /\ up
  /\ frames < MaxSends * FramesPerSend
  /\ frames' = frames + FramesPerSend
  /\ queue' = enqueued
  /\ kicks' = IF char THEN kicks + 1 ELSE kicks
  /\ UNCHANGED << setup, cccdReady, inFlight, drainPosted, streak, posts,
                  callback, op, delivered, bounds >>

-----------------------------------------------------------------------------
(* The write queue, on the main looper.                                   *)

(* The early returns of kickOutboundWrite; rest and left are what stays    *)
(* posted, and paced whether a delayed drain is still to come.            *)
MayWrite(paced) ==
  /\ cccdReady /\ up /\ char
  /\ ~inFlight
  /\ ~paced
  /\ queue # << >>

\* Mutant: a frame the stack did not take goes to the end of the queue.
offerFirst_last(f, q) == Append(q, f)

(* A frame the stack did not take goes back to where it was polled from.   *)
offerFirst(f, q) == << f >> \o q

kickOutboundWrite(rest, left, paced) ==
  /\ drainPosted' = paced
  /\ \/ /\ ~MayWrite(paced)
        /\ posts' = rest /\ kicks' = left
        /\ UNCHANGED << queue, inFlight, streak, op, bounds >>
     \/ /\ MayWrite(paced)             \* the stack takes the frame
        /\ op = Idle
        /\ op' = WriteOp(Head(queue))
        /\ queue' = Tail(queue)
        /\ inFlight' = TRUE
        /\ streak' = 0
        /\ posts' = rest /\ kicks' = left
        /\ UNCHANGED bounds
     \/ /\ MayWrite(paced)             \* 201: offerFirst, retry later
        /\ Faulty
        /\ queue' = offerFirst(Head(queue), Tail(queue))
        /\ posts' = rest \cup {"busyRetry"} /\ kicks' = left
        /\ UNCHANGED << inFlight, streak, op >>
     \/ /\ MayWrite(paced)             \* rejected: offerFirst, kick again
        /\ Faulty
        /\ streak + 1 < MaxStreak
        /\ streak' = streak + 1
        /\ queue' = offerFirst(Head(queue), Tail(queue))
        /\ posts' = rest /\ kicks' = left + 1
        /\ UNCHANGED << inFlight, op >>
     \/ /\ MayWrite(paced)             \* rejected too often: give up
        /\ Faulty
        /\ streak + 1 >= MaxStreak
        /\ streak' = 0
        /\ queue' = << >>
        /\ posts' = rest /\ kicks' = left
        /\ UNCHANGED << inFlight, op >>
  /\ UNCHANGED << setup, cccdReady, callback, frames, delivered >>

runKick ==
  \/ /\ kicks > 0
     /\ kickOutboundWrite(posts, kicks - 1, drainPosted)
  \/ /\ "busyRetry" \in posts
     /\ kickOutboundWrite(posts \ {"busyRetry"}, kicks, drainPosted)

(* outboundWriteDrainRunnable.                                            *)
runDrain ==
  /\ "drain" \in posts
  /\ kickOutboundWrite(posts \ {"drain"}, kicks, FALSE)

-----------------------------------------------------------------------------
(* onCharacteristicWrite, on the stack's thread.                          *)

(* Success: the callback looks whether the queue is empty ...             *)
writeDone ==
  /\ op.kind = "write"
  /\ callback = "none"
  /\ op' = Idle
  /\ delivered' = Append(delivered, op.frame)
  /\ streak' = 0
  /\ callback' = IF queue = << >> THEN "empty" ELSE "more"
  /\ UNCHANGED << setup, cccdReady, queue, inFlight, drainPosted, posts,
                  kicks, frames, bounds >>

(* ... and then clears the in-flight flag; send and the main looper may    *)
(* have run in between.                                                   *)
writeDoneEnd ==
  /\ callback # "none"
  /\ callback' = "none"
  /\ inFlight' = FALSE
  /\ drainPosted' = (callback = "more")
  /\ posts' = IF callback = "more" THEN posts \cup {"drain"}
                                   ELSE posts \ {"drain"}
  /\ UNCHANGED << setup, cccdReady, queue, streak, kicks, op, frames,
                  delivered, bounds >>

(* Failure: the frame is gone; the next one is kicked at once.            *)
writeFailed ==
  /\ op.kind = "write"
  /\ callback = "none"
  /\ Faulty
  /\ op' = Idle
  /\ inFlight' = FALSE
  /\ drainPosted' = FALSE
  /\ posts' = posts \ {"drain"}
  /\ kicks' = kicks + 1
  /\ UNCHANGED << setup, cccdReady, queue, streak, callback, frames,
                  delivered >>

-----------------------------------------------------------------------------
Stack ==
  \/ onMtuChanged \/ onServicesDiscovered \/ onDescriptorWrite
  \/ writeDone \/ writeDoneEnd \/ writeFailed

Next ==
  \/ connected \/ disconnected \/ stop
  \/ onMtuChanged \/ onServicesDiscovered \/ onDescriptorWrite
  \/ writeOutboundCccdNow
  \/ send
  \/ runKick \/ runDrain
  \/ writeDone \/ writeDoneEnd \/ writeFailed

Spec == Init /\ [][Next]_vars

(* The stack answers what it was asked, and the main looper runs what is  *)
(* posted.  Nobody has to connect, disconnect or send.                    *)
Fairness ==
  /\ WF_vars(Stack)
  /\ WF_vars(writeOutboundCccdNow)
  /\ WF_vars(runKick)
  /\ WF_vars(runDrain)

FairSpec == Spec /\ Fairness

-----------------------------------------------------------------------------
(* Properties.                                                            *)

TypeOK ==
  /\ {up, char, discover, cccdReady, inFlight, drainPosted} \subseteq BOOLEAN
  /\ retries \in 0 .. 1
  /\ issued \in 0 .. CccdMaxAttempts
  /\ frames \in 0 .. MaxSends * FramesPerSend
  /\ {queue, delivered} \subseteq Seq(1 .. frames)
  /\ streak \in 0 .. MaxStreak - 1
  /\ posts \subseteq Post /\ kicks \in Nat
  /\ callback \in {"none", "empty", "more"}
  /\ op \in {Idle, Op("mtu"), Op("discover"), Op("cccd")}
             \cup {WriteOp(f) : f \in 1 .. frames}
  /\ connects \in 0 .. MaxConnects
  /\ drops \in 0 .. MaxDrops
  /\ faults \in 0 .. MaxFaults

Writing == IF op.kind = "write" THEN << op.frame >> ELSE << >>
Line == delivered \o Writing \o queue

(* Through retries, pacing, reconnections and dropped queues, frames go    *)
(* out in the order of send and none goes out twice.                      *)
FramesInOrder ==
  \A i, j \in DOMAIN Line : i < j => Line[i] < Line[j]

(* As long as the stack reports no failure and the link holds, every frame *)
(* is delivered, being written or queued.                                 *)
NoFrameLost ==
  (faults = 0 /\ drops = 0) => Len(Line) = frames

(* Setting the link up ends: with the CCCD enabled, with all attempts used *)
(* ("cccd exhausted"), without the service, or with the link gone; it never *)
(* stops half-way with attempts left.                                      *)
SetupOver ==
  \/ cccdReady
  \/ issued = CccdMaxAttempts /\ op = Idle /\ posts = {}
  \/ ~char /\ op = Idle

SetupEnds == up ~> (~up \/ SetupOver)

-----------------------------------------------------------------------------
(* What a log message of the code says and the code does not keep.        *)

(* Once the CCCD is enabled, the queue gets written, whatever the retries, *)
(* unless the link drops.                                                 *)
QueueDrains ==
  (up /\ cccdReady /\ queue # << >>) ~> (~up \/ queue = << >>)

=============================================================================
