----------------------------- MODULE BleFraming -----------------------------
(***************************************************************************)
(* makeFrames and onBleFrame of BleTransportManager.kt: an envelope is cut *)
(* into frames that carry a message id, a frame count and a frame index in *)
(* 16-bit fields, and the other phone puts them together again.            *)
(*                                                                         *)
(* The link keeps the order of frames and may lose some: the write queue   *)
(* (BleWriter) drops frames, and notifications are not acknowledged.       *)
(***************************************************************************)
EXTENDS Naturals, Sequences, FiniteSets

CONSTANTS
  Width,       \* what the 16-bit header fields wrap at (2^16 in the code)
  Lengths,     \* numbers of frames a message may need
  MaxMessages, \* bound on the messages sent
  MaxLoss,     \* bound on the frames lost
  MaxRestarts  \* bound on the restarts of the sending app

ASSUME WidthAssumption == Width \in Nat /\ Width > 1

ASSUME LengthAssumption == Lengths \subseteq Nat \ {0}

ASSUME BoundAssumption ==
  /\ MaxMessages \in Nat
  /\ MaxLoss \in Nat
  /\ MaxRestarts \in Nat

VARIABLES
  seq,       \* AtomicInteger seq: the next message id, before masking
  sent,      \* sent[m] is the number of frames of the m-th message
  air,       \* frames on the link, in order
  inbound,   \* the receiver's assemblies: key -> [total, parts]
  handed,    \* what deliverInbound handed to the core: sets of parts
  losses,
  restarts

framingVars == << seq, sent, air, inbound, handed, losses, restarts >>

Id == 0 .. Width - 1

(* The payload of a frame is named by its message and its place in it.    *)
Part == [msg : Nat, place : Nat]
Frame == [id : Id, total : Id, index : Id, payload : Part]
NoAssembly == [total |-> 0, parts |-> {}]

FramingInit ==
  /\ seq = 1
  /\ sent = << >>
  /\ air = << >>
  /\ inbound = [k \in Id |-> NoAssembly]
  /\ handed = {}
  /\ losses = 0
  /\ restarts = 0

-----------------------------------------------------------------------------
\* Mutant: the message id is not masked to 16 bits.
makeFrames_unmasked(m, n) ==
  [i \in 1 .. n |->
     [id |-> seq, total |-> n % Width, index |-> (i - 1) % Width,
      payload |-> [msg |-> m, place |-> i - 1]]]

\* Mutant: every message gets the same id.
makeFrames_sameId(m, n) ==
  [i \in 1 .. n |->
     [id |-> 1, total |-> n % Width, index |-> (i - 1) % Width,
      payload |-> [msg |-> m, place |-> i - 1]]]

makeFrames(m, n) ==
  [i \in 1 .. n |->
     [id      |-> seq % Width,
      total   |-> n % Width,
      index   |-> (i - 1) % Width,
      payload |-> [msg |-> m, place |-> i - 1]]]

sendFramed(n) ==
  /\ Len(sent) < MaxMessages
  /\ sent' = Append(sent, n)
  /\ air' = air \o makeFrames(Len(sent) + 1, n)
  /\ seq' = seq + 1
  /\ UNCHANGED << inbound, handed, losses, restarts >>

(* A frame is lost (external).                                            *)
Lose ==
  /\ air # << >>
  /\ losses < MaxLoss
  /\ losses' = losses + 1
  /\ air' = Tail(air)
  /\ UNCHANGED << seq, sent, inbound, handed, restarts >>

(* The sending app is restarted (external): its queues are gone and seq    *)
(* starts again, while the receiver keeps its assemblies.                 *)
Restart ==
  /\ restarts < MaxRestarts
  /\ restarts' = restarts + 1
  /\ seq' = 1
  /\ air' = << >>
  /\ UNCHANGED << sent, inbound, handed, losses >>

(* getOrPut: the first frame of a message id fixes the total.             *)
Entry(f) ==
  IF inbound[f.id] = NoAssembly THEN [total |-> f.total, parts |-> {}]
                                ELSE inbound[f.id]

(* entry.parts[index] = payload: a later part replaces an earlier one.    *)
WithPart(entry, f) ==
  {p \in entry.parts : p.index # f.index}
    \cup {[index |-> f.index, payload |-> f.payload]}

\* Mutant: only the number of parts is compared with the total.
Complete_countOnly(parts, total) == Cardinality(parts) = total

(* As many parts as the total says, and none of the indices missing.       *)
Complete(parts, total) ==
  /\ Cardinality(parts) = total
  /\ \A i \in 0 .. total - 1 : \E p \in parts : p.index = i

onBleFrame ==
  /\ air # << >>
  /\ air' = Tail(air)
  /\ LET f == Head(air)
         parts == WithPart(Entry(f), f)
         whole == Complete(parts, Entry(f).total)
     IN  \/ /\ f.total = 0 \/ f.index >= f.total
            /\ UNCHANGED << inbound, handed >>
         \/ /\ f.total > 0 /\ f.index < f.total
            /\ ~whole
            /\ inbound' = [inbound EXCEPT
                 ![f.id] = [total |-> Entry(f).total, parts |-> parts]]
            /\ UNCHANGED handed
         \/ /\ f.total > 0 /\ f.index < f.total
            /\ whole
            /\ inbound' = [inbound EXCEPT ![f.id] = NoAssembly]
            /\ handed' = handed \cup {parts}
  /\ UNCHANGED << seq, sent, losses, restarts >>

FramingNext ==
  \/ \E n \in Lengths : sendFramed(n)
  \/ Lose
  \/ Restart
  \/ onBleFrame

FramingSpec == FramingInit /\ [][FramingNext]_framingVars

-----------------------------------------------------------------------------
(* Properties.                                                            *)

Slice == [index : Nat, payload : Part]

FramingTypeOK ==
  /\ seq \in Nat
  /\ sent \in Seq(Lengths)
  /\ air \in Seq(Frame)
  /\ inbound \in [Id -> [total : Id, parts : SUBSET Slice]]
  /\ handed \in SUBSET (SUBSET Slice)
  /\ losses \in Nat
  /\ restarts \in Nat

(* The message m as its receiver should see it.                           *)
Whole(m) ==
  {[index |-> i, payload |-> [msg |-> m, place |-> i]] : i \in 0 .. sent[m] - 1}

(* The case the 16-bit fields are made for, so far: fewer messages than    *)
(* message ids, fewer frames than frame numbers, no restart of the sender. *)
IdsAreUnique ==
  /\ Len(sent) < Width
  /\ \A m \in DOMAIN sent : sent[m] < Width
  /\ restarts = 0

(* Everything onBleFrame delivers is one message that was sent, whole, in  *)
(* order and unmixed.                                                     *)
EnvelopesIntact ==
  \A parts \in handed : \E m \in DOMAIN sent : parts = Whole(m)

(* Until a message id comes round again, what onBleFrame delivers is what  *)
(* was sent, whatever frames are lost.                                    *)
DeliveredIsSent == IdsAreUnique => EnvelopesIntact

(* Even when message ids repeat, after a wrap or a restart, an assembly    *)
(* that is delivered has every index from 0 on, once each.                *)
DeliveredIsContiguous ==
  \A parts \in handed :
    \E n \in 1 .. Width - 1 :
      /\ {p.index : p \in parts} = 0 .. n - 1
      /\ Cardinality(parts) = n

=============================================================================
