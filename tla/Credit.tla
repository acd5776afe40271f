------------------------------- MODULE Credit -------------------------------
(***************************************************************************)
(* The credit package: what a list of share records is worth.  Pure        *)
(* operators; records and checkpoints are the ones Ledger makes and stores. *)
(***************************************************************************)
EXTENDS Integers, Sequences, FiniteSets, FiniteSetsExt, Functions

CONSTANTS
  DripRate,       \* credit per Day
  MaxBalance,     \* greatest drip allowance
  WindowSize,     \* records the diversity weighting looks at
  HalfLife,       \* HalfLifeSeconds
  PerPeerCap,     \* credit from one peer in one epoch
  Epoch,          \* EpochSeconds
  Day,            \* length of a day on the clock
  MinWitnesses,   \* 5, in ComputeCheckpoint and as MinStrictWitnesses
  MinClusters,    \* 3
  MinFresh        \* 2

ASSUME ParamsAssumption ==
  /\ {DripRate, MaxBalance, WindowSize, PerPeerCap} \subseteq Nat
  /\ {HalfLife, Epoch, Day, MinWitnesses, MinClusters, MinFresh} \subseteq Nat \ {0}

\* The positions of q where x is the sender, and where it is the receiver.
Sent(q, x) == {i \in DOMAIN q : q[i].s = x}
Received(q, x) == {i \in DOMAIN q : q[i].r = x}

\* Mutant: the cap on the allowance is left out.
ComputeDripAllowance_uncapped(created, now) ==
  IF now < created THEN 0 ELSE ((now - created) * DripRate) \div Day

\* min(rate * age, max), rounded down.
ComputeDripAllowance(created, now) ==
  LET drip == ((now - created) * DripRate) \div Day IN
    IF now < created THEN 0 ELSE IF drip > MaxBalance THEN MaxBalance ELSE drip

\* The last WindowSize records.
Window(q) == IF Len(q) > WindowSize THEN SubSeq(q, Len(q) - WindowSize + 1, Len(q)) ELSE q

\* Mutant: both ends of a record earn.
DiversityWeightedCredit_both(q, x) ==
  LET w == Window(q) IN SumFunction([i \in Sent(w, x) \cup Received(w, x) |-> w[i].bytes])

\* Each record counts its bytes divided by how often its receiver occurs.
DiversityWeightedCredit(q, x) ==
  LET w == Window(q)
      count(p) == Cardinality({i \in Sent(w, x) : w[i].r = p}) IN
    SumFunction([i \in Sent(w, x) |-> w[i].bytes \div count(w[i].r)])

\* Bytes per receiver and epoch, each at most PerPeerCap.
ApplyPerPeerCaps(q, x) ==
  LET key(i) == <<q[i].r, q[i].time \div Epoch>>
      total(k) == SumFunction([i \in {i \in Sent(q, x) : key(i) = k} |-> q[i].bytes]) IN
    SumFunction([k \in {key(i) : i \in Sent(q, x)} |->
                   IF total(k) > PerPeerCap THEN PerPeerCap ELSE total(k)])

\* raw * 2^(-age / HalfLife) rounded down: the greatest v with
\* v^HalfLife * 2^age <= raw^HalfLife, which 0 satisfies.
DecayedValue(raw, time, now) ==
  IF now < time THEN raw
  ELSE Max({0} \cup {v \in 1 .. raw : v ^ HalfLife * 2 ^ (now - time) <= raw ^ HalfLife})

ComputeEffectiveBalance(q, x, created, now) ==
  LET received == SumFunction([i \in Received(q, x) |-> q[i].bytes])
      penalty == SumFunction([i \in Sent(q, x) |->
                   q[i].bytes - DecayedValue(q[i].bytes, q[i].time, now)]) IN
    ComputeDripAllowance(created, now) + DiversityWeightedCredit(q, x) - received - penalty

-----------------------------------------------------------------------------
(* Checkpoints and their witnesses, [key, cluster]; "" is an empty field.   *)

\* The devices x has a record with.
recentPeers(q, x) == {q[i].r : i \in Sent(q, x)} \cup {q[i].s : i \in Received(q, x) \ Sent(q, x)}

distinctClusters(W) == Cardinality({W[i].cluster : i \in DOMAIN W} \ {""})

\* checkpointMetrics counts a witness without a key as fresh.
checkpointFresh(W, q, x) == Cardinality({i \in DOMAIN W : W[i].key \notin recentPeers(q, x)})

confidence(W, q, x) ==
  IF /\ Len(W) >= MinWitnesses
     /\ distinctClusters(W) >= MinClusters
     /\ checkpointFresh(W, q, x) >= MinFresh
  THEN "HIGH" ELSE "LOW"

\* Chain position of the last record x takes part in, as a sender if it is both.
ComputeCheckpoint(q, x, now, W) ==
  LET own == Sent(q, x) \cup Received(q, x)
      last == q[Max(own)] IN
    [head |-> IF own = {} THEN 0 ELSE last.id,
     index |-> IF own = {} THEN 0 ELSE IF last.s = x THEN last.sidx ELSE last.ridx,
     balance |-> ComputeEffectiveBalance(q, x, now, now),
     time |-> now, witnesses |-> W, confidence |-> confidence(W, q, x)]
=============================================================================
