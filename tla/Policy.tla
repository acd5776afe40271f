------------------------------- MODULE Policy -------------------------------
(***************************************************************************)
(* Whether a peer is served: transfer/policy.go and handshake.go, with the *)
(* chain check of dag/chain.go.  Pure operators.                           *)
(***************************************************************************)
EXTENDS Credit

CONSTANT NoCheckpoint   \* a handshake without a checkpoint

NONE == 0
LIGHT == 1
STRICT == 2

\* isKnownPolicy and ProcessHandshake; a handshake is [sid, key, policy, cp,
\* recs], sid and key saying whether the fields are there.
isKnownPolicy(policy) == policy \in {NONE, LIGHT, STRICT}
ProcessHandshake(hs) == hs.sid /\ hs.key /\ isKnownPolicy(hs.policy)

\* deviceChainFields: the place of record r in the chain of x.
prevOf(r, x) == IF r.s = x THEN r.prevS ELSE r.prevR
indexOf(r, x) == IF r.s = x THEN r.sidx ELSE r.ridx

\* Mutant: the last record is not looked at.
VerifyChainSegment_allButLast(q, x) ==
  \A i \in 1 .. Len(q) - 2 :
    /\ prevOf(q[i + 1], x) = q[i].id
    /\ indexOf(q[i + 1], x) = indexOf(q[i], x) + 1

\* Each record names the one before and has the next index.
VerifyChainSegment(q, x) ==
  \A i \in 1 .. Len(q) - 1 :
    /\ prevOf(q[i + 1], x) = q[i].id
    /\ indexOf(q[i + 1], x) = indexOf(q[i], x) + 1

\* freshWitnessCount leaves out witnesses without a key.
freshWitnessCount(W, q, x) ==
  Cardinality({i \in DOMAIN W : W[i].key # "" /\ W[i].key \notin recentPeers(q, x)})

lightRules(x, cp, q, now) ==
  /\ cp # NoCheckpoint
  /\ Len(cp.witnesses) >= 1
  /\ VerifyChainSegment(q, x)
  /\ ComputeEffectiveBalance(q, x, cp.time, now) > 0

strictRules(x, cp, q, now) ==
  /\ cp # NoCheckpoint
  /\ cp.confidence = "HIGH"
  /\ Len(cp.witnesses) >= MinWitnesses
  /\ distinctClusters(cp.witnesses) >= MinClusters
  /\ freshWitnessCount(cp.witnesses, q, x) >= MinFresh
  /\ VerifyChainSegment(q, x)
  /\ ComputeEffectiveBalance(q, x, cp.time, now) > 0
  /\ DiversityWeightedCredit(q, x) > 0
  /\ ApplyPerPeerCaps(q, x) > 0

\* EvaluatePolicy: evidence is HasForkEvidence(x), q the recent records of x.
EvaluatePolicy(evidence, x, policy, cp, q, now) ==
  /\ ~evidence
  /\ \/ policy = NONE
     \/ policy = LIGHT /\ lightRules(x, cp, q, now)
     \/ policy = STRICT /\ strictRules(x, cp, q, now)
=============================================================================
