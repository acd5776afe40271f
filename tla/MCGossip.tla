------------------------------ MODULE MCGossip ------------------------------
(* Small instances of Gossip for TLC.                                       *)
EXTENDS Gossip

CONSTANTS n1, n2, p1, f1, f2

\* Two nodes in contact with each other, one of them with a phone.
Chain == {<<n1, n2>>, <<n2, n1>>, <<n1, p1>>}

\* One node has shared a file, the other has one to share.
SharedOne == {<<n1, f1>>}
ShareOther == {<<n2, f2>>}

\* Evidence about one node turns up at that node.
LearnOwn == {<<n1, n1>>}

\* Evidence about one node turns up at the other.
LearnOther == {<<n1, n2>>}
=============================================================================
