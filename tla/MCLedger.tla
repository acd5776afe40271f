------------------------------ MODULE MCLedger ------------------------------
(* Small instances of Ledger for TLC.                                       *)
EXTENDS Ledger

CONSTANTS a, b, c

\* Device a gives and takes; b and c deal with it and with each other.
Triangle == {<<a, b>>, <<b, a>>, <<b, c>>}

\* No witness; a stranger; a stranger and a device a deals with, or one
\* without a key.
OneAndTwo ==
  {<<>>, <<[key |-> c, cluster |-> "k1"]>>,
   <<[key |-> c, cluster |-> "k1"], [key |-> b, cluster |-> "k2"]>>,
   <<[key |-> "", cluster |-> "k1"], [key |-> b, cluster |-> "k2"]>>}
=============================================================================
