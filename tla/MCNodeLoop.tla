----------------------------- MODULE MCNodeLoop -----------------------------
(* Instances of NodeLoop: two requests, for two files.                     *)
EXTENDS NodeLoop, TLC

CONSTANTS r1, r2, k1, k2

KeysApart == r1 :> k1 @@ r2 :> k2

=============================================================================
