--------------------------- MODULE MCFileTransfer ---------------------------
(* Small instances of FileTransfer for TLC.                                 *)
EXTENDS FileTransfer, TLC

CONSTANTS d1, d2, f1, f2

\* d1 downloads what d2 shares.
SeedOne == (d1 :> [f \in File |-> {}]) @@ (d2 :> [f \in File |-> Chunk])
AskOne == {d1} \X File

\* d2 has a download of its own behind it that ended half-way.
SeedPart ==
  (d1 :> [f \in File |-> {}])
    @@ (d2 :> [f \in File |-> IF f = f1 THEN Chunk ELSE Chunk \ {0}])

\* Which session object a goroutine runs on does not matter.
SlotSymmetry == Permutations(Slot)

\* Both devices hold a part of the file and ask each other for all of it.
SeedHalves == (d1 :> [f \in File |-> {0}]) @@ (d2 :> [f \in File |-> Chunk \ {0}])
AskBoth == {d1, d2} \X File
=============================================================================
