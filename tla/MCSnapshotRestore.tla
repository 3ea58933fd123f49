------------------------- MODULE MCSnapshotRestore -------------------------
(* Two requests or followers at a time, and each kind of restart once. *)
EXTENDS SnapshotRestore, TLC

CONSTANTS h1, h2

HandlerSymmetry == Permutations(Handlers)
=============================================================================
