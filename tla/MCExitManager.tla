--------------------------- MODULE MCExitManager ---------------------------
(* Small instances of ExitManager for TLC. *)
EXTENDS ExitManager, TLC

Symmetry == Permutations(Symbols)
=============================================================================
