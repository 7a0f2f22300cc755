------------------------ MODULE MCTradingExecution ------------------------
(* Small instances of TradingExecution for TLC. *)
EXTENDS TradingExecution, TLC

Symmetry == Permutations(Symbols) \cup Permutations(Orders)
=============================================================================
