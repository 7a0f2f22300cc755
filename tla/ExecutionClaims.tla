-------------------------- MODULE ExecutionClaims --------------------------
(* A claim of the execution service's comments that the code does not keep. *)
EXTENDS MCTradingExecution

\* "never double-enter a name" (submit_breakout_now): the account holds, or has
\* resting, at most one entry per symbol.  A cancel that did not take effect is
\* recorded as done, and the symbol may be entered again.
OneLiveEntryPerSymbol ==
    \A p, q \in Orders :
        /\ p # q
        /\ broker[p] \in {"open", "held"} /\ broker[q] \in {"open", "held"}
        => sym[p] # sym[q]
=============================================================================
