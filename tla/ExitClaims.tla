----------------------------- MODULE ExitClaims -----------------------------
(* A claim of the exit manager's comments that the code does not keep. *)
EXTENDS MCExitManager

\* Enforcement is for a position "NAKED", whose "stop leg never attached or was
\* stripped".  When the orders cannot be read, every position counts as naked.
ProtectedKept ==
    [][\A s \in Symbols :
        NakedFlatten(s) /\ holding[s] /\ pos[s] = pass.id[s] => stop[s] = None]_vars
=============================================================================
