---------------------------- MODULE Recursions ----------------------------
(* What a loop keeps or adds up along a list, as recursive functions of the    *)
(* number of elements the loop has passed: in this form proofs can follow it.  *)
EXTENDS Integers, Sequences

\* the elements of s that are in S, in their order
Kept(s, S) ==
    LET kept[n \in 0 .. Len(s)] ==
            IF n = 0 THEN <<>>
            ELSE IF s[n] \in S THEN Append(kept[n - 1], s[n])
            ELSE kept[n - 1]
    IN  kept[Len(s)]

\* f[1] + ... + f[n]
SumTo(f, n) ==
    LET sum[i \in 0 .. n] == IF i = 0 THEN 0 ELSE sum[i - 1] + f[i]
    IN  sum[n]
=============================================================================
