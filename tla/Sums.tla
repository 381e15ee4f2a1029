-------------------------------- MODULE Sums --------------------------------
(***************************************************************************)
(* Sums of integer functions on 1..n, as a recursive function so that TLC  *)
(* can evaluate them and the proofs in BudgetLemmas can reason about them. *)
(***************************************************************************)
EXTENDS Integers

\* The partial sums s[0..n] of f, defined by recursion on the upper end.
PartialSums(f, n) ==
    LET s[i \in 0..n] == IF i = 0 THEN 0 ELSE s[i - 1] + f[i] IN s

\* f[1] + ... + f[n]
SumTo(f, n) == PartialSums(f, n)[n]

MinOf(a, b) == IF a <= b THEN a ELSE b
MaxOf(a, b) == IF a >= b THEN a ELSE b
=============================================================================
