-------------------------- MODULE MCSharedCapBudget --------------------------
(***************************************************************************)
(* SharedCapBudget for TLC: two processes and one crash.                   *)
(***************************************************************************)
EXTENDS SharedCapBudget, TLC

MCSlots == {"stage"}
MCTagLimit == [s \in MCSlots |-> 2]

\* The cheap call and the dear one fit under the caps together, two dear ones do not.
MCEstimates ==
    {[usd |-> 1, tokens |-> 2, slots |-> {}],
     [usd |-> 2, tokens |-> 2, slots |-> {"stage"}]}

\* Fewer tokens than estimated and a higher cost, or a cost that is not known.
MCEvents ==
    {[tokens |-> 1, cost |-> 3, outcome |-> "ok"],
     [tokens |-> 0, cost |-> None, outcome |-> "timeout"]}

Symmetry == Permutations(Procs)
=============================================================================
