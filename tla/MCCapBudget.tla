----------------------------- MODULE MCCapBudget -----------------------------
(***************************************************************************)
(* CapBudget for TLC: two or three calls against a USD cap, a token cap    *)
(* and one capped tag slot, with attempts that stay within, exhaust or     *)
(* exceed their reservation, and attempts without a price.                 *)
(***************************************************************************)
EXTENDS CapBudget, TLC

MCSlots == {"stage"}
MCTagLimit == [s \in MCSlots |-> 2]

MCEstimates ==
    {[usd |-> 2, tokens |-> 1, slots |-> {}],
     [usd |-> 1, tokens |-> 2, slots |-> {"stage"}],
     [usd |-> 2, tokens |-> 1, slots |-> {"stage"}],
     [usd |-> None, tokens |-> 1, slots |-> {}]}

MCEvents ==
    {[tokens |-> 1, cost |-> 1, outcome |-> "ok"],
     [tokens |-> 2, cost |-> 2, outcome |-> "ok"],
     [tokens |-> 1, cost |-> None, outcome |-> "ok"],
     [tokens |-> 0, cost |-> None, outcome |-> "timeout"]}

=============================================================================
