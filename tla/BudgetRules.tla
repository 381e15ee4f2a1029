----------------------------- MODULE BudgetRules -----------------------------
(***************************************************************************)
(* What the in-memory and the shared cap budget of nanobot/kernel have in  *)
(* common: caps and estimates, the scopes amounts are booked under, the    *)
(* admission arithmetic of check_admission and what an attempt costs       *)
(* (settle_charge).  Amounts are integers (a unit of USD); a limit or a    *)
(* price may be None.                                                      *)
(***************************************************************************)
EXTENDS Integers, Sums

CONSTANTS
    MaxCalls,       \* bound: admissions of a behaviour (logical calls)
    Slots,          \* the (tag, value) scopes a per_tag cap applies to
    LimitUsd,       \* limit_usd, or None
    LimitTokens,    \* limit_tokens, or None
    TagLimit,       \* the per_tag cap of each slot
    AllowUnpriced,  \* allow_unpriced
    Estimates,      \* worst cases calls ask for: [usd, tokens, slots]
    Events,         \* ledger events of attempts: [tokens, cost, outcome]
    None            \* an absent limit or price

Calls == 1..MaxCalls
Kernel == "kernel"
Scopes == {Kernel} \cup Slots

ASSUME BudgetAssumption ==
    /\ MaxCalls \in Nat
    /\ Kernel \notin Slots
    /\ None \notin Nat
    /\ LimitUsd \in Nat \cup {None}
    /\ LimitTokens \in Nat \cup {None}
    /\ TagLimit \in [Slots -> Nat]
    /\ AllowUnpriced \in BOOLEAN
    /\ Estimates \subseteq
         [usd : Nat \cup {None}, tokens : Nat, slots : SUBSET Slots]
    /\ Events \subseteq
         [tokens : Nat, cost : Nat \cup {None},
          outcome : {"ok", "timeout", "cancelled"}]

\* The scopes an amount is booked under: the whole budget and the tag slots.
ScopesOf(slots) == {Kernel} \cup slots

\* f with d added in every scope of S.
AddIn(f, S, d) == [s \in Scopes |-> IF s \in S THEN f[s] + d ELSE f[s]]

-----------------------------------------------------------------------------
(* The cap arithmetic shared by CapBudget and SharedCapBudget.             *)

\* usd or 0.0
AmountOf(est) == IF est.usd = None THEN 0 ELSE est.usd

\* Mutant of Admissible: the caps are compared with the exposure alone.
AdmissibleBeforeAmount(est, exposure, usedTokens) ==
    /\ LimitUsd # None => exposure[Kernel] <= LimitUsd
    /\ LimitTokens # None => usedTokens <= LimitTokens
    /\ \A s \in est.slots : exposure[s] <= TagLimit[s]

\* check_admission raises nothing: the estimate is priced where a USD cap applies
\* to it, and its worst case on top of the exposure (spent plus reserved) stays
\* within the USD cap, the token cap and the cap of each of its slots.
Admissible(est, exposure, usedTokens) ==
    LET amount == AmountOf(est)
    IN  /\ est.usd = None /\ (LimitUsd # None \/ est.slots # {}) => AllowUnpriced
        /\ LimitUsd # None => exposure[Kernel] + amount <= LimitUsd
        /\ LimitTokens # None => usedTokens + est.tokens <= LimitTokens
        /\ \A s \in est.slots : exposure[s] + amount <= TagLimit[s]

\* settle_charge: an attempt without a price is not free when it used tokens, or
\* when it timed out or was cancelled (the provider may have billed it).
IsUnpricedUsage(event) ==
    /\ event.cost = None
    /\ event.tokens > 0 \/ event.outcome \in {"timeout", "cancelled"}

\* Mutant of Take: a reservation gives more than it holds.
TakeAll(held, amount) == amount

\* How much of what a reservation still holds an attempt uses up.
Take(held, amount) == MinOf(held, amount)

CostOf(event) == IF event.cost = None THEN 0 ELSE event.cost
=============================================================================
