------------------------------ MODULE CapBudget ------------------------------
(***************************************************************************)
(* The in-memory cap budget of nanobot/kernel/budget.py: hard caps on what *)
(* was spent plus what is still reserved by calls in flight.  Every method *)
(* runs under one lock, so each is one atomic action.                      *)
(*                                                                         *)
(* SharedCapBudget is checked to implement this specification.             *)
(***************************************************************************)
EXTENDS BudgetRules

CONSTANTS
    MaxSpend,       \* bound: USD settled attempts add up to, or None
    MaxTokens       \* bound: tokens settled attempts add up to, or None

ASSUME CapBudgetAssumption ==
    MaxSpend \in Nat \cup {None} /\ MaxTokens \in Nat \cup {None}

VARIABLES
    res,             \* res[c]: the _CapReservation of call c
    spent,           \* _spent_usd (scope Kernel) and _tag_spent
    reserved,        \* _reserved_usd (scope Kernel) and _tag_reserved
    spentTokens,     \* _spent_tokens
    reservedTokens,  \* _reserved_tokens
    overrun,         \* history: USD settled beyond what was still reserved for it
    overrunTokens    \* history: the same for tokens

vars == <<res, spent, reserved, spentTokens, reservedTokens, overrun,
          overrunTokens>>

Reservation ==
    [state : {"none", "open", "released"}, usd : Nat, tokens : Nat,
     slots : SUBSET Slots, unpriced : BOOLEAN]

NoReservation ==
    [state |-> "none", usd |-> 0, tokens |-> 0, slots |-> {}, unpriced |-> FALSE]

-----------------------------------------------------------------------------
Init ==
    /\ res = [c \in Calls |-> NoReservation]
    /\ spent = [s \in Scopes |-> 0]
    /\ reserved = [s \in Scopes |-> 0]
    /\ spentTokens = 0
    /\ reservedTokens = 0
    /\ overrun = [s \in Scopes |-> 0]
    /\ overrunTokens = 0

Exposure == [s \in Scopes |-> spent[s] + reserved[s]]

\* admit: a refused estimate changes nothing.
Admit(c, est) ==
    /\ res[c].state = "none"
    /\ \A d \in 1..(c - 1) : res[d].state # "none"
    /\ Admissible(est, Exposure, spentTokens + reservedTokens)
    /\ res' = [res EXCEPT ![c] =
                 [state |-> "open", usd |-> AmountOf(est), tokens |-> est.tokens,
                  slots |-> est.slots, unpriced |-> FALSE]]
    /\ reserved' = AddIn(reserved, ScopesOf(est.slots), AmountOf(est))
    /\ reservedTokens' = reservedTokens + est.tokens
    /\ UNCHANGED <<spent, spentTokens, overrun, overrunTokens>>

\* Mutant of ConsumedScopes: the totals of the tag slots are forgotten.
ConsumedScopesKernel(r) == {Kernel}

\* The reserved totals a reservation is taken out of.
ConsumedScopes(r) == ScopesOf(r.slots)

\* _consume: move up to usd and tokens of reservation c out of the reserved
\* totals, which are clamped at zero; new is what else changes in the reservation.
Consume(c, usd, tokens, new) ==
    LET takeUsd == Take(res[c].usd, usd)
        takeTokens == Take(res[c].tokens, tokens)
    IN  /\ res' = [res EXCEPT ![c] =
                     [new EXCEPT !.usd = res[c].usd - takeUsd,
                                 !.tokens = res[c].tokens - takeTokens]]
        /\ reserved' = [s \in Scopes |->
                          IF s \in ConsumedScopes(res[c])
                          THEN MaxOf(0, reserved[s] - takeUsd) ELSE reserved[s]]
        /\ reservedTokens' = MaxOf(0, reservedTokens - takeTokens)

\* What a settled attempt costs beyond what is still reserved for it.
Excess(r, held, amount) ==
    IF r.state = "open" THEN amount - MinOf(held, amount) ELSE amount

\* settle: one attempt of call c; it may come after the call was released.
Settle(c, event) ==
    LET cost == CostOf(event)
        marked == [res[c] EXCEPT !.unpriced = @ \/ IsUnpricedUsage(event)]
    IN  /\ res[c].state # "none"
        /\ MaxSpend # None => spent[Kernel] + cost <= MaxSpend
        /\ MaxTokens # None => spentTokens + event.tokens <= MaxTokens
        /\ spentTokens' = spentTokens + event.tokens
        /\ spent' = AddIn(spent, ScopesOf(res[c].slots), cost)
        /\ \/ /\ res[c].state = "open"
              /\ Consume(c, cost, event.tokens, marked)
           \/ /\ res[c].state = "released"
              /\ res' = [res EXCEPT ![c] = marked]
              /\ UNCHANGED <<reserved, reservedTokens>>
        /\ overrun' = AddIn(overrun, ScopesOf(res[c].slots),
                            Excess(res[c], res[c].usd, cost))
        /\ overrunTokens' = overrunTokens
                            + Excess(res[c], res[c].tokens, event.tokens)

\* Mutant of KeptAtRelease: an unpriced attempt is handed back like any other.
KeptAtReleaseNothing(r) == 0

\* What a release keeps as spend.
KeptAtRelease(r) == IF r.unpriced THEN r.usd ELSE 0

\* release: hand the rest of the reservation back; after unpriced usage what is
\* left of its USD is kept as spend.  A second release returns at once.
Release(c) ==
    /\ res[c].state = "open"
    /\ spent' = AddIn(spent, ScopesOf(res[c].slots),
                      KeptAtRelease(res[c]))
    /\ Consume(c, res[c].usd, res[c].tokens, [res[c] EXCEPT !.state = "released"])
    /\ UNCHANGED <<spentTokens, overrun, overrunTokens>>

Next ==
    \E c \in Calls :
        \/ \E est \in Estimates : Admit(c, est)
        \/ \E event \in Events : Settle(c, event)
        \/ Release(c)

Spec == Init /\ [][Next]_vars

-----------------------------------------------------------------------------
(* Properties                                                              *)

\* Every variable keeps its type; no total and no reservation of CapBudget goes below
\* zero, whatever _consume takes out of it.
TypeOK ==
    /\ res \in [Calls -> Reservation]
    /\ spent \in [Scopes -> Nat]
    /\ reserved \in [Scopes -> Nat]
    /\ spentTokens \in Nat
    /\ reservedTokens \in Nat
    /\ overrun \in [Scopes -> Nat]
    /\ overrunTokens \in Nat

\* The USD reservation c still holds in scope s, for every call.
HeldUsd(s) ==
    [c \in Calls |-> IF s \in ScopesOf(res[c].slots) THEN res[c].usd ELSE 0]

HeldTokens == [c \in Calls |-> res[c].tokens]

\* No drift between the totals and the reservations: in every scope the reserved
\* total of CapBudget is exactly what its reservations still hold, whatever was
\* settled twice, too high, after the release or released with a remainder, so the
\* clamps at zero in _consume never hide a difference.
ReservedMatchesHeld ==
    /\ \A s \in Scopes : reserved[s] = SumTo(HeldUsd(s), MaxCalls)
    /\ reservedTokens = SumTo(HeldTokens, MaxCalls)

\* The hard cap: spent plus reserved never passes a limit of check_admission by more
\* than what settled attempts cost beyond their own reservations.  While no attempt
\* costs more than its reservation (overrun = 0) the limit is never passed.
CapHolds ==
    /\ LimitUsd # None => Exposure[Kernel] <= LimitUsd + overrun[Kernel]
    /\ LimitTokens # None =>
         spentTokens + reservedTokens <= LimitTokens + overrunTokens
    /\ \A s \in Slots : Exposure[s] <= TagLimit[s] + overrun[s]

\* A step in which exposure falls is the release of a call without unpriced attempts,
\* and frees what that call still held.
FreedByPricedRelease ==
    \A s \in Scopes : Exposure'[s] < Exposure[s] =>
        \E c \in Calls :
            /\ res[c].state = "open" /\ res'[c].state = "released"
            /\ ~res[c].unpriced
            /\ Exposure[s] - Exposure'[s] = res[c].usd

\* Q1 of settle and release: USD exposure falls only when a call is released that had
\* no unpriced, timed-out or cancelled attempt, and then by what was reserved for it.
OnlyPricedReleaseFreesExposure == [][FreedByPricedRelease]_vars
=============================================================================
