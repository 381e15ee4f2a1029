--------------------------- MODULE CapBudgetProofs ---------------------------
(***************************************************************************)
(* CapBudget keeps its caps, for any caps, any number of calls and any     *)
(* estimates and attempts.  The cap alone is not inductive: that a settle  *)
(* takes out of the reserved total what it takes out of its reservation    *)
(* rests on the total being the sum of the reservations.                   *)
(***************************************************************************)
EXTENDS CapBudget, BudgetLemmas

\* A call that was not admitted holds nothing.
UnadmittedHoldNothing ==
    \A c \in Calls : res[c].state = "none" => res[c].usd = 0 /\ res[c].tokens = 0

\* The inductive invariant.
IInv ==
    /\ TypeOK
    /\ UnadmittedHoldNothing
    /\ ReservedMatchesHeld
    /\ CapHolds

-----------------------------------------------------------------------------
\* What every reservation holds, in every scope, is a natural.
LEMMA HeldType ==
    ASSUME TypeOK
    PROVE  /\ \A s \in Scopes : \A c \in 1..MaxCalls : HeldUsd(s)[c] \in Nat
           /\ \A c \in 1..MaxCalls : HeldTokens[c] \in Nat
BY DEF TypeOK, HeldUsd, HeldTokens, Calls, Reservation

\* The reserved totals cover each single reservation.
LEMMA ReservedCoversEach ==
    ASSUME TypeOK, ReservedMatchesHeld, NEW c \in Calls
    PROVE  /\ \A s \in ScopesOf(res[c].slots) : reserved[s] >= res[c].usd
           /\ reservedTokens >= res[c].tokens
<1>1. c \in 1..MaxCalls /\ MaxCalls \in Nat
    BY BudgetAssumption DEF Calls
<1>2. ASSUME NEW s \in ScopesOf(res[c].slots) PROVE reserved[s] >= res[c].usd
  <2>1. s \in Scopes
      BY DEF TypeOK, ScopesOf, Scopes, Reservation
  <2>2. HeldUsd(s)[c] = res[c].usd
      BY DEF HeldUsd
  <2>3. SumTo(HeldUsd(s), MaxCalls) >= HeldUsd(s)[c]
      BY <1>1, <2>1, HeldType, SumBound
  <2> QED
      BY <2>1, <2>2, <2>3 DEF ReservedMatchesHeld
<1>3. reservedTokens >= res[c].tokens
  <2>1. HeldTokens[c] = res[c].tokens
      BY DEF HeldTokens
  <2>2. SumTo(HeldTokens, MaxCalls) >= HeldTokens[c]
      BY <1>1, HeldType, SumBound
  <2> QED
      BY <2>1, <2>2 DEF ReservedMatchesHeld
<1> QED
    BY <1>2, <1>3

-----------------------------------------------------------------------------
\* What Consume does to the totals when they match the reservations: it takes
\* from the totals exactly what it takes from the reservation.
LEMMA ConsumeEffect ==
    ASSUME TypeOK, ReservedMatchesHeld, NEW c \in Calls,
           NEW usd \in Nat, NEW tokens \in Nat, NEW new \in Reservation,
           new.slots = res[c].slots,
           Consume(c, usd, tokens, new)
    PROVE  /\ res' \in [Calls -> Reservation]
           /\ \A d \in Calls : d # c => res'[d] = res[d]
           /\ res'[c].state = new.state /\ res'[c].slots = res[c].slots
           /\ res'[c].usd = res[c].usd - MinOf(res[c].usd, usd)
           /\ res'[c].tokens = res[c].tokens - MinOf(res[c].tokens, tokens)
           /\ reserved' \in [Scopes -> Nat]
           /\ \A s \in Scopes :
                reserved'[s] = IF s \in ScopesOf(res[c].slots)
                               THEN reserved[s] - MinOf(res[c].usd, usd)
                               ELSE reserved[s]
           /\ reservedTokens' \in Nat
           /\ reservedTokens' = reservedTokens - MinOf(res[c].tokens, tokens)
<1> DEFINE tu == MinOf(res[c].usd, usd)
           tt == MinOf(res[c].tokens, tokens)
<1>1. res[c].usd \in Nat /\ res[c].tokens \in Nat /\ res[c] \in Reservation
    BY DEF TypeOK, Reservation
<1>2. /\ tu \in Nat /\ tu <= res[c].usd /\ tt \in Nat /\ tt <= res[c].tokens
    BY <1>1, MinMax
<1>3. /\ res' = [res EXCEPT ![c] = [new EXCEPT !.usd = res[c].usd - tu,
                                               !.tokens = res[c].tokens - tt]]
      /\ reserved' = [s \in Scopes |-> IF s \in ScopesOf(res[c].slots)
                                       THEN MaxOf(0, reserved[s] - tu) ELSE reserved[s]]
      /\ reservedTokens' = MaxOf(0, reservedTokens - tt)
    BY DEF Consume, Take, ConsumedScopes
<1> HIDE DEF tu, tt
<1>4. res[c].usd - tu \in Nat /\ res[c].tokens - tt \in Nat
    BY <1>1, <1>2
<1>5. [new EXCEPT !.usd = res[c].usd - tu, !.tokens = res[c].tokens - tt] \in Reservation
    BY <1>4 DEF Reservation
<1>6. /\ res' \in [Calls -> Reservation]
      /\ \A d \in Calls : d # c => res'[d] = res[d]
      /\ res'[c].state = new.state /\ res'[c].slots = res[c].slots
      /\ res'[c].usd = res[c].usd - tu
      /\ res'[c].tokens = res[c].tokens - tt
    BY <1>3, <1>5 DEF TypeOK, Reservation
<1>7. ASSUME NEW s \in Scopes
      PROVE  /\ reserved'[s] \in Nat
             /\ reserved'[s] = IF s \in ScopesOf(res[c].slots)
                               THEN reserved[s] - tu ELSE reserved[s]
  <2>1. reserved[s] \in Nat
      BY DEF TypeOK
  <2>2. s \in ScopesOf(res[c].slots) => reserved[s] >= tu
      BY <1>1, <1>2, <2>1, ReservedCoversEach
  <2>3. s \in ScopesOf(res[c].slots) => MaxOf(0, reserved[s] - tu) = reserved[s] - tu
      BY <1>2, <2>1, <2>2, MinMax
  <2> QED
      BY <1>2, <1>3, <2>1, <2>2, <2>3
<1>8. reservedTokens' \in Nat /\ reservedTokens' = reservedTokens - tt
  <2>1. reservedTokens \in Nat /\ reservedTokens >= res[c].tokens
      BY ReservedCoversEach DEF TypeOK
  <2>2. reservedTokens >= tt
      BY <1>1, <1>2, <2>1
  <2> QED
      BY <1>2, <1>3, <2>1, <2>2, MinMax
<1>9. reserved' \in [Scopes -> Nat]
    BY <1>3, <1>7
<1> QED
    BY <1>6, <1>7, <1>8, <1>9 DEF tu, tt

\* A step that changes one reservation changes the sums by its difference.
LEMMA HeldUpdate ==
    ASSUME TypeOK, res' \in [Calls -> Reservation], NEW c \in Calls,
           \A d \in Calls : d # c => res'[d] = res[d]
    PROVE  /\ \A s \in Scopes :
                SumTo(HeldUsd(s)', MaxCalls) =
                  SumTo(HeldUsd(s), MaxCalls) + (HeldUsd(s)'[c] - HeldUsd(s)[c])
           /\ SumTo(HeldTokens', MaxCalls) =
                SumTo(HeldTokens, MaxCalls) + (res'[c].tokens - res[c].tokens)
<1>1. MaxCalls \in Nat /\ c \in 1..MaxCalls
    BY BudgetAssumption DEF Calls
<1>2. ASSUME NEW s \in Scopes
      PROVE  SumTo(HeldUsd(s)', MaxCalls) =
               SumTo(HeldUsd(s), MaxCalls) + (HeldUsd(s)'[c] - HeldUsd(s)[c])
  <2> DEFINE f == HeldUsd(s)
             g == HeldUsd(s)'
  <2>1. \A i \in 1..MaxCalls : f[i] \in Int /\ g[i] \in Int
      BY DEF HeldUsd, TypeOK, Calls, Reservation
  <2>2. \A i \in 1..MaxCalls : i # c => g[i] = f[i]
      BY DEF HeldUsd, Calls
  <2> HIDE DEF f, g
  <2>3. SumTo(g, MaxCalls) = SumTo(f, MaxCalls) + (g[c] - f[c])
      BY <1>1, <2>1, <2>2, SumUpdate
  <2> QED
      BY <2>3 DEF f, g
<1>3. SumTo(HeldTokens', MaxCalls) =
        SumTo(HeldTokens, MaxCalls) + (res'[c].tokens - res[c].tokens)
  <2> DEFINE f == HeldTokens
             g == HeldTokens'
  <2>1. \A i \in 1..MaxCalls : f[i] \in Int /\ g[i] \in Int
      BY DEF HeldTokens, TypeOK, Calls, Reservation
  <2>2. \A i \in 1..MaxCalls : i # c => g[i] = f[i]
      BY DEF HeldTokens, Calls
  <2>4. f[c] = res[c].tokens /\ g[c] = res'[c].tokens
      BY DEF HeldTokens, Calls
  <2> HIDE DEF f, g
  <2>3. SumTo(g, MaxCalls) = SumTo(f, MaxCalls) + (g[c] - f[c])
      BY <1>1, <2>1, <2>2, SumUpdate
  <2> QED
      BY <2>3, <2>4 DEF f, g
<1> QED
    BY <1>2, <1>3

\* A step that moves reservation c and the totals by the same amounts keeps the
\* totals equal to the sums.
LEMMA MatchPreserved ==
    ASSUME TypeOK, ReservedMatchesHeld, NEW c \in Calls,
           res' \in [Calls -> Reservation],
           \A d \in Calls : d # c => res'[d] = res[d],
           \A s \in Scopes :
              reserved'[s] = reserved[s] + (HeldUsd(s)'[c] - HeldUsd(s)[c]),
           reservedTokens' = reservedTokens + (res'[c].tokens - res[c].tokens)
    PROVE  ReservedMatchesHeld'
<1>1. \A s \in Scopes : reserved'[s] = SumTo(HeldUsd(s)', MaxCalls)
    BY HeldUpdate DEF ReservedMatchesHeld
<1>2. reservedTokens' = SumTo(HeldTokens', MaxCalls)
    BY HeldUpdate DEF ReservedMatchesHeld
<1> QED
    BY <1>1, <1>2 DEF ReservedMatchesHeld

-----------------------------------------------------------------------------
\* The initial state satisfies the inductive invariant.
LEMMA InitIInv == Init => IInv
<1> SUFFICES ASSUME Init PROVE IInv
    OBVIOUS
<1>1. MaxCalls \in Nat
    BY BudgetAssumption
<1>2. TypeOK
    BY DEF Init, TypeOK, NoReservation, Reservation
<1>3. UnadmittedHoldNothing
    BY DEF Init, UnadmittedHoldNothing, NoReservation
<1>4. ReservedMatchesHeld
  <2>1. ASSUME NEW s \in Scopes PROVE reserved[s] = SumTo(HeldUsd(s), MaxCalls)
    <3>1. \A i \in 1..MaxCalls : HeldUsd(s)[i] = 0
        BY DEF Init, HeldUsd, NoReservation, Calls
    <3>2. SumTo(HeldUsd(s), MaxCalls) = 0
        BY <1>1, <3>1, SumZero
    <3> QED
        BY <3>2 DEF Init
  <2>2. \A i \in 1..MaxCalls : HeldTokens[i] = 0
      BY DEF Init, HeldTokens, NoReservation, Calls
  <2>3. SumTo(HeldTokens, MaxCalls) = 0
      BY <1>1, <2>2, SumZero
  <2> QED
      BY <2>1, <2>3 DEF Init, ReservedMatchesHeld
<1>5. CapHolds
    BY BudgetAssumption DEF Init, CapHolds, Exposure, Scopes
<1> QED
    BY <1>2, <1>3, <1>4, <1>5 DEF IInv

\* admit
LEMMA AdmitIInv ==
    ASSUME IInv, NEW c \in Calls, NEW est \in Estimates, Admit(c, est)
    PROVE  IInv'
<1> DEFINE amount == AmountOf(est)
           new == [state |-> "open", usd |-> amount, tokens |-> est.tokens,
                   slots |-> est.slots, unpriced |-> FALSE]
<1>1. /\ amount \in Nat /\ est.tokens \in Nat /\ est.slots \in SUBSET Slots
    BY InputTypes
<1>2. new \in Reservation
    BY <1>1 DEF Reservation
<1>3. /\ res' = [res EXCEPT ![c] = new]
      /\ res[c].state = "none"
      /\ reserved' = AddIn(reserved, ScopesOf(est.slots), amount)
      /\ reservedTokens' = reservedTokens + est.tokens
      /\ spent' = spent /\ spentTokens' = spentTokens
      /\ overrun' = overrun /\ overrunTokens' = overrunTokens
      /\ Admissible(est, Exposure, spentTokens + reservedTokens)
    BY DEF Admit
<1>t. /\ TypeOK /\ UnadmittedHoldNothing /\ ReservedMatchesHeld /\ CapHolds
    BY DEF IInv
<1>4. /\ res' \in [Calls -> Reservation] /\ res'[c] = new
      /\ \A d \in Calls : d # c => res'[d] = res[d]
    BY <1>2, <1>3, <1>t DEF TypeOK
<1>5. /\ reserved' \in [Scopes -> Nat]
      /\ \A s \in Scopes : reserved'[s] = IF s \in ScopesOf(est.slots)
                                          THEN reserved[s] + amount ELSE reserved[s]
    BY <1>1, <1>3, <1>t, AddInType DEF TypeOK
<1>6. TypeOK'
    BY <1>1, <1>3, <1>4, <1>5, <1>t DEF TypeOK
<1>7. UnadmittedHoldNothing'
    BY <1>4, <1>t DEF UnadmittedHoldNothing
<1>8. res[c].usd = 0 /\ res[c].tokens = 0
    BY <1>3, <1>t DEF UnadmittedHoldNothing
<1>9. ReservedMatchesHeld'
  <2>1. ASSUME NEW s \in Scopes
        PROVE  reserved'[s] = reserved[s] + (HeldUsd(s)'[c] - HeldUsd(s)[c])
    <3>1. HeldUsd(s)[c] = 0
        BY <1>8 DEF HeldUsd
    <3>2. HeldUsd(s)'[c] = IF s \in ScopesOf(est.slots) THEN amount ELSE 0
        BY <1>4 DEF HeldUsd
    <3>3. reserved[s] \in Nat
        BY <1>t DEF TypeOK
    <3> QED
        BY <1>1, <1>5, <3>1, <3>2, <3>3
  <2>2. reservedTokens' = reservedTokens + (res'[c].tokens - res[c].tokens)
      BY <1>1, <1>3, <1>4, <1>8, <1>t DEF TypeOK
  <2> QED
      BY <1>4, <1>t, <2>1, <2>2, MatchPreserved
<1>10. CapHolds'
  <2>1. \A s \in Scopes : /\ spent[s] \in Nat /\ reserved[s] \in Nat
                          /\ overrun[s] \in Nat
                          /\ Exposure[s] = spent[s] + reserved[s]
                          /\ Exposure'[s] = spent[s] + reserved'[s]
      BY <1>3, <1>t DEF TypeOK, Exposure
  <2>2. /\ spentTokens \in Nat /\ reservedTokens \in Nat /\ overrunTokens \in Nat
      BY <1>t DEF TypeOK
  <2>3. Kernel \in Scopes /\ Kernel \in ScopesOf(est.slots) /\ Slots \subseteq Scopes
      BY DEF Scopes, ScopesOf
  <2>4. LimitUsd # None => Exposure'[Kernel] <= LimitUsd + overrun'[Kernel]
    <3> SUFFICES ASSUME LimitUsd # None
                 PROVE  Exposure'[Kernel] <= LimitUsd + overrun'[Kernel]
        OBVIOUS
    <3>1. Exposure[Kernel] + amount <= LimitUsd
        BY <1>3 DEF Admissible
    <3>2. LimitUsd \in Nat
        BY BudgetAssumption
    <3> QED
        BY <1>1, <1>3, <1>5, <2>1, <2>3, <3>1, <3>2
  <2>5. LimitTokens # None =>
          spentTokens' + reservedTokens' <= LimitTokens + overrunTokens'
      BY <1>1, <1>3, <2>2, BudgetAssumption DEF Admissible
  <2>6. ASSUME NEW s \in Slots PROVE Exposure'[s] <= TagLimit[s] + overrun'[s]
    <3>1. TagLimit[s] \in Nat /\ s \in Scopes
        BY <2>3, BudgetAssumption
    <3>2. CASE s \in est.slots
      <4>1. Exposure[s] + amount <= TagLimit[s]
          BY <1>3, <3>2 DEF Admissible
      <4>2. reserved'[s] = reserved[s] + amount
          BY <1>5, <3>1, <3>2 DEF ScopesOf
      <4> QED
          BY <1>1, <1>3, <2>1, <3>1, <4>1, <4>2
    <3>3. CASE s \notin est.slots
      <4>1. reserved'[s] = reserved[s]
          BY <1>5, <3>1, <3>3, BudgetAssumption DEF ScopesOf
      <4>2. Exposure[s] <= TagLimit[s] + overrun[s]
          BY <1>t DEF CapHolds
      <4> QED
          BY <1>3, <2>1, <3>1, <4>1, <4>2
    <3> QED
        BY <3>2, <3>3
  <2> QED
      BY <2>4, <2>5, <2>6 DEF CapHolds
<1> QED
    BY <1>6, <1>7, <1>9, <1>10 DEF IInv

\* A step after which no scope is further above its cap, overruns aside, keeps the
\* caps.
LEMMA CapPreserved ==
    ASSUME TypeOK, TypeOK', CapHolds,
           \A s \in Scopes : (spent'[s] + reserved'[s]) - overrun'[s]
                               <= (spent[s] + reserved[s]) - overrun[s],
           (spentTokens' + reservedTokens') - overrunTokens'
             <= (spentTokens + reservedTokens) - overrunTokens
    PROVE  CapHolds'
<1>1. \A s \in Scopes :
        /\ spent[s] \in Nat /\ reserved[s] \in Nat /\ overrun[s] \in Nat
        /\ spent'[s] \in Nat /\ reserved'[s] \in Nat /\ overrun'[s] \in Nat
        /\ Exposure[s] = spent[s] + reserved[s]
        /\ Exposure'[s] = spent'[s] + reserved'[s]
    BY DEF TypeOK, Exposure
<1>2. Kernel \in Scopes /\ Slots \subseteq Scopes
    BY DEF Scopes
<1>3. LimitUsd # None => Exposure'[Kernel] <= LimitUsd + overrun'[Kernel]
    BY <1>1, <1>2, BudgetAssumption DEF CapHolds
<1>4. LimitTokens # None =>
        spentTokens' + reservedTokens' <= LimitTokens + overrunTokens'
  <2>1. /\ spentTokens \in Nat /\ reservedTokens \in Nat /\ overrunTokens \in Nat
        /\ spentTokens' \in Nat /\ reservedTokens' \in Nat /\ overrunTokens' \in Nat
      BY DEF TypeOK
  <2>2. LimitTokens # None =>
          /\ LimitTokens \in Nat
          /\ spentTokens + reservedTokens <= LimitTokens + overrunTokens
      BY BudgetAssumption DEF CapHolds
  <2>3. \A a, b, o, x, y, z, l \in Nat :
          (a + b) - o <= (x + y) - z /\ x + y <= l + z => a + b <= l + o
      OBVIOUS
  <2> QED
      BY <2>1, <2>2, <2>3
<1>5. ASSUME NEW s \in Slots PROVE Exposure'[s] <= TagLimit[s] + overrun'[s]
  <2>1. TagLimit[s] \in Nat /\ s \in Scopes /\ Exposure[s] <= TagLimit[s] + overrun[s]
      BY <1>2, BudgetAssumption DEF CapHolds
  <2> QED
      BY <1>1, <2>1
<1> QED
    BY <1>3, <1>4, <1>5 DEF CapHolds

\* The bookkeeping of Consume keeps the totals equal to the sums.
LEMMA ConsumeMatches ==
    ASSUME TypeOK, ReservedMatchesHeld, NEW c \in Calls,
           NEW usd \in Nat, NEW tokens \in Nat, NEW new \in Reservation,
           new.slots = res[c].slots,
           Consume(c, usd, tokens, new)
    PROVE  ReservedMatchesHeld'
<1> DEFINE tu == MinOf(res[c].usd, usd)
           tt == MinOf(res[c].tokens, tokens)
<1>1. /\ res' \in [Calls -> Reservation]
      /\ \A d \in Calls : d # c => res'[d] = res[d]
      /\ res'[c].slots = res[c].slots
      /\ res'[c].usd = res[c].usd - tu
      /\ res'[c].tokens = res[c].tokens - tt
      /\ \A s \in Scopes :
           reserved'[s] = IF s \in ScopesOf(res[c].slots)
                          THEN reserved[s] - tu ELSE reserved[s]
      /\ reservedTokens' = reservedTokens - tt
    BY ConsumeEffect
<1>2. res[c].usd \in Nat /\ res[c].tokens \in Nat
    BY DEF TypeOK, Reservation
<1>3. tu \in Nat /\ tt \in Nat
    BY <1>2, MinMax
<1> HIDE DEF tu, tt
<1>4. ASSUME NEW s \in Scopes
      PROVE  reserved'[s] = reserved[s] + (HeldUsd(s)'[c] - HeldUsd(s)[c])
  <2>1. HeldUsd(s)[c] = IF s \in ScopesOf(res[c].slots) THEN res[c].usd ELSE 0
      BY DEF HeldUsd
  <2>2. HeldUsd(s)'[c] = IF s \in ScopesOf(res[c].slots) THEN res[c].usd - tu ELSE 0
      BY <1>1 DEF HeldUsd
  <2>3. reserved[s] \in Nat
      BY DEF TypeOK
  <2> QED
      BY <1>1, <1>2, <1>3, <2>1, <2>2, <2>3
<1>5. reservedTokens' = reservedTokens + (res'[c].tokens - res[c].tokens)
    BY <1>1, <1>2, <1>3 DEF TypeOK
<1> QED
    BY <1>1, <1>4, <1>5, MatchPreserved

\* settle
LEMMA SettleIInv ==
    ASSUME IInv, NEW c \in Calls, NEW event \in Events, Settle(c, event)
    PROVE  IInv'
<1> DEFINE cost == CostOf(event)
           new == [res[c] EXCEPT !.unpriced = @ \/ IsUnpricedUsage(event)]
           S == ScopesOf(res[c].slots)
           eu == Excess(res[c], res[c].usd, cost)
           et == Excess(res[c], res[c].tokens, event.tokens)
<1>1. cost \in Nat /\ event.tokens \in Nat
    BY InputTypes
<1>t. /\ TypeOK /\ UnadmittedHoldNothing /\ ReservedMatchesHeld /\ CapHolds
    BY DEF IInv
<1>2. res[c] \in Reservation /\ res[c].usd \in Nat /\ res[c].tokens \in Nat
    BY <1>t DEF TypeOK, Reservation
<1>3. new \in Reservation /\ new.slots = res[c].slots /\ new.state = res[c].state
  <2>1. (res[c].unpriced \/ IsUnpricedUsage(event)) \in BOOLEAN
      BY DEF IsUnpricedUsage
  <2> QED
      BY <1>2, <2>1 DEF Reservation
<1>4. /\ res[c].state # "none"
      /\ spentTokens' = spentTokens + event.tokens
      /\ spent' = AddIn(spent, S, cost)
      /\ overrun' = AddIn(overrun, S, eu)
      /\ overrunTokens' = overrunTokens + et
      /\ \/ res[c].state = "open" /\ Consume(c, cost, event.tokens, new)
         \/ /\ res[c].state = "released"
            /\ res' = [res EXCEPT ![c] = new]
            /\ reserved' = reserved /\ reservedTokens' = reservedTokens
    BY DEF Settle
<1>5. eu \in Nat /\ et \in Nat
    BY <1>1, <1>2 DEF Excess, MinOf
<1>6. /\ spent' \in [Scopes -> Nat] /\ overrun' \in [Scopes -> Nat]
      /\ \A s \in Scopes :
           /\ spent'[s] = IF s \in S THEN spent[s] + cost ELSE spent[s]
           /\ overrun'[s] = IF s \in S THEN overrun[s] + eu ELSE overrun[s]
    BY <1>1, <1>4, <1>5, <1>t, AddInType DEF TypeOK
<1>n. \A s \in Scopes : spent[s] \in Nat /\ reserved[s] \in Nat /\ overrun[s] \in Nat
    BY <1>t DEF TypeOK
<1>m. spentTokens \in Nat /\ reservedTokens \in Nat /\ overrunTokens \in Nat
    BY <1>t DEF TypeOK
<1> HIDE DEF cost, new, S
<1>7. CASE res[c].state = "open"
  <2>1. Consume(c, cost, event.tokens, new)
      BY <1>4, <1>7
  <2>2. /\ res' \in [Calls -> Reservation]
        /\ \A d \in Calls : d # c => res'[d] = res[d]
        /\ res'[c].state = new.state
        /\ reserved' \in [Scopes -> Nat]
        /\ \A s \in Scopes : reserved'[s] = IF s \in S
                                            THEN reserved[s] - MinOf(res[c].usd, cost)
                                            ELSE reserved[s]
        /\ reservedTokens' \in Nat
        /\ reservedTokens' = reservedTokens - MinOf(res[c].tokens, event.tokens)
    <3> HIDE DEF eu, et
    <3>1. new \in Reservation /\ new.slots = res[c].slots /\ cost \in Nat
        BY <1>1, <1>3
    <3>2. /\ res' \in [Calls -> Reservation]
          /\ \A d \in Calls : d # c => res'[d] = res[d]
          /\ res'[c].state = new.state /\ res'[c].slots = res[c].slots
          /\ res'[c].usd = res[c].usd - MinOf(res[c].usd, cost)
          /\ res'[c].tokens = res[c].tokens - MinOf(res[c].tokens, event.tokens)
          /\ reserved' \in [Scopes -> Nat]
          /\ \A s \in Scopes :
               reserved'[s] = IF s \in ScopesOf(res[c].slots)
                              THEN reserved[s] - MinOf(res[c].usd, cost)
                              ELSE reserved[s]
          /\ reservedTokens' \in Nat
          /\ reservedTokens' = reservedTokens - MinOf(res[c].tokens, event.tokens)
        BY <1>1, <1>t, <2>1, <3>1, ConsumeEffect
    <3> QED
        BY <3>2 DEF S
  <2>3. TypeOK'
      BY <1>1, <1>4, <1>5, <1>6, <1>t, <2>2 DEF TypeOK
  <2>4. UnadmittedHoldNothing'
      BY <1>3, <1>7, <1>t, <2>2 DEF UnadmittedHoldNothing
  <2>5. ReservedMatchesHeld'
      BY <1>1, <1>3, <1>t, <2>1, ConsumeMatches
  <2>6. /\ eu = cost - MinOf(res[c].usd, cost)
        /\ et = event.tokens - MinOf(res[c].tokens, event.tokens)
        /\ MinOf(res[c].usd, cost) \in Nat
        /\ MinOf(res[c].tokens, event.tokens) \in Nat
      BY <1>1, <1>2, <1>7, MinMax DEF Excess
  <2> HIDE DEF eu, et
  <2>7. \A s \in Scopes : (spent'[s] + reserved'[s]) - overrun'[s]
                            <= (spent[s] + reserved[s]) - overrun[s]
      BY <1>1, <1>6, <1>n, <2>2, <2>6
  <2>8. (spentTokens' + reservedTokens') - overrunTokens'
          <= (spentTokens + reservedTokens) - overrunTokens
      BY <1>1, <1>4, <1>m, <2>2, <2>6
  <2>9. CapHolds'
      BY <1>t, <2>3, <2>7, <2>8, CapPreserved
  <2> QED
      BY <2>3, <2>4, <2>5, <2>9 DEF IInv
<1>8. CASE res[c].state = "released"
  <2>1. /\ res' = [res EXCEPT ![c] = new]
        /\ reserved' = reserved /\ reservedTokens' = reservedTokens
      BY <1>4, <1>8
  <2>2. /\ res' \in [Calls -> Reservation] /\ res'[c] = new
        /\ \A d \in Calls : d # c => res'[d] = res[d]
      BY <1>3, <1>t, <2>1 DEF TypeOK
  <2>3. TypeOK'
      BY <1>1, <1>4, <1>5, <1>6, <1>t, <2>1, <2>2 DEF TypeOK
  <2>4. UnadmittedHoldNothing'
      BY <1>3, <1>8, <1>t, <2>2 DEF UnadmittedHoldNothing
  <2>5. new.usd = res[c].usd /\ new.tokens = res[c].tokens
      BY <1>2 DEF new, Reservation
  <2>6. \A s \in Scopes : HeldUsd(s)'[c] = HeldUsd(s)[c] /\ HeldUsd(s)[c] \in Nat
      BY <1>2, <1>3, <2>2, <2>5 DEF HeldUsd
  <2>7. ReservedMatchesHeld'
    <3>1. \A s \in Scopes :
            reserved'[s] = reserved[s] + (HeldUsd(s)'[c] - HeldUsd(s)[c])
        BY <1>n, <2>1, <2>6
    <3>2. reservedTokens' = reservedTokens + (res'[c].tokens - res[c].tokens)
        BY <1>2, <1>m, <2>1, <2>2, <2>5
    <3> QED
        BY <1>t, <2>2, <3>1, <3>2, MatchPreserved
  <2>8. eu = cost /\ et = event.tokens
      BY <1>8 DEF Excess
  <2> HIDE DEF eu, et
  <2>9. \A s \in Scopes : (spent'[s] + reserved'[s]) - overrun'[s]
                            <= (spent[s] + reserved[s]) - overrun[s]
      BY <1>1, <1>6, <1>n, <2>1, <2>8
  <2>10. (spentTokens' + reservedTokens') - overrunTokens'
          <= (spentTokens + reservedTokens) - overrunTokens
      BY <1>1, <1>4, <1>m, <2>1, <2>8
  <2>11. CapHolds'
      BY <1>t, <2>3, <2>9, <2>10, CapPreserved
  <2> QED
      BY <2>3, <2>4, <2>7, <2>11 DEF IInv
<1> QED
    BY <1>4, <1>7, <1>8

\* release
LEMMA ReleaseIInv ==
    ASSUME IInv, NEW c \in Calls, Release(c)
    PROVE  IInv'
<1> DEFINE new == [res[c] EXCEPT !.state = "released"]
           S == ScopesOf(res[c].slots)
           kept == KeptAtRelease(res[c])
<1>t. /\ TypeOK /\ UnadmittedHoldNothing /\ ReservedMatchesHeld /\ CapHolds
    BY DEF IInv
<1>1. res[c] \in Reservation /\ res[c].usd \in Nat /\ res[c].tokens \in Nat
    BY <1>t DEF TypeOK, Reservation
<1>2. new \in Reservation /\ new.slots = res[c].slots /\ new.state = "released"
    BY <1>1 DEF Reservation
<1>3. kept \in Nat /\ kept <= res[c].usd
    BY <1>1 DEF KeptAtRelease
<1>4. /\ spent' = AddIn(spent, S, kept)
      /\ Consume(c, res[c].usd, res[c].tokens, new)
      /\ spentTokens' = spentTokens
      /\ overrun' = overrun /\ overrunTokens' = overrunTokens
    BY DEF Release
<1>5. /\ spent' \in [Scopes -> Nat]
      /\ \A s \in Scopes : spent'[s] = IF s \in S THEN spent[s] + kept ELSE spent[s]
    BY <1>3, <1>4, <1>t, AddInType DEF TypeOK
<1>6. MinOf(res[c].usd, res[c].usd) = res[c].usd
      /\ MinOf(res[c].tokens, res[c].tokens) = res[c].tokens
    BY DEF MinOf
<1>n. \A s \in Scopes : spent[s] \in Nat /\ reserved[s] \in Nat /\ overrun[s] \in Nat
    BY <1>t DEF TypeOK
<1>m. spentTokens \in Nat /\ reservedTokens \in Nat /\ overrunTokens \in Nat
    BY <1>t DEF TypeOK
<1> HIDE DEF new, S, kept
<1>7. /\ res' \in [Calls -> Reservation]
      /\ \A d \in Calls : d # c => res'[d] = res[d]
      /\ res'[c].state = new.state
      /\ reserved' \in [Scopes -> Nat]
      /\ \A s \in Scopes : reserved'[s] = IF s \in S
                                          THEN reserved[s] - res[c].usd ELSE reserved[s]
      /\ reservedTokens' \in Nat
      /\ reservedTokens' = reservedTokens - res[c].tokens
    BY <1>1, <1>2, <1>4, <1>6, <1>t, ConsumeEffect DEF S
<1>8. TypeOK'
    BY <1>4, <1>5, <1>7, <1>t DEF TypeOK
<1>9. UnadmittedHoldNothing'
    BY <1>2, <1>7, <1>t DEF UnadmittedHoldNothing
<1>10. ReservedMatchesHeld'
    BY <1>1, <1>2, <1>4, <1>t, ConsumeMatches
<1>11. \A s \in Scopes : (spent'[s] + reserved'[s]) - overrun'[s]
                           <= (spent[s] + reserved[s]) - overrun[s]
    BY <1>1, <1>3, <1>4, <1>5, <1>7, <1>n
<1>12. (spentTokens' + reservedTokens') - overrunTokens'
         <= (spentTokens + reservedTokens) - overrunTokens
    BY <1>1, <1>4, <1>7, <1>m
<1>13. CapHolds'
    BY <1>8, <1>11, <1>12, <1>t, CapPreserved
<1> QED
    BY <1>8, <1>9, <1>10, <1>13 DEF IInv

-----------------------------------------------------------------------------
\* Every step of CapBudget, and a stuttering one, keeps the inductive invariant.
LEMMA NextIInv == IInv /\ [Next]_vars => IInv'
<1> SUFFICES ASSUME IInv, [Next]_vars PROVE IInv'
    OBVIOUS
<1>1. CASE Next
  <2>1. ASSUME NEW c \in Calls, NEW est \in Estimates, Admit(c, est) PROVE IInv'
      BY <2>1, AdmitIInv
  <2>2. ASSUME NEW c \in Calls, NEW event \in Events, Settle(c, event) PROVE IInv'
      BY <2>2, SettleIInv
  <2>3. ASSUME NEW c \in Calls, Release(c) PROVE IInv'
      BY <2>3, ReleaseIInv
  <2> QED
      BY <1>1, <2>1, <2>2, <2>3 DEF Next
<1>2. CASE UNCHANGED vars
  <2>1. UNCHANGED <<res, spent, reserved, spentTokens, reservedTokens, overrun,
                    overrunTokens>>
      BY <1>2 DEF vars
  <2> QED
      BY <2>1 DEF IInv, TypeOK, UnadmittedHoldNothing, ReservedMatchesHeld, CapHolds,
                  HeldUsd, HeldTokens, Exposure
<1> QED
    BY <1>1, <1>2

\* The counters of CapBudget stay naturals: none is driven below zero.
THEOREM CapBudgetTypeOK == Spec => []TypeOK
<1>1. Spec => []IInv
    BY InitIInv, NextIInv, PTL DEF Spec
<1>2. IInv => TypeOK
    BY DEF IInv
<1> QED
    BY <1>1, <1>2, PTL

\* The reserved totals never drift from the reservations.
THEOREM CapBudgetReservedMatchesHeld == Spec => []ReservedMatchesHeld
<1>1. Spec => []IInv
    BY InitIInv, NextIInv, PTL DEF Spec
<1>2. IInv => ReservedMatchesHeld
    BY DEF IInv
<1> QED
    BY <1>1, <1>2, PTL

\* No cap is passed by more than attempts cost beyond their own reservations.
THEOREM CapBudgetCapHolds == Spec => []CapHolds
<1>1. Spec => []IInv
    BY InitIInv, NextIInv, PTL DEF Spec
<1>2. IInv => CapHolds
    BY DEF IInv
<1> QED
    BY <1>1, <1>2, PTL

-----------------------------------------------------------------------------
\* Exposure in the terms of the totals, before and after a step.
LEMMA ExposureDef ==
    ASSUME TypeOK, NEW s \in Scopes
    PROVE  /\ spent[s] \in Nat /\ reserved[s] \in Nat
           /\ Exposure[s] = spent[s] + reserved[s]
           /\ Exposure'[s] = spent'[s] + reserved'[s]
BY DEF TypeOK, Exposure

\* admit frees nothing: it only adds to the reserved totals.
LEMMA AdmitFreesNothing ==
    ASSUME IInv, NEW c \in Calls, NEW est \in Estimates, Admit(c, est),
           NEW s \in Scopes
    PROVE  Exposure'[s] >= Exposure[s]
<1>t. TypeOK
    BY DEF IInv
<1>1. AmountOf(est) \in Nat
    BY InputTypes
<1>2. reserved' = AddIn(reserved, ScopesOf(est.slots), AmountOf(est)) /\ spent' = spent
    BY DEF Admit
<1>3. reserved'[s] = IF s \in ScopesOf(est.slots)
                     THEN reserved[s] + AmountOf(est) ELSE reserved[s]
    BY <1>1, <1>2, <1>t, AddInType DEF TypeOK
<1> QED
    BY <1>1, <1>2, <1>3, <1>t, ExposureDef

\* settle frees nothing: what it takes out of the reserved totals it adds to the spend.
LEMMA SettleFreesNothing ==
    ASSUME IInv, NEW c \in Calls, NEW event \in Events, Settle(c, event),
           NEW s \in Scopes
    PROVE  Exposure'[s] >= Exposure[s]
<1> DEFINE cost == CostOf(event)
           new == [res[c] EXCEPT !.unpriced = @ \/ IsUnpricedUsage(event)]
           S == ScopesOf(res[c].slots)
<1>t. TypeOK /\ ReservedMatchesHeld
    BY DEF IInv
<1>1. cost \in Nat /\ event.tokens \in Nat
    BY InputTypes
<1>2. res[c] \in Reservation /\ res[c].usd \in Nat
    BY <1>t DEF TypeOK, Reservation
<1>3. new \in Reservation /\ new.slots = res[c].slots
  <2>1. (res[c].unpriced \/ IsUnpricedUsage(event)) \in BOOLEAN
      BY DEF IsUnpricedUsage
  <2> QED
      BY <1>2, <2>1 DEF Reservation
<1>4. /\ spent' = AddIn(spent, S, cost)
      /\ Consume(c, cost, event.tokens, new) \/ reserved' = reserved
    BY DEF Settle
<1>5. spent'[s] = IF s \in S THEN spent[s] + cost ELSE spent[s]
    BY <1>1, <1>4, <1>t, AddInType DEF TypeOK
<1> HIDE DEF cost, new
<1>6. CASE Consume(c, cost, event.tokens, new)
  <2>1. \A z \in Scopes :
          reserved'[z] = IF z \in ScopesOf(res[c].slots)
                         THEN reserved[z] - MinOf(res[c].usd, cost)
                         ELSE reserved[z]
      BY <1>1, <1>3, <1>6, <1>t, ConsumeEffect
  <2>2. MinOf(res[c].usd, cost) \in Nat /\ MinOf(res[c].usd, cost) <= cost
      BY <1>1, <1>2, MinMax
  <2> QED
      BY <1>1, <1>5, <1>t, <2>1, <2>2, ExposureDef
<1>7. CASE reserved' = reserved
    BY <1>1, <1>5, <1>7, <1>t, ExposureDef
<1> QED
    BY <1>4, <1>6, <1>7

\* release frees what the reservation holds, and nothing after an unpriced attempt.
LEMMA ReleaseFrees ==
    ASSUME IInv, NEW c \in Calls, Release(c), NEW s \in Scopes,
           Exposure'[s] < Exposure[s]
    PROVE  /\ res[c].state = "open" /\ res'[c].state = "released"
           /\ ~res[c].unpriced
           /\ Exposure[s] - Exposure'[s] = res[c].usd
<1> DEFINE new == [res[c] EXCEPT !.state = "released"]
           S == ScopesOf(res[c].slots)
           kept == KeptAtRelease(res[c])
<1>t. TypeOK /\ ReservedMatchesHeld
    BY DEF IInv
<1>1. /\ res[c] \in Reservation /\ res[c].usd \in Nat /\ res[c].tokens \in Nat
      /\ res[c].unpriced \in BOOLEAN
    BY <1>t DEF TypeOK, Reservation
<1>2. new \in Reservation /\ new.slots = res[c].slots /\ new.state = "released"
    BY <1>1 DEF Reservation
<1>3. kept \in Nat /\ (res[c].unpriced => kept = res[c].usd)
                   /\ (~res[c].unpriced => kept = 0)
    BY <1>1 DEF KeptAtRelease
<1>4. /\ res[c].state = "open"
      /\ spent' = AddIn(spent, S, kept)
      /\ Consume(c, res[c].usd, res[c].tokens, new)
    BY DEF Release
<1>5. spent'[s] = IF s \in S THEN spent[s] + kept ELSE spent[s]
    BY <1>3, <1>4, <1>t, AddInType DEF TypeOK
<1>6. MinOf(res[c].usd, res[c].usd) = res[c].usd
    BY DEF MinOf
<1> HIDE DEF new, kept
<1>7. /\ res'[c].state = new.state
      /\ \A z \in Scopes :
           reserved'[z] = IF z \in ScopesOf(res[c].slots)
                          THEN reserved[z] - MinOf(res[c].usd, res[c].usd)
                          ELSE reserved[z]
    BY <1>1, <1>2, <1>4, <1>t, ConsumeEffect
<1>8. s \in S /\ Exposure[s] - Exposure'[s] = res[c].usd - kept /\ kept < res[c].usd
    BY <1>1, <1>3, <1>5, <1>6, <1>7, <1>t, ExposureDef
<1> QED
    BY <1>1, <1>2, <1>3, <1>4, <1>7, <1>8

\* What settle and release may hand back: exposure falls only at the release of a call
\* without unpriced attempts, by exactly what is left of its reservation.
THEOREM CapBudgetOnlyPricedReleaseFrees == Spec => OnlyPricedReleaseFreesExposure
<1>1. Spec => []IInv
    BY InitIInv, NextIInv, PTL DEF Spec
<1>2. IInv /\ [Next]_vars => [FreedByPricedRelease]_vars
  <2> SUFFICES ASSUME IInv, Next PROVE FreedByPricedRelease
      OBVIOUS
  <2> SUFFICES ASSUME NEW s \in Scopes, Exposure'[s] < Exposure[s]
               PROVE  \E c \in Calls :
                        /\ res[c].state = "open" /\ res'[c].state = "released"
                        /\ ~res[c].unpriced
                        /\ Exposure[s] - Exposure'[s] = res[c].usd
      BY DEF FreedByPricedRelease
  <2>1. Exposure[s] \in Int /\ ~(Exposure'[s] >= Exposure[s])
    <3>1. TypeOK' /\ TypeOK
        BY NextIInv DEF IInv
    <3>2. spent'[s] \in Nat /\ reserved'[s] \in Nat
        BY <3>1 DEF TypeOK
    <3> QED
        BY <3>1, <3>2, ExposureDef
  <2>2. PICK c \in Calls : Release(c)
      BY <2>1, AdmitFreesNothing, SettleFreesNothing DEF Next
  <2> QED
      BY <2>2, ReleaseFrees
<1> QED
    BY <1>1, <1>2, PTL DEF Spec, OnlyPricedReleaseFreesExposure
=============================================================================
