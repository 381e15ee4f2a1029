------------------------ MODULE SharedCapBudgetProofs ------------------------
(***************************************************************************)
(* SharedCapBudget implements CapBudget and keeps its caps, for any number *)
(* of processes, calls and crashes and any caps, estimates and attempts.   *)
(*                                                                         *)
(* The argument is about one database: what it means to a caller (Spent,   *)
(* Reserved and the rest below) does not change when leases expire, and    *)
(* changes as CapBudget does when a transaction changes one row.           *)
(***************************************************************************)
EXTENDS SharedCapBudget, BudgetLemmas, SequenceTheorems

\* The types of a row, of the database, and of a database in the middle of a sum.
Row ==
    [state : {"none", "open", "expired", "released"}, usd : Nat, tokens : Nat,
     slots : SUBSET Slots, unpriced : BOOLEAN, chargeUsd : Nat, chargeTokens : Nat]

Database == [rows : [Calls -> Row], spend : [Scopes -> Nat], tokens : Nat]

Totals == [rows : [Calls -> Row], spend : [Scopes -> Int], tokens : Int]

\* Only an open row reserves and only an expired one was charged by its expiry.
RowOK(row) ==
    /\ row.state # "open" => row.usd = 0 /\ row.tokens = 0
    /\ row.state # "expired" => row.chargeUsd = 0 /\ row.chargeTokens = 0

\* By call: what expiries charged and what is held, in scope s and in tokens.
ChargedFor(d, s) ==
    [c \in Calls |-> IF s \in ScopesOf(d.rows[c].slots) THEN d.rows[c].chargeUsd ELSE 0]

HeldFor(d, s) ==
    [c \in Calls |-> IF s \in ScopesOf(d.rows[c].slots) THEN UsdHeld(d.rows[c]) ELSE 0]

TokensChargedFor(d) == [c \in Calls |-> d.rows[c].chargeTokens]

TokensHeldFor(d) == [c \in Calls |-> TokensHeld(d.rows[c])]

\* What a caller sees: the refinement mapping, of a database d.
View(row) ==
    [state |-> IF row.state = "expired" THEN "open" ELSE row.state,
     usd |-> UsdHeld(row), tokens |-> TokensHeld(row),
     slots |-> row.slots, unpriced |-> row.unpriced]

Views(d) == [c \in Calls |-> View(d.rows[c])]

Spent(d) == [s \in Scopes |-> d.spend[s] - SumTo(ChargedFor(d, s), MaxCalls)]

Reserved(d) == [s \in Scopes |-> SumTo(HeldFor(d, s), MaxCalls)]

SpentTokens(d) == d.tokens - SumTo(TokensChargedFor(d), MaxCalls)

TokensReserved(d) == SumTo(TokensHeldFor(d), MaxCalls)

\* What expiries charged is part of the spend, in every scope.
DbOK(d) ==
    /\ d \in Database
    /\ \A c \in Calls : RowOK(d.rows[c])
    /\ \A s \in Scopes : d.spend[s] >= SumTo(ChargedFor(d, s), MaxCalls)
    /\ d.tokens >= SumTo(TokensChargedFor(d), MaxCalls)

-----------------------------------------------------------------------------
\* The amounts of a row, and what it holds, are naturals.
LEMMA RowTypes ==
    ASSUME NEW row \in Row
    PROVE  /\ row.usd \in Nat /\ row.tokens \in Nat
           /\ row.chargeUsd \in Nat /\ row.chargeTokens \in Nat
           /\ UsdHeld(row) \in Nat /\ TokensHeld(row) \in Nat
           /\ row.slots \in SUBSET Slots
BY DEF Row, UsdHeld, TokensHeld

\* Everything that is summed up over the calls is a natural.
LEMMA SummandTypes ==
    ASSUME NEW d \in Database, NEW c \in 1..MaxCalls
    PROVE  /\ \A s \in Scopes : ChargedFor(d, s)[c] \in Nat /\ HeldFor(d, s)[c] \in Nat
           /\ TokensChargedFor(d)[c] \in Nat /\ TokensHeldFor(d)[c] \in Nat
<1>1. d.rows[c] \in Row /\ c \in Calls
    BY DEF Database, Calls
<1> QED
    BY <1>1, RowTypes DEF ChargedFor, HeldFor, TokensChargedFor, TokensHeldFor

\* The sums are naturals, and what is held for a call is part of its sum.
LEMMA SumTypes ==
    ASSUME NEW d \in Database
    PROVE  /\ \A s \in Scopes : /\ SumTo(ChargedFor(d, s), MaxCalls) \in Int
                                /\ SumTo(HeldFor(d, s), MaxCalls) \in Int
           /\ SumTo(TokensChargedFor(d), MaxCalls) \in Int
           /\ SumTo(TokensHeldFor(d), MaxCalls) \in Int
<1>1. MaxCalls \in Nat
    BY BudgetAssumption
<1>2. ASSUME NEW s \in Scopes
      PROVE  SumTo(ChargedFor(d, s), MaxCalls) \in Int /\ SumTo(HeldFor(d, s), MaxCalls) \in Int
  <2>1. \A c \in 1..MaxCalls : ChargedFor(d, s)[c] \in Int /\ HeldFor(d, s)[c] \in Int
      BY SummandTypes
  <2> QED
      BY <1>1, <2>1, SumType
<1>3. \A c \in 1..MaxCalls : TokensChargedFor(d)[c] \in Int /\ TokensHeldFor(d)[c] \in Int
    BY SummandTypes
<1> QED
    BY <1>1, <1>2, <1>3, SumType

\* What a call holds is part of the reserved totals.
LEMMA HeldIsReserved ==
    ASSUME NEW d \in Database, NEW c \in Calls
    PROVE  /\ \A s \in ScopesOf(d.rows[c].slots) : Reserved(d)[s] >= UsdHeld(d.rows[c])
           /\ TokensReserved(d) >= TokensHeld(d.rows[c])
<1>1. MaxCalls \in Nat /\ c \in 1..MaxCalls
    BY BudgetAssumption DEF Calls
<1>2. ASSUME NEW s \in ScopesOf(d.rows[c].slots)
      PROVE  Reserved(d)[s] >= UsdHeld(d.rows[c])
  <2>1. s \in Scopes
      BY DEF Database, Row, ScopesOf, Scopes
  <2>2. \A i \in 1..MaxCalls : HeldFor(d, s)[i] \in Nat
      BY <2>1, SummandTypes
  <2>3. SumTo(HeldFor(d, s), MaxCalls) >= HeldFor(d, s)[c]
      BY <1>1, <2>2, SumBound
  <2>4. HeldFor(d, s)[c] = UsdHeld(d.rows[c])
      BY DEF HeldFor
  <2> QED
      BY <2>1, <2>3, <2>4 DEF Reserved
<1>3. TokensReserved(d) >= TokensHeld(d.rows[c])
  <2>1. \A i \in 1..MaxCalls : TokensHeldFor(d)[i] \in Nat
      BY SummandTypes
  <2>2. SumTo(TokensHeldFor(d), MaxCalls) >= TokensHeldFor(d)[c]
      BY <1>1, <2>1, SumBound
  <2> QED
      BY <2>2 DEF TokensHeldFor, TokensReserved
<1> QED
    BY <1>2, <1>3

\* A database that differs in one row: the sums differ by what that row differs in.
LEMMA OneRowSums ==
    ASSUME NEW d \in Database, NEW rows \in [Calls -> Row], NEW c \in Calls,
           \A b \in Calls : b # c => rows[b] = d.rows[b],
           NEW e, e.rows = rows
    PROVE  /\ \A s \in Scopes :
                /\ SumTo(ChargedFor(e, s), MaxCalls) = SumTo(ChargedFor(d, s), MaxCalls)
                                         + (ChargedFor(e, s)[c] - ChargedFor(d, s)[c])
                /\ SumTo(HeldFor(e, s), MaxCalls) = SumTo(HeldFor(d, s), MaxCalls)
                                         + (HeldFor(e, s)[c] - HeldFor(d, s)[c])
           /\ SumTo(TokensChargedFor(e), MaxCalls) = SumTo(TokensChargedFor(d), MaxCalls)
                                         + (rows[c].chargeTokens - d.rows[c].chargeTokens)
           /\ SumTo(TokensHeldFor(e), MaxCalls) = SumTo(TokensHeldFor(d), MaxCalls)
                                         + (TokensHeld(rows[c]) - TokensHeld(d.rows[c]))
<1>1. MaxCalls \in Nat /\ c \in 1..MaxCalls
    BY BudgetAssumption DEF Calls
<1>2. \A i \in 1..MaxCalls : rows[i] \in Row /\ d.rows[i] \in Row /\ i \in Calls
                             /\ (i # c => rows[i] = d.rows[i])
    BY DEF Calls, Database
<1>3. ASSUME NEW s \in Scopes
      PROVE  SumTo(ChargedFor(e, s), MaxCalls) = SumTo(ChargedFor(d, s), MaxCalls)
                                         + (ChargedFor(e, s)[c] - ChargedFor(d, s)[c])
  <2> DEFINE f == ChargedFor(d, s)
             g == ChargedFor(e, s)
  <2>1. \A i \in 1..MaxCalls : f[i] \in Int /\ g[i] \in Int /\ (i # c => g[i] = f[i])
      BY <1>2, RowTypes DEF ChargedFor
  <2> HIDE DEF f, g
  <2> QED
      BY <1>1, <2>1, SumUpdate DEF f, g
<1>4. ASSUME NEW s \in Scopes
      PROVE  SumTo(HeldFor(e, s), MaxCalls) = SumTo(HeldFor(d, s), MaxCalls)
                                         + (HeldFor(e, s)[c] - HeldFor(d, s)[c])
  <2> DEFINE f == HeldFor(d, s)
             g == HeldFor(e, s)
  <2>1. \A i \in 1..MaxCalls : f[i] \in Int /\ g[i] \in Int /\ (i # c => g[i] = f[i])
      BY <1>2, RowTypes DEF HeldFor
  <2> HIDE DEF f, g
  <2> QED
      BY <1>1, <2>1, SumUpdate DEF f, g
<1>5. SumTo(TokensChargedFor(e), MaxCalls) = SumTo(TokensChargedFor(d), MaxCalls)
                                         + (rows[c].chargeTokens - d.rows[c].chargeTokens)
  <2> DEFINE f == TokensChargedFor(d)
             g == TokensChargedFor(e)
  <2>1. \A i \in 1..MaxCalls : f[i] \in Int /\ g[i] \in Int /\ (i # c => g[i] = f[i])
      BY <1>2, RowTypes DEF TokensChargedFor
  <2>2. f[c] = d.rows[c].chargeTokens /\ g[c] = rows[c].chargeTokens
      BY DEF TokensChargedFor
  <2> HIDE DEF f, g
  <2>3. SumTo(g, MaxCalls) = SumTo(f, MaxCalls) + (g[c] - f[c])
      BY <1>1, <2>1, SumUpdate
  <2> QED
      BY <2>2, <2>3 DEF f, g
<1>6. SumTo(TokensHeldFor(e), MaxCalls) = SumTo(TokensHeldFor(d), MaxCalls)
                                         + (TokensHeld(rows[c]) - TokensHeld(d.rows[c]))
  <2> DEFINE f == TokensHeldFor(d)
             g == TokensHeldFor(e)
  <2>1. \A i \in 1..MaxCalls : f[i] \in Int /\ g[i] \in Int /\ (i # c => g[i] = f[i])
      BY <1>2, RowTypes DEF TokensHeldFor
  <2>2. f[c] = TokensHeld(d.rows[c]) /\ g[c] = TokensHeld(rows[c])
      BY DEF TokensHeldFor
  <2> HIDE DEF f, g
  <2>3. SumTo(g, MaxCalls) = SumTo(f, MaxCalls) + (g[c] - f[c])
      BY <1>1, <2>1, SumUpdate
  <2> QED
      BY <2>2, <2>3 DEF f, g
<1> QED
    BY <1>3, <1>4, <1>5, <1>6

\* A sum of naturals over the calls is a natural.
LEMMA SumNat ==
    ASSUME NEW f, \A i \in 1..MaxCalls : f[i] \in Nat
    PROVE  SumTo(f, MaxCalls) \in Nat
<1>1. MaxCalls \in Nat
    BY BudgetAssumption
<1>2. CASE MaxCalls = 0
    BY <1>1, <1>2, SumZero
<1>3. CASE MaxCalls # 0
  <2>1. 1 \in 1..MaxCalls
      BY <1>1, <1>3
  <2> QED
      BY <1>1, <2>1, SumBound
<1> QED
    BY <1>2, <1>3

\* A transaction changes the row of c, and charges usd and tokens to its scopes.
Rewrites(d, e, c, row, usd, tokens) ==
    /\ e \in Totals
    /\ e.rows = [d.rows EXCEPT ![c] = row]
    /\ e.spend = AddIn(d.spend, ScopesOf(row.slots), usd)
    /\ e.tokens = d.tokens + tokens

\* To a caller, the spend and the reservations move by what the row differs in.
MovesBy(d, e, c, row, usd, tokens) ==
    /\ \A b \in Calls : e.rows[b] = IF b = c THEN row ELSE d.rows[b]
    /\ Views(e) = [Views(d) EXCEPT ![c] = View(row)]
    /\ \A s \in Scopes :
         /\ Spent(e)[s] = IF s \in ScopesOf(row.slots)
                          THEN Spent(d)[s] + (usd + d.rows[c].chargeUsd - row.chargeUsd)
                          ELSE Spent(d)[s]
         /\ Reserved(e)[s] = IF s \in ScopesOf(row.slots)
                             THEN Reserved(d)[s] + (UsdHeld(row) - UsdHeld(d.rows[c]))
                             ELSE Reserved(d)[s]
    /\ SpentTokens(e) = SpentTokens(d)
                        + (tokens + d.rows[c].chargeTokens - row.chargeTokens)
    /\ TokensReserved(e) = TokensReserved(d)
                        + (TokensHeld(row) - TokensHeld(d.rows[c]))

\* As long as the spend grows by what the row is no longer charged, the database stays
\* consistent.
LEMMA RowStep ==
    ASSUME NEW d, DbOK(d), NEW c \in Calls, NEW row \in Row, RowOK(row),
           row.slots = d.rows[c].slots \/ d.rows[c].state = "none",
           NEW usd \in Int, usd + d.rows[c].chargeUsd >= row.chargeUsd,
           NEW tokens \in Int, tokens + d.rows[c].chargeTokens >= row.chargeTokens,
           NEW e, Rewrites(d, e, c, row, usd, tokens)
    PROVE  DbOK(e) /\ MovesBy(d, e, c, row, usd, tokens)
<1> DEFINE rows == [d.rows EXCEPT ![c] = row]
<1>1. d \in Database /\ d.rows \in [Calls -> Row] /\ d.spend \in [Scopes -> Nat] /\ d.tokens \in Nat
    BY DEF DbOK, Database
<1>2. /\ rows \in [Calls -> Row] /\ rows[c] = row
      /\ \A b \in Calls : b # c => rows[b] = d.rows[b]
    BY <1>1
<1>3. /\ e.rows = rows /\ e.spend = AddIn(d.spend, ScopesOf(row.slots), usd)
      /\ e.tokens = d.tokens + tokens /\ e \in Totals
    BY DEF Rewrites
<1> HIDE DEF rows
<1>4. d.rows[c] \in Row /\ RowOK(d.rows[c])
    BY <1>1 DEF DbOK
<1>5. /\ \A s \in Scopes :
           /\ SumTo(ChargedFor(e, s), MaxCalls) = SumTo(ChargedFor(d, s), MaxCalls)
                                    + (ChargedFor(e, s)[c] - ChargedFor(d, s)[c])
           /\ SumTo(HeldFor(e, s), MaxCalls) = SumTo(HeldFor(d, s), MaxCalls)
                                    + (HeldFor(e, s)[c] - HeldFor(d, s)[c])
      /\ SumTo(TokensChargedFor(e), MaxCalls) = SumTo(TokensChargedFor(d), MaxCalls)
                                    + (rows[c].chargeTokens - d.rows[c].chargeTokens)
      /\ SumTo(TokensHeldFor(e), MaxCalls) = SumTo(TokensHeldFor(d), MaxCalls)
                                    + (TokensHeld(rows[c]) - TokensHeld(d.rows[c]))
    BY <1>1, <1>2, <1>3, OneRowSums
<1>6. ASSUME NEW s \in Scopes
      PROVE  /\ ChargedFor(e, s)[c] = IF s \in ScopesOf(row.slots) THEN row.chargeUsd ELSE 0
             /\ HeldFor(e, s)[c] = IF s \in ScopesOf(row.slots) THEN UsdHeld(row) ELSE 0
             /\ ChargedFor(d, s)[c] = IF s \in ScopesOf(row.slots) THEN d.rows[c].chargeUsd ELSE 0
             /\ HeldFor(d, s)[c] = IF s \in ScopesOf(row.slots) THEN UsdHeld(d.rows[c]) ELSE 0
  <2>1. d.rows[c].state = "none" => d.rows[c].chargeUsd = 0 /\ UsdHeld(d.rows[c]) = 0
      BY <1>4 DEF RowOK, UsdHeld
  <2> QED
      BY <1>2, <1>3, <2>1 DEF ChargedFor, HeldFor
<1>7. \A s \in Scopes : AddIn(d.spend, ScopesOf(row.slots), usd)[s] =
                          IF s \in ScopesOf(row.slots) THEN d.spend[s] + usd ELSE d.spend[s]
    BY DEF AddIn
<1>8. /\ row.chargeUsd \in Nat /\ row.chargeTokens \in Nat
      /\ UsdHeld(row) \in Nat /\ TokensHeld(row) \in Nat
      /\ d.rows[c].chargeUsd \in Nat /\ d.rows[c].chargeTokens \in Nat
      /\ UsdHeld(d.rows[c]) \in Nat /\ TokensHeld(d.rows[c]) \in Nat
    BY <1>4, RowTypes
<1>9. /\ \A s \in Scopes : /\ SumTo(ChargedFor(d, s), MaxCalls) \in Int
                           /\ SumTo(HeldFor(d, s), MaxCalls) \in Int
                           /\ d.spend[s] \in Nat
                           /\ d.spend[s] >= SumTo(ChargedFor(d, s), MaxCalls)
      /\ SumTo(TokensChargedFor(d), MaxCalls) \in Int
      /\ SumTo(TokensHeldFor(d), MaxCalls) \in Int
      /\ d.tokens >= SumTo(TokensChargedFor(d), MaxCalls)
    BY <1>1, SumTypes DEF DbOK
<1>10. ASSUME NEW s \in Scopes
       PROVE  /\ e.spend[s] \in Nat /\ e.spend[s] >= SumTo(ChargedFor(e, s), MaxCalls)
              /\ Spent(e)[s] = IF s \in ScopesOf(row.slots)
                               THEN Spent(d)[s] + (usd + d.rows[c].chargeUsd - row.chargeUsd)
                               ELSE Spent(d)[s]
              /\ Reserved(e)[s] = IF s \in ScopesOf(row.slots)
                                  THEN Reserved(d)[s] + (UsdHeld(row) - UsdHeld(d.rows[c]))
                                  ELSE Reserved(d)[s]
  <2> DEFINE ce == SumTo(ChargedFor(e, s), MaxCalls)
             cd == SumTo(ChargedFor(d, s), MaxCalls)
             he == SumTo(HeldFor(e, s), MaxCalls)
             hd == SumTo(HeldFor(d, s), MaxCalls)
  <2>1. \A i \in 1..MaxCalls : ChargedFor(e, s)[i] \in Nat
      BY <1>2, <1>3, RowTypes DEF ChargedFor, Calls
  <2>2. ce \in Nat
      BY <2>1, SumNat
  <2>3. ce = cd + (ChargedFor(e, s)[c] - ChargedFor(d, s)[c])
        /\ he = hd + (HeldFor(e, s)[c] - HeldFor(d, s)[c])
      BY <1>5
  <2>4. e.spend[s] = IF s \in ScopesOf(row.slots) THEN d.spend[s] + usd ELSE d.spend[s]
      BY <1>3, <1>7
  <2>5. cd \in Int /\ hd \in Int /\ d.spend[s] \in Nat /\ d.spend[s] >= cd
      BY <1>9
  <2>6. Spent(e)[s] = e.spend[s] - ce /\ Spent(d)[s] = d.spend[s] - cd
        /\ Reserved(e)[s] = he /\ Reserved(d)[s] = hd
      BY DEF Spent, Reserved
  <2> HIDE DEF ce, cd, he, hd
  <2>7. e.spend[s] \in Nat /\ e.spend[s] >= ce
      BY <1>6, <1>8, <2>2, <2>3, <2>4, <2>5
  <2>8. /\ Spent(e)[s] = IF s \in ScopesOf(row.slots)
                         THEN Spent(d)[s] + (usd + d.rows[c].chargeUsd - row.chargeUsd)
                         ELSE Spent(d)[s]
        /\ Reserved(e)[s] = IF s \in ScopesOf(row.slots)
                            THEN Reserved(d)[s] + (UsdHeld(row) - UsdHeld(d.rows[c]))
                            ELSE Reserved(d)[s]
      BY <1>6, <1>8, <2>2, <2>3, <2>4, <2>5, <2>6
  <2> QED
      BY <2>7, <2>8 DEF ce
<1>11. /\ e.tokens \in Nat /\ e.tokens >= SumTo(TokensChargedFor(e), MaxCalls)
       /\ SpentTokens(e) = SpentTokens(d)
                           + (tokens + d.rows[c].chargeTokens - row.chargeTokens)
       /\ TokensReserved(e) = TokensReserved(d)
                           + (TokensHeld(row) - TokensHeld(d.rows[c]))
  <2>1. \A i \in 1..MaxCalls : TokensChargedFor(e)[i] \in Nat
      BY <1>2, <1>3, RowTypes DEF TokensChargedFor, Calls
  <2>2. SumTo(TokensChargedFor(e), MaxCalls) \in Nat
      BY <2>1, SumNat
  <2> QED
      BY <1>1, <1>2, <1>3, <1>5, <1>8, <1>9, <2>2 DEF SpentTokens, TokensReserved
<1>12. DbOK(e)
  <2>1. e.spend \in [Scopes -> Nat]
      BY <1>3, <1>10 DEF AddIn
  <2>2. e \in Database
      BY <1>2, <1>3, <1>11, <2>1 DEF Database, Totals
  <2>3. \A b \in Calls : RowOK(e.rows[b])
      BY <1>2, <1>3 DEF DbOK
  <2> QED
      BY <1>10, <1>11, <2>2, <2>3 DEF DbOK
<1>13. Views(e) = [Views(d) EXCEPT ![c] = View(row)]
    BY <1>2, <1>3 DEF Views
<1> QED
    BY <1>2, <1>3, <1>10, <1>11, <1>12, <1>13 DEF MovesBy

-----------------------------------------------------------------------------
\* An expired row: what it held is what it was charged, and all a caller sees.
LEMMA ExpiredRowOK ==
    ASSUME NEW row \in Row, RowOK(row), row.state = "open"
    PROVE  LET x == ExpiredRow(row)
           IN  /\ x \in Row /\ RowOK(x) /\ x.state = "expired" /\ x.slots = row.slots
               /\ x.chargeUsd = row.usd /\ x.chargeTokens = row.tokens
               /\ row.chargeUsd = 0 /\ row.chargeTokens = 0
               /\ UsdHeld(x) = UsdHeld(row) /\ TokensHeld(x) = TokensHeld(row)
               /\ View(x) = View(row)
<1>1. ExpiredRow(row) \in Row
    BY DEF Row, ExpiredRow
<1>2. /\ ExpiredRow(row).state = "expired" /\ ExpiredRow(row).slots = row.slots
      /\ ExpiredRow(row).usd = 0 /\ ExpiredRow(row).tokens = 0
      /\ ExpiredRow(row).chargeUsd = row.usd /\ ExpiredRow(row).chargeTokens = row.tokens
      /\ ExpiredRow(row).unpriced = row.unpriced
    BY DEF Row, ExpiredRow
<1> QED
    BY <1>1, <1>2 DEF RowOK, UsdHeld, TokensHeld, View

\* Marking leases that are over changes nothing for a caller of the budget.
LEMMA ExpireOK ==
    ASSUME NEW d, DbOK(d), NEW now, NEW e, e = Expire(d, now)
    PROVE  /\ DbOK(e)
           /\ Views(e) = Views(d) /\ Spent(e) = Spent(d) /\ Reserved(e) = Reserved(d)
           /\ SpentTokens(e) = SpentTokens(d) /\ TokensReserved(e) = TokensReserved(d)
           /\ \A c \in Calls : /\ e.rows[c].state = "none" <=> d.rows[c].state = "none"
                               /\ e.rows[c].slots = d.rows[c].slots
           /\ OpenRows(e) = OpenRows(d) \ now
<1> DEFINE S == OpenRows(d) \cap now
<1>1. d \in Database /\ d.rows \in [Calls -> Row] /\ d.spend \in [Scopes -> Nat] /\ d.tokens \in Nat
    BY DEF DbOK, Database
<1>2. /\ e.rows = [c \in Calls |-> IF c \in S THEN ExpiredRow(d.rows[c]) ELSE d.rows[c]]
      /\ e.spend = [s \in Scopes |-> d.spend[s] + SumTo(HeldBy(d, S, s), MaxCalls)]
      /\ e.tokens = d.tokens + SumTo(TokensBy(d, S), MaxCalls)
      /\ e = [rows |-> e.rows, spend |-> e.spend, tokens |-> e.tokens]
    BY DEF Expire, ExpiryCharge
<1>3. ASSUME NEW c \in Calls
      PROVE  /\ d.rows[c] \in Row /\ RowOK(d.rows[c])
             /\ c \in S => d.rows[c].state = "open" /\ e.rows[c] = ExpiredRow(d.rows[c])
             /\ c \notin S => e.rows[c] = d.rows[c]
    BY <1>1, <1>2 DEF DbOK, OpenRows
<1>x. S \subseteq Calls
    BY DEF OpenRows
<1> HIDE DEF S
<1>4. ASSUME NEW c \in Calls
      PROVE  /\ e.rows[c] \in Row /\ RowOK(e.rows[c])
             /\ e.rows[c].slots = d.rows[c].slots
             /\ e.rows[c].chargeUsd = d.rows[c].chargeUsd
                                      + IF c \in S THEN d.rows[c].usd ELSE 0
             /\ e.rows[c].chargeTokens = d.rows[c].chargeTokens
                                         + IF c \in S THEN d.rows[c].tokens ELSE 0
             /\ UsdHeld(e.rows[c]) = UsdHeld(d.rows[c])
             /\ TokensHeld(e.rows[c]) = TokensHeld(d.rows[c])
             /\ View(e.rows[c]) = View(d.rows[c])
             /\ e.rows[c].state = IF c \in S THEN "expired" ELSE d.rows[c].state
  <2>1. CASE c \in S
    <3>1. d.rows[c].usd \in Nat /\ d.rows[c].tokens \in Nat
        BY <1>3, RowTypes
    <3> QED
        BY <1>3, <2>1, <3>1, ExpiredRowOK
  <2>2. CASE c \notin S
    <3>1. d.rows[c].chargeUsd \in Nat /\ d.rows[c].chargeTokens \in Nat
        BY <1>3, RowTypes
    <3> QED
        BY <1>3, <2>2, <3>1
  <2> QED
      BY <2>1, <2>2
<1>5. MaxCalls \in Nat
    BY BudgetAssumption
<1>6. ASSUME NEW s \in Scopes
      PROVE  /\ SumTo(ChargedFor(e, s), MaxCalls) = SumTo(ChargedFor(d, s), MaxCalls)
                                                    + SumTo(HeldBy(d, S, s), MaxCalls)
             /\ SumTo(HeldFor(e, s), MaxCalls) = SumTo(HeldFor(d, s), MaxCalls)
             /\ SumTo(HeldBy(d, S, s), MaxCalls) \in Nat
  <2> DEFINE f == ChargedFor(d, s)
             g == HeldBy(d, S, s)
             h == ChargedFor(e, s)
             x == HeldFor(d, s)
             y == HeldFor(e, s)
  <2>1. \A i \in 1..MaxCalls : f[i] \in Nat /\ x[i] \in Nat
      BY <1>1, SummandTypes
  <2>2. \A i \in 1..MaxCalls : g[i] \in Nat /\ h[i] = f[i] + g[i]
    <3> SUFFICES ASSUME NEW i \in 1..MaxCalls PROVE g[i] \in Nat /\ h[i] = f[i] + g[i]
        OBVIOUS
    <3>1. i \in Calls
        BY DEF Calls
    <3>2. d.rows[i].usd \in Nat /\ d.rows[i].chargeUsd \in Nat
        BY <1>3, <3>1, RowTypes
    <3>3. h[i] = IF s \in ScopesOf(d.rows[i].slots)
                 THEN d.rows[i].chargeUsd + IF i \in S THEN d.rows[i].usd ELSE 0 ELSE 0
        BY <1>4, <3>1 DEF ChargedFor
    <3>4. g[i] = IF i \in S /\ s \in ScopesOf(d.rows[i].slots) THEN d.rows[i].usd ELSE 0
        BY <3>1 DEF HeldBy
    <3>5. f[i] = IF s \in ScopesOf(d.rows[i].slots) THEN d.rows[i].chargeUsd ELSE 0
        BY <3>1 DEF ChargedFor
    <3> QED
        BY <3>2, <3>3, <3>4, <3>5
  <2>3. \A i \in 1..MaxCalls : y[i] = x[i]
      BY <1>4 DEF HeldFor, Calls
  <2> HIDE DEF f, g, h, x, y
  <2>4. \A i \in 1..MaxCalls : f[i] \in Int /\ g[i] \in Int /\ x[i] \in Int
      BY <2>1, <2>2
  <2>5. SumTo(h, MaxCalls) = SumTo(f, MaxCalls) + SumTo(g, MaxCalls)
      BY <1>5, <2>2, <2>4, SumAdd
  <2>6. SumTo(y, MaxCalls) = SumTo(x, MaxCalls)
      BY <1>5, <2>3, <2>4, SumEqual
  <2>7. SumTo(g, MaxCalls) \in Nat
      BY <2>2, SumNat
  <2> QED
      BY <2>5, <2>6, <2>7 DEF f, g, h, x, y
<1>7. /\ SumTo(TokensChargedFor(e), MaxCalls) = SumTo(TokensChargedFor(d), MaxCalls)
                                                + SumTo(TokensBy(d, S), MaxCalls)
      /\ SumTo(TokensHeldFor(e), MaxCalls) = SumTo(TokensHeldFor(d), MaxCalls)
      /\ SumTo(TokensBy(d, S), MaxCalls) \in Nat
  <2> DEFINE f == TokensChargedFor(d)
             g == TokensBy(d, S)
             h == TokensChargedFor(e)
             x == TokensHeldFor(d)
             y == TokensHeldFor(e)
  <2>1. \A i \in 1..MaxCalls : f[i] \in Nat /\ x[i] \in Nat
      BY <1>1, SummandTypes
  <2>2. \A i \in 1..MaxCalls : g[i] \in Nat /\ h[i] = f[i] + g[i] /\ y[i] = x[i]
    <3> SUFFICES ASSUME NEW i \in 1..MaxCalls
                 PROVE  g[i] \in Nat /\ h[i] = f[i] + g[i] /\ y[i] = x[i]
        OBVIOUS
    <3>1. i \in Calls
        BY DEF Calls
    <3>2. d.rows[i].tokens \in Nat /\ d.rows[i].chargeTokens \in Nat
        BY <1>3, <3>1, RowTypes
    <3>3. h[i] = d.rows[i].chargeTokens + IF i \in S THEN d.rows[i].tokens ELSE 0
        BY <1>4, <3>1 DEF TokensChargedFor
    <3>4. g[i] = IF i \in S THEN d.rows[i].tokens ELSE 0
        BY <3>1 DEF TokensBy
    <3>5. f[i] = d.rows[i].chargeTokens
        BY <3>1 DEF TokensChargedFor
    <3>6. y[i] = x[i]
        BY <1>4, <3>1 DEF TokensHeldFor
    <3> QED
        BY <3>2, <3>3, <3>4, <3>5, <3>6
  <2> HIDE DEF f, g, h, x, y
  <2>4. \A i \in 1..MaxCalls : f[i] \in Int /\ g[i] \in Int /\ x[i] \in Int
      BY <2>1, <2>2
  <2>5. SumTo(h, MaxCalls) = SumTo(f, MaxCalls) + SumTo(g, MaxCalls)
      BY <1>5, <2>2, <2>4, SumAdd
  <2>6. SumTo(y, MaxCalls) = SumTo(x, MaxCalls)
      BY <1>5, <2>2, <2>4, SumEqual
  <2>7. SumTo(g, MaxCalls) \in Nat
      BY <2>2, SumNat
  <2> QED
      BY <2>5, <2>6, <2>7 DEF f, g, h, x, y
<1>8. /\ \A s \in Scopes : /\ SumTo(ChargedFor(d, s), MaxCalls) \in Int
                           /\ d.spend[s] \in Nat
                           /\ d.spend[s] >= SumTo(ChargedFor(d, s), MaxCalls)
      /\ SumTo(TokensChargedFor(d), MaxCalls) \in Int
      /\ d.tokens >= SumTo(TokensChargedFor(d), MaxCalls)
    BY <1>1, SumTypes DEF DbOK
<1>9. ASSUME NEW s \in Scopes
      PROVE  /\ e.spend[s] \in Nat
             /\ e.spend[s] >= SumTo(ChargedFor(e, s), MaxCalls)
             /\ e.spend[s] - SumTo(ChargedFor(e, s), MaxCalls)
                  = d.spend[s] - SumTo(ChargedFor(d, s), MaxCalls)
  <2>1. e.spend[s] = d.spend[s] + SumTo(HeldBy(d, S, s), MaxCalls)
      BY <1>2
  <2> QED
      BY <1>6, <1>8, <2>1
<1>10. DbOK(e)
  <2>1. e.rows \in [Calls -> Row] /\ e.spend \in [Scopes -> Nat] /\ e.tokens \in Nat
      BY <1>1, <1>2, <1>4, <1>7, <1>9
  <2>2. e \in Database
      BY <1>2, <2>1 DEF Database
  <2>3. e.tokens >= SumTo(TokensChargedFor(e), MaxCalls)
      BY <1>1, <1>2, <1>7, <1>8
  <2> QED
      BY <1>4, <1>9, <2>2, <2>3 DEF DbOK
<1>11. Views(e) = Views(d)
    BY <1>4 DEF Views
<1>12. Spent(e) = Spent(d) /\ Reserved(e) = Reserved(d)
    BY <1>6, <1>9 DEF Spent, Reserved
<1>13. SpentTokens(e) = SpentTokens(d) /\ TokensReserved(e) = TokensReserved(d)
    BY <1>1, <1>2, <1>7, <1>8 DEF SpentTokens, TokensReserved
<1>14. OpenRows(e) = OpenRows(d) \ now
    BY <1>4 DEF OpenRows, S
<1>15. \A c \in Calls : e.rows[c].state = "none" <=> d.rows[c].state = "none"
    BY <1>3, <1>4
<1> QED
    BY <1>4, <1>10, <1>11, <1>12, <1>13, <1>14, <1>15

-----------------------------------------------------------------------------
\* What an admission totals up is what a caller sees as spent and reserved.
LEMMA ExposureAgrees ==
    ASSUME NEW d, DbOK(d)
    PROVE  /\ ExposureOf(d) = [s \in Scopes |-> Spent(d)[s] + Reserved(d)[s]]
           /\ TokensUsed(d) = SpentTokens(d) + TokensReserved(d)
<1>1. d \in Database /\ d.rows \in [Calls -> Row] /\ d.spend \in [Scopes -> Nat] /\ d.tokens \in Nat
    BY DEF DbOK, Database
<1>2. MaxCalls \in Nat
    BY BudgetAssumption
<1>3. ASSUME NEW i \in 1..MaxCalls
      PROVE  LET row == d.rows[i]
             IN  /\ i \in Calls /\ row.usd \in Nat /\ row.tokens \in Nat
                 /\ row.chargeUsd \in Nat /\ row.chargeTokens \in Nat
                 /\ UsdHeld(row) = row.chargeUsd + IF row.state = "open" THEN row.usd ELSE 0
                 /\ TokensHeld(row) = row.chargeTokens
                                      + IF row.state = "open" THEN row.tokens ELSE 0
  <2>1. i \in Calls /\ d.rows[i] \in Row /\ RowOK(d.rows[i])
      BY <1>1 DEF Calls, DbOK
  <2> QED
      BY <2>1, RowTypes DEF RowOK, UsdHeld, TokensHeld
<1>4. ASSUME NEW s \in Scopes
      PROVE  d.spend[s] + SumTo(HeldBy(d, OpenRows(d), s), MaxCalls) = Spent(d)[s] + Reserved(d)[s]
  <2> DEFINE f == ChargedFor(d, s)
             g == HeldBy(d, OpenRows(d), s)
             h == HeldFor(d, s)
  <2>1. \A i \in 1..MaxCalls : f[i] \in Int /\ g[i] \in Int /\ h[i] = f[i] + g[i]
      BY <1>3 DEF ChargedFor, HeldBy, HeldFor, OpenRows
  <2>2. Spent(d)[s] = d.spend[s] - SumTo(f, MaxCalls) /\ Reserved(d)[s] = SumTo(h, MaxCalls)
      BY DEF Spent, Reserved
  <2> HIDE DEF f, g, h
  <2>3. SumTo(h, MaxCalls) = SumTo(f, MaxCalls) + SumTo(g, MaxCalls)
      BY <1>2, <2>1, SumAdd
  <2>4. SumTo(f, MaxCalls) \in Int /\ SumTo(g, MaxCalls) \in Int /\ d.spend[s] \in Nat
      BY <1>1, <1>2, <2>1, SumType
  <2>5. d.spend[s] + SumTo(g, MaxCalls) = Spent(d)[s] + Reserved(d)[s]
      BY <2>2, <2>3, <2>4
  <2> QED
      BY <2>5 DEF g
<1>5. TokensUsed(d) = SpentTokens(d) + TokensReserved(d)
  <2> DEFINE f == TokensChargedFor(d)
             g == TokensBy(d, OpenRows(d))
             h == TokensHeldFor(d)
  <2>1. \A i \in 1..MaxCalls : f[i] \in Int /\ g[i] \in Int /\ h[i] = f[i] + g[i]
      BY <1>3 DEF TokensChargedFor, TokensBy, TokensHeldFor, OpenRows
  <2>2. SpentTokens(d) = d.tokens - SumTo(f, MaxCalls) /\ TokensReserved(d) = SumTo(h, MaxCalls)
        /\ TokensUsed(d) = d.tokens + SumTo(g, MaxCalls)
      BY DEF SpentTokens, TokensReserved, TokensUsed
  <2> HIDE DEF f, g, h
  <2>3. SumTo(h, MaxCalls) = SumTo(f, MaxCalls) + SumTo(g, MaxCalls)
      BY <1>2, <2>1, SumAdd
  <2>4. SumTo(f, MaxCalls) \in Int /\ SumTo(g, MaxCalls) \in Int
      BY <1>2, <2>1, SumType
  <2> QED
      BY <1>1, <2>2, <2>3, <2>4
<1> QED
    BY <1>4, <1>5 DEF ExposureOf

\* A row is replaced, and its scopes charged.
LEMMA ChargeIs ==
    ASSUME NEW d \in Database, NEW c \in Calls, NEW row \in Row, NEW usd \in Int,
           NEW tokens \in Int,
           NEW e, e = Charge([d EXCEPT !.rows[c] = row], usd, tokens, row.slots)
    PROVE  Rewrites(d, e, c, row, usd, tokens)
<1> DEFINE x == [d EXCEPT !.rows[c] = row]
<1>1. d.rows \in [Calls -> Row] /\ d.spend \in [Scopes -> Nat] /\ d.tokens \in Nat
    BY DEF Database
<1>2. x \in Database /\ x.rows = [d.rows EXCEPT ![c] = row]
      /\ x.spend = d.spend /\ x.tokens = d.tokens
    BY <1>1 DEF Database
<1> HIDE DEF x
<1>3. AddIn(d.spend, ScopesOf(row.slots), usd) \in [Scopes -> Int] /\ d.tokens + tokens \in Int
    BY <1>1 DEF AddIn
<1>4. e = [x EXCEPT !.spend = AddIn(d.spend, ScopesOf(row.slots), usd), !.tokens = d.tokens + tokens]
    BY <1>2 DEF Charge, x
<1> QED
    BY <1>2, <1>3, <1>4 DEF Database, Totals, Rewrites

\* _apply_settle, to a caller: the cost is spent, as much of it as is held is taken out
\* of the reservation of an unreleased call.
SettlesBy(d, e, c, cost, tokens, unpriced) ==
    LET r == View(d.rows[c])
        takeUsd == IF r.state = "open" THEN MinOf(r.usd, cost) ELSE 0
        takeTokens == IF r.state = "open" THEN MinOf(r.tokens, tokens) ELSE 0
    IN  /\ \A b \in Calls : e.rows[b].state = d.rows[b].state
        /\ Views(e) = [Views(d) EXCEPT ![c] =
                         [state |-> r.state, usd |-> r.usd - takeUsd,
                          tokens |-> r.tokens - takeTokens, slots |-> r.slots,
                          unpriced |-> r.unpriced \/ unpriced]]
        /\ \A s \in Scopes :
             /\ Spent(e)[s] = IF s \in ScopesOf(r.slots)
                              THEN Spent(d)[s] + cost ELSE Spent(d)[s]
             /\ Reserved(e)[s] = IF s \in ScopesOf(r.slots)
                                 THEN Reserved(d)[s] - takeUsd ELSE Reserved(d)[s]
        /\ SpentTokens(e) = SpentTokens(d) + tokens
        /\ TokensReserved(e) = TokensReserved(d) - takeTokens

\* A settlement changes what a caller sees as SettlesBy says, expired row or not.
LEMMA SettleEffect ==
    ASSUME NEW d, DbOK(d), NEW c \in Calls, d.rows[c].state # "none",
           NEW cost \in Nat, NEW tokens \in Nat, NEW unpriced \in BOOLEAN,
           NEW op, op.id = c, op.tokens = tokens, op.unpriced = unpriced,
           cost = IF op.cost = None THEN 0 ELSE op.cost,
           NEW e, e = ApplySettle(d, op)
    PROVE  DbOK(e) /\ SettlesBy(d, e, c, cost, tokens, unpriced)
<1> DEFINE row == d.rows[c]
           r == View(row)
           takeUsd == IF r.state = "open" THEN MinOf(r.usd, cost) ELSE 0
           takeTokens == IF r.state = "open" THEN MinOf(r.tokens, tokens) ELSE 0
           mark == row.unpriced \/ unpriced
           new == IF row.state = "expired"
                  THEN [row EXCEPT !.unpriced = mark, !.chargeUsd = @ - takeUsd,
                                   !.chargeTokens = @ - takeTokens]
                  ELSE [row EXCEPT !.unpriced = mark, !.usd = @ - takeUsd,
                                   !.tokens = @ - takeTokens]
           usd == IF row.state = "expired" THEN cost - takeUsd ELSE cost
           toks == IF row.state = "expired" THEN tokens - takeTokens ELSE tokens
<1>1. d \in Database /\ d.rows \in [Calls -> Row] /\ d.spend \in [Scopes -> Nat] /\ d.tokens \in Nat
    BY DEF DbOK, Database
<1>2. row \in Row /\ RowOK(row) /\ row.state \in {"open", "expired", "released"}
    BY <1>1 DEF DbOK, Row
<1>3. /\ r.usd = UsdHeld(row) /\ r.tokens = TokensHeld(row) /\ r.slots = row.slots
      /\ r.unpriced = row.unpriced
      /\ (r.state = "open" <=> row.state \in {"open", "expired"})
    BY <1>2 DEF View
<1>4. UsdHeld(row) \in Nat /\ TokensHeld(row) \in Nat
    BY <1>2, RowTypes
<1>5. /\ takeUsd \in Nat /\ takeUsd <= UsdHeld(row) /\ takeUsd <= cost
      /\ takeTokens \in Nat /\ takeTokens <= TokensHeld(row) /\ takeTokens <= tokens
  <2> DEFINE mu == MinOf(UsdHeld(row), cost)
             mt == MinOf(TokensHeld(row), tokens)
  <2>1. /\ mu \in Nat /\ mu <= UsdHeld(row) /\ mu <= cost
        /\ mt \in Nat /\ mt <= TokensHeld(row) /\ mt <= tokens
      BY <1>4, MinMax
  <2>2. takeUsd \in {mu, 0} /\ takeTokens \in {mt, 0}
      BY <1>3
  <2> HIDE DEF mu, mt, takeUsd, takeTokens
  <2> QED
      BY <1>4, <2>1, <2>2
<1>6. /\ row.state \in {"open", "expired"} =>
            takeUsd = Take(UsdHeld(row), cost) /\ takeTokens = Take(TokensHeld(row), tokens)
      /\ row.state = "released" => takeUsd = 0 /\ takeTokens = 0
    BY <1>3 DEF Take
<1>7. mark \in BOOLEAN
    BY <1>2 DEF Row
<1> HIDE DEF takeUsd, takeTokens, mark, r
<1>8. new \in Row
  <2>1. CASE row.state = "expired"
    <3>1. row.chargeUsd - takeUsd \in Nat /\ row.chargeTokens - takeTokens \in Nat
        BY <1>2, <1>5, <2>1, RowTypes DEF UsdHeld, TokensHeld
    <3> QED
        BY <1>2, <1>7, <2>1, <3>1 DEF Row
  <2>2. CASE row.state # "expired"
    <3>1. row.usd - takeUsd \in Nat /\ row.tokens - takeTokens \in Nat
        BY <1>2, <1>5, <2>2, RowTypes DEF UsdHeld, TokensHeld
    <3> QED
        BY <1>2, <1>7, <2>2, <3>1 DEF Row
  <2> QED
      BY <2>1, <2>2
<1>9. /\ new.state = row.state /\ new.slots = row.slots /\ new.unpriced = mark
      /\ UsdHeld(new) = UsdHeld(row) - takeUsd
      /\ TokensHeld(new) = TokensHeld(row) - takeTokens
      /\ RowOK(new)
      /\ usd + row.chargeUsd - new.chargeUsd = cost
      /\ toks + row.chargeTokens - new.chargeTokens = tokens
      /\ usd \in Int /\ toks \in Int
    BY <1>2, <1>5, <1>6 DEF Row, RowOK, UsdHeld, TokensHeld
<1>10. ApplySettle(d, op) = Charge([d EXCEPT !.rows[c] = new], usd, toks, new.slots)
  <2>1. CASE row.state = "expired"
      BY <1>2, <1>6, <1>9, <2>1 DEF ApplySettle, Row, mark
  <2>2. CASE row.state = "open"
      BY <1>2, <1>6, <1>9, <2>2 DEF ApplySettle, Row, mark
  <2>3. CASE row.state = "released"
    <3>1. new = [row EXCEPT !.unpriced = mark, !.usd = @ - 0, !.tokens = @ - 0]
        BY <1>6, <2>3
    <3>2. row.usd - 0 = row.usd /\ row.tokens - 0 = row.tokens
        BY <1>2, RowTypes
    <3>3. new = [row EXCEPT !.unpriced = mark]
        BY <1>2, <3>1, <3>2 DEF Row
    <3> QED
        BY <1>2, <1>6, <1>9, <2>3, <3>3 DEF ApplySettle, Row, mark
  <2> QED
      BY <1>2, <2>1, <2>2, <2>3
<1>11. Rewrites(d, e, c, new, usd, toks)
  <2>1. usd \in Int /\ toks \in Int
      BY <1>9
  <2> HIDE DEF new, usd, toks
  <2> QED
      BY <1>1, <1>8, <1>10, <2>1, ChargeIs
<1>12. View(new) = [state |-> r.state, usd |-> r.usd - takeUsd,
                    tokens |-> r.tokens - takeTokens, slots |-> r.slots,
                    unpriced |-> r.unpriced \/ unpriced]
  <2> HIDE DEF new
  <2>1. View(new) = [state |-> r.state, usd |-> UsdHeld(new), tokens |-> TokensHeld(new),
                     slots |-> new.slots, unpriced |-> new.unpriced]
      BY <1>9 DEF View, r
  <2>2. new.unpriced = (r.unpriced \/ unpriced)
      BY <1>3, <1>9 DEF mark
  <2>3. UsdHeld(new) = r.usd - takeUsd /\ TokensHeld(new) = r.tokens - takeTokens
        /\ new.slots = r.slots
      BY <1>3, <1>9
  <2> QED
      BY <2>1, <2>2, <2>3, Zenon
<1>c. row.chargeUsd \in Nat /\ row.chargeTokens \in Nat /\ new.chargeUsd \in Nat /\ new.chargeTokens \in Nat
    BY <1>2, <1>8, RowTypes
<1> HIDE DEF new, usd, toks
<1>13. /\ usd + row.chargeUsd >= new.chargeUsd /\ toks + row.chargeTokens >= new.chargeTokens
       /\ usd \in Int /\ toks \in Int /\ RowOK(new) /\ new.slots = row.slots
    BY <1>9, <1>c
<1>14. DbOK(e) /\ MovesBy(d, e, c, new, usd, toks)
    BY <1>8, <1>11, <1>13, RowStep
<1>15. /\ \A s \in Scopes : Reserved(d)[s] \in Int
       /\ TokensReserved(d) \in Int
    BY <1>1, SumTypes DEF Reserved, TokensReserved
<1>16. ASSUME NEW s \in Scopes
       PROVE  /\ Spent(e)[s] = IF s \in ScopesOf(r.slots)
                               THEN Spent(d)[s] + cost ELSE Spent(d)[s]
              /\ Reserved(e)[s] = IF s \in ScopesOf(r.slots)
                                  THEN Reserved(d)[s] - takeUsd ELSE Reserved(d)[s]
    BY <1>3, <1>4, <1>5, <1>9, <1>14, <1>15 DEF MovesBy
<1>17. SpentTokens(e) = SpentTokens(d) + tokens /\ TokensReserved(e) = TokensReserved(d) - takeTokens
    BY <1>4, <1>5, <1>9, <1>14, <1>15 DEF MovesBy
<1>18. \A b \in Calls : e.rows[b].state = d.rows[b].state
    BY <1>9, <1>14 DEF MovesBy
<1> QED
    BY <1>12, <1>14, <1>16, <1>17, <1>18 DEF r, takeUsd, takeTokens, MovesBy, SettlesBy

\* _apply_release, to a caller: nothing is held any more, and after an unpriced attempt
\* what was held is spent.
ReleasesBy(d, e, c) ==
    LET r == View(d.rows[c])
        kept == IF r.unpriced THEN r.usd ELSE 0
    IN  /\ \A b \in Calls : e.rows[b].state = IF b = c THEN "released" ELSE d.rows[b].state
        /\ Views(e) = [Views(d) EXCEPT ![c] =
                         [state |-> "released", usd |-> 0, tokens |-> 0,
                          slots |-> r.slots, unpriced |-> r.unpriced]]
        /\ \A s \in Scopes :
             /\ Spent(e)[s] = IF s \in ScopesOf(r.slots)
                              THEN Spent(d)[s] + kept ELSE Spent(d)[s]
             /\ Reserved(e)[s] = IF s \in ScopesOf(r.slots)
                                 THEN Reserved(d)[s] - r.usd ELSE Reserved(d)[s]
        /\ SpentTokens(e) = SpentTokens(d)
        /\ TokensReserved(e) = TokensReserved(d) - r.tokens

\* So does a release of a row that is not released.
LEMMA ReleaseEffect ==
    ASSUME NEW d, DbOK(d), NEW c \in Calls, d.rows[c].state \in {"open", "expired"},
           NEW op, op.id = c, NEW e, e = ApplyRelease(d, op)
    PROVE  DbOK(e) /\ ReleasesBy(d, e, c)
<1> DEFINE row == d.rows[c]
           r == View(row)
           kept == IF r.unpriced THEN r.usd ELSE 0
           new == ReleasedRow(row)
           usd == IF row.state = "expired" THEN -Refund(row) ELSE kept
           toks == IF row.state = "expired" THEN -row.chargeTokens ELSE 0
<1>1. d \in Database /\ d.rows \in [Calls -> Row] /\ d.spend \in [Scopes -> Nat] /\ d.tokens \in Nat
    BY DEF DbOK, Database
<1>2. row \in Row /\ RowOK(row) /\ row.state \in {"open", "expired"}
    BY <1>1 DEF DbOK, Row
<1>3. /\ r.usd = UsdHeld(row) /\ r.tokens = TokensHeld(row) /\ r.slots = row.slots
      /\ r.unpriced = row.unpriced /\ r.state = "open"
    BY <1>2 DEF View
<1>4. /\ UsdHeld(row) \in Nat /\ TokensHeld(row) \in Nat /\ row.usd \in Nat
      /\ row.chargeUsd \in Nat /\ row.chargeTokens \in Nat /\ kept \in Nat
    BY <1>2, <1>3, RowTypes
<1>5. /\ new \in Row /\ RowOK(new) /\ new.slots = row.slots /\ new.state = "released"
      /\ new.chargeUsd = 0 /\ new.chargeTokens = 0 /\ new.unpriced = row.unpriced
      /\ UsdHeld(new) = 0 /\ TokensHeld(new) = 0
    BY <1>2 DEF Row, RowOK, ReleasedRow, UsdHeld, TokensHeld
<1>6. /\ usd \in Int /\ toks \in Int
      /\ usd + row.chargeUsd - new.chargeUsd = kept
      /\ toks + row.chargeTokens - new.chargeTokens = 0
  <2> HIDE DEF r, new
  <2>1. CASE row.state = "expired"
    <3>1. UsdHeld(row) = row.chargeUsd
        BY <2>1 DEF UsdHeld
    <3>2. Refund(row) = IF r.unpriced THEN 0 ELSE row.chargeUsd
        BY <1>3 DEF Refund
    <3> QED
        BY <1>3, <1>4, <1>5, <2>1, <3>1, <3>2
  <2>2. CASE row.state = "open"
    <3>1. row.chargeUsd = 0 /\ row.chargeTokens = 0
        BY <1>2, <2>2 DEF RowOK
    <3> HIDE DEF kept
    <3> QED
        BY <1>4, <1>5, <2>2, <3>1
  <2> QED
      BY <1>2, <2>1, <2>2
<1>7. ApplyRelease(d, op) = Charge([d EXCEPT !.rows[c] = new], usd, toks, new.slots)
  <2> HIDE DEF new
  <2>1. CASE row.state = "expired"
      BY <1>2, <1>5, <2>1 DEF ApplyRelease, new
  <2>2. CASE row.state = "open"
    <3>1. kept = IF row.unpriced THEN row.usd ELSE 0
        BY <1>3, <2>2 DEF UsdHeld
    <3> HIDE DEF kept
    <3> QED
        BY <1>2, <1>5, <2>2, <3>1 DEF ApplyRelease, new
  <2> QED
      BY <1>2, <2>1, <2>2
<1> HIDE DEF new, usd, toks
<1>8. Rewrites(d, e, c, new, usd, toks)
    BY <1>1, <1>5, <1>6, <1>7, ChargeIs
<1>9. usd + row.chargeUsd >= new.chargeUsd /\ toks + row.chargeTokens >= new.chargeTokens
    BY <1>4, <1>5, <1>6
<1>10. DbOK(e) /\ MovesBy(d, e, c, new, usd, toks)
    BY <1>5, <1>6, <1>8, <1>9, RowStep
<1>11. /\ \A s \in Scopes : Reserved(d)[s] \in Int /\ Spent(d)[s] \in Int
       /\ TokensReserved(d) \in Int /\ SpentTokens(d) \in Int
    BY <1>1, SumTypes DEF Reserved, TokensReserved, Spent, SpentTokens
<1> HIDE DEF kept, r
<1>12. ASSUME NEW s \in Scopes
       PROVE  /\ Spent(e)[s] = IF s \in ScopesOf(r.slots)
                               THEN Spent(d)[s] + kept ELSE Spent(d)[s]
              /\ Reserved(e)[s] = IF s \in ScopesOf(r.slots)
                                  THEN Reserved(d)[s] - r.usd ELSE Reserved(d)[s]
  <2>1. /\ Spent(e)[s] = IF s \in ScopesOf(new.slots)
                         THEN Spent(d)[s] + (usd + row.chargeUsd - new.chargeUsd)
                         ELSE Spent(d)[s]
        /\ Reserved(e)[s] = IF s \in ScopesOf(new.slots)
                            THEN Reserved(d)[s] + (UsdHeld(new) - UsdHeld(row))
                            ELSE Reserved(d)[s]
      BY <1>10 DEF MovesBy
  <2>2. new.slots = r.slots
      BY <1>3, <1>5
  <2>3. Reserved(d)[s] + (UsdHeld(new) - UsdHeld(row)) = Reserved(d)[s] - r.usd
    <3>1. Reserved(d)[s] \in Int /\ UsdHeld(row) \in Nat /\ UsdHeld(new) = 0 /\ r.usd = UsdHeld(row)
        BY <1>3, <1>4, <1>5, <1>11
    <3> QED
        BY <3>1
  <2> QED
      BY <1>6, <2>1, <2>2, <2>3
<1>13. SpentTokens(e) = SpentTokens(d) /\ TokensReserved(e) = TokensReserved(d) - r.tokens
    BY <1>3, <1>4, <1>5, <1>6, <1>10, <1>11 DEF MovesBy
<1>14. \A b \in Calls : e.rows[b].state = IF b = c THEN "released" ELSE d.rows[b].state
    BY <1>5, <1>10 DEF MovesBy
<1>15. View(new) = [state |-> "released", usd |-> 0, tokens |-> 0,
                    slots |-> r.slots, unpriced |-> r.unpriced]
  <2>1. View(new) = [state |-> "released", usd |-> UsdHeld(new), tokens |-> TokensHeld(new),
                     slots |-> new.slots, unpriced |-> new.unpriced]
      BY <1>5 DEF View
  <2> QED
      BY <1>3, <1>5, <2>1, Zenon
<1> QED
    BY <1>10, <1>12, <1>13, <1>14, <1>15 DEF MovesBy, ReleasesBy, r, kept

\* No row is a row that holds nothing.
LEMMA NoRowType == NoRow \in Row
<1>1. 0 \in Nat
    OBVIOUS
<1> QED
    BY <1>1, Zenon DEF NoRow, Row

\* A reservation is inserted, to a caller.
AdmitsBy(d, e, c, est) ==
    /\ \A b \in Calls : e.rows[b].state = IF b = c THEN "open" ELSE d.rows[b].state
    /\ Views(e) = [Views(d) EXCEPT ![c] =
                     [state |-> "open", usd |-> AmountOf(est), tokens |-> est.tokens,
                      slots |-> est.slots, unpriced |-> FALSE]]
    /\ \A s \in Scopes :
         /\ Spent(e)[s] = Spent(d)[s]
         /\ Reserved(e)[s] = IF s \in ScopesOf(est.slots)
                             THEN Reserved(d)[s] + AmountOf(est) ELSE Reserved(d)[s]
    /\ SpentTokens(e) = SpentTokens(d)
    /\ TokensReserved(e) = TokensReserved(d) + est.tokens

\* So does an admission.
LEMMA AdmitEffect ==
    ASSUME NEW d, DbOK(d), NEW c \in Calls, d.rows[c].state = "none",
           NEW est \in Estimates,
           NEW e, e = [d EXCEPT !.rows[c] = NewRow(est)]
    PROVE  DbOK(e) /\ AdmitsBy(d, e, c, est)
<1> DEFINE row == d.rows[c]
           new == NewRow(est)
<1>1. d \in Database /\ d.rows \in [Calls -> Row] /\ d.spend \in [Scopes -> Nat] /\ d.tokens \in Nat
    BY DEF DbOK, Database
<1>2. row \in Row /\ RowOK(row) /\ row.state = "none"
    BY <1>1 DEF DbOK, Row
<1>3. AmountOf(est) \in Nat /\ est.tokens \in Nat /\ est.slots \in SUBSET Slots
    BY InputTypes
<1> DEFINE n == NoRow
<1>4. n \in Row /\ n.chargeUsd = 0 /\ n.chargeTokens = 0 /\ n.unpriced = FALSE
    BY NoRowType DEF NoRow
<1>n. new = [n EXCEPT !.state = "open", !.usd = AmountOf(est), !.tokens = est.tokens,
                      !.slots = est.slots]
    BY DEF NewRow
<1> HIDE DEF new, n
<1>5. new \in Row
    BY <1>3, <1>4, <1>n DEF Row
<1>6. /\ RowOK(new) /\ new.slots = est.slots /\ new.state = "open"
      /\ new.chargeUsd = 0 /\ new.chargeTokens = 0 /\ new.unpriced = FALSE
      /\ UsdHeld(new) = AmountOf(est) /\ TokensHeld(new) = est.tokens
    BY <1>4, <1>n DEF Row, RowOK, UsdHeld, TokensHeld
<1>7. /\ row.chargeUsd = 0 /\ row.chargeTokens = 0
      /\ UsdHeld(row) = 0 /\ TokensHeld(row) = 0
    BY <1>2 DEF RowOK, UsdHeld, TokensHeld
<1>8. Rewrites(d, e, c, new, 0, 0)
  <2>1. d.spend = AddIn(d.spend, ScopesOf(new.slots), 0) /\ d.tokens = d.tokens + 0
      BY <1>1 DEF AddIn
  <2>2. /\ e \in Database /\ e.rows = [d.rows EXCEPT ![c] = new]
        /\ e.spend = d.spend /\ e.tokens = d.tokens
      BY <1>1, <1>5 DEF Database, new
  <2>3. e \in Totals
      BY <2>2 DEF Database, Totals
  <2> QED
      BY <2>1, <2>2, <2>3 DEF Rewrites
<1>9. DbOK(e) /\ MovesBy(d, e, c, new, 0, 0)
  <2>1. 0 + row.chargeUsd >= new.chargeUsd /\ 0 + row.chargeTokens >= new.chargeTokens
      BY <1>6, <1>7
  <2>2. 0 \in Int
      OBVIOUS
  <2> QED
      BY <1>2, <1>5, <1>6, <1>8, <2>1, <2>2, RowStep
<1>11. /\ \A s \in Scopes : Reserved(d)[s] \in Int /\ Spent(d)[s] \in Int
       /\ TokensReserved(d) \in Int /\ SpentTokens(d) \in Int
    BY <1>1, SumTypes DEF Reserved, TokensReserved, Spent, SpentTokens
<1>12. ASSUME NEW s \in Scopes
       PROVE  /\ Spent(e)[s] = Spent(d)[s]
              /\ Reserved(e)[s] = IF s \in ScopesOf(est.slots)
                                  THEN Reserved(d)[s] + AmountOf(est) ELSE Reserved(d)[s]
    BY <1>3, <1>6, <1>7, <1>9, <1>11 DEF MovesBy
<1>13. SpentTokens(e) = SpentTokens(d) /\ TokensReserved(e) = TokensReserved(d) + est.tokens
    BY <1>3, <1>6, <1>7, <1>9, <1>11 DEF MovesBy
<1>14. \A b \in Calls : e.rows[b].state = IF b = c THEN "open" ELSE d.rows[b].state
    BY <1>6, <1>9 DEF MovesBy
<1>15. View(new) = [state |-> "open", usd |-> AmountOf(est), tokens |-> est.tokens,
                    slots |-> est.slots, unpriced |-> FALSE]
  <2>1. View(new) = [state |-> "open", usd |-> UsdHeld(new), tokens |-> TokensHeld(new),
                     slots |-> new.slots, unpriced |-> new.unpriced]
      BY <1>6 DEF View
  <2> QED
      BY <1>6, <2>1, Zenon
<1> QED
    BY <1>9, <1>12, <1>13, <1>14, <1>15 DEF MovesBy, AdmitsBy

-----------------------------------------------------------------------------
\* The refinement mapping of SharedCapBudget is what a caller sees of db.
LEMMA Mapping ==
    /\ Reservations = Views(db)
    /\ [s \in Scopes |-> db.spend[s] - ChargedByExpiry(s)] = Spent(db)
    /\ [s \in Scopes |-> ReservedUsd(s)] = Reserved(db)
    /\ db.tokens - TokensChargedByExpiry = SpentTokens(db)
    /\ ReservedTokens = TokensReserved(db)
BY DEF Reservations, Views, View, ChargedByExpiry, Spent, ChargedFor, ReservedUsd, Reserved,
       HeldFor, TokensChargedByExpiry, SpentTokens, TokensChargedFor, ReservedTokens,
       TokensReserved, TokensHeldFor

\* The mapping in the next state.
LEMMA MappingAfter ==
    /\ Reservations' = Views(db')
    /\ [s \in Scopes |-> db.spend[s] - ChargedByExpiry(s)]' = Spent(db')
    /\ [s \in Scopes |-> ReservedUsd(s)]' = Reserved(db')
    /\ (db.tokens - TokensChargedByExpiry)' = SpentTokens(db')
    /\ ReservedTokens' = TokensReserved(db')
BY DEF Reservations, Views, View, ChargedByExpiry, Spent, ChargedFor, ReservedUsd, Reserved,
       HeldFor, TokensChargedByExpiry, SpentTokens, TokensChargedFor, ReservedTokens,
       TokensReserved, TokensHeldFor

\* A step that changes nothing for a caller.
LEMMA Stutters ==
    ASSUME Views(db') = Views(db), Spent(db') = Spent(db), Reserved(db') = Reserved(db),
           SpentTokens(db') = SpentTokens(db), TokensReserved(db') = TokensReserved(db),
           overrun' = overrun, overrunTokens' = overrunTokens
    PROVE  UNCHANGED Abstract!vars
BY Mapping, MappingAfter DEF Abstract!vars

\* Both modules mean the same by the rules of BudgetRules.
LEMMA SameRules ==
    /\ Abstract!Calls = Calls /\ Abstract!Kernel = Kernel /\ Abstract!Scopes = Scopes
    /\ \A slots : Abstract!ScopesOf(slots) = ScopesOf(slots)
    /\ \A f, S, x : Abstract!AddIn(f, S, x) = AddIn(f, S, x)
    /\ \A est : Abstract!AmountOf(est) = AmountOf(est)
    /\ \A event : /\ Abstract!CostOf(event) = CostOf(event)
                  /\ Abstract!IsUnpricedUsage(event) <=> IsUnpricedUsage(event)
    /\ \A a, b : /\ Abstract!MinOf(a, b) = MinOf(a, b) /\ Abstract!MaxOf(a, b) = MaxOf(a, b)
                 /\ Abstract!Take(a, b) = MinOf(a, b)
    /\ \A est, exposure, used :
          Abstract!Admissible(est, exposure, used) <=> Admissible(est, exposure, used)
BY DEF Abstract!Calls, Abstract!Kernel, Abstract!Scopes, Abstract!ScopesOf, Abstract!AddIn,
       Abstract!AmountOf, Abstract!CostOf, Abstract!IsUnpricedUsage, Abstract!MinOf,
       Abstract!MaxOf, Abstract!Take, Abstract!Admissible, Calls, Kernel, Scopes, ScopesOf, AddIn,
       AmountOf, CostOf, IsUnpricedUsage, MinOf, MaxOf, Take, Admissible

\* What a caller sees of d is what it sees of db.
SameView(d) ==
    /\ DbOK(d) /\ Views(d) = Views(db) /\ Spent(d) = Spent(db) /\ Reserved(d) = Reserved(db)
    /\ SpentTokens(d) = SpentTokens(db) /\ TokensReserved(d) = TokensReserved(db)

\* The transaction of admit.
LEMMA AdmitImplements ==
    ASSUME NEW d, SameView(d), NEW c \in Calls, NEW est \in Estimates,
           d.rows[c].state = "none", \A b \in 1..(c - 1) : d.rows[b].state # "none",
           Admissible(est, ExposureOf(d), TokensUsed(d)), AdmitsBy(d, db', c, est),
           overrun' = overrun, overrunTokens' = overrunTokens, DbOK(db')
    PROVE  Abstract!Admit(c, est)
<1>1. Views(db) = [b \in Calls |-> View(d.rows[b])]
    BY DEF SameView, Views
<1>2. Reservations[c].state = "none"
    BY <1>1, Mapping DEF View
<1>3. \A b \in 1..(c - 1) : Reservations[b].state # "none"
  <2>1. 1..(c - 1) \subseteq Calls
      BY BudgetAssumption DEF Calls
  <2> QED
      BY <1>1, <2>1, Mapping DEF View
<1>4. Abstract!Admissible(est, Abstract!Exposure, (db.tokens - TokensChargedByExpiry) + ReservedTokens)
  <2>1. Abstract!Exposure = ExposureOf(d)
      BY Mapping, SameRules, ExposureAgrees DEF SameView, Abstract!Exposure
  <2>2. (db.tokens - TokensChargedByExpiry) + ReservedTokens = TokensUsed(d)
      BY Mapping, ExposureAgrees DEF SameView
  <2> QED
      BY <2>1, <2>2, SameRules
<1>5. Reservations' = [Reservations EXCEPT ![c] =
                         [state |-> "open", usd |-> Abstract!AmountOf(est), tokens |-> est.tokens,
                          slots |-> est.slots, unpriced |-> FALSE]]
    BY Mapping, MappingAfter, SameRules DEF SameView, AdmitsBy
<1>6. [s \in Scopes |-> ReservedUsd(s)]' = Abstract!AddIn([s \in Scopes |-> ReservedUsd(s)],
                                               Abstract!ScopesOf(est.slots), Abstract!AmountOf(est))
  <2>1. \A s \in Scopes : Reserved(db')[s] = IF s \in ScopesOf(est.slots)
                             THEN Reserved(db)[s] + AmountOf(est) ELSE Reserved(db)[s]
      BY DEF SameView, AdmitsBy
  <2>2. Reserved(db') = AddIn(Reserved(db), ScopesOf(est.slots), AmountOf(est))
      BY <2>1 DEF AddIn, Reserved
  <2> QED
      BY <2>2, Mapping, MappingAfter, SameRules
<1>7. /\ ReservedTokens' = ReservedTokens + est.tokens
      /\ (db.tokens - TokensChargedByExpiry)' = db.tokens - TokensChargedByExpiry
      /\ [s \in Scopes |-> db.spend[s] - ChargedByExpiry(s)]'
           = [s \in Scopes |-> db.spend[s] - ChargedByExpiry(s)]
  <2>1. Spent(db') = Spent(db)
      BY DEF SameView, AdmitsBy, Spent
  <2> QED
      BY <2>1, Mapping, MappingAfter DEF SameView, AdmitsBy
<1> QED
    BY <1>2, <1>3, <1>4, <1>5, <1>6, <1>7 DEF Abstract!Admit

\* What a caller sees of a row, and the totals that clamp at zero in CapBudget.
LEMMA ViewTypes ==
    ASSUME NEW d, SameView(d), NEW c \in Calls, NEW r, r = View(d.rows[c])
    PROVE  /\ Reservations[c] = r
           /\ r.usd \in Nat /\ r.tokens \in Nat /\ r.slots \in SUBSET Slots
           /\ r.unpriced \in BOOLEAN
           /\ r.state \in {"none", "open", "released"}
           /\ r = [state |-> r.state, usd |-> r.usd, tokens |-> r.tokens,
                   slots |-> r.slots, unpriced |-> r.unpriced]
           /\ \A s \in ScopesOf(r.slots) : s \in Scopes /\ Reserved(db)[s] >= r.usd
           /\ \A s \in Scopes : Reserved(db)[s] \in Int
           /\ TokensReserved(db) >= r.tokens /\ TokensReserved(db) \in Int
<1>1. d \in Database /\ d.rows[c] \in Row
    BY DEF SameView, DbOK, Database
<1>2. Reservations[c] = r
    BY Mapping DEF SameView, Views
<1>3. /\ r.usd = UsdHeld(d.rows[c]) /\ r.tokens = TokensHeld(d.rows[c])
      /\ r.slots = d.rows[c].slots /\ r.unpriced = d.rows[c].unpriced
      /\ r.state \in {"none", "open", "released"}
    BY <1>1 DEF View, Row
<1>4. r = [state |-> r.state, usd |-> r.usd, tokens |-> r.tokens,
           slots |-> r.slots, unpriced |-> r.unpriced]
    BY DEF View
<1>5. /\ r.usd \in Nat /\ r.tokens \in Nat /\ r.slots \in SUBSET Slots /\ r.unpriced \in BOOLEAN
    BY <1>1, <1>3, RowTypes DEF Row
<1>6. /\ \A s \in Scopes : Reserved(db)[s] \in Int
      /\ TokensReserved(db) \in Int
    BY <1>1, SumTypes DEF Reserved, TokensReserved, SameView
<1>7. /\ \A s \in ScopesOf(r.slots) : s \in Scopes /\ Reserved(db)[s] >= r.usd
      /\ TokensReserved(db) >= r.tokens
    BY <1>1, <1>3, <1>5, HeldIsReserved DEF SameView, ScopesOf, Scopes
<1> QED
    BY <1>2, <1>3, <1>4, <1>5, <1>6, <1>7

\* A call's row takes its new amounts: how Consume of CapBudget writes it.
Consumed(r, usd, tokens) == [r EXCEPT !.usd = usd, !.tokens = tokens]

\* Consuming changes the two amounts of a reservation only.
LEMMA ConsumedView ==
    ASSUME NEW st, NEW u, NEW t, NEW sl, NEW up, NEW u2, NEW t2, NEW r,
           r = [state |-> st, usd |-> u, tokens |-> t, slots |-> sl, unpriced |-> up]
    PROVE  Consumed(r, u2, t2)
             = [state |-> st, usd |-> u2, tokens |-> t2, slots |-> sl, unpriced |-> up]
<1> DEFINE q == [r EXCEPT !.usd = u2]
<1>1. q = [state |-> st, usd |-> u2, tokens |-> t, slots |-> sl, unpriced |-> up]
    OBVIOUS
<1>2. Consumed(r, u2, t2) = [q EXCEPT !.tokens = t2]
    BY DEF Consumed
<1> HIDE DEF q
<1>3. [q EXCEPT !.tokens = t2]
        = [state |-> st, usd |-> u2, tokens |-> t2, slots |-> sl, unpriced |-> up]
    BY <1>1
<1> QED
    BY <1>2, <1>3, Zenon

\* _apply_settle.
LEMMA SettleImplements ==
    ASSUME NEW d, SameView(d), NEW c \in Calls, NEW event \in Events,
           d.rows[c].state # "none",
           SettlesBy(d, db', c, CostOf(event), event.tokens, IsUnpricedUsage(event)),
           NEW r, r = View(d.rows[c]),
           overrun' = AddIn(overrun, ScopesOf(r.slots),
                            IF r.state = "open" THEN CostOf(event) - MinOf(r.usd, CostOf(event))
                            ELSE CostOf(event)),
           overrunTokens' = overrunTokens +
                            IF r.state = "open" THEN event.tokens - MinOf(r.tokens, event.tokens)
                            ELSE event.tokens
    PROVE  Abstract!Settle(c, event)
<1> DEFINE cost == CostOf(event)
           tokens == event.tokens
           up == r.unpriced \/ IsUnpricedUsage(event)
           takeUsd == IF r.state = "open" THEN MinOf(r.usd, cost) ELSE 0
           takeTokens == IF r.state = "open" THEN MinOf(r.tokens, tokens) ELSE 0
           marked == [state |-> r.state, usd |-> r.usd, tokens |-> r.tokens, slots |-> r.slots,
                      unpriced |-> up]
<1>1. /\ Reservations[c] = r
      /\ r.usd \in Nat /\ r.tokens \in Nat
      /\ r.state \in {"open", "released"}
      /\ r = [state |-> r.state, usd |-> r.usd, tokens |-> r.tokens,
              slots |-> r.slots, unpriced |-> r.unpriced]
      /\ \A s \in ScopesOf(r.slots) : s \in Scopes /\ Reserved(db)[s] >= r.usd
      /\ \A s \in Scopes : Reserved(db)[s] \in Int
      /\ TokensReserved(db) >= r.tokens /\ TokensReserved(db) \in Int
  <2>1. r.state # "none"
      BY DEF View
  <2> QED
      BY <2>1, ViewTypes
<1>2. cost \in Nat /\ tokens \in Nat
    BY InputTypes
<1>3. MinOf(r.usd, cost) \in Nat /\ MinOf(r.usd, cost) <= r.usd
      /\ MinOf(r.tokens, tokens) \in Nat /\ MinOf(r.tokens, tokens) <= r.tokens
    BY <1>1, <1>2, MinMax
<1>4. /\ Views(db') = [Views(db) EXCEPT ![c] =
                         [state |-> r.state, usd |-> r.usd - takeUsd,
                          tokens |-> r.tokens - takeTokens, slots |-> r.slots,
                          unpriced |-> up]]
      /\ \A s \in Scopes :
           /\ Spent(db')[s] = IF s \in ScopesOf(r.slots) THEN Spent(db)[s] + cost ELSE Spent(db)[s]
           /\ Reserved(db')[s] = IF s \in ScopesOf(r.slots)
                                 THEN Reserved(db)[s] - takeUsd ELSE Reserved(db)[s]
      /\ SpentTokens(db') = SpentTokens(db) + tokens
      /\ TokensReserved(db') = TokensReserved(db) - takeTokens
    BY DEF SettlesBy, SameView
<1>5. [s \in Scopes |-> db.spend[s] - ChargedByExpiry(s)]'
        = Abstract!AddIn([s \in Scopes |-> db.spend[s] - ChargedByExpiry(s)],
                         Abstract!ScopesOf(r.slots), Abstract!CostOf(event))
  <2>1. Spent(db') = AddIn(Spent(db), ScopesOf(r.slots), cost)
      BY <1>4 DEF AddIn, Spent
  <2> QED
      BY <2>1, Mapping, MappingAfter, SameRules
<1>6. (db.tokens - TokensChargedByExpiry)' = (db.tokens - TokensChargedByExpiry) + event.tokens
    BY <1>4, Mapping, MappingAfter
<1>7. /\ overrun' = Abstract!AddIn(overrun, Abstract!ScopesOf(r.slots),
                        Abstract!Excess(r, r.usd, Abstract!CostOf(event)))
      /\ overrunTokens' = overrunTokens + Abstract!Excess(r, r.tokens, event.tokens)
    BY SameRules DEF Abstract!Excess
<1>8. [Reservations[c] EXCEPT !.unpriced = Reservations[c].unpriced \/ Abstract!IsUnpricedUsage(event)]
        = marked
  <2>1. (r.unpriced \/ Abstract!IsUnpricedUsage(event)) = up
      BY SameRules
  <2> HIDE DEF up
  <2> QED
      BY <1>1, <2>1
<1> HIDE DEF marked
<1>9. CASE r.state = "open"
  <2>1. Reservations' = [Reservations EXCEPT ![c] =
            [marked EXCEPT !.usd = Reservations[c].usd - Abstract!Take(Reservations[c].usd, Abstract!CostOf(event)),
                           !.tokens = Reservations[c].tokens
                                      - Abstract!Take(Reservations[c].tokens, event.tokens)]]
    <3>1. /\ Abstract!Take(Reservations[c].usd, Abstract!CostOf(event)) = takeUsd
          /\ Abstract!Take(Reservations[c].tokens, event.tokens) = takeTokens
        BY <1>1, <1>9, SameRules
    <3> HIDE DEF takeUsd, takeTokens, up
    <3>2. Consumed(marked, r.usd - takeUsd, r.tokens - takeTokens)
            = [state |-> r.state, usd |-> r.usd - takeUsd,
               tokens |-> r.tokens - takeTokens, slots |-> r.slots, unpriced |-> up]
      <4>1. marked = [state |-> r.state, usd |-> r.usd, tokens |-> r.tokens, slots |-> r.slots,
                      unpriced |-> up]
          BY Zenon DEF marked
      <4> QED
          BY <4>1, ConsumedView
    <3> QED
        BY <1>1, <1>4, <3>1, <3>2, Mapping, MappingAfter DEF Consumed
  <2>2. [s \in Scopes |-> ReservedUsd(s)]' =
          [s \in Abstract!Scopes |->
             IF s \in Abstract!ConsumedScopes(Reservations[c])
             THEN Abstract!MaxOf(0, [t \in Scopes |-> ReservedUsd(t)][s]
                     - Abstract!Take(Reservations[c].usd, Abstract!CostOf(event)))
             ELSE [t \in Scopes |-> ReservedUsd(t)][s]]
    <3>1. ASSUME NEW s \in Scopes
          PROVE  Reserved(db')[s] = IF s \in ScopesOf(r.slots)
                                    THEN MaxOf(0, Reserved(db)[s] - MinOf(r.usd, cost))
                                    ELSE Reserved(db)[s]
      <4>1. CASE s \in ScopesOf(r.slots)
        <5>1. Reserved(db')[s] = Reserved(db)[s] - MinOf(r.usd, cost)
            BY <1>4, <1>9, <4>1
        <5>2. Reserved(db)[s] \in Int /\ Reserved(db)[s] >= MinOf(r.usd, cost)
            BY <1>1, <1>3, <4>1
        <5> QED
            BY <1>3, <4>1, <5>1, <5>2 DEF MaxOf
      <4>2. CASE s \notin ScopesOf(r.slots)
          BY <1>4, <4>2
      <4> QED
          BY <4>1, <4>2
    <3>2. Reserved(db') = [s \in Scopes |-> Reserved(db')[s]]
        BY DEF Reserved
    <3>3. Reserved(db') = [s \in Scopes |-> IF s \in ScopesOf(r.slots)
                                    THEN MaxOf(0, Reserved(db)[s] - MinOf(r.usd, cost))
                                    ELSE Reserved(db)[s]]
        BY <3>1, <3>2
    <3> QED
        BY <1>1, <3>3, Mapping, MappingAfter, SameRules DEF Abstract!ConsumedScopes
  <2>3. ReservedTokens' = Abstract!MaxOf(0, ReservedTokens
                               - Abstract!Take(Reservations[c].tokens, event.tokens))
    <3>1. TokensReserved(db') = MaxOf(0, TokensReserved(db) - MinOf(r.tokens, tokens))
        BY <1>1, <1>3, <1>4, <1>9 DEF MaxOf
    <3> QED
        BY <1>1, <3>1, Mapping, MappingAfter, SameRules
  <2>4. Abstract!Consume(c, Abstract!CostOf(event), event.tokens, marked)
      BY <2>1, <2>2, <2>3 DEF Abstract!Consume
  <2> QED
      BY <1>1, <1>5, <1>6, <1>7, <1>8, <1>9, <2>4 DEF Abstract!Settle
<1>10. CASE r.state = "released"
  <2>1. /\ r.usd - takeUsd = r.usd /\ r.tokens - takeTokens = r.tokens
        /\ takeUsd = 0 /\ takeTokens = 0
      BY <1>1, <1>10
  <2> HIDE DEF takeUsd, takeTokens, up
  <2>2. Views(db') = [Views(db) EXCEPT ![c] = marked]
      BY <1>4, <2>1, Zenon DEF marked
  <2>3. Reserved(db') = Reserved(db) /\ TokensReserved(db') = TokensReserved(db)
    <3>1. \A s \in Scopes : Reserved(db')[s] = Reserved(db)[s]
        BY <1>1, <1>4, <2>1
    <3> QED
        BY <1>1, <1>4, <2>1, <3>1 DEF Reserved
  <2>4. /\ Reservations' = [Reservations EXCEPT ![c] = marked]
        /\ [s \in Scopes |-> ReservedUsd(s)]' = [s \in Scopes |-> ReservedUsd(s)]
        /\ ReservedTokens' = ReservedTokens
      BY <2>2, <2>3, Mapping, MappingAfter
  <2> QED
      BY <1>1, <1>5, <1>6, <1>7, <1>8, <1>10, <2>4 DEF Abstract!Settle
<1> QED
    BY <1>1, <1>9, <1>10

\* _apply_release.
LEMMA ReleaseImplements ==
    ASSUME NEW d, SameView(d), NEW c \in Calls, d.rows[c].state \in {"open", "expired"},
           ReleasesBy(d, db', c), overrun' = overrun, overrunTokens' = overrunTokens
    PROVE  Abstract!Release(c)
<1> DEFINE r == View(d.rows[c])
           kept == IF r.unpriced THEN r.usd ELSE 0
           freed == [state |-> "released", usd |-> r.usd, tokens |-> r.tokens, slots |-> r.slots,
                     unpriced |-> r.unpriced]
<1>1. /\ Reservations[c] = r
      /\ r.usd \in Nat /\ r.tokens \in Nat
      /\ r = [state |-> r.state, usd |-> r.usd, tokens |-> r.tokens,
              slots |-> r.slots, unpriced |-> r.unpriced]
      /\ \A s \in ScopesOf(r.slots) : s \in Scopes /\ Reserved(db)[s] >= r.usd
      /\ \A s \in Scopes : Reserved(db)[s] \in Int
      /\ TokensReserved(db) >= r.tokens /\ TokensReserved(db) \in Int
    BY ViewTypes
<1>2. r.state = "open"
    BY DEF View
<1>3. /\ Views(db') = [Views(db) EXCEPT ![c] =
                         [state |-> "released", usd |-> 0, tokens |-> 0,
                          slots |-> r.slots, unpriced |-> r.unpriced]]
      /\ \A s \in Scopes :
           /\ Spent(db')[s] = IF s \in ScopesOf(r.slots) THEN Spent(db)[s] + kept ELSE Spent(db)[s]
           /\ Reserved(db')[s] = IF s \in ScopesOf(r.slots)
                                 THEN Reserved(db)[s] - r.usd ELSE Reserved(db)[s]
      /\ SpentTokens(db') = SpentTokens(db)
      /\ TokensReserved(db') = TokensReserved(db) - r.tokens
    BY DEF ReleasesBy, SameView
<1> HIDE DEF r
<1>4. [s \in Scopes |-> db.spend[s] - ChargedByExpiry(s)]'
        = Abstract!AddIn([s \in Scopes |-> db.spend[s] - ChargedByExpiry(s)],
                         Abstract!ScopesOf(r.slots), Abstract!KeptAtRelease(r))
  <2>1. Spent(db') = AddIn(Spent(db), ScopesOf(r.slots), kept)
      BY <1>3 DEF AddIn, Spent
  <2> QED
      BY <2>1, Mapping, MappingAfter, SameRules DEF Abstract!KeptAtRelease
<1>5. [Reservations[c] EXCEPT !.state = "released"] = freed
    BY <1>1
<1> HIDE DEF freed
<1>6. Abstract!Take(r.usd, r.usd) = r.usd /\ Abstract!Take(r.tokens, r.tokens) = r.tokens
    BY SameRules DEF MinOf
<1>7. Reservations' = [Reservations EXCEPT ![c] =
            [freed EXCEPT !.usd = Reservations[c].usd - Abstract!Take(Reservations[c].usd, Reservations[c].usd),
                          !.tokens = Reservations[c].tokens
                                     - Abstract!Take(Reservations[c].tokens, Reservations[c].tokens)]]
  <2>1. freed = [state |-> "released", usd |-> r.usd, tokens |-> r.tokens, slots |-> r.slots,
                 unpriced |-> r.unpriced]
      BY DEF freed
  <2>2. Consumed(freed, 0, 0) = [state |-> "released", usd |-> 0, tokens |-> 0,
                                 slots |-> r.slots, unpriced |-> r.unpriced]
      BY <2>1, ConsumedView
  <2>3. r.usd - r.usd = 0 /\ r.tokens - r.tokens = 0
      BY <1>1
  <2>4. Reservations' = [Reservations EXCEPT ![c] = Consumed(freed, 0, 0)]
      BY <1>3, <2>2, Mapping, MappingAfter, Zenon
  <2> QED
      BY <1>1, <1>6, <2>3, <2>4 DEF Consumed
<1>8. [s \in Scopes |-> ReservedUsd(s)]' =
        [s \in Abstract!Scopes |->
           IF s \in Abstract!ConsumedScopes(Reservations[c])
           THEN Abstract!MaxOf(0, [t \in Scopes |-> ReservedUsd(t)][s]
                   - Abstract!Take(Reservations[c].usd, Reservations[c].usd))
           ELSE [t \in Scopes |-> ReservedUsd(t)][s]]
  <2>1. ASSUME NEW s \in Scopes
        PROVE  Reserved(db')[s] = IF s \in ScopesOf(r.slots)
                                  THEN MaxOf(0, Reserved(db)[s] - r.usd)
                                  ELSE Reserved(db)[s]
      BY <1>1, <1>3 DEF MaxOf
  <2>2. Reserved(db') = [s \in Scopes |-> Reserved(db')[s]]
      BY DEF Reserved
  <2>3. Reserved(db') = [s \in Scopes |-> IF s \in ScopesOf(r.slots)
                                  THEN MaxOf(0, Reserved(db)[s] - r.usd)
                                  ELSE Reserved(db)[s]]
      BY <2>1, <2>2
  <2> QED
      BY <1>1, <1>6, <2>3, Mapping, MappingAfter, SameRules DEF Abstract!ConsumedScopes
<1>9. ReservedTokens' = Abstract!MaxOf(0, ReservedTokens
                           - Abstract!Take(Reservations[c].tokens, Reservations[c].tokens))
  <2>1. TokensReserved(db') = MaxOf(0, TokensReserved(db) - r.tokens)
      BY <1>1, <1>3 DEF MaxOf
  <2> QED
      BY <1>1, <1>6, <2>1, Mapping, MappingAfter, SameRules
<1>10. Abstract!Consume(c, r.usd, r.tokens, freed)
    BY <1>1, <1>7, <1>8, <1>9 DEF Abstract!Consume
<1>11. (db.tokens - TokensChargedByExpiry)' = db.tokens - TokensChargedByExpiry
    BY <1>3, Mapping, MappingAfter
<1> QED
    BY <1>1, <1>2, <1>4, <1>5, <1>10, <1>11 DEF Abstract!Release

-----------------------------------------------------------------------------
\* The operations a process queues.
SettleOp(c, event) ==
    [kind |-> "settle", id |-> c, tokens |-> event.tokens, cost |-> event.cost,
     unpriced |-> IsUnpricedUsage(event)]

ReleaseOp(c) ==
    [kind |-> "release", id |-> c, tokens |-> 0, cost |-> None, unpriced |-> FALSE]

Ops == {SettleOp(c, event) : c \in Calls, event \in Events} \cup {ReleaseOp(c) : c \in Calls}

\* Every reservation object and everything in a queue is about an admitted call.
Admitted(c) == db.rows[c].state # "none"

\* The reservation objects of the processes.
Handles ==
    /\ handle \in [Calls -> [holder : Procs \cup {Nobody}, usd : Nat, released : BOOLEAN]]
    /\ \A c \in Calls : handle[c].holder \in Procs => Admitted(c)

\* The queues of the processes.
Queues ==
    /\ pending \in [Procs -> Seq(Ops)]
    /\ \A p \in Procs : \A i \in 1..Len(pending[p]) : Admitted(pending[p][i].id)

\* An admission that waits for the write lock has an estimate.
Operations ==
    /\ proc \in [Procs -> [pc : {"idle", "replay", "begin"}, est : Estimates \cup {None}]]
    /\ \A p \in Procs : proc[p].pc = "begin" => proc[p].est \in Estimates

\* The counters of the model.
Counters ==
    /\ crashes \in 0..MaxCrashes /\ attempts \in 0..MaxAttempts
    /\ overrun \in [Scopes -> Nat] /\ overrunTokens \in Nat

\* The inductive invariant.
IInv ==
    /\ DbOK(db)
    /\ lapsed \subseteq OpenRows(db)
    /\ Handles
    /\ Queues
    /\ Operations
    /\ Counters

\* What a step is to a caller of the budget.
Implements == Abstract!Next \/ UNCHANGED Abstract!vars

\* A step that leaves the database alone is none to a caller.
LEMMA DbUnchanged ==
    ASSUME IInv, db' = db, lapsed' \subseteq OpenRows(db),
           UNCHANGED <<overrun, overrunTokens>>,
           Handles', Queues', Operations',
           crashes' \in 0..MaxCrashes, attempts' \in 0..MaxAttempts
    PROVE  IInv' /\ Implements
<1>1. IInv'
    BY DEF IInv, Counters
<1>2. UNCHANGED Abstract!vars
    BY Stutters
<1> QED
    BY <1>1, <1>2 DEF Implements

\* A process whose queue is empty is done with _replay.
LEMMA AfterReplayOK ==
    ASSUME Operations, NEW p \in Procs, NEW est \in Estimates \cup {None}, NEW r,
           r = AfterReplay(est) \/ r = [pc |-> "replay", est |-> est],
           proc' = [proc EXCEPT ![p] = r]
    PROVE  Operations'
<1>1. /\ r \in [pc : {"idle", "replay", "begin"}, est : Estimates \cup {None}]
      /\ r.pc = "begin" => r.est \in Estimates
    BY DEF AfterReplay, Idle
<1> QED
    BY <1>1 DEF Operations

\* An operation that starts with _replay.
LEMMA StartReplayOK ==
    ASSUME Operations, NEW p \in Procs, NEW est \in Estimates \cup {None}, StartReplay(p, est)
    PROVE  Operations'
<1> DEFINE r == IF pending'[p] = <<>> THEN AfterReplay(est) ELSE [pc |-> "replay", est |-> est]
<1>1. proc' = [proc EXCEPT ![p] = r]
    BY DEF StartReplay
<1>2. r = AfterReplay(est) \/ r = [pc |-> "replay", est |-> est]
    OBVIOUS
<1> HIDE DEF r
<1> QED
    BY <1>1, <1>2, AfterReplayOK

\* Something about an admitted call is put in a queue.
LEMMA AppendOK ==
    ASSUME IInv, NEW p \in Procs, NEW op \in Ops, Admitted(op.id), db' = db,
           pending' = [pending EXCEPT ![p] = Append(@, op)]
    PROVE  Queues'
<1>1. pending \in [Procs -> Seq(Ops)] /\ pending[p] \in Seq(Ops)
    BY DEF IInv, Queues
<1> DEFINE q == Append(pending[p], op)
<1>2. /\ q \in Seq(Ops) /\ Len(q) = Len(pending[p]) + 1 /\ q[Len(pending[p]) + 1] = op
      /\ \A i \in 1..Len(pending[p]) : q[i] = pending[p][i]
    BY <1>1
<1>3. pending' = [pending EXCEPT ![p] = q]
    OBVIOUS
<1> HIDE DEF q
<1>4. pending' \in [Procs -> Seq(Ops)]
    BY <1>1, <1>2, <1>3
<1>5. ASSUME NEW b \in Procs, NEW i \in 1..Len(pending'[b]) PROVE Admitted(pending'[b][i].id)
  <2>1. CASE b = p
    <3>1. pending'[b] = q /\ Len(pending[p]) \in Nat
        BY <1>1, <1>3, <2>1
    <3>2. i \in 1..Len(pending[p]) \/ i = Len(pending[p]) + 1
        BY <1>2, <3>1
    <3> QED
        BY <1>2, <2>1, <3>1, <3>2 DEF IInv, Queues
  <2>2. CASE b # p
      BY <1>1, <1>3, <2>2 DEF IInv, Queues
  <2> QED
      BY <2>1, <2>2
<1> QED
    BY <1>4, <1>5 DEF Queues, Admitted

\* The operations that only touch the process.
LEMMA CallAdmitOK ==
    ASSUME IInv, NEW p \in Procs, NEW est \in Estimates, CallAdmit(p, est)
    PROVE  IInv' /\ Implements
<1>1. /\ UNCHANGED <<db, lapsed, handle, pending, crashes, attempts, overrun, overrunTokens>>
      /\ StartReplay(p, est)
    BY DEF CallAdmit, bounds, history
<1>2. Operations'
    BY <1>1, StartReplayOK DEF IInv
<1>3. Handles' /\ Queues'
    BY <1>1 DEF IInv, Handles, Queues, Admitted
<1> QED
    BY <1>1, <1>2, <1>3, DbUnchanged DEF IInv, Counters

\* settle queues an operation.
LEMMA CallSettleOK ==
    ASSUME IInv, NEW p \in Procs, NEW c \in Calls, NEW event \in Events, CallSettle(p, c, event)
    PROVE  IInv' /\ Implements
<1> DEFINE op == SettleOp(c, event)
<1>1. /\ UNCHANGED <<db, lapsed, handle, crashes, overrun, overrunTokens>>
      /\ attempts < MaxAttempts /\ attempts' = attempts + 1
      /\ handle[c].holder = p
      /\ pending' = [pending EXCEPT ![p] = Append(@, op)]
      /\ StartReplay(p, None)
    BY DEF CallSettle, SettleOp
<1>2. op \in Ops /\ op.id = c
    BY DEF Ops, SettleOp
<1>3. Admitted(c)
    BY <1>1 DEF IInv, Handles
<1>4. Operations'
    BY <1>1, StartReplayOK DEF IInv
<1> HIDE DEF op
<1>5. Queues'
    BY <1>1, <1>2, <1>3, AppendOK
<1>6. Handles'
    BY <1>1 DEF IInv, Handles, Admitted
<1>7. attempts' \in 0..MaxAttempts /\ crashes' \in 0..MaxCrashes
    BY <1>1, SharedAssumption DEF IInv, Counters
<1> QED
    BY <1>1, <1>4, <1>5, <1>6, <1>7, DbUnchanged DEF IInv

\* release queues an operation.
LEMMA CallReleaseOK ==
    ASSUME IInv, NEW p \in Procs, NEW c \in Calls, CallRelease(p, c)
    PROVE  IInv' /\ Implements
<1> DEFINE op == ReleaseOp(c)
<1>1. /\ UNCHANGED <<db, lapsed, crashes, attempts, overrun, overrunTokens>>
      /\ handle[c].holder = p
      /\ handle' = [handle EXCEPT ![c].released = TRUE]
      /\ pending' = [pending EXCEPT ![p] = Append(@, op)]
      /\ StartReplay(p, None)
    BY DEF CallRelease, ReleaseOp, bounds, history
<1>2. op \in Ops /\ op.id = c
  <2>1. op \in Ops
      BY DEF Ops
  <2>2. op.id = c
      BY DEF ReleaseOp
  <2> QED
      BY <2>1, <2>2
<1>3. Admitted(c)
    BY <1>1 DEF IInv, Handles
<1>4. Operations'
    BY <1>1, StartReplayOK DEF IInv
<1> HIDE DEF op
<1>5. Queues'
    BY <1>1, <1>2, <1>3, AppendOK
<1>6. Handles'
    BY <1>1 DEF IInv, Handles, Admitted
<1> QED
    BY <1>1, <1>4, <1>5, <1>6, DbUnchanged DEF IInv, Counters

\* flush replays the queue.
LEMMA CallFlushOK ==
    ASSUME IInv, NEW p \in Procs, CallFlush(p)
    PROVE  IInv' /\ Implements
<1>1. /\ UNCHANGED <<db, lapsed, handle, pending, crashes, attempts, overrun, overrunTokens>>
      /\ StartReplay(p, None)
    BY DEF CallFlush, bounds, history
<1>2. Operations'
    BY <1>1, StartReplayOK DEF IInv
<1>3. Handles' /\ Queues'
    BY <1>1 DEF IInv, Handles, Queues, Admitted
<1> QED
    BY <1>1, <1>2, <1>3, DbUnchanged DEF IInv, Counters

\* _replay fails and keeps the queue.
LEMMA ReplayFailsOK ==
    ASSUME IInv, NEW p \in Procs, ReplayFails(p)
    PROVE  IInv' /\ Implements
<1>1. /\ UNCHANGED <<db, lapsed, handle, pending, crashes, attempts, overrun, overrunTokens>>
      /\ proc' = [proc EXCEPT ![p] = AfterReplay(proc[p].est)]
    BY DEF ReplayFails, bounds, history
<1>2. proc[p].est \in Estimates \cup {None}
    BY DEF IInv, Operations
<1>3. Operations'
    BY <1>1, <1>2, AfterReplayOK DEF IInv
<1>4. Handles' /\ Queues'
    BY <1>1 DEF IInv, Handles, Queues, Admitted
<1> QED
    BY <1>1, <1>3, <1>4, DbUnchanged DEF IInv, Counters

\* admit does not get the database.
LEMMA AdmitUnavailableOK ==
    ASSUME IInv, NEW p \in Procs, AdmitUnavailable(p)
    PROVE  IInv' /\ Implements
<1>1. /\ UNCHANGED <<db, lapsed, handle, pending, crashes, attempts, overrun, overrunTokens>>
      /\ proc' = [proc EXCEPT ![p] = Idle]
    BY DEF AdmitUnavailable, bounds, history
<1>2. Operations'
    BY <1>1 DEF IInv, Operations, Idle
<1>4. Handles' /\ Queues'
    BY <1>1 DEF IInv, Handles, Queues, Admitted
<1> QED
    BY <1>1, <1>2, <1>4, DbUnchanged DEF IInv, Counters

\* The lease of a call runs out.
LEMMA LapseOK ==
    ASSUME IInv, NEW c \in Calls, Lapse(c)
    PROVE  IInv' /\ Implements
<1>1. /\ UNCHANGED <<db, handle, pending, proc, crashes, attempts, overrun, overrunTokens>>
      /\ lapsed' = lapsed \cup {c} /\ c \in OpenRows(db)
    BY DEF Lapse, bounds, history, OpenRows
<1>2. Operations' /\ Handles' /\ Queues'
    BY <1>1 DEF IInv, Operations, Handles, Queues, Admitted
<1>3. lapsed' \subseteq OpenRows(db)
    BY <1>1 DEF IInv
<1> QED
    BY <1>1, <1>2, <1>3, DbUnchanged DEF IInv, Counters

\* A process dies with its queue.
LEMMA CrashOK ==
    ASSUME IInv, NEW p \in Procs, Crash(p)
    PROVE  IInv' /\ Implements
<1>1. /\ UNCHANGED <<db, lapsed, attempts, overrun, overrunTokens>>
      /\ crashes < MaxCrashes /\ crashes' = crashes + 1
      /\ pending' = [pending EXCEPT ![p] = <<>>]
      /\ proc' = [proc EXCEPT ![p] = Idle]
      /\ handle' = [c \in Calls |-> IF handle[c].holder = p THEN NoHandle ELSE handle[c]]
    BY DEF Crash, history
<1>2. Operations'
    BY <1>1 DEF IInv, Operations, Idle
<1>3. Queues'
    BY <1>1 DEF IInv, Queues, Admitted
<1>4. Handles'
  <2>1. NoHandle \in [holder : Procs \cup {Nobody}, usd : Nat, released : BOOLEAN]
        /\ NoHandle.holder \notin Procs
    <3>1. NoHandle \in [holder : Procs \cup {Nobody}, usd : Nat, released : BOOLEAN]
      <4>1. 0 \in Nat
          OBVIOUS
      <4> QED
          BY <4>1, Zenon DEF NoHandle
    <3> QED
        BY <3>1, SharedAssumption DEF NoHandle
  <2> QED
      BY <1>1, <2>1 DEF IInv, Handles, Admitted
<1>5. crashes' \in 0..MaxCrashes
    BY <1>1, SharedAssumption DEF IInv, Counters
<1> QED
    BY <1>1, <1>2, <1>3, <1>4, <1>5, DbUnchanged DEF IInv, Counters

\* A transaction that keeps admitted calls admitted.
LEMMA StillAdmitted ==
    ASSUME IInv, \A c \in Calls : db'.rows[c].state = "none" => db.rows[c].state = "none"
    PROVE  /\ handle' = handle => Handles'
           /\ pending' = pending => Queues'
           /\ \A p \in Procs : pending[p] # <<>> /\ pending' = [pending EXCEPT ![p] = Tail(@)]
                                => Queues'
<1>1. \A c \in Calls : Admitted(c) => Admitted(c)'
    BY DEF Admitted
<1>2. \A op \in Ops : op.id \in Calls
    BY DEF Ops, SettleOp, ReleaseOp
<1>3. handle' = handle => Handles'
    BY <1>1 DEF IInv, Handles
<1>4. pending \in [Procs -> Seq(Ops)]
    BY DEF IInv, Queues
<1>5. \A p \in Procs : \A i \in 1..Len(pending[p]) :
        /\ pending[p][i] \in Ops /\ pending[p][i].id \in Calls
        /\ db'.rows[pending[p][i].id].state # "none"
  <2> SUFFICES ASSUME NEW p \in Procs, NEW i \in 1..Len(pending[p])
               PROVE  /\ pending[p][i] \in Ops /\ pending[p][i].id \in Calls
                      /\ db'.rows[pending[p][i].id].state # "none"
      OBVIOUS
  <2>1. pending[p][i] \in Ops
      BY <1>4
  <2>2. pending[p][i].id \in Calls
      BY <1>2, <2>1
  <2>3. Admitted(pending[p][i].id)
      BY DEF IInv, Queues
  <2> QED
      BY <2>1, <2>2, <2>3 DEF Admitted
<1>6. ASSUME pending' = pending PROVE Queues'
    BY <1>4, <1>5, <1>6 DEF Queues, Admitted
<1>7. ASSUME NEW p \in Procs, pending[p] # <<>>, pending' = [pending EXCEPT ![p] = Tail(@)]
      PROVE  Queues'
  <2> DEFINE q == Tail(pending[p])
  <2>1. /\ q \in Seq(Ops) /\ Len(q) = Len(pending[p]) - 1
        /\ \A i \in 1..Len(q) : q[i] = pending[p][i + 1]
    <3>1. pending[p] \in Seq(Ops) /\ pending[p] # <<>>
        BY <1>4, <1>7
    <3> QED
        BY <3>1, HeadTailProperties
  <2>2. pending' = [pending EXCEPT ![p] = q] /\ Len(pending[p]) \in Nat
      BY <1>4, <1>7
  <2> HIDE DEF q
  <2>3. pending' \in [Procs -> Seq(Ops)]
      BY <1>4, <2>1, <2>2
  <2>4. ASSUME NEW b \in Procs, NEW i \in 1..Len(pending'[b])
        PROVE  db'.rows[pending'[b][i].id].state # "none"
    <3>1. CASE b = p
      <4>1. pending'[b] = q /\ i + 1 \in 1..Len(pending[p]) /\ i \in 1..Len(q)
          BY <1>4, <2>1, <2>2, <3>1
      <4> QED
          BY <1>5, <2>1, <4>1 DEF Admitted
    <3>2. CASE b # p
        BY <1>4, <1>5, <2>2, <3>2 DEF Admitted
    <3> QED
        BY <3>1, <3>2
  <2> QED
      BY <2>3, <2>4 DEF Queues, Admitted
<1> QED
    BY <1>3, <1>6, <1>7

\* _try_expire: none to a caller.
LEMMA TryExpireOK ==
    ASSUME IInv, NEW p \in Procs, TryExpire(p)
    PROVE  IInv' /\ Implements
<1>1. PICK now \in SUBSET lapsed : db' = Expire(db, now) /\ lapsed' = lapsed \ now
    BY DEF TryExpire
<1>2. UNCHANGED <<handle, pending, proc, crashes, attempts, overrun, overrunTokens>>
    BY DEF TryExpire, bounds, history
<1>3. /\ DbOK(db')
      /\ Views(db') = Views(db) /\ Spent(db') = Spent(db) /\ Reserved(db') = Reserved(db)
      /\ SpentTokens(db') = SpentTokens(db) /\ TokensReserved(db') = TokensReserved(db)
      /\ \A c \in Calls : db'.rows[c].state = "none" <=> db.rows[c].state = "none"
      /\ OpenRows(db') = OpenRows(db) \ now
    BY <1>1, ExpireOK DEF IInv
<1>4. Handles' /\ Queues'
    BY <1>2, <1>3, StillAdmitted
<1>5. Operations' /\ Counters'
    BY <1>2 DEF IInv, Operations, Counters
<1>6. lapsed' \subseteq OpenRows(db')
    BY <1>1, <1>3 DEF IInv
<1>7. UNCHANGED Abstract!vars
    BY <1>2, <1>3, Stutters
<1> QED
    BY <1>3, <1>4, <1>5, <1>6, <1>7 DEF IInv, Implements, OpenRows

\* The transaction of admit: an admission to a caller, or a refusal.
LEMMA AdmitCommitOK ==
    ASSUME IInv, NEW p \in Procs, AdmitCommit(p)
    PROVE  IInv' /\ Implements
<1> DEFINE est == proc[p].est
<1>1. PICK now \in SUBSET lapsed :
         LET d == Expire(db, now)
         IN  /\ \/ /\ Admissible(est, ExposureOf(d), TokensUsed(d))
                   /\ \E c \in Calls :
                         /\ d.rows[c].state = "none"
                         /\ \A b \in 1..(c - 1) : d.rows[b].state # "none"
                         /\ db' = [d EXCEPT !.rows[c] = NewRow(est)]
                         /\ handle' = [handle EXCEPT ![c] =
                                         [NoHandle EXCEPT !.holder = p, !.usd = AmountOf(est)]]
                \/ db' = d /\ handle' = handle
             /\ lapsed' = lapsed \ now
    BY DEF AdmitCommit
<1>2. /\ UNCHANGED <<pending, crashes, attempts, overrun, overrunTokens>>
      /\ proc' = [proc EXCEPT ![p] = Idle] /\ proc[p].pc = "begin"
    BY DEF AdmitCommit, bounds, history
<1> DEFINE d == Expire(db, now)
<1>3. /\ SameView(d)
      /\ \A c \in Calls : d.rows[c].state = "none" <=> db.rows[c].state = "none"
      /\ OpenRows(d) = OpenRows(db) \ now
    BY ExpireOK DEF IInv, SameView
<1>4. est \in Estimates
    BY <1>2 DEF IInv, Operations
<1>5. Operations'
    BY <1>2 DEF IInv, Operations, Idle
<1>6. Counters'
    BY <1>2 DEF IInv, Counters
<1>7. lapsed' \subseteq OpenRows(d)
    BY <1>1, <1>3 DEF IInv
<1>8. \/ db' = d /\ handle' = handle
      \/ /\ Admissible(est, ExposureOf(d), TokensUsed(d))
         /\ \E c \in Calls :
               /\ d.rows[c].state = "none"
               /\ \A b \in 1..(c - 1) : d.rows[b].state # "none"
               /\ db' = [d EXCEPT !.rows[c] = NewRow(est)]
               /\ handle' = [handle EXCEPT ![c] =
                               [NoHandle EXCEPT !.holder = p, !.usd = AmountOf(est)]]
    BY <1>1
<1> HIDE DEF d, est
<1>9. CASE db' = d /\ handle' = handle
  <2>1. \A c \in Calls : db'.rows[c].state = "none" => db.rows[c].state = "none"
      BY <1>3, <1>9
  <2>2. Handles' /\ Queues'
      BY <1>2, <1>9, <2>1, StillAdmitted
  <2>3. UNCHANGED Abstract!vars
      BY <1>2, <1>3, <1>9, Stutters DEF SameView
  <2> QED
      BY <1>3, <1>5, <1>6, <1>7, <1>9, <2>2, <2>3 DEF IInv, Implements, SameView, OpenRows
<1>10. CASE Admissible(est, ExposureOf(d), TokensUsed(d)) /\ ~(db' = d /\ handle' = handle)
  <2>1. PICK c \in Calls :
               /\ d.rows[c].state = "none"
               /\ \A b \in 1..(c - 1) : d.rows[b].state # "none"
               /\ db' = [d EXCEPT !.rows[c] = NewRow(est)]
               /\ handle' = [handle EXCEPT ![c] =
                               [NoHandle EXCEPT !.holder = p, !.usd = AmountOf(est)]]
      BY <1>8, <1>10
  <2>2. DbOK(db') /\ AdmitsBy(d, db', c, est)
      BY <1>3, <1>4, <2>1, AdmitEffect DEF SameView
  <2>3. Abstract!Admit(c, est)
      BY <1>2, <1>3, <1>4, <1>10, <2>1, <2>2, AdmitImplements
  <2>4. Implements
      BY <1>4, <2>3, SameRules DEF Implements, Abstract!Next
  <2>5. /\ \A b \in Calls : db'.rows[b].state = IF b = c THEN "open" ELSE d.rows[b].state
      BY <2>2 DEF AdmitsBy
  <2>6. \A b \in Calls : db'.rows[b].state = "none" => db.rows[b].state = "none"
      BY <1>3, <2>5
  <2>7. Queues'
      BY <1>2, <2>6, StillAdmitted
  <2>8. Handles'
    <3> DEFINE n == NoHandle
               h == [n EXCEPT !.holder = p, !.usd = AmountOf(est)]
    <3>1. n \in [holder : Procs \cup {Nobody}, usd : Nat, released : BOOLEAN]
      <4>1. 0 \in Nat
          OBVIOUS
      <4> QED
          BY <4>1, Zenon DEF NoHandle
    <3>2. handle' = [handle EXCEPT ![c] = h]
        BY <2>1
    <3> HIDE DEF n
    <3>3. AmountOf(est) \in Nat
        BY <1>4, InputTypes
    <3>4. h \in [holder : Procs \cup {Nobody}, usd : Nat, released : BOOLEAN]
        BY <3>1, <3>3
    <3> HIDE DEF h
    <3> QED
        BY <2>5, <2>6, <3>2, <3>4 DEF IInv, Handles, Admitted
  <2>9. lapsed' \subseteq OpenRows(db')
      BY <1>7, <2>5 DEF OpenRows
  <2> QED
      BY <1>5, <1>6, <2>2, <2>4, <2>7, <2>8, <2>9 DEF IInv, OpenRows
<1> QED
    BY <1>8, <1>9, <1>10

\* One round of _replay: a settle, a release or a second release to a caller.
LEMMA ReplayOneOK ==
    ASSUME IInv, NEW p \in Procs, ReplayOne(p)
    PROVE  IInv' /\ Implements
<1> DEFINE op == Head(pending[p])
           d == Expire(db, lapsed)
           row == db.rows[op.id]
           cost == IF op.cost = None THEN 0 ELSE op.cost
           r == IF Len(pending[p]) = 1 THEN AfterReplay(proc[p].est) ELSE proc[p]
<1>1. /\ proc[p].pc = "replay" /\ pending[p] # <<>>
      /\ db' = Apply(d, op)
      /\ pending' = [pending EXCEPT ![p] = Tail(@)]
      /\ overrun' = IF op.kind = "settle"
                    THEN AddIn(overrun, ScopesOf(row.slots), ExcessOf(UsdHeld(row), row.state, cost))
                    ELSE overrun
      /\ overrunTokens' = IF op.kind = "settle"
                          THEN overrunTokens + ExcessOf(TokensHeld(row), row.state, op.tokens)
                          ELSE overrunTokens
      /\ lapsed' = {}
      /\ proc' = [proc EXCEPT ![p] = r]
      /\ UNCHANGED <<handle, crashes, attempts>>
    BY DEF ReplayOne, bounds
<1>2. /\ op \in Ops /\ Admitted(op.id)
  <2>1. pending[p] \in Seq(Ops)
      BY DEF IInv, Queues
  <2>2. op \in Ops /\ op = pending[p][1] /\ 1 \in 1..Len(pending[p])
      BY <1>1, <2>1, HeadTailProperties, EmptySeq
  <2> QED
      BY <2>2 DEF IInv, Queues
<1>3. /\ SameView(d)
      /\ \A c \in Calls : /\ d.rows[c].state = "none" <=> db.rows[c].state = "none"
                           /\ d.rows[c].slots = db.rows[c].slots
    BY ExpireOK DEF IInv, SameView
<1>4. Operations'
  <2>1. proc[p].est \in Estimates \cup {None}
      BY DEF IInv, Operations
  <2>2. CASE Len(pending[p]) = 1
      BY <1>1, <2>1, <2>2, AfterReplayOK DEF IInv
  <2>3. CASE Len(pending[p]) # 1
    <3>1. proc' = proc
        BY <1>1, <2>3 DEF IInv, Operations
    <3> QED
        BY <3>1 DEF IInv, Operations
  <2> QED
      BY <2>2, <2>3
<1>5. ASSUME DbOK(db'), Implements, overrun' \in [Scopes -> Nat], overrunTokens' \in Nat,
             \A c \in Calls : db'.rows[c].state = "none" => d.rows[c].state = "none"
      PROVE  IInv' /\ Implements
  <2>1. \A c \in Calls : db'.rows[c].state = "none" => db.rows[c].state = "none"
      BY <1>3, <1>5
  <2>2. Handles' /\ Queues'
      BY <1>1, <2>1, StillAdmitted
  <2>3. lapsed' \subseteq OpenRows(db')
      BY <1>1
  <2>4. Counters'
      BY <1>1, <1>5 DEF IInv, Counters
  <2> QED
      BY <1>4, <1>5, <2>2, <2>3, <2>4 DEF IInv, OpenRows
<1>6. overrun \in [Scopes -> Nat] /\ overrunTokens \in Nat
    BY DEF IInv, Counters
<1> HIDE DEF op, d, r
<1>7. ASSUME NEW c \in Calls, NEW event \in Events, op = SettleOp(c, event)
      PROVE  IInv' /\ Implements
  <2>1. /\ op.kind = "settle" /\ op.id = c /\ op.tokens = event.tokens /\ op.cost = event.cost
        /\ op.unpriced = IsUnpricedUsage(event) /\ op.unpriced \in BOOLEAN
      BY <1>7 DEF SettleOp, IsUnpricedUsage
  <2>2. cost = CostOf(event) /\ cost \in Nat /\ event.tokens \in Nat
      BY <2>1, InputTypes DEF CostOf
  <2>3. db' = ApplySettle(d, op)
      BY <1>1, <2>1 DEF Apply
  <2>4. d.rows[c].state # "none" /\ row = db.rows[c] /\ row.state # "none"
      BY <1>2, <1>3, <2>1 DEF Admitted
  <2> HIDE DEF cost
  <2>5. DbOK(db') /\ SettlesBy(d, db', c, CostOf(event), event.tokens, IsUnpricedUsage(event))
    <3>1. CostOf(event) = IF op.cost = None THEN 0 ELSE op.cost
        BY <2>2 DEF cost
    <3>2. CostOf(event) \in Nat /\ event.tokens \in Nat /\ IsUnpricedUsage(event) \in BOOLEAN
        BY <2>1, <2>2
    <3>3. DbOK(d)
        BY <1>3 DEF SameView
    <3> HIDE DEF SameView
    <3> QED
        BY <2>1, <2>3, <2>4, <3>1, <3>2, <3>3, SettleEffect
  <2> DEFINE v == View(d.rows[c])
  <2>6. /\ v.state = "open" <=> row.state \in {"open", "expired"}
        /\ v.usd = UsdHeld(row) /\ v.tokens = TokensHeld(row) /\ v.slots = row.slots
    <3>1. v = View(row)
        BY <1>3, <2>4 DEF SameView, Views
    <3>2. row.state # "none"
        BY <2>4
    <3> QED
        BY <3>1, <3>2 DEF View
  <2>7. v.usd \in Nat /\ v.tokens \in Nat
      BY <1>3, ViewTypes
  <2> HIDE DEF v, row
  <2>8. /\ overrun' = AddIn(overrun, ScopesOf(v.slots),
                            IF v.state = "open" THEN CostOf(event) - MinOf(v.usd, CostOf(event))
                            ELSE CostOf(event))
        /\ overrunTokens' = overrunTokens +
                            IF v.state = "open" THEN event.tokens - MinOf(v.tokens, event.tokens)
                            ELSE event.tokens
      BY <1>1, <2>1, <2>2, <2>6 DEF ExcessOf
  <2>9. overrun' \in [Scopes -> Nat] /\ overrunTokens' \in Nat
    <3> DEFINE eu == IF v.state = "open" THEN CostOf(event) - MinOf(v.usd, CostOf(event))
                     ELSE CostOf(event)
               et == IF v.state = "open" THEN event.tokens - MinOf(v.tokens, event.tokens)
                     ELSE event.tokens
    <3>1. eu \in Nat /\ et \in Nat
      <4>1. /\ CostOf(event) - MinOf(v.usd, CostOf(event)) \in Nat
            /\ event.tokens - MinOf(v.tokens, event.tokens) \in Nat
          BY <2>2, <2>7 DEF MinOf
      <4>2. CostOf(event) \in Nat /\ event.tokens \in Nat
          BY <2>2
      <4> QED
          BY <4>1, <4>2
    <3> HIDE DEF eu, et
    <3>2. overrun' = AddIn(overrun, ScopesOf(v.slots), eu) /\ overrunTokens' = overrunTokens + et
        BY <2>8 DEF eu, et
    <3> QED
        BY <1>6, <3>1, <3>2, AddInType
  <2>10. Abstract!Settle(c, event)
    <3>1. v = View(d.rows[c])
        BY DEF v
    <3> QED
        BY <1>3, <2>4, <2>5, <2>8, <3>1, SettleImplements
  <2>11. Implements
      BY <2>10, SameRules DEF Implements, Abstract!Next
  <2>12. \A b \in Calls : db'.rows[b].state = "none" => d.rows[b].state = "none"
      BY <2>5 DEF SettlesBy
  <2> QED
      BY <1>5, <2>5, <2>9, <2>11, <2>12
<1>8. ASSUME NEW c \in Calls, op = ReleaseOp(c)
      PROVE  IInv' /\ Implements
  <2>1. op.kind = "release" /\ op.id = c
      BY <1>8 DEF ReleaseOp
  <2>2. db' = ApplyRelease(d, op) /\ overrun' = overrun /\ overrunTokens' = overrunTokens
      BY <1>1, <2>1 DEF Apply
  <2>3. DbOK(d) /\ d.rows[c].state \in {"open", "expired", "released"}
    <3>1. DbOK(d) /\ d.rows[c].state # "none"
        BY <1>2, <1>3, <2>1 DEF Admitted, SameView
    <3> QED
        BY <3>1 DEF DbOK, Database, Row
  <2>4. CASE d.rows[c].state = "released"
    <3>1. db' = d
        BY <2>1, <2>2, <2>4 DEF ApplyRelease
    <3>2. UNCHANGED Abstract!vars
        BY <1>3, <2>2, <3>1, Stutters DEF SameView
    <3> QED
        BY <1>5, <1>6, <2>2, <2>3, <3>1, <3>2 DEF Implements
  <2>5. CASE d.rows[c].state \in {"open", "expired"}
    <3>1. DbOK(db') /\ ReleasesBy(d, db', c)
        BY <2>1, <2>2, <2>3, <2>5, ReleaseEffect
    <3>2. Abstract!Release(c)
        BY <1>3, <2>2, <2>5, <3>1, ReleaseImplements
    <3>3. Implements
        BY <3>2, SameRules DEF Implements, Abstract!Next
    <3>4. \A b \in Calls : db'.rows[b].state = "none" => d.rows[b].state = "none"
        BY <3>1 DEF ReleasesBy
    <3> QED
        BY <1>5, <1>6, <2>2, <3>1, <3>3, <3>4
  <2> QED
      BY <2>3, <2>4, <2>5
<1> QED
    BY <1>2, <1>7, <1>8 DEF Ops

-----------------------------------------------------------------------------
\* The initial state: an empty database is an empty budget.
LEMMA InitOK == Init => IInv /\ Abstract!Init
<1> SUFFICES ASSUME Init PROVE IInv /\ Abstract!Init
    OBVIOUS
<1>1. /\ db.rows = [c \in Calls |-> NoRow] /\ db.spend = [s \in Scopes |-> 0] /\ db.tokens = 0
      /\ db \in Database
  <2>1. db = [rows |-> [c \in Calls |-> NoRow], spend |-> [s \in Scopes |-> 0], tokens |-> 0]
      BY DEF Init
  <2>2. [c \in Calls |-> NoRow] \in [Calls -> Row]
      BY NoRowType
  <2> QED
      BY <2>1, <2>2 DEF Database
<1>2. \A c \in Calls : db.rows[c] = NoRow
    BY <1>1
<1>3. /\ NoRow.state = "none" /\ NoRow.usd = 0 /\ NoRow.tokens = 0 /\ NoRow.slots = {}
      /\ NoRow.unpriced = FALSE /\ NoRow.chargeUsd = 0 /\ NoRow.chargeTokens = 0
    BY DEF NoRow
<1>4. MaxCalls \in Nat
    BY BudgetAssumption
<1>5. /\ \A s \in Scopes : /\ SumTo(ChargedFor(db, s), MaxCalls) = 0
                            /\ SumTo(HeldFor(db, s), MaxCalls) = 0
      /\ SumTo(TokensChargedFor(db), MaxCalls) = 0
      /\ SumTo(TokensHeldFor(db), MaxCalls) = 0
  <2>1. \A i \in 1..MaxCalls : i \in Calls
      BY DEF Calls
  <2>2. ASSUME NEW s \in Scopes
        PROVE  SumTo(ChargedFor(db, s), MaxCalls) = 0 /\ SumTo(HeldFor(db, s), MaxCalls) = 0
    <3>1. \A i \in 1..MaxCalls : ChargedFor(db, s)[i] = 0 /\ HeldFor(db, s)[i] = 0
        BY <1>2, <1>3, <2>1 DEF ChargedFor, HeldFor, UsdHeld
    <3> QED
        BY <1>4, <3>1, SumZero
  <2>3. \A i \in 1..MaxCalls : TokensChargedFor(db)[i] = 0 /\ TokensHeldFor(db)[i] = 0
      BY <1>2, <1>3, <2>1 DEF TokensChargedFor, TokensHeldFor, TokensHeld
  <2> QED
      BY <1>4, <2>2, <2>3, SumZero
<1>6. DbOK(db)
  <2>1. \A c \in Calls : RowOK(db.rows[c])
      BY <1>2, <1>3 DEF RowOK
  <2> QED
      BY <1>1, <1>5, <2>1 DEF DbOK
<1>7. Handles
  <2>1. NoHandle \in [holder : Procs \cup {Nobody}, usd : Nat, released : BOOLEAN]
    <3>1. 0 \in Nat
        OBVIOUS
    <3> QED
        BY <3>1, Zenon DEF NoHandle
  <2>2. NoHandle.holder = Nobody
      BY DEF NoHandle
  <2>3. handle = [c \in Calls |-> NoHandle]
      BY DEF Init
  <2> QED
      BY <2>1, <2>2, <2>3, SharedAssumption DEF Handles
<1>8. Queues
  <2>1. pending = [p \in Procs |-> <<>>]
      BY DEF Init
  <2> QED
      BY <2>1 DEF Queues
<1>9. Operations /\ Counters
    BY SharedAssumption DEF Init, Operations, Counters, Idle
<1>10. Abstract!Init
  <2>1. Views(db) = [c \in Calls |-> View(NoRow)]
      BY <1>2 DEF Views
  <2>2. View(NoRow) = [state |-> "none", usd |-> 0, tokens |-> 0, slots |-> {}, unpriced |-> FALSE]
    <3>1. View(NoRow) = [state |-> NoRow.state, usd |-> NoRow.usd, tokens |-> NoRow.tokens,
                         slots |-> NoRow.slots, unpriced |-> NoRow.unpriced]
        BY <1>3 DEF View, UsdHeld, TokensHeld
    <3> QED
        BY <1>3, <3>1, Zenon
  <2>3. Reservations = [c \in Abstract!Calls |-> Abstract!NoReservation]
      BY <2>1, <2>2, Mapping, SameRules DEF Abstract!NoReservation
  <2>4. Spent(db) = [s \in Scopes |-> 0] /\ Reserved(db) = [s \in Scopes |-> 0]
      BY <1>1, <1>5 DEF Spent, Reserved
  <2>5. SpentTokens(db) = 0 /\ TokensReserved(db) = 0
      BY <1>1, <1>5 DEF SpentTokens, TokensReserved
  <2>6. overrun = [s \in Scopes |-> 0] /\ overrunTokens = 0
      BY DEF Init
  <2> QED
      BY <2>3, <2>4, <2>5, <2>6, Mapping, SameRules DEF Abstract!Init
<1>11. lapsed \subseteq OpenRows(db)
    BY DEF Init
<1> QED
    BY <1>6, <1>7, <1>8, <1>9, <1>10, <1>11 DEF IInv

\* Every step keeps the inductive invariant and is a step of CapBudget, or none, to a
\* caller.
LEMMA NextOK == IInv /\ [Next]_vars => IInv' /\ Implements
<1> SUFFICES ASSUME IInv, [Next]_vars PROVE IInv' /\ Implements
    OBVIOUS
<1>1. CASE Next
    BY <1>1, CallAdmitOK, CallSettleOK, CallReleaseOK, CallFlushOK, ReplayOneOK, ReplayFailsOK,
       AdmitCommitOK, AdmitUnavailableOK, TryExpireOK, CrashOK, LapseOK DEF Next
<1>2. CASE UNCHANGED vars
  <2>1. UNCHANGED <<db, lapsed, handle, pending, proc, crashes, attempts, overrun, overrunTokens>>
      BY <1>2 DEF vars, bounds, history
  <2>2. Handles' /\ Queues' /\ Operations'
      BY <2>1 DEF IInv, Handles, Queues, Operations, Admitted
  <2> QED
      BY <2>1, <2>2, DbUnchanged DEF IInv, Counters
<1> QED
    BY <1>1, <1>2

\* The invariant holds in every reachable state.
LEMMA Invariance == Spec => []IInv
<1>1. Init => IInv
    BY InitOK
<1>2. IInv /\ [Next]_vars => IInv'
    BY NextOK
<1> QED
    BY <1>1, <1>2, PTL DEF Spec

\* No amount in the database goes below zero: an expired row never refunds more than
\* _expire charged, and only open rows lapse.
THEOREM SharedTypeOK == Spec => []TypeOK
<1>1. IInv => TypeOK
  <2> SUFFICES ASSUME IInv PROVE TypeOK
      OBVIOUS
  <2>1. db \in Database
      BY DEF IInv, DbOK
  <2> QED
      BY <2>1 DEF IInv, Operations, Counters, TypeOK, Database, Row
<1> QED
    BY <1>1, Invariance, PTL

\* The shared budget of _apply and admit implements the in-memory one, whatever the
\* processes do at the same time and whichever leases lapse.
THEOREM SharedImplementsCapBudget == Spec => ImplementsCapBudget
<1>1. Init => Abstract!Init
    BY InitOK
<1>2. IInv /\ [Next]_vars => [Abstract!Next]_(Abstract!vars)
    BY NextOK DEF Implements
<1> QED
    BY <1>1, <1>2, Invariance, PTL DEF Spec, ImplementsCapBudget, Abstract!Spec

-----------------------------------------------------------------------------
\* The caps, on totals of spent and reserved USD, tokens and overruns.
Capped(sp, rs, tokens, ov, ot) ==
    /\ LimitUsd # None => sp[Kernel] + rs[Kernel] <= LimitUsd + ov[Kernel]
    /\ LimitTokens # None => tokens <= LimitTokens + ot
    /\ \A s \in Slots : sp[s] + rs[s] <= TagLimit[s] + ov[s]

\* The caps, in terms of the database.
LEMMA CapHoldsIs ==
    CapHolds <=> Capped(Spent(db), Reserved(db), SpentTokens(db) + TokensReserved(db),
                        overrun, overrunTokens)
BY Mapping, SameRules DEF CapHolds, Abstract!CapHolds, Abstract!Exposure, Capped, Scopes

\* The same in the next state.
LEMMA CapHoldsIsAfter ==
    CapHolds' <=> Capped(Spent(db'), Reserved(db'), SpentTokens(db') + TokensReserved(db'),
                         overrun', overrunTokens')
BY MappingAfter, SameRules DEF CapHolds, Abstract!CapHolds, Abstract!Exposure, Capped, Scopes

\* The totals are integers.
LEMMA TotalTypes ==
    ASSUME NEW d, DbOK(d)
    PROVE  /\ Spent(d) \in [Scopes -> Int] /\ Reserved(d) \in [Scopes -> Int]
           /\ SpentTokens(d) \in Int /\ TokensReserved(d) \in Int
BY SumTypes DEF DbOK, Database, Spent, Reserved, SpentTokens, TokensReserved

\* _consume of CapBudget takes from the reserved totals; they are never clamped, since
\* they cover what every reservation holds.
Consumes(c, usd, tokens) ==
    /\ [s \in Scopes |-> ReservedUsd(s)]' =
         [s \in Scopes |->
            IF s \in ScopesOf(Reservations[c].slots)
            THEN MaxOf(0, [t \in Scopes |-> ReservedUsd(t)][s] - MinOf(Reservations[c].usd, usd))
            ELSE [t \in Scopes |-> ReservedUsd(t)][s]]
    /\ ReservedTokens' = MaxOf(0, ReservedTokens - MinOf(Reservations[c].tokens, tokens))

\* What CapBudget does to its reserved totals is that.
LEMMA ConsumesIs ==
    ASSUME NEW c, NEW usd, NEW tokens, NEW new, Abstract!Consume(c, usd, tokens, new)
    PROVE  Consumes(c, usd, tokens)
BY SameRules DEF Abstract!Consume, Abstract!ConsumedScopes, Consumes

\* usd and tokens of a call of these slots go out of the reserved totals.
TakesOut(slots, usd, tokens) ==
    /\ \A s \in Scopes : Reserved(db')[s] = IF s \in ScopesOf(slots)
                                            THEN Reserved(db)[s] - usd ELSE Reserved(db)[s]
    /\ TokensReserved(db') = TokensReserved(db) - tokens

\* In terms of the database, nothing is clamped.
LEMMA ConsumesTotals ==
    ASSUME DbOK(db), NEW c \in Calls, NEW usd \in Nat, NEW tokens \in Nat,
           Consumes(c, usd, tokens), NEW r, r = View(db.rows[c])
    PROVE  TakesOut(r.slots, MinOf(r.usd, usd), MinOf(r.tokens, tokens))
<1>1. /\ Reservations[c] = r /\ r.usd \in Nat /\ r.tokens \in Nat
      /\ \A s \in ScopesOf(r.slots) : s \in Scopes /\ Reserved(db)[s] >= r.usd
      /\ \A s \in Scopes : Reserved(db)[s] \in Int
      /\ TokensReserved(db) >= r.tokens /\ TokensReserved(db) \in Int
    BY ViewTypes DEF SameView
<1>2. /\ Reserved(db') = [s \in Scopes |-> IF s \in ScopesOf(r.slots)
                                           THEN MaxOf(0, Reserved(db)[s] - MinOf(r.usd, usd))
                                           ELSE Reserved(db)[s]]
      /\ TokensReserved(db') = MaxOf(0, TokensReserved(db) - MinOf(r.tokens, tokens))
    BY <1>1, Mapping, MappingAfter DEF Consumes
<1>3. MinOf(r.usd, usd) \in Nat /\ MinOf(r.usd, usd) <= r.usd
      /\ MinOf(r.tokens, tokens) \in Nat /\ MinOf(r.tokens, tokens) <= r.tokens
    BY <1>1, MinMax
<1> QED
    BY <1>1, <1>2, <1>3 DEF MaxOf, TakesOut

\* No step of CapBudget passes a cap: an admission has checked it, and what a settle or
\* a release adds to the exposure is overrun.
LEMMA CapKept ==
    ASSUME IInv, IInv', CapHolds, Implements
    PROVE  CapHolds'
<1> DEFINE sp == Spent(db)
           rs == Reserved(db)
           st == SpentTokens(db)
           rt == TokensReserved(db)
<1>1. /\ sp \in [Scopes -> Int] /\ rs \in [Scopes -> Int] /\ st \in Int /\ rt \in Int
      /\ overrun \in [Scopes -> Nat] /\ overrunTokens \in Nat
      /\ LimitUsd \in Nat \cup {None} /\ LimitTokens \in Nat \cup {None}
      /\ TagLimit \in [Slots -> Nat] /\ Slots \subseteq Scopes /\ Kernel \in Scopes
    BY TotalTypes, BudgetAssumption DEF IInv, Counters, Scopes
<1>2. Capped(sp, rs, st + rt, overrun, overrunTokens)
    BY CapHoldsIs
<1>3. SUFFICES Capped(Spent(db'), Reserved(db'), SpentTokens(db') + TokensReserved(db'),
                      overrun', overrunTokens')
    BY CapHoldsIsAfter
<1>4. ASSUME NEW c \in Calls, NEW est \in Estimates, Abstract!Admit(c, est)
      PROVE  Capped(Spent(db'), Reserved(db'), SpentTokens(db') + TokensReserved(db'),
                    overrun', overrunTokens')
  <2>1. /\ Spent(db') = sp /\ Reserved(db') = AddIn(rs, ScopesOf(est.slots), AmountOf(est))
        /\ SpentTokens(db') = st /\ TokensReserved(db') = rt + est.tokens
        /\ overrun' = overrun /\ overrunTokens' = overrunTokens
      BY <1>4, Mapping, MappingAfter, SameRules DEF Abstract!Admit
  <2>2. Admissible(est, [s \in Scopes |-> sp[s] + rs[s]], st + rt)
      BY <1>4, Mapping, SameRules DEF Abstract!Admit, Abstract!Exposure
  <2>3. AmountOf(est) \in Nat /\ est.tokens \in Nat /\ est.slots \in SUBSET Slots
      BY InputTypes
  <2> HIDE DEF sp, rs, st, rt
  <2>4. ASSUME NEW s \in Scopes, NEW limit \in Nat, sp[s] + rs[s] <= limit + overrun[s],
               s \in ScopesOf(est.slots) => sp[s] + rs[s] + AmountOf(est) <= limit
        PROVE  Spent(db')[s] + Reserved(db')[s] <= limit + overrun'[s]
      BY <1>1, <2>1, <2>3, <2>4 DEF AddIn
  <2>5. LimitUsd # None => Spent(db')[Kernel] + Reserved(db')[Kernel] <= LimitUsd + overrun'[Kernel]
    <3>1. LimitUsd # None => sp[Kernel] + rs[Kernel] + AmountOf(est) <= LimitUsd
        BY <1>1, <2>2 DEF Admissible
    <3> QED
        BY <1>1, <1>2, <2>4, <3>1 DEF Capped
  <2>6. \A s \in Slots : Spent(db')[s] + Reserved(db')[s] <= TagLimit[s] + overrun'[s]
    <3>1. \A s \in est.slots : sp[s] + rs[s] + AmountOf(est) <= TagLimit[s]
        BY <1>1, <2>2, <2>3 DEF Admissible
    <3>2. \A s \in Slots : s \in ScopesOf(est.slots) => s \in est.slots
        BY BudgetAssumption DEF ScopesOf
    <3> QED
        BY <1>1, <1>2, <2>4, <3>1, <3>2 DEF Capped
  <2>7. LimitTokens # None
          => SpentTokens(db') + TokensReserved(db') <= LimitTokens + overrunTokens'
      BY <1>1, <2>1, <2>2, <2>3 DEF Admissible
  <2> QED
      BY <2>5, <2>6, <2>7 DEF Capped
<1>5. ASSUME NEW c \in Calls, NEW usd \in Int, NEW tokens \in Int, NEW takeUsd \in Int,
             NEW takeTokens \in Int, NEW slots \in SUBSET Slots,
             NEW ou \in Int, NEW ot \in Int, usd - takeUsd <= ou, tokens - takeTokens <= ot,
             Spent(db') = AddIn(sp, ScopesOf(slots), usd), SpentTokens(db') = st + tokens,
             TakesOut(slots, takeUsd, takeTokens),
             overrun' = AddIn(overrun, ScopesOf(slots), ou), overrunTokens' = overrunTokens + ot
      PROVE  Capped(Spent(db'), Reserved(db'), SpentTokens(db') + TokensReserved(db'),
                    overrun', overrunTokens')
  <2>t. /\ \A s \in Scopes : Reserved(db')[s] = IF s \in ScopesOf(slots) THEN rs[s] - takeUsd
                                                ELSE rs[s]
        /\ TokensReserved(db') = rt - takeTokens
      BY <1>5 DEF TakesOut
  <2> HIDE DEF sp, rs, st, rt
  <2>1. ASSUME NEW s \in Scopes, NEW limit \in Nat, sp[s] + rs[s] <= limit + overrun[s]
        PROVE  Spent(db')[s] + Reserved(db')[s] <= limit + overrun'[s]
      BY <1>1, <1>5, <2>t, <2>1 DEF AddIn
  <2>2. LimitUsd # None => Spent(db')[Kernel] + Reserved(db')[Kernel] <= LimitUsd + overrun'[Kernel]
      BY <1>1, <1>2, <2>1 DEF Capped
  <2>3. \A s \in Slots : Spent(db')[s] + Reserved(db')[s] <= TagLimit[s] + overrun'[s]
      BY <1>1, <1>2, <2>1 DEF Capped
  <2>4. LimitTokens # None
          => SpentTokens(db') + TokensReserved(db') <= LimitTokens + overrunTokens'
      BY <1>1, <1>2, <1>5, <2>t DEF Capped
  <2> QED
      BY <2>2, <2>3, <2>4 DEF Capped
<1>6. ASSUME NEW c \in Calls, NEW event \in Events, Abstract!Settle(c, event)
      PROVE  Capped(Spent(db'), Reserved(db'), SpentTokens(db') + TokensReserved(db'),
                    overrun', overrunTokens')
  <2> DEFINE r == View(db.rows[c])
             cost == CostOf(event)
             takeUsd == IF r.state = "open" THEN MinOf(r.usd, cost) ELSE 0
             takeTokens == IF r.state = "open" THEN MinOf(r.tokens, event.tokens) ELSE 0
             ou == Abstract!Excess(r, r.usd, cost)
             ot == Abstract!Excess(r, r.tokens, event.tokens)
  <2>1. /\ Reservations[c] = r /\ r.usd \in Nat /\ r.tokens \in Nat /\ r.slots \in SUBSET Slots
        /\ DbOK(db)
      BY ViewTypes DEF IInv, SameView
  <2>2. cost \in Nat /\ event.tokens \in Nat
      BY InputTypes
  <2>3. /\ Spent(db') = AddIn(sp, ScopesOf(r.slots), cost)
        /\ SpentTokens(db') = st + event.tokens
        /\ overrun' = AddIn(overrun, ScopesOf(r.slots), ou)
        /\ overrunTokens' = overrunTokens + ot
      BY <1>6, <2>1, Mapping, MappingAfter, SameRules DEF Abstract!Settle
  <2>4. TakesOut(r.slots, takeUsd, takeTokens)
    <3>1. CASE r.state = "open"
      <4>1. Consumes(c, cost, event.tokens)
          BY <1>6, <2>1, <3>1, SameRules, ConsumesIs DEF Abstract!Settle
      <4>2. TakesOut(r.slots, MinOf(r.usd, cost), MinOf(r.tokens, event.tokens))
          BY <2>1, <2>2, <4>1, ConsumesTotals
      <4> QED
          BY <3>1, <4>2
    <3>2. CASE r.state # "open"
      <4>1. /\ [s \in Scopes |-> ReservedUsd(s)]' = [s \in Scopes |-> ReservedUsd(s)]
            /\ ReservedTokens' = ReservedTokens
          BY <1>6, <2>1, <3>2 DEF Abstract!Settle
      <4>2. Reserved(db') = rs /\ TokensReserved(db') = rt
          BY <4>1, Mapping, MappingAfter
      <4>3. TakesOut(r.slots, 0, 0)
          BY <1>1, <4>2 DEF TakesOut
      <4> QED
          BY <3>2, <4>3
    <3> QED
        BY <3>1, <3>2
  <2>5. /\ takeUsd \in Int /\ takeTokens \in Int /\ ou \in Int /\ ot \in Int
        /\ cost - takeUsd <= ou /\ event.tokens - takeTokens <= ot
    <3> DEFINE mu == MinOf(r.usd, cost)
               mt == MinOf(r.tokens, event.tokens)
    <3>1. mu \in Nat /\ mt \in Nat
        BY <2>1, <2>2, MinMax
    <3>2. /\ ou = IF r.state = "open" THEN cost - mu ELSE cost
          /\ ot = IF r.state = "open" THEN event.tokens - mt ELSE event.tokens
        BY SameRules DEF Abstract!Excess
    <3>3. /\ takeUsd = IF r.state = "open" THEN mu ELSE 0
          /\ takeTokens = IF r.state = "open" THEN mt ELSE 0
        OBVIOUS
    <3> HIDE DEF r, cost, mu, mt, takeUsd, takeTokens, ou, ot
    <3> QED
        BY <2>2, <3>1, <3>2, <3>3
  <2> HIDE DEF ou, ot, takeUsd, takeTokens, r, cost
  <2> QED
      BY <1>5, <2>1, <2>2, <2>3, <2>4, <2>5
<1>7. ASSUME NEW c \in Calls, Abstract!Release(c)
      PROVE  Capped(Spent(db'), Reserved(db'), SpentTokens(db') + TokensReserved(db'),
                    overrun', overrunTokens')
  <2> DEFINE r == View(db.rows[c])
             kept == IF r.unpriced THEN r.usd ELSE 0
  <2>1. /\ Reservations[c] = r /\ r.usd \in Nat /\ r.tokens \in Nat /\ r.slots \in SUBSET Slots
        /\ DbOK(db)
      BY ViewTypes DEF IInv, SameView
  <2>2. /\ Spent(db') = AddIn(sp, ScopesOf(r.slots), kept)
        /\ SpentTokens(db') = st + 0
        /\ overrun' = AddIn(overrun, ScopesOf(r.slots), 0) /\ overrunTokens' = overrunTokens + 0
    <3>1. /\ Spent(db') = AddIn(sp, ScopesOf(r.slots), kept)
          /\ SpentTokens(db') = st /\ overrun' = overrun /\ overrunTokens' = overrunTokens
        BY <1>7, <2>1, Mapping, MappingAfter, SameRules DEF Abstract!Release, Abstract!KeptAtRelease
    <3>2. AddIn(overrun, ScopesOf(r.slots), 0) = overrun
        BY <1>1 DEF AddIn
    <3> HIDE DEF r, sp, st, kept
    <3> QED
        BY <1>1, <3>1, <3>2
  <2>3. Consumes(c, r.usd, r.tokens)
      BY <1>7, <2>1, ConsumesIs DEF Abstract!Release
  <2>4. TakesOut(r.slots, r.usd, r.tokens)
    <3>1. MinOf(r.usd, r.usd) = r.usd /\ MinOf(r.tokens, r.tokens) = r.tokens
        BY DEF MinOf
    <3>2. TakesOut(r.slots, MinOf(r.usd, r.usd), MinOf(r.tokens, r.tokens))
        BY <2>1, <2>3, ConsumesTotals
    <3> QED
        BY <3>1, <3>2
  <2>5. kept \in Int /\ kept - r.usd <= 0 /\ 0 - r.tokens <= 0
    <3> HIDE DEF r
    <3> QED
        BY <2>1
  <2> HIDE DEF r, kept
  <2> QED
      BY <1>5, <2>1, <2>2, <2>4, <2>5
<1>8. ASSUME UNCHANGED Abstract!vars
      PROVE  Capped(Spent(db'), Reserved(db'), SpentTokens(db') + TokensReserved(db'),
                    overrun', overrunTokens')
    BY <1>2, <1>8, Mapping, MappingAfter DEF Abstract!vars
<1> QED
    BY <1>4, <1>6, <1>7, <1>8, SameRules DEF Implements, Abstract!Next

\* FR-045 at every committed state: the shared budget keeps the caps of check_admission
\* across all processes, crashes and lapsed leases.
THEOREM SharedCapHolds == Spec => []CapHolds
<1>1. Init => CapHolds
  <2> SUFFICES ASSUME Init PROVE CapHolds
      OBVIOUS
  <2>1. Abstract!Init /\ overrun = [s \in Scopes |-> 0] /\ overrunTokens = 0
      BY InitOK DEF Init
  <2>2. /\ Spent(db) = [s \in Scopes |-> 0] /\ Reserved(db) = [s \in Scopes |-> 0]
        /\ SpentTokens(db) = 0 /\ TokensReserved(db) = 0
      BY <2>1, Mapping, SameRules DEF Abstract!Init
  <2> QED
      BY <2>1, <2>2, CapHoldsIs, BudgetAssumption DEF Capped, Scopes
<1>2. IInv /\ IInv' /\ CapHolds /\ [Next]_vars => CapHolds'
    BY NextOK, CapKept
<1> QED
    BY <1>1, <1>2, Invariance, PTL DEF Spec

-----------------------------------------------------------------------------
(* CapsNeverLoosen.  The spend is one total, and after its release nothing *)
(* in the database says what a call has paid.  The invariant says that     *)
(* there are payments, one per call, that add up to no more than the spend *)
(* and that cover the call's bill: together with what the row still holds, *)
(* and, once the release is written, alone.                                *)

OpCost(op) == IF op.cost = None THEN 0 ELSE op.cost
Settles(op, c) == op.kind = "settle" /\ op.id = c
Releases(op, c) == op.kind = "release" /\ op.id = c

\* cover[i] is covered if call c, admitted for total, is released behind the first
\* i - 1 operations of the queue q.
CoverGrows(cover, q, c, total) ==
    /\ cover \in [1..(Len(q) + 1) -> Nat]
    /\ \A i \in 1..(Len(q) + 1) : cover[i] <= total
    /\ \A i \in 1..Len(q) :
         /\ Settles(q[i], c) /\ ~q[i].unpriced => cover[i + 1] <= cover[i] + OpCost(q[i])
         /\ ~Settles(q[i], c) => cover[i + 1] <= cover[i]

\* The queue q writes what covers the bill before it writes the release of c.
QueueCovers(cover, q, c, h, bill) ==
    /\ CoverGrows(cover, q, c, h.usd)
    /\ ~h.released => bill <= cover[Len(q) + 1]
    /\ \A i \in 1..Len(q) : Releases(q[i], c) => h.released /\ bill <= cover[i]

\* Call c, with row v (to a caller), reservation object h and the queue q of its
\* holder, has paid for its bill or can.
Covered(c, v, h, q, bill, paid) ==
    /\ v.state = "none" => bill = 0 /\ paid = 0
    /\ v.state = "open" => bill <= paid + v.usd
    /\ v.state = "released" => bill <= paid
    /\ h.holder \in Procs /\ v.state = "released" => h.released
    /\ h.holder \in Procs /\ v.state = "open" =>
         /\ h.usd = paid + v.usd
         /\ \E cover : /\ QueueCovers(cover, q, c, h, bill)
                       /\ ~v.unpriced => cover[1] <= paid

AllCovered(paid) ==
    \A c \in Calls :
        Covered(c, View(db.rows[c]), handle[c], pending[handle[c].holder], billed[c], paid[c])

\* What is queued for a call is queued by the holder of its reservation object.
QueuedByHolder ==
    \A p \in Procs : \A i \in 1..Len(pending[p]) : handle[pending[p][i].id].holder = p

Ledger ==
    /\ billed \in [Calls -> Nat]
    /\ QueuedByHolder
    /\ \E paid \in [Calls -> Nat] :
         SumTo(paid, MaxCalls) <= Spent(db)[Kernel] /\ AllCovered(paid)

\* Without its first operation, the queue covers the bill from cover[2] on.
LEMMA CoverShift ==
    ASSUME NEW c \in Calls, NEW h, NEW q, NEW r, Len(q) \in Nat \ {0}, Len(r) \in Nat,
           Len(r) = Len(q) - 1, \A i \in 1..Len(r) : r[i] = q[i + 1],
           NEW bill, NEW b, QueueCovers(b, q, c, h, bill)
    PROVE  \E e : QueueCovers(e, r, c, h, bill) /\ e[1] = b[2]
<1> DEFINE e == [i \in 1..(Len(r) + 1) |-> b[i + 1]]
<1>1. b \in [1..(Len(q) + 1) -> Nat] /\ \A i \in 1..(Len(q) + 1) : b[i] <= h.usd
    BY DEF QueueCovers, CoverGrows
<1>2. \A i \in 1..(Len(r) + 1) : i + 1 \in 1..(Len(q) + 1)
    OBVIOUS
<1>3. /\ e \in [1..(Len(r) + 1) -> Nat] /\ e[1] = b[2] /\ e[Len(r) + 1] = b[Len(q) + 1]
      /\ \A i \in 1..(Len(r) + 1) : e[i] = b[i + 1] /\ e[i] <= h.usd
    BY <1>1, <1>2
<1> HIDE DEF e
<1>4. ASSUME NEW i \in 1..Len(r)
      PROVE  /\ Settles(r[i], c) /\ ~r[i].unpriced => e[i + 1] <= e[i] + OpCost(r[i])
             /\ ~Settles(r[i], c) => e[i + 1] <= e[i]
             /\ Releases(r[i], c) => h.released /\ bill <= e[i]
  <2>1. /\ i \in 1..(Len(r) + 1) /\ i + 1 \in 1..(Len(r) + 1) /\ i + 1 \in 1..Len(q)
        /\ r[i] = q[i + 1]
      OBVIOUS
  <2>2. e[i] = b[i + 1] /\ e[i + 1] = b[(i + 1) + 1]
      BY <1>3, <2>1
  <2> DEFINE j == i + 1
  <2>3. /\ Settles(q[j], c) /\ ~q[j].unpriced => b[j + 1] <= b[j] + OpCost(q[j])
        /\ ~Settles(q[j], c) => b[j + 1] <= b[j]
        /\ Releases(q[j], c) => h.released /\ bill <= b[j]
      BY <2>1 DEF QueueCovers, CoverGrows
  <2> QED
      BY <2>1, <2>2, <2>3
<1>5. ~h.released => bill <= e[Len(r) + 1]
    BY <1>3 DEF QueueCovers
<1>6. QueueCovers(e, r, c, h, bill)
    BY <1>3, <1>4, <1>5 DEF QueueCovers, CoverGrows
<1> QED
    BY <1>3, <1>6

\* What is left for a queue whose first operation is written.
LEMMA CoverTail ==
    ASSUME NEW c \in Calls, NEW h, NEW q \in Seq(Ops), q # <<>>, NEW bill, NEW b,
           QueueCovers(b, q, c, h, bill)
    PROVE  \E e : QueueCovers(e, Tail(q), c, h, bill) /\ e[1] = b[2]
<1> DEFINE r == Tail(q)
<1>1. /\ Len(r) = Len(q) - 1 /\ Len(q) \in Nat \ {0} /\ Len(r) \in Nat
      /\ \A i \in 1..Len(r) : r[i] = q[i + 1]
    BY HeadTailProperties
<1> HIDE DEF r
<1>2. \E e : QueueCovers(e, r, c, h, bill) /\ e[1] = b[2]
    BY <1>1, CoverShift
<1> QED
    BY <1>2 DEF r

\* Another call's operation joins the queue.
LEMMA CoveredQueueOther ==
    ASSUME NEW c \in Calls, NEW v, NEW h, NEW q \in Seq(Ops), NEW op \in Ops, op.id # c,
           NEW bill \in Nat, NEW paid \in Nat, Covered(c, v, h, q, bill, paid)
    PROVE  Covered(c, v, h, Append(q, op), bill, paid)
<1> DEFINE r == Append(q, op)
<1>1. /\ Len(r) = Len(q) + 1 /\ r[Len(q) + 1] = op /\ Len(q) \in Nat
      /\ \A i \in 1..Len(q) : r[i] = q[i]
    BY AppendProperties
<1> HIDE DEF r
<1>2. ASSUME h.holder \in Procs, v.state = "open"
      PROVE  \E cover : QueueCovers(cover, r, c, h, bill) /\ (~v.unpriced => cover[1] <= paid)
  <2>1. PICK b : QueueCovers(b, q, c, h, bill) /\ (~v.unpriced => b[1] <= paid)
      BY <1>2 DEF Covered
  <2> DEFINE e == [i \in 1..(Len(r) + 1) |-> IF i = Len(r) + 1 THEN b[Len(q) + 1] ELSE b[i]]
  <2>2. /\ b \in [1..(Len(q) + 1) -> Nat] /\ \A i \in 1..(Len(q) + 1) : b[i] <= h.usd
      BY <2>1 DEF QueueCovers, CoverGrows
  <2>3. /\ e \in [1..(Len(r) + 1) -> Nat] /\ e[Len(r) + 1] = b[Len(q) + 1]
        /\ \A i \in 1..Len(r) : e[i] = b[i]
      BY <1>1, <2>2
  <2> HIDE DEF e
  <2>4. \A i \in 1..(Len(r) + 1) : e[i] <= h.usd
      BY <1>1, <2>2, <2>3
  <2>5. ASSUME NEW i \in 1..Len(r)
        PROVE  /\ Settles(r[i], c) /\ ~r[i].unpriced => e[i + 1] <= e[i] + OpCost(r[i])
               /\ ~Settles(r[i], c) => e[i + 1] <= e[i]
               /\ Releases(r[i], c) => h.released /\ bill <= e[i]
    <3>1. CASE i \in 1..Len(q)
      <4>1. r[i] = q[i] /\ e[i] = b[i] /\ e[i + 1] = b[i + 1]
          BY <1>1, <2>3, <3>1
      <4> QED
          BY <2>1, <3>1, <4>1 DEF QueueCovers, CoverGrows
    <3>2. CASE i = Len(q) + 1
      <4>1. e[i] = b[i] /\ e[i + 1] = b[i] /\ b[i] \in Nat /\ r[i] = op
          BY <1>1, <2>2, <2>3, <3>2
      <4> QED
          BY <4>1 DEF Settles, Releases
    <3> QED
        BY <1>1, <3>1, <3>2
  <2>6. ~h.released => bill <= e[Len(r) + 1]
      BY <2>1, <2>3 DEF QueueCovers
  <2>7. QueueCovers(e, r, c, h, bill)
      BY <2>3, <2>4, <2>5, <2>6 DEF QueueCovers, CoverGrows
  <2>8. e[1] = b[1]
      BY <1>1, <2>3
  <2> QED
      BY <2>1, <2>7, <2>8
<1> QED
    BY <1>2 DEF Covered, r

\* A settle of the call joins the queue; it adds to the bill before the release.
LEMMA CoveredQueueSettle ==
    ASSUME NEW c \in Calls, NEW v, NEW h, h.usd \in Nat, h.released \in BOOLEAN,
           NEW q \in Seq(Ops), NEW op, Settles(op, c), OpCost(op) \in Nat,
           NEW bill \in Nat, NEW paid \in Nat, Covered(c, v, h, q, bill, paid),
           h.holder \in Procs, v.state \in {"open", "released"},
           NEW new \in Nat,
           new = IF h.released THEN bill
                 ELSE IF op.unpriced THEN h.usd ELSE MinOf(h.usd, bill + OpCost(op))
    PROVE  Covered(c, v, h, Append(q, op), new, paid)
<1> DEFINE r == Append(q, op)
<1>1. /\ Len(r) = Len(q) + 1 /\ r[Len(q) + 1] = op /\ Len(q) \in Nat
      /\ \A i \in 1..Len(q) : r[i] = q[i]
    BY AppendProperties
<1> HIDE DEF r
<1>2. CASE v.state = "released"
    BY <1>2 DEF Covered, r
<1>3. CASE v.state = "open"
  <2>1. PICK b : QueueCovers(b, q, c, h, bill) /\ (~v.unpriced => b[1] <= paid)
      BY <1>3 DEF Covered
  <2> DEFINE last == IF h.released THEN 0 ELSE new
             e == [i \in 1..(Len(r) + 1) |-> IF i = Len(r) + 1 THEN last ELSE b[i]]
  <2>2. /\ b \in [1..(Len(q) + 1) -> Nat] /\ \A i \in 1..(Len(q) + 1) : b[i] <= h.usd
      BY <2>1 DEF QueueCovers, CoverGrows
  <2>3. last \in Nat /\ last <= h.usd /\ (~h.released => new <= last)
      BY DEF MinOf
  <2>4. ~op.unpriced => last <= b[Len(q) + 1] + OpCost(op)
    <3>1. b[Len(q) + 1] \in Nat /\ (~h.released => bill <= b[Len(q) + 1])
        BY <1>1, <2>1, <2>2 DEF QueueCovers
    <3>2. CASE h.released
        BY <3>1, <3>2
    <3>3. CASE ~h.released
      <4>1. ~op.unpriced => last <= bill + OpCost(op)
          BY <3>3 DEF MinOf
      <4> QED
          BY <3>1, <3>3, <4>1, <2>3
    <3> QED
        BY <3>2, <3>3
  <2> HIDE DEF last
  <2>5. /\ e \in [1..(Len(r) + 1) -> Nat] /\ e[Len(r) + 1] = last
        /\ \A i \in 1..Len(r) : e[i] = b[i]
      BY <1>1, <2>2, <2>3
  <2> HIDE DEF e
  <2>6. \A i \in 1..(Len(r) + 1) : e[i] <= h.usd
      BY <1>1, <2>2, <2>3, <2>5
  <2>7. \A i \in 1..Len(q) : Releases(q[i], c) => new = bill /\ h.released /\ bill <= b[i]
      BY <2>1 DEF QueueCovers
  <2>8. ASSUME NEW i \in 1..Len(r)
        PROVE  /\ Settles(r[i], c) /\ ~r[i].unpriced => e[i + 1] <= e[i] + OpCost(r[i])
               /\ ~Settles(r[i], c) => e[i + 1] <= e[i]
               /\ Releases(r[i], c) => h.released /\ new <= e[i]
    <3>1. CASE i \in 1..Len(q)
      <4>1. r[i] = q[i] /\ e[i] = b[i] /\ e[i + 1] = b[i + 1]
        <5>1. i \in 1..Len(r) /\ i + 1 \in 1..Len(r)
            BY <1>1, <3>1
        <5> QED
            BY <1>1, <2>5, <3>1, <5>1
      <4> QED
          BY <2>1, <2>7, <3>1, <4>1 DEF QueueCovers, CoverGrows
    <3>2. CASE i = Len(q) + 1
      <4>1. e[i] = b[Len(q) + 1] /\ e[i + 1] = last /\ r[i] = op
          BY <1>1, <2>5, <3>2
      <4> QED
          BY <2>4, <4>1 DEF Settles, Releases
    <3> QED
        BY <1>1, <3>1, <3>2
  <2>9. QueueCovers(e, r, c, h, new)
      BY <2>3, <2>5, <2>6, <2>8 DEF QueueCovers, CoverGrows
  <2>10. e[1] = b[1]
      BY <1>1, <2>5
  <2>11. h.usd = paid + v.usd /\ bill <= paid + v.usd
      BY <1>3 DEF Covered
  <2>12. new <= paid + v.usd
      BY <2>11 DEF MinOf
  <2> QED
      BY <1>3, <2>1, <2>9, <2>10, <2>11, <2>12 DEF Covered, r
<1> QED
    BY <1>2, <1>3

\* The release of the call joins the queue.
LEMMA CoveredQueueRelease ==
    ASSUME NEW c \in Calls, NEW v, NEW h, h.usd \in Nat, ~h.released,
           NEW q \in Seq(Ops), NEW op, Releases(op, c),
           NEW bill \in Nat, NEW paid \in Nat, Covered(c, v, h, q, bill, paid),
           NEW g, g.holder = h.holder, g.usd = h.usd, g.released
    PROVE  Covered(c, v, g, Append(q, op), bill, paid)
<1> DEFINE r == Append(q, op)
<1>1. /\ Len(r) = Len(q) + 1 /\ r[Len(q) + 1] = op /\ Len(q) \in Nat
      /\ \A i \in 1..Len(q) : r[i] = q[i]
    BY AppendProperties
<1> HIDE DEF r
<1>2. ASSUME h.holder \in Procs, v.state = "open"
      PROVE  \E cover : QueueCovers(cover, r, c, g, bill) /\ (~v.unpriced => cover[1] <= paid)
  <2>1. PICK b : QueueCovers(b, q, c, h, bill) /\ (~v.unpriced => b[1] <= paid)
      BY <1>2 DEF Covered
  <2> DEFINE e == [i \in 1..(Len(r) + 1) |-> IF i = Len(r) + 1 THEN 0 ELSE b[i]]
  <2>2. /\ b \in [1..(Len(q) + 1) -> Nat] /\ \A i \in 1..(Len(q) + 1) : b[i] <= h.usd
      BY <2>1 DEF QueueCovers, CoverGrows
  <2>3. /\ e \in [1..(Len(r) + 1) -> Nat] /\ e[Len(r) + 1] = 0
        /\ \A i \in 1..Len(r) : e[i] = b[i]
      BY <1>1, <2>2
  <2> HIDE DEF e
  <2>4. \A i \in 1..(Len(r) + 1) : e[i] <= g.usd
      BY <1>1, <2>2, <2>3
  <2>5. ASSUME NEW i \in 1..Len(r)
        PROVE  /\ Settles(r[i], c) /\ ~r[i].unpriced => e[i + 1] <= e[i] + OpCost(r[i])
               /\ ~Settles(r[i], c) => e[i + 1] <= e[i]
               /\ Releases(r[i], c) => bill <= e[i]
    <3>1. CASE i \in 1..Len(q)
      <4>1. r[i] = q[i] /\ e[i] = b[i] /\ e[i + 1] = b[i + 1]
          BY <1>1, <2>3, <3>1
      <4> QED
          BY <2>1, <3>1, <4>1 DEF QueueCovers, CoverGrows
    <3>2. CASE i = Len(q) + 1
      <4>1. e[i] = b[i] /\ e[i + 1] = 0 /\ b[i] \in Nat /\ r[i] = op
          BY <1>1, <2>2, <2>3, <3>2
      <4>2. bill <= b[i]
          BY <2>1, <3>2 DEF QueueCovers
      <4> QED
          BY <4>1, <4>2 DEF Settles, Releases
    <3> QED
        BY <1>1, <3>1, <3>2
  <2>6. QueueCovers(e, r, c, g, bill)
      BY <2>3, <2>4, <2>5 DEF QueueCovers, CoverGrows
  <2>7. e[1] = b[1]
      BY <1>1, <2>3
  <2> QED
      BY <2>1, <2>6, <2>7
<1> QED
    BY <1>2 DEF Covered, r

\* The first operation of the queue, about another call, is written.
LEMMA CoveredWriteOther ==
    ASSUME NEW c \in Calls, NEW v, NEW h, NEW q \in Seq(Ops), q # <<>>, q[1].id # c,
           NEW bill \in Nat, NEW paid \in Nat, Covered(c, v, h, q, bill, paid)
    PROVE  Covered(c, v, h, Tail(q), bill, paid)
<1> DEFINE r == Tail(q)
<1>1. /\ Len(r) = Len(q) - 1 /\ Len(q) \in Nat \ {0} /\ Len(r) \in Nat
      /\ \A i \in 1..Len(r) : r[i] = q[i + 1]
    BY HeadTailProperties
<1> HIDE DEF r
<1>2. ASSUME h.holder \in Procs, v.state = "open"
      PROVE  \E cover : QueueCovers(cover, r, c, h, bill) /\ (~v.unpriced => cover[1] <= paid)
  <2>1. PICK b : QueueCovers(b, q, c, h, bill) /\ (~v.unpriced => b[1] <= paid)
      BY <1>2 DEF Covered
  <2>2. \E e : QueueCovers(e, r, c, h, bill) /\ e[1] = b[2]
      BY <2>1, CoverTail DEF r
  <2>3. b[2] <= b[1] /\ b[1] \in Nat /\ b[2] \in Nat
    <3>1. 1 \in 1..Len(q) /\ 1 \in 1..(Len(q) + 1) /\ 2 \in 1..(Len(q) + 1) /\ ~Settles(q[1], c)
        BY <1>1 DEF Settles
    <3>2. b[1 + 1] <= b[1] /\ b[1] \in Nat /\ b[2] \in Nat
        BY <2>1, <3>1 DEF QueueCovers, CoverGrows
    <3> QED
        BY <3>2
  <2> QED
      BY <2>1, <2>2, <2>3
<1> QED
    BY <1>2 DEF Covered, r

\* A settle of the call is written: v becomes w, and the call has paid what was taken.
LEMMA CoveredWriteSettle ==
    ASSUME NEW c \in Calls, NEW v, NEW w, NEW h, h.usd \in Nat,
           NEW q \in Seq(Ops), q # <<>>, Settles(q[1], c), OpCost(q[1]) \in Nat,
           NEW bill \in Nat, NEW paid \in Nat, v.usd \in Nat,
           Covered(c, v, h, q, bill, paid), h.holder \in Procs,
           v.state \in {"open", "released"}, NEW take,
           take = IF v.state = "open" THEN MinOf(v.usd, OpCost(q[1])) ELSE 0,
           w.state = v.state, w.usd = v.usd - take,
           v.unpriced \/ q[1].unpriced => w.unpriced
    PROVE  Covered(c, w, h, Tail(q), bill, paid + take)
<1> DEFINE r == Tail(q)
<1>1. /\ Len(r) = Len(q) - 1 /\ Len(q) \in Nat \ {0} /\ Len(r) \in Nat
      /\ \A i \in 1..Len(r) : r[i] = q[i + 1]
    BY HeadTailProperties
<1> HIDE DEF r
<1>2. CASE v.state = "released"
  <2>1. take = 0 /\ paid + take = paid
      BY <1>2
  <2> QED
      BY <1>2, <2>1 DEF Covered, r
<1>3. CASE v.state = "open"
  <2>1. PICK b : QueueCovers(b, q, c, h, bill) /\ (~v.unpriced => b[1] <= paid)
      BY <1>3 DEF Covered
  <2>2. PICK e : QueueCovers(e, r, c, h, bill) /\ e[1] = b[2]
    <3>1. QueueCovers(b, q, c, h, bill)
        BY <2>1
    <3>2. \A a \in Seq(Ops) : a # <<>> /\ QueueCovers(b, a, c, h, bill) =>
             \E e : QueueCovers(e, Tail(a), c, h, bill) /\ e[1] = b[2]
        BY CoverTail
    <3>3. q \in Seq(Ops) /\ q # <<>>
        OBVIOUS
    <3> QED
        BY <3>1, <3>2, <3>3 DEF r
  <2>3. /\ b[1] \in Nat /\ b[2] \in Nat /\ b[2] <= h.usd
        /\ ~q[1].unpriced => b[2] <= b[1] + OpCost(q[1])
    <3>1. 1 \in 1..Len(q) /\ 1 \in 1..(Len(q) + 1) /\ 2 \in 1..(Len(q) + 1)
        BY <1>1
    <3>2. /\ b[1] \in Nat /\ b[2] \in Nat /\ b[2] <= h.usd
          /\ ~q[1].unpriced => b[1 + 1] <= b[1] + OpCost(q[1])
        BY <2>1, <3>1 DEF QueueCovers, CoverGrows
    <3> QED
        BY <3>2
  <2>4. h.usd = paid + v.usd /\ bill <= paid + v.usd
      BY <1>3 DEF Covered
  <2>5. take = MinOf(v.usd, OpCost(q[1]))
      BY <1>3
  <2>6. take \in Nat /\ take <= v.usd /\ (take = v.usd \/ take = OpCost(q[1]))
      BY <2>5 DEF MinOf
  <2>7. h.usd = (paid + take) + w.usd /\ bill <= (paid + take) + w.usd
    <3>1. (paid + take) + (v.usd - take) = paid + v.usd
        BY <2>6
    <3>2. w.usd = v.usd - take
        OBVIOUS
    <3> QED
        BY <2>4, <3>1, <3>2
  <2>8. ~w.unpriced => e[1] <= paid + take
    <3> SUFFICES ASSUME ~w.unpriced PROVE e[1] <= paid + take
        OBVIOUS
    <3>1. b[1] <= paid /\ b[2] <= b[1] + OpCost(q[1])
        BY <2>1, <2>3
    <3>2. CASE take = v.usd
        BY <2>2, <2>3, <2>4, <3>2
    <3>3. CASE take = OpCost(q[1])
        BY <2>2, <2>3, <3>1, <3>3
    <3> QED
        BY <2>6, <3>2, <3>3
  <2> QED
      BY <1>3, <2>2, <2>7, <2>8 DEF Covered, r
<1> QED
    BY <1>2, <1>3

\* The release of the call is written.
LEMMA CoveredWriteRelease ==
    ASSUME NEW c \in Calls, NEW v, NEW w, NEW h, h.usd \in Nat,
           NEW q \in Seq(Ops), q # <<>>, Releases(q[1], c),
           NEW bill \in Nat, NEW paid \in Nat, v.usd \in Nat,
           Covered(c, v, h, q, bill, paid), h.holder \in Procs, v.state = "open",
           w.state = "released", NEW kept, kept = IF v.unpriced THEN v.usd ELSE 0
    PROVE  Covered(c, w, h, Tail(q), bill, paid + kept)
<1>1. PICK b : QueueCovers(b, q, c, h, bill) /\ (~v.unpriced => b[1] <= paid)
    BY DEF Covered
<1>2. Len(q) \in Nat \ {0} /\ 1 \in 1..Len(q) /\ 1 \in 1..(Len(q) + 1)
    BY HeadTailProperties
<1>3. bill <= b[1] /\ b[1] <= h.usd /\ b[1] \in Nat /\ h.released
    BY <1>1, <1>2 DEF QueueCovers, CoverGrows
<1>4. h.usd = paid + v.usd
    BY DEF Covered
<1>5. bill <= paid + kept
    BY <1>1, <1>3, <1>4
<1> QED
    BY <1>3, <1>5 DEF Covered

-----------------------------------------------------------------------------
\* A payment of every call after the step shows the ledger after it.
LEMMA LedgerAfter ==
    ASSUME billed' \in [Calls -> Nat], QueuedByHolder', NEW paid \in [Calls -> Nat],
           SumTo(paid, MaxCalls) <= Spent(db')[Kernel],
           \A c \in Calls : Covered(c, View(db'.rows[c]), handle'[c],
                                    pending'[handle'[c].holder], billed'[c], paid[c])
    PROVE  Ledger'
BY DEF Ledger, AllCovered

\* The queues and the reservation objects, for the ledger.
LEMMA LedgerTypes ==
    ASSUME IInv
    PROVE  /\ pending \in [Procs -> Seq(Ops)]
           /\ \A p \in Procs : \A i \in 1..Len(pending[p]) :
                /\ pending[p][i] \in Ops /\ pending[p][i].id \in Calls
                /\ db.rows[pending[p][i].id].state # "none"
           /\ \A c \in Calls : /\ handle[c].usd \in Nat /\ handle[c].released \in BOOLEAN
                               /\ handle[c].holder \in Procs \cup {Nobody}
                               /\ handle[c].holder \in Procs =>
                                    View(db.rows[c]).state \in {"open", "released"}
<1>1. pending \in [Procs -> Seq(Ops)]
    BY DEF IInv, Queues
<1>2. \A op \in Ops : op.id \in Calls
    BY DEF Ops, SettleOp, ReleaseOp
<1>3. ASSUME NEW p \in Procs, NEW i \in 1..Len(pending[p])
      PROVE  /\ pending[p][i] \in Ops /\ pending[p][i].id \in Calls
             /\ db.rows[pending[p][i].id].state # "none"
  <2>1. pending[p][i] \in Ops
      BY <1>1
  <2>2. Admitted(pending[p][i].id)
      BY DEF IInv, Queues
  <2> QED
      BY <1>2, <2>1, <2>2 DEF Admitted
<1>4. ASSUME NEW c \in Calls
      PROVE  /\ handle[c].usd \in Nat /\ handle[c].released \in BOOLEAN
             /\ handle[c].holder \in Procs \cup {Nobody}
             /\ handle[c].holder \in Procs => View(db.rows[c]).state \in {"open", "released"}
  <2>1. handle[c] \in [holder : Procs \cup {Nobody}, usd : Nat, released : BOOLEAN]
      BY DEF IInv, Handles
  <2>2. handle[c].holder \in Procs => db.rows[c].state # "none"
      BY DEF IInv, Handles, Admitted
  <2>3. db.rows[c].state \in {"none", "open", "expired", "released"}
      BY DEF IInv, DbOK, Database, Row
  <2> QED
      BY <2>1, <2>2, <2>3 DEF View
<1> QED
    BY <1>1, <1>3, <1>4

\* A step that neither queues nor writes anything for a call.
LEMMA LedgerSame ==
    ASSUME IInv, Ledger, UNCHANGED <<handle, pending, billed>>,
           Views(db') = Views(db), Spent(db') = Spent(db)
    PROVE  Ledger'
<1>1. PICK paid \in [Calls -> Nat] :
         SumTo(paid, MaxCalls) <= Spent(db)[Kernel] /\ AllCovered(paid)
    BY DEF Ledger
<1>2. \A c \in Calls : View(db'.rows[c]) = View(db.rows[c])
  <2>1. \A c \in Calls : Views(db')[c] = View(db'.rows[c]) /\ Views(db)[c] = View(db.rows[c])
      BY DEF Views
  <2> QED
      BY <2>1
<1>3. \A c \in Calls : Covered(c, View(db'.rows[c]), handle'[c],
                               pending'[handle'[c].holder], billed'[c], paid[c])
    BY <1>1, <1>2 DEF AllCovered
<1>4. billed' \in [Calls -> Nat] /\ QueuedByHolder'
    BY DEF Ledger, QueuedByHolder
<1> QED
    BY <1>1, <1>3, <1>4, LedgerAfter

\* What is queued for the calls of their holder.
LEMMA QueuedByHolderAppend ==
    ASSUME IInv, QueuedByHolder, NEW p \in Procs, NEW c \in Calls, handle[c].holder = p,
           NEW op \in Ops, op.id = c, pending' = [pending EXCEPT ![p] = Append(@, op)],
           \A b \in Calls : handle'[b].holder = handle[b].holder
    PROVE  /\ QueuedByHolder'
           /\ pending'[p] = Append(pending[p], op)
           /\ \A b \in Calls : b # c /\ handle[b].holder = p =>
                 pending'[handle'[b].holder] = Append(pending[p], op)
           /\ \A b \in Calls : handle[b].holder \in Procs \ {p} =>
                 pending'[handle'[b].holder] = pending[handle[b].holder]
<1>1. pending \in [Procs -> Seq(Ops)] /\ pending[p] \in Seq(Ops)
    BY LedgerTypes
<1> DEFINE r == Append(pending[p], op)
<1>2. /\ Len(r) = Len(pending[p]) + 1 /\ r[Len(pending[p]) + 1] = op /\ Len(pending[p]) \in Nat
      /\ \A i \in 1..Len(pending[p]) : r[i] = pending[p][i]
    BY <1>1, AppendProperties
<1>3. pending' = [pending EXCEPT ![p] = r]
    OBVIOUS
<1> HIDE DEF r
<1>4. ASSUME NEW q \in Procs, NEW i \in 1..Len(pending'[q])
      PROVE  handle'[pending'[q][i].id].holder = q
  <2>1. CASE q = p
    <3>1. pending'[q] = r
        BY <1>1, <1>3, <2>1
    <3>2. i \in 1..Len(pending[p]) \/ i = Len(pending[p]) + 1
        BY <1>2, <3>1
    <3>3. CASE i \in 1..Len(pending[p])
      <4>1. handle[pending[p][i].id].holder = p /\ pending[p][i].id \in Calls
          BY <3>3, LedgerTypes DEF QueuedByHolder
      <4> QED
          BY <1>2, <2>1, <3>1, <3>3, <4>1
    <3>4. CASE i = Len(pending[p]) + 1
        BY <1>2, <2>1, <3>1, <3>4
    <3> QED
        BY <3>2, <3>3, <3>4
  <2>2. CASE q # p
    <3>1. pending'[q] = pending[q]
        BY <1>1, <1>3, <2>2
    <3>2. handle[pending[q][i].id].holder = q /\ pending[q][i].id \in Calls
        BY <3>1, LedgerTypes DEF QueuedByHolder
    <3> QED
        BY <3>1, <3>2
  <2> QED
      BY <2>1, <2>2
<1>5. QueuedByHolder'
    BY <1>4 DEF QueuedByHolder
<1> QED
    BY <1>1, <1>3, <1>5 DEF r

\* settle: the bill of an unreleased call grows by what is queued for it.
LEMMA LedgerCallSettle ==
    ASSUME IInv, Ledger, NEW p \in Procs, NEW c \in Calls, NEW event \in Events,
           CallSettle(p, c, event)
    PROVE  Ledger'
<1> DEFINE op == SettleOp(c, event)
           new == IF handle[c].released THEN billed[c]
                  ELSE IF op.unpriced THEN handle[c].usd
                       ELSE MinOf(handle[c].usd, billed[c] + OpCost(op))
<1>1. /\ db' = db /\ handle' = handle /\ handle[c].holder = p
      /\ pending' = [pending EXCEPT ![p] = Append(@, op)]
    BY DEF CallSettle, SettleOp
<1>2. /\ op \in Ops /\ op.id = c /\ op.kind = "settle" /\ OpCost(op) = CostOf(event)
      /\ CostOf(event) \in Nat /\ op.unpriced = IsUnpricedUsage(event)
    BY InputTypes DEF Ops, SettleOp, OpCost, CostOf
<1>3. billed \in [Calls -> Nat] /\ QueuedByHolder
    BY DEF Ledger
<1>4. handle[c].usd \in Nat /\ handle[c].released \in BOOLEAN
      /\ View(db.rows[c]).state \in {"open", "released"}
    BY <1>1, LedgerTypes
<1>5. new \in Nat
  <2>1. billed[c] \in Nat /\ OpCost(op) \in Nat
      BY <1>2, <1>3
  <2> DEFINE sum == billed[c] + OpCost(op)
             least == MinOf(handle[c].usd, sum)
  <2>2. sum \in Nat
      BY <2>1
  <2> HIDE DEF sum
  <2>3. least \in Nat
      BY <1>4, <2>2, MinMax
  <2>4. new = IF handle[c].released THEN billed[c]
              ELSE IF op.unpriced THEN handle[c].usd ELSE least
      BY DEF sum
  <2> HIDE DEF new, op, least
  <2> QED
      BY <1>4, <2>1, <2>3, <2>4
<1>6. billed' = [billed EXCEPT ![c] = new]
  <2>1. billed' = IF handle[c].released THEN billed
                  ELSE [billed EXCEPT ![c] =
                          IF IsUnpricedUsage(event) THEN handle[c].usd
                          ELSE MinOf(handle[c].usd, billed[c] + CostOf(event))]
      BY DEF CallSettle
  <2>2. CASE handle[c].released
    <3>1. new = billed[c]
        BY <2>2
    <3> HIDE DEF new
    <3> QED
        BY <1>3, <2>1, <2>2, <3>1
  <2>3. CASE ~handle[c].released
    <3>1. new = IF IsUnpricedUsage(event) THEN handle[c].usd
                ELSE MinOf(handle[c].usd, billed[c] + CostOf(event))
        BY <1>2, <2>3
    <3> HIDE DEF new
    <3> QED
        BY <2>1, <2>3, <3>1
  <2> QED
      BY <2>2, <2>3
<1>7. new = IF handle[c].released THEN billed[c]
            ELSE IF op.unpriced THEN handle[c].usd
                 ELSE MinOf(handle[c].usd, billed[c] + OpCost(op))
    OBVIOUS
<1> HIDE DEF op, new
<1>8. /\ QueuedByHolder' /\ pending'[p] = Append(pending[p], op)
      /\ \A b \in Calls : b # c /\ handle[b].holder = p =>
            pending'[handle'[b].holder] = Append(pending[p], op)
      /\ \A b \in Calls : handle[b].holder \in Procs \ {p} =>
            pending'[handle'[b].holder] = pending[handle[b].holder]
    BY <1>1, <1>2, <1>3, QueuedByHolderAppend
<1>9. PICK paid \in [Calls -> Nat] :
         SumTo(paid, MaxCalls) <= Spent(db)[Kernel] /\ AllCovered(paid)
    BY DEF Ledger
<1>10. ASSUME NEW b \in Calls
       PROVE  Covered(b, View(db'.rows[b]), handle'[b], pending'[handle'[b].holder],
                      billed'[b], paid[b])
  <2>1. /\ Covered(b, View(db.rows[b]), handle[b], pending[handle[b].holder], billed[b], paid[b])
        /\ billed[b] \in Nat /\ paid[b] \in Nat
      BY <1>3, <1>9 DEF AllCovered
  <2>2. pending[p] \in Seq(Ops)
      BY LedgerTypes
  <2>3. CASE b = c
    <3>1. Settles(op, c)
        BY <1>2 DEF Settles
    <3>2. billed'[b] = new
        BY <1>3, <1>6, <2>3
    <3>3. Covered(c, View(db.rows[c]), handle[c], Append(pending[p], op), new, paid[c])
      <4> DEFINE v == View(db.rows[c])
                 h == handle[c]
                 q == pending[p]
                 bill == billed[c]
                 before == paid[c]
      <4>1. /\ Covered(c, v, h, q, bill, before) /\ bill \in Nat /\ before \in Nat
            /\ h.usd \in Nat /\ h.released \in BOOLEAN /\ h.holder \in Procs
            /\ v.state \in {"open", "released"} /\ q \in Seq(Ops) /\ OpCost(op) \in Nat
            /\ new = IF h.released THEN bill
                     ELSE IF op.unpriced THEN h.usd ELSE MinOf(h.usd, bill + OpCost(op))
          BY <1>1, <1>2, <1>4, <1>7, <2>1, <2>2, <2>3
      <4> HIDE DEF v, h, q, bill, before
      <4>2. Covered(c, v, h, Append(q, op), new, before)
          BY <1>5, <3>1, <4>1, CoveredQueueSettle
      <4> QED
          BY <4>2 DEF v, h, q, bill, before
    <3> QED
        BY <1>1, <1>8, <2>3, <3>2, <3>3
  <2>4. CASE b # c /\ handle[b].holder = p
    <3>1. Covered(b, View(db.rows[b]), handle[b], Append(pending[p], op), billed[b], paid[b])
        BY <1>2, <2>1, <2>2, <2>4, CoveredQueueOther
    <3>2. billed'[b] = billed[b]
        BY <1>3, <1>6, <2>4
    <3> QED
        BY <1>1, <1>8, <2>4, <3>1, <3>2
  <2>5. CASE b # c /\ handle[b].holder \in Procs \ {p}
    <3>1. billed'[b] = billed[b]
        BY <1>3, <1>6, <2>5
    <3> QED
        BY <1>1, <1>8, <2>1, <2>5, <3>1
  <2>6. CASE b # c /\ handle[b].holder \notin Procs
    <3>1. billed'[b] = billed[b]
        BY <1>3, <1>6, <2>6
    <3> QED
        BY <1>1, <2>1, <2>6, <3>1 DEF Covered
  <2> QED
      BY <2>3, <2>4, <2>5, <2>6
<1>11. billed' \in [Calls -> Nat]
    BY <1>3, <1>5, <1>6
<1> QED
    BY <1>1, <1>8, <1>9, <1>10, <1>11, LedgerAfter

\* release: what is queued before it covers the bill.
LEMMA LedgerCallRelease ==
    ASSUME IInv, Ledger, NEW p \in Procs, NEW c \in Calls, CallRelease(p, c)
    PROVE  Ledger'
<1> DEFINE op == ReleaseOp(c)
<1>1. /\ db' = db /\ billed' = billed /\ handle[c].holder = p /\ ~handle[c].released
      /\ handle' = [handle EXCEPT ![c].released = TRUE]
      /\ pending' = [pending EXCEPT ![p] = Append(@, op)]
    BY DEF CallRelease, ReleaseOp, history
<1>2. op \in Ops /\ op.id = c /\ op.kind = "release"
  <2>1. op \in Ops
      BY DEF Ops
  <2> QED
      BY <2>1 DEF ReleaseOp
<1> HIDE DEF op
<1>3. billed \in [Calls -> Nat] /\ QueuedByHolder
    BY DEF Ledger
<1>4. /\ handle[c].usd \in Nat
      /\ \A b \in Calls : b # c => handle'[b] = handle[b]
      /\ handle'[c].holder = p /\ handle'[c].usd = handle[c].usd /\ handle'[c].released
  <2>1. /\ handle \in [Calls -> [holder : Procs \cup {Nobody}, usd : Nat, released : BOOLEAN]]
      BY DEF IInv, Handles
  <2> QED
      BY <1>1, <2>1
<1>5. \A b \in Calls : handle'[b].holder = handle[b].holder
    BY <1>1, <1>4
<1>6. /\ QueuedByHolder' /\ pending'[p] = Append(pending[p], op)
      /\ \A b \in Calls : b # c /\ handle[b].holder = p =>
            pending'[handle'[b].holder] = Append(pending[p], op)
      /\ \A b \in Calls : handle[b].holder \in Procs \ {p} =>
            pending'[handle'[b].holder] = pending[handle[b].holder]
  <2>1. handle[c].holder = p /\ pending' = [pending EXCEPT ![p] = Append(@, op)]
      BY <1>1
  <2> QED
      BY <1>2, <1>3, <1>5, <2>1, QueuedByHolderAppend, ZenonT(40)
<1>7. PICK paid \in [Calls -> Nat] :
         SumTo(paid, MaxCalls) <= Spent(db)[Kernel] /\ AllCovered(paid)
    BY DEF Ledger
<1>8. ASSUME NEW b \in Calls
      PROVE  Covered(b, View(db'.rows[b]), handle'[b], pending'[handle'[b].holder],
                     billed'[b], paid[b])
  <2>1. /\ Covered(b, View(db.rows[b]), handle[b], pending[handle[b].holder], billed[b], paid[b])
        /\ billed[b] \in Nat /\ paid[b] \in Nat
      BY <1>3, <1>7 DEF AllCovered
  <2>2. pending[p] \in Seq(Ops)
      BY LedgerTypes
  <2>3. CASE b = c
    <3>1. Releases(op, c)
        BY <1>2 DEF Releases
    <3>2. \A g : g.holder = handle[c].holder /\ g.usd = handle[c].usd /\ g.released =>
             Covered(c, View(db.rows[c]), g, Append(pending[p], op), billed[c], paid[c])
        BY <1>1, <1>4, <2>1, <2>2, <2>3, <3>1, CoveredQueueRelease
    <3>3. Covered(c, View(db.rows[c]), handle'[c], Append(pending[p], op), billed[c], paid[c])
        BY <1>1, <1>4, <3>2
    <3> QED
        BY <1>1, <1>4, <1>6, <2>3, <3>3
  <2>4. CASE b # c /\ handle[b].holder = p
    <3>1. Covered(b, View(db.rows[b]), handle[b], Append(pending[p], op), billed[b], paid[b])
        BY <1>2, <2>1, <2>2, <2>4, CoveredQueueOther
    <3> QED
        BY <1>1, <1>4, <1>6, <2>4, <3>1
  <2>5. CASE b # c /\ handle[b].holder \in Procs \ {p}
      BY <1>1, <1>4, <1>6, <2>1, <2>5
  <2>6. CASE b # c /\ handle[b].holder \notin Procs
      BY <1>1, <1>4, <2>1, <2>6 DEF Covered
  <2> QED
      BY <2>3, <2>4, <2>5, <2>6
<1> QED
    BY <1>1, <1>3, <1>6, <1>7, <1>8, LedgerAfter

\* A process dies: nothing will be written for its calls any more, and what their rows
\* hold covers their bills.
LEMMA LedgerCrash ==
    ASSUME IInv, Ledger, NEW p \in Procs, Crash(p)
    PROVE  Ledger'
<1>1. /\ db' = db /\ billed' = billed /\ pending' = [pending EXCEPT ![p] = <<>>]
      /\ handle' = [c \in Calls |-> IF handle[c].holder = p THEN NoHandle ELSE handle[c]]
    BY DEF Crash, history
<1>2. pending \in [Procs -> Seq(Ops)] /\ billed \in [Calls -> Nat] /\ QueuedByHolder
    BY LedgerTypes DEF Ledger
<1>3. NoHandle.holder \notin Procs
    BY SharedAssumption DEF NoHandle
<1>4. ASSUME NEW q \in Procs, NEW i \in 1..Len(pending'[q])
      PROVE  handle'[pending'[q][i].id].holder = q
  <2>1. q # p /\ pending'[q] = pending[q]
      BY <1>1, <1>2
  <2>2. handle[pending[q][i].id].holder = q /\ pending[q][i].id \in Calls
      BY <1>2, <2>1, LedgerTypes DEF QueuedByHolder
  <2> QED
      BY <1>1, <2>1, <2>2
<1>5. PICK paid \in [Calls -> Nat] :
         SumTo(paid, MaxCalls) <= Spent(db)[Kernel] /\ AllCovered(paid)
    BY DEF Ledger
<1>6. ASSUME NEW b \in Calls
      PROVE  Covered(b, View(db'.rows[b]), handle'[b], pending'[handle'[b].holder],
                     billed'[b], paid[b])
  <2>1. Covered(b, View(db.rows[b]), handle[b], pending[handle[b].holder], billed[b], paid[b])
      BY <1>5 DEF AllCovered
  <2>2. CASE handle[b].holder = p
      BY <1>1, <1>3, <2>1, <2>2 DEF Covered
  <2>3. CASE handle[b].holder \in Procs \ {p}
      BY <1>1, <1>2, <2>1, <2>3
  <2>4. CASE handle[b].holder \notin Procs
      BY <1>1, <2>1, <2>4 DEF Covered
  <2> QED
      BY <2>2, <2>3, <2>4
<1>7. QueuedByHolder'
    BY <1>4 DEF QueuedByHolder
<1> QED
    BY <1>1, <1>2, <1>5, <1>6, <1>7, LedgerAfter

\* A payment of one call more.
LEMMA SumPaid ==
    ASSUME NEW paid \in [Calls -> Nat], NEW c \in Calls, NEW take \in Nat,
           NEW f \in [Calls -> Nat], f[c] = paid[c] + take,
           \A b \in Calls : b # c => f[b] = paid[b]
    PROVE  SumTo(f, MaxCalls) = SumTo(paid, MaxCalls) + take /\ SumTo(paid, MaxCalls) \in Int
<1>1. MaxCalls \in Nat /\ Calls = 1..MaxCalls
    BY BudgetAssumption DEF Calls
<1>2. /\ c \in 1..MaxCalls
      /\ \A i \in 1..MaxCalls : paid[i] \in Int /\ f[i] \in Int
      /\ \A i \in 1..MaxCalls : i # c => f[i] = paid[i]
    BY <1>1
<1>3. SumTo(f, MaxCalls) = SumTo(paid, MaxCalls) + (f[c] - paid[c])
    BY <1>1, <1>2, SumUpdate
<1>4. SumTo(paid, MaxCalls) \in Int
    BY <1>1, <1>2, SumType
<1> QED
    BY <1>3, <1>4

\* The head of a queue is written, about call c: of its cost, take is now paid by c.
LEMMA LedgerWrite ==
    ASSUME IInv, Ledger, NEW p \in Procs, pending[p] # <<>>,
           UNCHANGED <<handle, billed>>, pending' = [pending EXCEPT ![p] = Tail(@)],
           NEW c \in Calls, pending[p][1].id = c,
           NEW paid \in [Calls -> Nat], AllCovered(paid),
           SumTo(paid, MaxCalls) <= Spent(db)[Kernel], Spent(db)[Kernel] \in Int,
           NEW take \in Nat, Spent(db')[Kernel] \in Int,
           Spent(db')[Kernel] >= Spent(db)[Kernel] + take,
           \A b \in Calls : b # c => View(db'.rows[b]) = View(db.rows[b]),
           Covered(c, View(db'.rows[c]), handle[c], Tail(pending[p]), billed[c], paid[c] + take)
    PROVE  Ledger'
<1>1. /\ pending \in [Procs -> Seq(Ops)] /\ pending[p] \in Seq(Ops)
      /\ billed \in [Calls -> Nat] /\ QueuedByHolder
    BY LedgerTypes DEF Ledger
<1>2. MaxCalls \in Nat /\ Calls = 1..MaxCalls
    BY BudgetAssumption DEF Calls
<1> DEFINE r == Tail(pending[p])
<1>3. /\ Len(r) = Len(pending[p]) - 1 /\ Len(pending[p]) \in Nat \ {0}
      /\ \A i \in 1..Len(r) : r[i] = pending[p][i + 1]
    BY <1>1, HeadTailProperties, EmptySeq
<1>4. pending' = [pending EXCEPT ![p] = r]
    OBVIOUS
<1>5. handle[c].holder = p
    BY <1>1, <1>3 DEF QueuedByHolder
<1> HIDE DEF r
<1>6. ASSUME NEW q \in Procs, NEW i \in 1..Len(pending'[q])
      PROVE  handle'[pending'[q][i].id].holder = q
  <2>1. CASE q = p
    <3>1. pending'[q] = r
        BY <1>1, <1>4, <2>1
    <3>2. i + 1 \in 1..Len(pending[p]) /\ pending'[q][i] = pending[p][i + 1]
        BY <1>3, <3>1
    <3> QED
        BY <1>1, <2>1, <3>2 DEF QueuedByHolder
  <2>2. CASE q # p
    <3>1. pending'[q] = pending[q]
        BY <1>1, <1>4, <2>2
    <3> QED
        BY <1>1, <3>1 DEF QueuedByHolder
  <2> QED
      BY <2>1, <2>2
<1>7. QueuedByHolder'
    BY <1>6 DEF QueuedByHolder
<1> DEFINE f == [paid EXCEPT ![c] = @ + take]
<1>8. /\ f \in [Calls -> Nat] /\ f[c] = paid[c] + take /\ paid[c] \in Nat
      /\ \A b \in Calls : b # c => f[b] = paid[b]
    OBVIOUS
<1> HIDE DEF f
<1>9. SumTo(f, MaxCalls) = SumTo(paid, MaxCalls) + take /\ SumTo(paid, MaxCalls) \in Int
    BY <1>8, SumPaid, ZenonT(40)
<1>10. SumTo(f, MaxCalls) <= Spent(db')[Kernel]
    BY <1>9
<1>11. ASSUME NEW b \in Calls
       PROVE  Covered(b, View(db'.rows[b]), handle'[b], pending'[handle'[b].holder],
                      billed'[b], f[b])
  <2>1. /\ Covered(b, View(db.rows[b]), handle[b], pending[handle[b].holder], billed[b], paid[b])
        /\ billed[b] \in Nat /\ paid[b] \in Nat
      BY <1>1 DEF AllCovered
  <2>2. CASE b = c
    <3>1. pending'[handle'[b].holder] = Tail(pending[p])
        BY <1>1, <1>4, <1>5, <2>2 DEF r
    <3> QED
        BY <1>8, <2>2, <3>1
  <2>3. CASE b # c /\ handle[b].holder = p
    <3>1. pending[handle[b].holder] = pending[p] /\ pending'[handle'[b].holder] = Tail(pending[p])
        BY <1>1, <1>4, <2>3 DEF r
    <3>2. Covered(b, View(db.rows[b]), handle[b], Tail(pending[p]), billed[b], paid[b])
        BY <1>1, <2>1, <2>3, <3>1, CoveredWriteOther
    <3> QED
        BY <1>8, <2>3, <3>1, <3>2
  <2>4. CASE b # c /\ handle[b].holder \in Procs \ {p}
    <3>1. pending'[handle'[b].holder] = pending[handle[b].holder]
        BY <1>1, <1>4, <2>4
    <3> QED
        BY <1>8, <2>1, <2>4, <3>1
  <2>5. CASE b # c /\ handle[b].holder \notin Procs
    <3>1. f[b] = paid[b] /\ View(db'.rows[b]) = View(db.rows[b])
        BY <1>8, <2>5
    <3> QED
        BY <2>1, <2>5, <3>1 DEF Covered
  <2> QED
      BY <2>2, <2>3, <2>4, <2>5
<1>12. billed' \in [Calls -> Nat]
    BY <1>1
<1> QED
    BY <1>7, <1>8, <1>10, <1>11, <1>12, LedgerAfter

\* One round of _replay: the settle or the release at the head of the queue is written.
LEMMA LedgerReplayOne ==
    ASSUME IInv, IInv', Ledger, NEW p \in Procs, ReplayOne(p)
    PROVE  Ledger'
<1> DEFINE op == Head(pending[p])
           d == Expire(db, lapsed)
           c == op.id
           q == pending[p]
<1>1. /\ q # <<>> /\ db' = Apply(d, op)
      /\ pending' = [pending EXCEPT ![p] = Tail(@)]
      /\ UNCHANGED <<handle, billed>>
    BY DEF ReplayOne
<1>2. /\ q \in Seq(Ops) /\ op \in Ops /\ q[1] = op /\ c \in Calls
      /\ db.rows[c].state # "none" /\ handle[c].holder = p
  <2>1. q \in Seq(Ops)
      BY LedgerTypes
  <2>2. op = q[1] /\ 1 \in 1..Len(q)
      BY <1>1, <2>1, HeadTailProperties, EmptySeq
  <2>3. q[1] \in Ops /\ q[1].id \in Calls /\ db.rows[q[1].id].state # "none"
      BY <2>2, LedgerTypes
  <2>4. handle[q[1].id].holder = p
      BY <2>2 DEF Ledger, QueuedByHolder
  <2> QED
      BY <2>1, <2>2, <2>3, <2>4
<1>3. /\ SameView(d)
      /\ d.rows[c].state # "none"
    BY <1>2, ExpireOK DEF IInv, SameView
<1>4. Kernel \in Scopes /\ \A slots : Kernel \in ScopesOf(slots)
    BY DEF Scopes, ScopesOf
<1>5. Spent(db)[Kernel] \in Int /\ Spent(db')[Kernel] \in Int
  <2>1. db \in Database /\ db' \in Database
      BY DEF IInv, DbOK
  <2>2. \A e \in Database : Spent(e)[Kernel] \in Int
    <3> SUFFICES ASSUME NEW e \in Database PROVE Spent(e)[Kernel] \in Int
        OBVIOUS
    <3>1. SumTo(ChargedFor(e, Kernel), MaxCalls) \in Int /\ e.spend[Kernel] \in Nat
        BY <1>4, SumTypes DEF Database
    <3> QED
        BY <1>4, <3>1 DEF Spent
  <2> QED
      BY <2>1, <2>2
<1>6. PICK paid \in [Calls -> Nat] :
         SumTo(paid, MaxCalls) <= Spent(db)[Kernel] /\ AllCovered(paid)
    BY DEF Ledger
<1> DEFINE v == View(db.rows[c])
           h == handle[c]
           bill == billed[c]
           before == paid[c]
<1>7. /\ Covered(c, v, h, q, bill, before) /\ bill \in Nat /\ before \in Nat
      /\ h.usd \in Nat /\ h.released \in BOOLEAN /\ h.holder \in Procs
      /\ v.state \in {"open", "released"}
  <2>1. Covered(c, v, h, pending[h.holder], bill, before) /\ bill \in Nat /\ before \in Nat
      BY <1>2, <1>6 DEF AllCovered, Ledger
  <2> QED
      BY <1>2, <2>1, LedgerTypes
<1>8. /\ View(d.rows[c]) = v /\ v.usd \in Nat
      /\ v.state = "released" <=> d.rows[c].state = "released"
      /\ \A b \in Calls : View(d.rows[b]) = View(db.rows[b])
  <2>1. \A b \in Calls : Views(d)[b] = View(d.rows[b]) /\ Views(db)[b] = View(db.rows[b])
      BY DEF Views
  <2>2. \A b \in Calls : View(d.rows[b]) = View(db.rows[b])
      BY <1>3, <2>1 DEF SameView
  <2>3. View(d.rows[c]).usd \in Nat
      BY <1>2, <1>3, ViewTypes
  <2>4. View(d.rows[c]).state = "released" <=> d.rows[c].state = "released"
      BY DEF View
  <2> QED
      BY <1>2, <2>2, <2>3, <2>4
<1>9. /\ Views(d) = Views(db) /\ Spent(d) = Spent(db) /\ DbOK(d)
    BY <1>3 DEF SameView
<1> HIDE DEF op, d, c, q, v, h, bill, before
<1>10. ASSUME NEW take \in Nat, Spent(db')[Kernel] >= Spent(db)[Kernel] + take,
              \A b \in Calls : b # c => View(db'.rows[b]) = View(db.rows[b]),
              Covered(c, View(db'.rows[c]), h, Tail(q), bill, before + take)
       PROVE  Ledger'
  <2>1. Covered(c, View(db'.rows[c]), handle[c], Tail(pending[p]), billed[c], paid[c] + take)
      BY <1>10 DEF h, q, bill, before
  <2>2. pending[p][1].id = c /\ pending[p] # <<>>
      BY <1>1, <1>2 DEF c, q
  <2> QED
      BY <1>1, <1>2, <1>5, <1>6, <1>10, <2>1, <2>2, LedgerWrite
<1>11. ASSUME NEW b \in Calls, NEW e \in Calls, NEW w, Views(db') = [Views(d) EXCEPT ![e] = w]
       PROVE  View(db'.rows[b]) = IF b = e THEN w ELSE View(db.rows[b])
  <2>1. Views(db')[b] = View(db'.rows[b]) /\ Views(db)[b] = View(db.rows[b])
      BY DEF Views
  <2>2. Views(d) \in [Calls -> {Views(d)[i] : i \in Calls}]
      BY DEF Views
  <2> QED
      BY <1>9, <1>11, <2>1, <2>2
<1>12. ASSUME NEW a \in Calls, NEW event \in Events, op = SettleOp(a, event)
       PROVE  Ledger'
  <2>1. /\ op.kind = "settle" /\ op.id = a /\ op.tokens = event.tokens /\ op.cost = event.cost
        /\ op.unpriced = IsUnpricedUsage(event) /\ op.unpriced \in BOOLEAN
      BY <1>12 DEF SettleOp, IsUnpricedUsage
  <2>2. /\ OpCost(op) = CostOf(event) /\ CostOf(event) \in Nat /\ event.tokens \in Nat
        /\ CostOf(event) = IF op.cost = None THEN 0 ELSE op.cost
      BY <2>1, InputTypes DEF CostOf, OpCost
  <2>3. db' = ApplySettle(d, op) /\ a = c
      BY <1>1, <2>1 DEF Apply, c
  <2>4. SettlesBy(d, db', c, CostOf(event), event.tokens, IsUnpricedUsage(event))
      BY <1>2, <1>3, <1>9, <2>1, <2>2, <2>3, SettleEffect
  <2> DEFINE cost == CostOf(event)
             take == IF v.state = "open" THEN MinOf(v.usd, cost) ELSE 0
             w == View(db'.rows[c])
  <2>5. take \in Nat /\ take <= cost
      BY <1>8, <2>2, MinMax
  <2>6. Spent(db')[Kernel] = Spent(d)[Kernel] + cost
      BY <1>4, <2>4 DEF SettlesBy
  <2>7. Spent(db')[Kernel] >= Spent(db)[Kernel] + take
      BY <1>5, <1>9, <2>2, <2>5, <2>6
  <2> DEFINE x == [state |-> v.state, usd |-> v.usd - take,
                   tokens |-> v.tokens - (IF v.state = "open" THEN MinOf(v.tokens, event.tokens)
                                          ELSE 0),
                   slots |-> v.slots, unpriced |-> v.unpriced \/ IsUnpricedUsage(event)]
  <2>8. Views(db') = [Views(d) EXCEPT ![c] = x]
      BY <1>8, <2>4 DEF SettlesBy
  <2>9. /\ x.state = v.state /\ x.usd = v.usd - take
        /\ v.unpriced \/ IsUnpricedUsage(event) => x.unpriced
      OBVIOUS
  <2> HIDE DEF x
  <2>10. w = x /\ \A b \in Calls : b # c => View(db'.rows[b]) = View(db.rows[b])
      BY <1>2, <1>11, <2>8
  <2>11. Covered(c, w, h, Tail(q), bill, before + take)
    <3>1. Settles(q[1], c) /\ OpCost(q[1]) = cost /\ q[1].unpriced = IsUnpricedUsage(event)
        BY <1>2, <2>1, <2>2, <2>3 DEF Settles
    <3>2. /\ w.state = v.state /\ w.usd = v.usd - take
          /\ v.unpriced \/ q[1].unpriced => w.unpriced
        BY <2>9, <2>10, <3>1
    <3>3. take = IF v.state = "open" THEN MinOf(v.usd, OpCost(q[1])) ELSE 0
        BY <3>1
    <3> HIDE DEF w, take, cost
    <3>4. OpCost(q[1]) \in Nat
        BY <2>2, <3>1 DEF cost
    <3> QED
        BY <1>1, <1>2, <1>7, <1>8, <3>1, <3>2, <3>3, <3>4, CoveredWriteSettle
  <2> QED
      BY <1>10, <2>5, <2>7, <2>10, <2>11
<1>13. ASSUME NEW a \in Calls, op = ReleaseOp(a)
       PROVE  Ledger'
  <2>1. op.kind = "release" /\ op.id = a
      BY <1>13 DEF ReleaseOp
  <2>2. db' = ApplyRelease(d, op) /\ a = c
      BY <1>1, <2>1 DEF Apply, c
  <2>3. d.rows[c].state \in {"open", "expired", "released"}
      BY <1>2, <1>3, <1>9 DEF DbOK, Database, Row
  <2>4. CASE d.rows[c].state = "released"
    <3>1. db' = d
        BY <2>1, <2>2, <2>4 DEF ApplyRelease
    <3>2. Spent(db')[Kernel] >= Spent(db)[Kernel] + 0
        BY <1>5, <1>9, <3>1
    <3>3. \A b \in Calls : View(db'.rows[b]) = View(db.rows[b])
        BY <1>8, <3>1
    <3>4. View(db'.rows[c]) = v /\ v.state = "released" /\ before + 0 = before
        BY <1>2, <1>7, <1>8, <2>4, <3>3
    <3>5. Covered(c, View(db'.rows[c]), h, Tail(q), bill, before + 0)
        BY <1>7, <3>4 DEF Covered
    <3> QED
        BY <1>10, <3>2, <3>3, <3>5
  <2>5. CASE d.rows[c].state \in {"open", "expired"}
    <3>1. ReleasesBy(d, db', c)
        BY <1>2, <1>9, <2>1, <2>2, <2>5, ReleaseEffect
    <3> DEFINE kept == IF v.unpriced THEN v.usd ELSE 0
               w == View(db'.rows[c])
               x == [state |-> "released", usd |-> 0, tokens |-> 0,
                     slots |-> v.slots, unpriced |-> v.unpriced]
    <3>2. kept \in Nat /\ v.state = "open"
        BY <1>7, <1>8, <2>5
    <3>3. Spent(db')[Kernel] = Spent(d)[Kernel] + kept
        BY <1>4, <1>8, <3>1 DEF ReleasesBy
    <3>4. Spent(db')[Kernel] >= Spent(db)[Kernel] + kept
        BY <1>5, <1>9, <3>2, <3>3
    <3>5. Views(db') = [Views(d) EXCEPT ![c] = x]
        BY <1>8, <3>1 DEF ReleasesBy
    <3>6. x.state = "released"
        OBVIOUS
    <3> HIDE DEF x
    <3>7. w = x /\ \A b \in Calls : b # c => View(db'.rows[b]) = View(db.rows[b])
        BY <1>2, <1>11, <3>5
    <3>8. Covered(c, w, h, Tail(q), bill, before + kept)
      <4>1. Releases(q[1], c)
          BY <1>2, <2>1, <2>2 DEF Releases
      <4>2. w.state = "released"
          BY <3>6, <3>7
      <4> HIDE DEF w
      <4> QED
          BY <1>1, <1>2, <1>7, <1>8, <3>2, <4>1, <4>2, CoveredWriteRelease
    <3> QED
        BY <1>10, <3>2, <3>4, <3>7, <3>8
  <2> QED
      BY <2>3, <2>4, <2>5
<1> QED
    BY <1>2, <1>12, <1>13 DEF Ops

\* The transaction of admit: a new reservation covers a bill of nothing.
LEMMA LedgerAdmitCommit ==
    ASSUME IInv, Ledger, NEW p \in Procs, AdmitCommit(p)
    PROVE  Ledger'
<1> DEFINE est == proc[p].est
<1>1. PICK now \in SUBSET lapsed :
         LET d == Expire(db, now)
         IN  \/ /\ Admissible(est, ExposureOf(d), TokensUsed(d))
                /\ \E c \in Calls :
                      /\ d.rows[c].state = "none"
                      /\ \A b \in 1..(c - 1) : d.rows[b].state # "none"
                      /\ db' = [d EXCEPT !.rows[c] = NewRow(est)]
                      /\ handle' = [handle EXCEPT ![c] =
                                      [NoHandle EXCEPT !.holder = p, !.usd = AmountOf(est)]]
             \/ db' = d /\ handle' = handle
    BY DEF AdmitCommit
<1>2. UNCHANGED <<pending, billed>> /\ proc[p].pc = "begin"
    BY DEF AdmitCommit, history
<1> DEFINE d == Expire(db, now)
<1>3. /\ SameView(d)
      /\ \A c \in Calls : d.rows[c].state = "none" <=> db.rows[c].state = "none"
    BY ExpireOK DEF IInv, SameView
<1>4. est \in Estimates /\ AmountOf(est) \in Nat
  <2>1. est \in Estimates
      BY <1>2 DEF IInv, Operations
  <2> QED
      BY <2>1, InputTypes
<1>5. \/ db' = d /\ handle' = handle
      \/ \E c \in Calls :
            /\ d.rows[c].state = "none"
            /\ db' = [d EXCEPT !.rows[c] = NewRow(est)]
            /\ handle' = [handle EXCEPT ![c] =
                            [NoHandle EXCEPT !.holder = p, !.usd = AmountOf(est)]]
    BY <1>1
<1> HIDE DEF d, est
<1>6. CASE db' = d /\ handle' = handle
    BY <1>2, <1>3, <1>6, LedgerSame DEF SameView
<1>7. ASSUME NEW c \in Calls, d.rows[c].state = "none",
             db' = [d EXCEPT !.rows[c] = NewRow(est)],
             handle' = [handle EXCEPT ![c] =
                            [NoHandle EXCEPT !.holder = p, !.usd = AmountOf(est)]]
      PROVE  Ledger'
  <2> DEFINE w == [state |-> "open", usd |-> AmountOf(est), tokens |-> est.tokens,
                   slots |-> est.slots, unpriced |-> FALSE]
             n == NoHandle
             g == [n EXCEPT !.holder = p, !.usd = AmountOf(est)]
  <2>1. AdmitsBy(d, db', c, est)
      BY <1>3, <1>4, <1>7, AdmitEffect DEF SameView
  <2>2. /\ Views(db') = [Views(d) EXCEPT ![c] = w] /\ Spent(db')[Kernel] = Spent(d)[Kernel]
    <3>1. Kernel \in Scopes
        BY DEF Scopes
    <3> QED
        BY <2>1, <3>1 DEF AdmitsBy
  <2>3. w.state = "open" /\ w.usd = AmountOf(est)
      OBVIOUS
  <2>4. g.holder = p /\ g.usd = AmountOf(est) /\ ~g.released
      BY DEF NoHandle
  <2>5. handle' = [handle EXCEPT ![c] = g]
      BY <1>7
  <2> HIDE DEF w, n, g
  <2>6. db.rows[c].state = "none" /\ View(db.rows[c]).state = "none"
    <3>1. db.rows[c].state = "none"
        BY <1>3, <1>7
    <3> QED
        BY <3>1 DEF View
  <2>7. \A b \in Calls : View(db'.rows[b]) = IF b = c THEN w ELSE View(db.rows[b])
    <3>1. \A b \in Calls : Views(db')[b] = View(db'.rows[b]) /\ Views(db)[b] = View(db.rows[b])
        BY DEF Views
    <3>2. Views(d) = Views(db) /\ Views(d) \in [Calls -> {Views(d)[i] : i \in Calls}]
        BY <1>3 DEF SameView, Views
    <3> QED
        BY <2>2, <3>1, <3>2
  <2>8. handle'[c] = g /\ \A b \in Calls : b # c => handle'[b] = handle[b]
    <3>1. handle \in [Calls -> [holder : Procs \cup {Nobody}, usd : Nat, released : BOOLEAN]]
        BY DEF IInv, Handles
    <3> QED
        BY <2>5, <3>1
  <2>9. /\ pending \in [Procs -> Seq(Ops)] /\ billed \in [Calls -> Nat] /\ QueuedByHolder
        /\ \A q \in Procs : \A i \in 1..Len(pending[q]) :
             pending[q][i].id \in Calls /\ pending[q][i].id # c
      BY <2>6, LedgerTypes DEF Ledger
  <2>10. QueuedByHolder'
      BY <1>2, <2>8, <2>9 DEF QueuedByHolder
  <2>11. PICK paid \in [Calls -> Nat] :
            SumTo(paid, MaxCalls) <= Spent(db)[Kernel] /\ AllCovered(paid)
      BY DEF Ledger
  <2>12. billed[c] = 0 /\ paid[c] = 0
    <3>1. Covered(c, View(db.rows[c]), handle[c], pending[handle[c].holder], billed[c], paid[c])
        BY <2>11 DEF AllCovered
    <3> QED
        BY <2>6, <3>1 DEF Covered
  <2>13. Covered(c, w, g, pending[p], 0, 0)
    <3> DEFINE q == pending[p]
               z == [i \in 1..(Len(q) + 1) |-> 0]
    <3>1. q \in Seq(Ops) /\ Len(q) \in Nat /\ \A i \in 1..Len(q) : q[i].id # c
        BY <2>9
    <3> HIDE DEF q
    <3>2. /\ z \in [1..(Len(q) + 1) -> Nat] /\ \A i \in 1..(Len(q) + 1) : z[i] = 0
          /\ z[1] = 0 /\ z[Len(q) + 1] = 0 /\ \A i \in 1..Len(q) : z[i] = 0 /\ z[i + 1] = 0
        BY <3>1
    <3> HIDE DEF z
    <3>3. \A i \in 1..Len(q) : ~Settles(q[i], c) /\ ~Releases(q[i], c)
        BY <3>1 DEF Settles, Releases
    <3>4. CoverGrows(z, q, c, g.usd)
        BY <1>4, <2>4, <3>2, <3>3 DEF CoverGrows
    <3>5. QueueCovers(z, q, c, g, 0)
        BY <3>2, <3>3, <3>4 DEF QueueCovers
    <3>6. \E cover : QueueCovers(cover, q, c, g, 0) /\ (~w.unpriced => cover[1] <= 0)
        BY <3>2, <3>5
    <3> QED
        BY <1>4, <2>3, <2>4, <3>6 DEF Covered, q
  <2>14. ASSUME NEW b \in Calls
         PROVE  Covered(b, View(db'.rows[b]), handle'[b], pending'[handle'[b].holder],
                        billed'[b], paid[b])
    <3>1. CASE b = c
        BY <1>2, <2>4, <2>7, <2>8, <2>12, <2>13, <3>1
    <3>2. CASE b # c
      <4>1. Covered(b, View(db.rows[b]), handle[b], pending[handle[b].holder], billed[b], paid[b])
          BY <2>11 DEF AllCovered
      <4> QED
          BY <1>2, <2>7, <2>8, <3>2, <4>1
    <3> QED
        BY <3>1, <3>2
  <2>15. SumTo(paid, MaxCalls) <= Spent(db')[Kernel]
      BY <1>3, <2>2, <2>11 DEF SameView
  <2>16. billed' \in [Calls -> Nat]
      BY <1>2, <2>9
  <2> QED
      BY <2>10, <2>11, <2>14, <2>15, <2>16, LedgerAfter
<1> QED
    BY <1>5, <1>6, <1>7

\* An empty database, and no bills.
LEMMA LedgerInit == Init => Ledger
<1> SUFFICES ASSUME Init PROVE Ledger
    OBVIOUS
<1> DEFINE none == [c \in Calls |-> 0]
<1>1. /\ billed = none /\ \A c \in Calls : db.rows[c] = NoRow /\ handle[c] = NoHandle
      /\ db.spend = [s \in Scopes |-> 0] /\ pending = [p \in Procs |-> <<>>]
  <2>1. db = [rows |-> [c \in Calls |-> NoRow], spend |-> [s \in Scopes |-> 0], tokens |-> 0]
        /\ handle = [c \in Calls |-> NoHandle]
      BY DEF Init
  <2> QED
      BY <2>1 DEF Init
<1>2. /\ none \in [Calls -> Nat] /\ \A c \in Calls : none[c] = 0
    OBVIOUS
<1> HIDE DEF none
<1>3. MaxCalls \in Nat /\ Calls = 1..MaxCalls /\ Kernel \in Scopes
    BY BudgetAssumption DEF Calls, Scopes
<1>4. NoRow.chargeUsd = 0 /\ NoRow.state = "none" /\ NoHandle.holder \notin Procs
    BY SharedAssumption DEF NoRow, NoHandle
<1>5. SumTo(none, MaxCalls) = 0
    BY <1>2, <1>3, SumZero
<1>6. Spent(db)[Kernel] = 0
  <2>1. \A i \in 1..MaxCalls : ChargedFor(db, Kernel)[i] = 0
      BY <1>1, <1>3, <1>4 DEF ChargedFor
  <2>2. SumTo(ChargedFor(db, Kernel), MaxCalls) = 0
      BY <1>3, <2>1, SumZero
  <2> QED
      BY <1>1, <1>3, <2>2 DEF Spent
<1>7. QueuedByHolder
    BY <1>1 DEF QueuedByHolder
<1>8. AllCovered(none)
  <2> SUFFICES ASSUME NEW c \in Calls
               PROVE  Covered(c, View(db.rows[c]), handle[c], pending[handle[c].holder],
                              billed[c], none[c])
      BY DEF AllCovered
  <2>1. View(db.rows[c]).state = "none" /\ handle[c].holder \notin Procs
        /\ billed[c] = 0 /\ none[c] = 0
      BY <1>1, <1>2, <1>4 DEF View
  <2> QED
      BY <2>1 DEF Covered
<1> QED
    BY <1>1, <1>2, <1>5, <1>6, <1>7, <1>8 DEF Ledger

\* Every step keeps the ledger.
LEMMA LedgerNext == IInv /\ Ledger /\ [Next]_vars => Ledger'
<1> SUFFICES ASSUME IInv, Ledger, [Next]_vars PROVE Ledger'
    OBVIOUS
<1>1. IInv'
    BY NextOK
<1>2. ASSUME UNCHANGED <<db, handle, pending, billed>> PROVE Ledger'
    BY <1>2, LedgerSame
<1>3. ASSUME NEW p \in Procs, TryExpire(p) PROVE Ledger'
  <2>1. PICK now \in SUBSET lapsed : db' = Expire(db, now)
      BY <1>3 DEF TryExpire
  <2>2. UNCHANGED <<handle, pending, billed>>
      BY <1>3 DEF TryExpire, history
  <2>3. Views(db') = Views(db) /\ Spent(db') = Spent(db)
      BY <2>1, ExpireOK DEF IInv
  <2> QED
      BY <2>2, <2>3, LedgerSame
<1>4. ASSUME NEW p \in Procs,
             (\E est \in Estimates : CallAdmit(p, est)) \/ CallFlush(p) \/ ReplayFails(p)
             \/ AdmitUnavailable(p)
      PROVE  Ledger'
    BY <1>2, <1>4 DEF CallAdmit, CallFlush, ReplayFails, AdmitUnavailable, history
<1>5. ASSUME NEW c \in Calls, Lapse(c) PROVE Ledger'
    BY <1>2, <1>5 DEF Lapse, history
<1>6. ASSUME UNCHANGED vars PROVE Ledger'
    BY <1>2, <1>6 DEF vars, history
<1> QED
    BY <1>1, <1>3, <1>4, <1>5, <1>6, LedgerCallSettle, LedgerCallRelease, LedgerReplayOne,
       LedgerAdmitCommit, LedgerCrash DEF Next

\* FR-048 for any number of processes, calls and crashes: a settle that is queued, or lost
\* with its process, never loosens the cap.
THEOREM SharedCapsNeverLoosen == Spec => []CapsNeverLoosen
<1>1. IInv /\ Ledger => CapsNeverLoosen
  <2> SUFFICES ASSUME IInv, Ledger PROVE CapsNeverLoosen
      OBVIOUS
  <2>1. MaxCalls \in Nat /\ Calls = 1..MaxCalls /\ Kernel \in Scopes
        /\ \A slots : Kernel \in ScopesOf(slots)
      BY BudgetAssumption DEF Calls, Scopes, ScopesOf
  <2>2. DbOK(db) /\ db \in Database
      BY DEF IInv, DbOK
  <2>3. PICK paid \in [Calls -> Nat] :
           SumTo(paid, MaxCalls) <= Spent(db)[Kernel] /\ AllCovered(paid)
      BY DEF Ledger
  <2> DEFINE held == HeldFor(db, Kernel)
             bills == [c \in Calls |-> billed[c]]
             all == [c \in Calls |-> paid[c] + held[c]]
             left == [c \in Calls |-> all[c] - bills[c]]
  <2>4. ASSUME NEW c \in Calls
        PROVE  held[c] \in Nat /\ billed[c] \in Nat /\ billed[c] <= paid[c] + held[c]
               /\ paid[c] \in Nat
    <3>1. held[c] \in Nat /\ billed[c] \in Nat /\ paid[c] \in Nat
        BY <2>1, <2>2, <2>3, SummandTypes DEF Ledger
    <3>2. held[c] = View(db.rows[c]).usd
        BY <2>1 DEF HeldFor, View
    <3>3. Covered(c, View(db.rows[c]), handle[c], pending[handle[c].holder], billed[c], paid[c])
        BY <2>3 DEF AllCovered
    <3>4. View(db.rows[c]).state \in {"none", "open", "released"}
      <4>1. db.rows[c].state \in {"none", "open", "expired", "released"}
          BY <2>2 DEF Database, Row
      <4> QED
          BY <4>1 DEF View
    <3> HIDE DEF held
    <3> QED
        BY <3>1, <3>2, <3>3, <3>4 DEF Covered
  <2> HIDE DEF held
  <2>5. /\ \A i \in 1..MaxCalls : paid[i] \in Int /\ held[i] \in Int /\ all[i] = paid[i] + held[i]
        /\ \A i \in 1..MaxCalls : /\ bills[i] \in Int /\ left[i] \in Int
                                  /\ all[i] = bills[i] + left[i]
        /\ \A i \in 1..MaxCalls : left[i] \in Nat
    <3> SUFFICES ASSUME NEW i \in Calls
                 PROVE  /\ paid[i] \in Int /\ held[i] \in Int /\ all[i] = paid[i] + held[i]
                        /\ bills[i] \in Int /\ left[i] \in Int /\ left[i] \in Nat
                        /\ all[i] = bills[i] + left[i]
        BY <2>1
    <3>1. /\ paid[i] \in Nat /\ held[i] \in Nat /\ billed[i] \in Nat
          /\ billed[i] <= paid[i] + held[i]
        BY <2>4
    <3>2. all[i] = paid[i] + held[i] /\ bills[i] = billed[i]
        OBVIOUS
    <3>3. left[i] = all[i] - bills[i]
        OBVIOUS
    <3> HIDE DEF left, all, bills
    <3> QED
        BY <3>1, <3>2, <3>3
  <2> HIDE DEF bills, all, left
  <2>6. SumTo(all, MaxCalls) = SumTo(paid, MaxCalls) + SumTo(held, MaxCalls)
      BY <2>1, <2>5, SumAdd
  <2>7. SumTo(all, MaxCalls) = SumTo(bills, MaxCalls) + SumTo(left, MaxCalls)
      BY <2>1, <2>5, SumAdd
  <2>8. SumTo(left, MaxCalls) \in Nat
      BY <2>5, SumNat
  <2>9. /\ SumTo(paid, MaxCalls) \in Int /\ SumTo(held, MaxCalls) \in Int
        /\ SumTo(bills, MaxCalls) \in Int
      BY <2>1, <2>5, SumType
  <2>10. ExposureOf(db)[Kernel] = Spent(db)[Kernel] + Reserved(db)[Kernel]
      BY <2>1, <2>2, ExposureAgrees
  <2>11. Reserved(db)[Kernel] = SumTo(held, MaxCalls)
      BY <2>1 DEF Reserved, held
  <2>12. Spent(db)[Kernel] \in Int
    <3>1. SumTo(ChargedFor(db, Kernel), MaxCalls) \in Int /\ db.spend[Kernel] \in Nat
        BY <2>1, <2>2, SumTypes DEF Database
    <3> QED
        BY <2>1, <3>1 DEF Spent
  <2>13. ExposureOf(db)[Kernel] >= SumTo(bills, MaxCalls)
      BY <2>3, <2>6, <2>7, <2>8, <2>9, <2>10, <2>11, <2>12
  <2> QED
      BY <2>1, <2>13 DEF CapsNeverLoosen, ExposureOf, bills
<1>2. Init => Ledger
    BY LedgerInit
<1>3. IInv /\ Ledger /\ [Next]_vars => Ledger'
    BY LedgerNext
<1> QED
    BY <1>1, <1>2, <1>3, Invariance, PTL DEF Spec

=============================================================================
