---------------------------- MODULE BudgetLemmas ----------------------------
(***************************************************************************)
(* Facts about BudgetRules that the proofs of both cap budgets use: the    *)
(* admission arithmetic, and SumTo, by induction on the upper end.  The    *)
(* induction principle is stated for sets of naturals, so that first-order *)
(* provers can use it.                                                     *)
(***************************************************************************)
EXTENDS BudgetRules, WellFoundedInduction, TLAPS

\* MinOf and MaxOf on naturals.
LEMMA MinMax ==
    ASSUME NEW a \in Nat, NEW b \in Nat
    PROVE  /\ MinOf(a, b) \in Nat /\ MinOf(a, b) <= a /\ MinOf(a, b) <= b
           /\ MaxOf(0, a - b) \in Nat
           /\ a >= b => MaxOf(0, a - b) = a - b
BY DEF MinOf, MaxOf

\* What the estimates and events of the constants look like.
LEMMA InputTypes ==
    /\ \A est \in Estimates : /\ AmountOf(est) \in Nat
                              /\ est.tokens \in Nat
                              /\ est.slots \in SUBSET Slots
    /\ \A event \in Events : CostOf(event) \in Nat /\ event.tokens \in Nat
BY BudgetAssumption DEF AmountOf, CostOf

\* Adding a natural in some scopes keeps a function of naturals one.
LEMMA AddInType ==
    ASSUME NEW f \in [Scopes -> Nat], NEW S, NEW d \in Nat
    PROVE  /\ AddIn(f, S, d) \in [Scopes -> Nat]
           /\ \A s \in Scopes : AddIn(f, S, d)[s] = IF s \in S THEN f[s] + d ELSE f[s]
BY DEF AddIn

-----------------------------------------------------------------------------

\* Induction on Nat: a set with 0 that is closed under successor has every natural.
LEMMA SetInduction ==
    ASSUME NEW S, 0 \in S, \A n \in Nat : n \in S => n + 1 \in S
    PROVE  Nat \subseteq S
<1> DEFINE T == Nat \ S
           R == OpToRel(<, Nat)
<1> SUFFICES ASSUME T # {} PROVE FALSE
    OBVIOUS
<1>1. PICK m \in T : \A k \in T : ~(<<k, m>> \in R)
    BY NatLessThanWellFounded, WFMin, T \subseteq Nat
<1>2. m \in Nat /\ m # 0
    BY <1>1
<1>3. m - 1 \in Nat /\ m - 1 < m
    BY <1>2
<1>4. <<m - 1, m>> \in R
    BY <1>2, <1>3 DEF OpToRel
<1>5. m - 1 \notin T
    BY <1>1, <1>4
<1>6. m - 1 \in S
    BY <1>3, <1>5
<1>7. (m - 1) + 1 \in S
    BY <1>3, <1>6
<1>8. (m - 1) + 1 = m
    BY <1>2
<1> QED
    BY <1>1, <1>7, <1>8

\* The partial sums exist: the recursion that defines them has a solution.
LEMMA PartialSumsExist ==
    ASSUME NEW f, NEW n \in Nat
    PROVE  \E s : s = [i \in 0..n |-> IF i = 0 THEN 0 ELSE s[i - 1] + f[i]]
<1> DEFINE Step(s, m) == [i \in 0..m |-> IF i = 0 THEN 0 ELSE s[i - 1] + f[i]]
           S == {m \in Nat : \E s : s = Step(s, m)}
<1>1. 0 \in S
  <2> DEFINE z == [i \in 0..0 |-> 0]
  <2>1. z = Step(z, 0)
      OBVIOUS
  <2> QED
      BY <2>1
<1>2. ASSUME NEW m \in Nat, m \in S PROVE m + 1 \in S
  <2>1. PICK s : s = Step(s, m)
      BY <1>2
  <2> DEFINE t == [i \in 0..(m + 1) |-> IF i = m + 1 THEN s[m] + f[m + 1] ELSE s[i]]
  <2>2. ASSUME NEW i \in 0..(m + 1)
        PROVE  t[i] = IF i = 0 THEN 0 ELSE t[i - 1] + f[i]
    <3>1. CASE i = 0
        BY <2>1, <3>1
    <3>2. CASE i = m + 1
        BY <3>2
    <3>3. CASE i # 0 /\ i # m + 1
      <4>1. i \in 0..m /\ i - 1 \in 0..m /\ i - 1 \in 0..(m + 1) /\ i - 1 # m + 1
          BY <3>3
      <4>2. s[i] = s[i - 1] + f[i]
          BY <2>1, <3>3, <4>1
      <4> QED
          BY <3>3, <4>1, <4>2
    <3> QED
        BY <3>1, <3>2, <3>3
  <2>3. t = Step(t, m + 1)
      BY <2>2
  <2> HIDE DEF t
  <2>4. \E u : u = Step(u, m + 1)
      BY <2>3
  <2>5. m + 1 \in Nat
      OBVIOUS
  <2> HIDE DEF Step
  <2> QED
      BY <2>4, <2>5
<1>3. n \in S
    BY <1>1, <1>2, SetInduction
<1> QED
    BY <1>3

\* PartialSums satisfies its recursion.
LEMMA PartialSumsDef ==
    ASSUME NEW f, NEW n \in Nat
    PROVE  PartialSums(f, n) =
             [i \in 0..n |-> IF i = 0 THEN 0 ELSE PartialSums(f, n)[i - 1] + f[i]]
BY PartialSumsExist DEF PartialSums

\* The partial sums of an integer function are integers.
LEMMA PartialSumsType ==
    ASSUME NEW n \in Nat, NEW f, \A i \in 1..n : f[i] \in Int
    PROVE  \A i \in 0..n : PartialSums(f, n)[i] \in Int
<1> DEFINE p == PartialSums(f, n)
           S == {m \in Nat : m <= n => p[m] \in Int}
<1>0. \A i \in 0..n : p[i] = IF i = 0 THEN 0 ELSE p[i - 1] + f[i]
    BY PartialSumsDef
<1> HIDE DEF p
<1>1. 0 \in S
    BY <1>0
<1>2. ASSUME NEW m \in Nat, m \in S PROVE m + 1 \in S
  <2> SUFFICES ASSUME m + 1 <= n PROVE p[m + 1] \in Int
      OBVIOUS
  <2>1. m + 1 \in 0..n /\ m + 1 \in 1..n /\ m + 1 # 0 /\ (m + 1) - 1 = m
      OBVIOUS
  <2>2. p[m + 1] = p[m] + f[m + 1]
      BY <1>0, <2>1
  <2> QED
      BY <1>2, <2>1, <2>2
<1>3. Nat \subseteq S
    BY <1>1, <1>2, SetInduction
<1> QED
    BY <1>3 DEF p

\* A sum of integers is an integer.
LEMMA SumType ==
    ASSUME NEW n \in Nat, NEW f, \A i \in 1..n : f[i] \in Int
    PROVE  SumTo(f, n) \in Int
BY PartialSumsType DEF SumTo

\* Sums add up: if h is f plus g at every index, its sum is the sum of theirs.
LEMMA SumAdd ==
    ASSUME NEW n \in Nat, NEW f, NEW g, NEW h,
           \A i \in 1..n : f[i] \in Int /\ g[i] \in Int /\ h[i] = f[i] + g[i]
    PROVE  SumTo(h, n) = SumTo(f, n) + SumTo(g, n)
<1> DEFINE p == PartialSums(f, n)
           q == PartialSums(g, n)
           r == PartialSums(h, n)
           S == {m \in Nat : m <= n => r[m] = p[m] + q[m]}
<1>0. \A i \in 0..n : /\ p[i] = IF i = 0 THEN 0 ELSE p[i - 1] + f[i]
                      /\ q[i] = IF i = 0 THEN 0 ELSE q[i - 1] + g[i]
                      /\ r[i] = IF i = 0 THEN 0 ELSE r[i - 1] + h[i]
    BY PartialSumsDef
<1>t. \A i \in 0..n : p[i] \in Int /\ q[i] \in Int
    BY PartialSumsType
<1> HIDE DEF p, q, r
<1>1. 0 \in S
    BY <1>0
<1>2. ASSUME NEW m \in Nat, m \in S PROVE m + 1 \in S
  <2> SUFFICES ASSUME m + 1 <= n PROVE r[m + 1] = p[m + 1] + q[m + 1]
      OBVIOUS
  <2>1. /\ m + 1 \in 0..n /\ m + 1 \in 1..n /\ m \in 0..n
        /\ m + 1 # 0 /\ (m + 1) - 1 = m
      OBVIOUS
  <2>2. /\ p[m + 1] = p[m] + f[m + 1]
        /\ q[m + 1] = q[m] + g[m + 1]
        /\ r[m + 1] = r[m] + h[m + 1]
      BY <1>0, <2>1
  <2>3. r[m] = p[m] + q[m]
      BY <1>2, <2>1
  <2>4. p[m] \in Int /\ q[m] \in Int
      BY <1>t, <2>1
  <2> QED
      BY <2>1, <2>2, <2>3, <2>4
<1>3. Nat \subseteq S
    BY <1>1, <1>2, SetInduction
<1>4. r[n] = p[n] + q[n]
    BY <1>3
<1> QED
    BY <1>4 DEF p, q, r, SumTo

\* Equal summands, equal sums.
LEMMA SumEqual ==
    ASSUME NEW n \in Nat, NEW f, NEW g,
           \A i \in 1..n : f[i] \in Int /\ g[i] = f[i]
    PROVE  SumTo(g, n) = SumTo(f, n)
<1> DEFINE p == PartialSums(f, n)
           q == PartialSums(g, n)
           S == {m \in Nat : m <= n => q[m] = p[m]}
<1>0. \A i \in 0..n : /\ p[i] = IF i = 0 THEN 0 ELSE p[i - 1] + f[i]
                      /\ q[i] = IF i = 0 THEN 0 ELSE q[i - 1] + g[i]
    BY PartialSumsDef
<1> HIDE DEF p, q
<1>1. 0 \in S
    BY <1>0
<1>2. ASSUME NEW m \in Nat, m \in S PROVE m + 1 \in S
  <2> SUFFICES ASSUME m + 1 <= n PROVE q[m + 1] = p[m + 1]
      OBVIOUS
  <2>1. m + 1 \in 0..n /\ m + 1 \in 1..n /\ m + 1 # 0 /\ (m + 1) - 1 = m
      OBVIOUS
  <2>2. p[m + 1] = p[m] + f[m + 1] /\ q[m + 1] = q[m] + g[m + 1]
      BY <1>0, <2>1
  <2> QED
      BY <1>2, <2>1, <2>2
<1>3. Nat \subseteq S
    BY <1>1, <1>2, SetInduction
<1> QED
    BY <1>3 DEF p, q, SumTo

\* A sum whose summands are 0 except at k is its summand at k.
LEMMA SumSingle ==
    ASSUME NEW n \in Nat, NEW k \in 1..n, NEW f, f[k] \in Int,
           \A i \in 1..n : i # k => f[i] = 0
    PROVE  SumTo(f, n) = f[k]
<1> DEFINE p == PartialSums(f, n)
           S == {m \in Nat : m <= n => p[m] = IF m < k THEN 0 ELSE f[k]}
<1>0. \A i \in 0..n : p[i] = IF i = 0 THEN 0 ELSE p[i - 1] + f[i]
    BY PartialSumsDef
<1> HIDE DEF p
<1>1. 0 \in S
    BY <1>0
<1>2. ASSUME NEW m \in Nat, m \in S PROVE m + 1 \in S
  <2> SUFFICES ASSUME m + 1 <= n PROVE p[m + 1] = IF m + 1 < k THEN 0 ELSE f[k]
      OBVIOUS
  <2>1. m + 1 \in 0..n /\ m + 1 \in 1..n /\ m + 1 # 0 /\ (m + 1) - 1 = m
      OBVIOUS
  <2>2. p[m + 1] = p[m] + f[m + 1]
      BY <1>0, <2>1
  <2>3. p[m] = IF m < k THEN 0 ELSE f[k]
      BY <1>2, <2>1
  <2> QED
      BY <2>1, <2>2, <2>3
<1>3. Nat \subseteq S
    BY <1>1, <1>2, SetInduction
<1> QED
    BY <1>3 DEF p, SumTo

\* A sum of zeros is 0.
LEMMA SumZero ==
    ASSUME NEW n \in Nat, NEW f, \A i \in 1..n : f[i] = 0
    PROVE  SumTo(f, n) = 0
<1>1. \A i \in 1..n : f[i] \in Int /\ f[i] = f[i] + f[i]
    OBVIOUS
<1>2. SumTo(f, n) = SumTo(f, n) + SumTo(f, n)
    BY <1>1, SumAdd
<1>3. SumTo(f, n) \in Int
    BY <1>1, SumType
<1>4. \A x \in Int : x = x + x => x = 0
    OBVIOUS
<1> QED
    BY <1>2, <1>3, <1>4

\* Changing one summand changes the sum by the difference.
LEMMA SumUpdate ==
    ASSUME NEW n \in Nat, NEW k \in 1..n, NEW f, NEW g,
           \A i \in 1..n : f[i] \in Int /\ g[i] \in Int,
           \A i \in 1..n : i # k => g[i] = f[i]
    PROVE  SumTo(g, n) = SumTo(f, n) + (g[k] - f[k])
<1> DEFINE d == [i \in 1..n |-> IF i = k THEN g[k] - f[k] ELSE 0]
<1>1. \A i \in 1..n : f[i] \in Int /\ d[i] \in Int /\ g[i] = f[i] + d[i]
    OBVIOUS
<1>2. d[k] = g[k] - f[k] /\ d[k] \in Int /\ \A i \in 1..n : i # k => d[i] = 0
    OBVIOUS
<1> HIDE DEF d
<1>3. SumTo(g, n) = SumTo(f, n) + SumTo(d, n)
    BY <1>1, SumAdd
<1>4. SumTo(d, n) = d[k]
    BY <1>2, SumSingle
<1> QED
    BY <1>2, <1>3, <1>4

\* A sum of naturals is at least each of its summands.
LEMMA SumBound ==
    ASSUME NEW n \in Nat, NEW f, \A i \in 1..n : f[i] \in Nat, NEW k \in 1..n
    PROVE  SumTo(f, n) >= f[k] /\ SumTo(f, n) \in Nat
<1> DEFINE p == PartialSums(f, n)
           S == {m \in Nat : m <= n => /\ p[m] \in Nat
                                       /\ m >= k => p[m] >= f[k]}
<1>0. \A i \in 0..n : p[i] = IF i = 0 THEN 0 ELSE p[i - 1] + f[i]
    BY PartialSumsDef
<1> HIDE DEF p
<1>1. 0 \in S
    BY <1>0
<1>2. ASSUME NEW m \in Nat, m \in S PROVE m + 1 \in S
  <2> SUFFICES ASSUME m + 1 <= n
               PROVE  p[m + 1] \in Nat /\ (m + 1 >= k => p[m + 1] >= f[k])
      OBVIOUS
  <2>1. m + 1 \in 0..n /\ m + 1 \in 1..n /\ m + 1 # 0 /\ (m + 1) - 1 = m
      OBVIOUS
  <2>2. p[m + 1] = p[m] + f[m + 1]
      BY <1>0, <2>1
  <2>3. p[m] \in Nat /\ (m >= k => p[m] >= f[k])
      BY <1>2, <2>1
  <2>4. f[m + 1] \in Nat /\ f[k] \in Nat
      BY <2>1
  <2> QED
      BY <2>1, <2>2, <2>3, <2>4
<1>3. Nat \subseteq S
    BY <1>1, <1>2, SetInduction
<1> QED
    BY <1>3 DEF p, SumTo
=============================================================================
