-------------------------- MODULE TurnRecoveryProofs --------------------------
(***************************************************************************)
(* What TurnRecovery keeps, for any number of messages, tool calls, faults *)
(* and stops.                                                              *)
(*                                                                         *)
(* Recovery writes to the history at its end only, and never a user's row: *)
(* Grows says so, and what else all of restore_runtime_checkpoint,         *)
(* restore_pending_interruption, append_recovery_interruption and          *)
(* _set_state keep.  The invariants are about where the user's messages,   *)
(* the continuation of a click and the calls of a turn are.                *)
(*                                                                         *)
(* The history is legal until a late dismissal restores the checkpoint of  *)
(* a running turn: that has no check of the status, and writes a call that *)
(* the turn will write again.                                              *)
(***************************************************************************)
EXTENDS TurnRecovery, SequenceTheorems, FiniteSetTheorems, NaturalsInduction,
        WellFoundedInduction, TLAPS

\* The types of the rows, of a session and of a worker.
Kinds == {"user", "call", "result", "cut", "answer", "note"}
Rows == [kind : Kinds, id : Int]
Phases == {"none", "awaiting_tools", "tools_completed", "final_response"}
Statuses == {"none", "resuming", "awaiting_user", "recovered"}
Pcs == {"none", "idle", "locked", "restored", "request", "tool", "ran", "final", "saved"}

Checkpoints == {NoCheckpoint} \cup [phase : Phases \ {"none"}, id : Int]

Sessions ==
    [msgs : Seq(Rows), checkpoint : Checkpoints, pending : BOOLEAN,
     journal : Seq(Nat \ {0}), status : Statuses, rid : Nat, can : BOOLEAN, count : Nat]

Workers == [pc : Pcs, msg : Int, rows : Seq(Rows)]

\* The types of the variables.
Types ==
    /\ up \in {"up", "down"} /\ goal \in BOOLEAN
    /\ session \in Sessions /\ worker \in Workers
    /\ bus \in Seq(Int) /\ inbox \in Seq(Int \ {0})
    /\ late \subseteq LateActions \X Nat
    /\ sent \in Nat /\ tools \in Nat /\ journaled \subseteq Nat
    /\ clicks \in Nat /\ resumed \in Nat
    /\ faults \in 0..MaxFaults

\* A gateway that is down has nothing but the store, a worker that is gone no inbox,
\* a turn that has not started no rows, and one that runs a tool the row of its call.
Quiet ==
    /\ up = "down" => bus = <<>> /\ worker = NoWorker /\ session.rid < faults
    /\ session.rid <= faults
    /\ worker.pc = "none" => inbox = <<>>
    /\ worker.pc \in {"none", "idle", "locked", "restored"} => worker.rows = <<>>
    /\ worker.pc \in {"locked", "restored"} => worker.msg # 0
    /\ worker.pc \in {"tool", "ran"} => worker.rows # <<>>

\* The continuations in a queue, and one that is about to start its turn.
Tokens(s) == {i \in 1..Len(s) : s[i] < 0}
Starting == worker.pc = "locked" /\ worker.msg < 0
TokenQueued == Tokens(bus) # {} \/ Tokens(inbox) # {} \/ Starting

\* There is at most one continuation, and a click that no continuation was started for.
OneToken ==
    /\ \A i, j \in Tokens(bus) : i = j
    /\ \A i, j \in Tokens(inbox) : i = j
    /\ Tokens(bus) = {} \/ Tokens(inbox) = {}
    /\ Starting => Tokens(bus) = {} /\ Tokens(inbox) = {}
    /\ session.status = "awaiting_user" => ~TokenQueued
    /\ resumed <= clicks
    /\ TokenQueued => resumed < clicks

\* What the other invariants rest on.
Basis == Types /\ Quiet /\ OneToken

\* The user's messages in a queue, and the one that a turn is starting with.
Numbers(s) == {s[i] : i \in {j \in 1..Len(s) : s[j] > 0}}
Taken == IF worker.pc \in {"locked", "restored"} /\ worker.msg > 0 THEN {worker.msg} ELSE {}

\* The injected messages of a turn that is not in the history yet.
RowUsers == IF worker.pc = "saved" THEN {} ELSE Users(worker.rows)

\* No message twice in a queue, and no row of a message twice.
Distinct(s) == \A i, j \in 1..Len(s) : s[i] = s[j] /\ s[i] > 0 => i = j
Once(s) == \A i, j \in 1..Len(s) :
    s[i].kind = "user" /\ s[j].kind = "user" /\ s[i].id = s[j].id => i = j
Disjoint(A, B) == \A m \in A : m \notin B

\* A message is in one place: on the bus (B), in the inbox (I), with the worker (T), in
\* the rows of the turn (R) or in the history (U).  The journal (J) has none that is in
\* the history, and the history has what the journal has no more.
Apart(B, I, T, R, U, J, n, D) ==
    \A m : /\ m \in B => m \notin I /\ m \notin T /\ m \notin R /\ m \notin U
           /\ m \in I => m \notin T /\ m \notin R /\ m \notin U
           /\ m \in T => m \notin R /\ m \notin U
           /\ m \in R => m \notin U
           /\ m \in J => m \notin U
           /\ m \in B \/ m \in I \/ m \in T \/ m \in R \/ m \in U \/ m \in J => m \in 1..n
           /\ m \in D => m \in J \/ m \in U

Places ==
    /\ Distinct(bus) /\ Distinct(inbox) /\ Distinct(session.journal)
    /\ Once(session.msgs) /\ (worker.pc # "saved" => Once(worker.rows))
    /\ Apart(Numbers(bus), Numbers(inbox), Taken, RowUsers, Users(session.msgs),
             Numbers(session.journal), sent, journaled)

\* A call is in the history, or will be once the checkpoint is restored.
CallPhases == {"awaiting_tools", "tools_completed"}
Recalled(s, k) ==
    \/ Declared(s.msgs, k)
    \/ s.checkpoint.phase \in CallPhases /\ s.checkpoint.id = k

\* The last executed call is there for the next request.
Visible ==
    /\ latest # 0 => Recalled(session, latest)
    /\ latest # 0 /\ InTurn => Declared(session.msgs, latest) \/ Declared(worker.rows, latest)
    /\ worker.pc \in {"tool", "ran"} =>
          /\ Last(worker.rows).kind = "call" /\ Last(worker.rows).id > 0
          /\ Recalled(session, Last(worker.rows).id)
    /\ worker.pc = "ran" => latest = Last(worker.rows).id

\* Calls and results are adjacent pairs; only the calls in A may have no result.
Closed(s, A) ==
    \A i \in 1..Len(s) :
        /\ s[i].kind = "call" /\ s[i].id \notin A => /\ i < Len(s) /\ s[i + 1].id = s[i].id
                                                    /\ s[i + 1].kind \in {"result", "cut"}
        /\ s[i].kind \in {"result", "cut"} =>
              i > 1 /\ s[i - 1].kind = "call" /\ s[i - 1].id = s[i].id

\* The calls in it were made.
ToolKinds == {"call", "result", "cut"}
Bounded(s, n) == \A i \in 1..Len(s) : s[i].kind \in ToolKinds => s[i].id <= n

\* No call is there twice, nor is the call of the checkpoint there already.
CallsOnce(s) ==
    \A i, j \in 1..Len(s) :
        s[i].kind = "call" /\ s[j].kind = "call" /\ s[i].id = s[j].id => i = j
Fresh(s) ==
    /\ CallsOnce(s.msgs)
    /\ s.checkpoint.phase \in CallPhases => ~Declared(s.msgs, s.checkpoint.id)

Sound(s, n, A) ==
    /\ Closed(s.msgs, A) /\ Bounded(s.msgs, n) /\ Fresh(s)
    /\ s.checkpoint.phase \in CallPhases => s.checkpoint.id <= n

\* The same for the rows of a turn, which may end with a call that has no result yet.
Paired(s, A) ==
    \A i \in 1..Len(s) :
        /\ s[i].kind = "call" /\ s[i].id \notin A =>
              \/ i = Len(s)
              \/ s[i + 1].id = s[i].id /\ s[i + 1].kind \in {"result", "cut"}
        /\ s[i].kind \in {"result", "cut"} =>
              i > 1 /\ s[i - 1].kind = "call" /\ s[i - 1].id = s[i].id

\* The history has nothing of the calls in s.
NewCalls(s, msgs) ==
    \A i \in 1..Len(s), j \in 1..Len(msgs) :
        s[i].kind = "call" /\ msgs[j].kind \in ToolKinds => s[i].id # msgs[j].id

\* The rows of the turn can be saved.
Savable ==
    /\ Paired(worker.rows, asked) /\ Bounded(worker.rows, tools)
    /\ CallsOnce(worker.rows) /\ NewCalls(worker.rows, session.msgs)
    /\ worker.pc \in {"request", "final"} => Closed(worker.rows, asked)

\* The history is legal.  No recovery is offered, or open for a message, in a turn: that
\* keeps the calls of the history as they are until the rows of the turn are saved.
History ==
    /\ Sound(session, tools, asked)
    /\ session.status = "awaiting_user" => worker.pc \in {"none", "idle"}
    /\ worker.pc \notin {"none", "idle"} => worker.msg < 0 \/ session.status \notin Open
    /\ worker.pc # "saved" => Savable

-----------------------------------------------------------------------------
\* Induction on Nat: a set with 0 that is closed under successor has every natural.
LEMMA SetInduction ==
    ASSUME NEW S, 0 \in S, \A n \in Nat : n \in S => n + 1 \in S
    PROVE  Nat \subseteq S
<1> DEFINE T == Nat \ S
           R == OpToRel(<, Nat)
<1> SUFFICES ASSUME T # {} PROVE FALSE
    OBVIOUS
<1>1. PICK m \in T : \A k \in T : ~(<<k, m>> \in R)
    BY NatLessThanWellFounded, WFMin, T \subseteq Nat
<1>2. m \in Nat /\ m # 0
    BY <1>1
<1>3. m - 1 \in Nat /\ m - 1 < m
    BY <1>2
<1>4. <<m - 1, m>> \in R
    BY <1>2, <1>3 DEF OpToRel
<1>5. m - 1 \notin T
    BY <1>1, <1>4
<1>6. m - 1 \in S
    BY <1>3, <1>5
<1>7. (m - 1) + 1 \in S
    BY <1>3, <1>6
<1>8. (m - 1) + 1 = m
    BY <1>2
<1> QED
    BY <1>1, <1>7, <1>8

\* The recursion of Kept has a solution.
LEMMA KeptExists ==
    ASSUME NEW s, NEW X, NEW n \in Nat
    PROVE  \E f : f = [i \in 0..n |-> IF i = 0 THEN <<>> ELSE Keep(f[i - 1], s[i], X)]
<1> DEFINE Def(f, m) == [i \in 0..m |-> IF i = 0 THEN <<>> ELSE Keep(f[i - 1], s[i], X)]
           S == {m \in Nat : \E f : f = Def(f, m)}
<1>1. 0 \in S
  <2> DEFINE z == [i \in 0..0 |-> <<>>]
  <2>1. z = Def(z, 0)
      OBVIOUS
  <2> QED
      BY <2>1
<1>2. ASSUME NEW m \in Nat, m \in S PROVE m + 1 \in S
  <2>1. PICK f : f = Def(f, m)
      BY <1>2
  <2> DEFINE last == Keep(f[m], s[m + 1], X)
             t == [i \in 0..(m + 1) |-> IF i = m + 1 THEN last ELSE f[i]]
  <2>2. ASSUME NEW i \in 0..(m + 1)
        PROVE  t[i] = IF i = 0 THEN <<>> ELSE Keep(t[i - 1], s[i], X)
    <3>1. CASE i = 0
        BY <2>1, <3>1
    <3>2. CASE i = m + 1
      <4>1. t[i] = last /\ t[i - 1] = f[m] /\ i # 0
          BY <3>2
      <4> QED
          BY <3>2, <4>1
    <3>3. CASE i # 0 /\ i # m + 1
      <4>1. i \in 0..m /\ i - 1 \in 0..m /\ i - 1 \in 0..(m + 1) /\ i - 1 # m + 1
          BY <3>3
      <4>2. f[i] = Keep(f[i - 1], s[i], X)
          BY <2>1, <3>3, <4>1
      <4>3. t[i] = f[i] /\ t[i - 1] = f[i - 1]
          BY <3>3, <4>1
      <4> QED
          BY <3>3, <4>2, <4>3
    <3> QED
        BY <3>1, <3>2, <3>3
  <2>3. t = Def(t, m + 1)
      BY <2>2
  <2> HIDE DEF t
  <2>4. \E u : u = Def(u, m + 1)
      BY <2>3
  <2>5. m + 1 \in Nat
      OBVIOUS
  <2> HIDE DEF Def
  <2> QED
      BY <2>4, <2>5
<1>3. n \in S
    BY <1>1, <1>2, SetInduction
<1> QED
    BY <1>3

\* Kept satisfies its recursion.
LEMMA KeptIs ==
    ASSUME NEW s, NEW X, Len(s) \in Nat
    PROVE  Kept(s, X) = [i \in 0..Len(s) |->
                           IF i = 0 THEN <<>> ELSE Keep(Kept(s, X)[i - 1], s[i], X)]
BY KeptExists DEF Kept

\* The recursion of Saving has a solution.
LEMMA SavingExists ==
    ASSUME NEW msgs, NEW s, NEW n \in Nat
    PROVE  \E f : f = [i \in 0..n |-> IF i = 0 THEN msgs ELSE SaveRow(f[i - 1], s[i])]
<1> DEFINE Def(f, m) == [i \in 0..m |-> IF i = 0 THEN msgs ELSE SaveRow(f[i - 1], s[i])]
           S == {m \in Nat : \E f : f = Def(f, m)}
<1>1. 0 \in S
  <2> DEFINE z == [i \in 0..0 |-> msgs]
  <2>1. z = Def(z, 0)
      OBVIOUS
  <2> QED
      BY <2>1
<1>2. ASSUME NEW m \in Nat, m \in S PROVE m + 1 \in S
  <2>1. PICK f : f = Def(f, m)
      BY <1>2
  <2> DEFINE last == SaveRow(f[m], s[m + 1])
             t == [i \in 0..(m + 1) |-> IF i = m + 1 THEN last ELSE f[i]]
  <2>2. ASSUME NEW i \in 0..(m + 1)
        PROVE  t[i] = IF i = 0 THEN msgs ELSE SaveRow(t[i - 1], s[i])
    <3>1. CASE i = 0
        BY <2>1, <3>1
    <3>2. CASE i = m + 1
      <4>1. t[i] = last /\ t[i - 1] = f[m] /\ i # 0
          BY <3>2
      <4> QED
          BY <3>2, <4>1
    <3>3. CASE i # 0 /\ i # m + 1
      <4>1. i \in 0..m /\ i - 1 \in 0..m /\ i - 1 \in 0..(m + 1) /\ i - 1 # m + 1
          BY <3>3
      <4>2. f[i] = SaveRow(f[i - 1], s[i])
          BY <2>1, <3>3, <4>1
      <4>3. t[i] = f[i] /\ t[i - 1] = f[i - 1]
          BY <3>3, <4>1
      <4> QED
          BY <3>3, <4>2, <4>3
    <3> QED
        BY <3>1, <3>2, <3>3
  <2>3. t = Def(t, m + 1)
      BY <2>2
  <2> HIDE DEF t
  <2>4. \E u : u = Def(u, m + 1)
      BY <2>3
  <2>5. m + 1 \in Nat
      OBVIOUS
  <2> HIDE DEF Def
  <2> QED
      BY <2>4, <2>5
<1>3. n \in S
    BY <1>1, <1>2, SetInduction
<1> QED
    BY <1>3

\* Saving satisfies its recursion.
LEMMA SavingIs ==
    ASSUME NEW msgs, NEW s, Len(s) \in Nat
    PROVE  Saving(msgs, s) = [i \in 0..Len(s) |->
                                IF i = 0 THEN msgs ELSE SaveRow(Saving(msgs, s)[i - 1], s[i])]
BY SavingExists DEF Saving

-----------------------------------------------------------------------------
(* Queues of message numbers and sequences of rows.                        *)

\* The messages in a queue, by position.
LEMMA NumbersIs ==
    ASSUME NEW s, NEW m
    PROVE  m \in Numbers(s) <=> m > 0 /\ \E i \in 1..Len(s) : s[i] = m
BY DEF Numbers

\* The messages in rows, by position.
LEMMA UsersIs ==
    ASSUME NEW s, NEW m
    PROVE  m \in Users(s) <=> \E i \in 1..Len(s) : s[i].kind = "user" /\ s[i].id = m
BY DEF Users

\* A message joins a queue.
LEMMA AppendQueue ==
    ASSUME NEW s \in Seq(Int), NEW m \in Int
    PROVE  LET r == Append(s, m)
           IN  /\ r \in Seq(Int)
               /\ Numbers(r) = Numbers(s) \cup IF m > 0 THEN {m} ELSE {}
               /\ Distinct(s) /\ m \notin Numbers(s) => Distinct(r)
               /\ m >= 0 => Tokens(r) = Tokens(s)
               /\ Tokens(s) = {} => \A i, j \in Tokens(r) : i = j
<1> DEFINE r == Append(s, m)
<1>1. /\ r \in Seq(Int) /\ Len(r) = Len(s) + 1 /\ Len(s) \in Nat /\ r[Len(s) + 1] = m
      /\ \A i \in 1..Len(s) : r[i] = s[i] /\ s[i] \in Int
    BY AppendProperties
<1> HIDE DEF r
<1>2. \A i \in 1..Len(r) : i \in 1..Len(s) \/ i = Len(s) + 1
    BY <1>1
<1>3. ASSUME NEW x PROVE x \in Numbers(r) <=> x \in Numbers(s) \/ (m > 0 /\ x = m)
  <2>1. ASSUME x \in Numbers(r) PROVE x \in Numbers(s) \/ (m > 0 /\ x = m)
    <3>1. PICK i \in 1..Len(r) : r[i] = x /\ x > 0
        BY <2>1, NumbersIs
    <3>2. CASE i \in 1..Len(s)
      <4>1. s[i] = x
          BY <1>1, <3>1, <3>2
      <4> QED
          BY <3>1, <3>2, <4>1, NumbersIs
    <3>3. CASE i = Len(s) + 1
        BY <1>1, <3>1, <3>3
    <3> QED
        BY <1>2, <3>2, <3>3
  <2>2. ASSUME x \in Numbers(s) PROVE x \in Numbers(r)
    <3>1. PICK i \in 1..Len(s) : s[i] = x /\ x > 0
        BY <2>2, NumbersIs
    <3>2. i \in 1..Len(r) /\ r[i] = x
        BY <1>1, <3>1
    <3> QED
        BY <3>1, <3>2, NumbersIs
  <2>3. ASSUME m > 0 PROVE m \in Numbers(r)
    <3>1. Len(s) + 1 \in 1..Len(r)
        BY <1>1
    <3> QED
        BY <1>1, <2>3, <3>1, NumbersIs
  <2> QED
      BY <2>1, <2>2, <2>3
<1>4. ASSUME Distinct(s), m \notin Numbers(s) PROVE Distinct(r)
  <2> SUFFICES ASSUME NEW i \in 1..Len(r), NEW j \in 1..Len(r), r[i] = r[j], r[i] > 0
               PROVE  i = j
      BY DEF Distinct
  <2>1. \A k \in 1..Len(s) : r[k] > 0 => r[k] # m
      BY <1>1, <1>4, NumbersIs
  <2> QED
      BY <1>1, <1>2, <1>4, <2>1 DEF Distinct
<1>5. ASSUME m >= 0 PROVE Tokens(r) = Tokens(s)
    BY <1>1, <1>5 DEF Tokens
<1>6. ASSUME Tokens(s) = {}, NEW i \in Tokens(r) PROVE i = Len(s) + 1
  <2>1. i \in 1..Len(r) /\ r[i] < 0
      BY DEF Tokens
  <2>2. i \in 1..Len(s) => i \in Tokens(s)
      BY <1>1, <2>1 DEF Tokens
  <2> QED
      BY <1>2, <1>6, <2>1, <2>2
<1> QED
    BY <1>1, <1>3, <1>4, <1>5, <1>6 DEF r

\* The first message leaves a queue.
LEMMA TailQueue ==
    ASSUME NEW s \in Seq(Int), s # <<>>
    PROVE  LET r == Tail(s)
               m == Head(s)
           IN  /\ r \in Seq(Int) /\ m \in Int
               /\ Numbers(s) = Numbers(r) \cup IF m > 0 THEN {m} ELSE {}
               /\ Distinct(s) => Distinct(r) /\ m \notin Numbers(r)
               /\ Tokens(s) = {} => Tokens(r) = {} /\ m >= 0
               /\ (\A i, j \in Tokens(s) : i = j) =>
                     /\ \A i, j \in Tokens(r) : i = j
                     /\ m < 0 => Tokens(r) = {}
<1> DEFINE r == Tail(s)
           m == Head(s)
<1>1. /\ r \in Seq(Int) /\ Len(r) = Len(s) - 1 /\ Len(s) \in Nat \ {0} /\ Len(r) \in Nat
      /\ m = s[1] /\ m \in Int
      /\ \A i \in 1..Len(r) : r[i] = s[i + 1]
    BY HeadTailProperties, EmptySeq, LenProperties
<1> HIDE DEF r, m
<1>2. \A i \in 1..Len(s) : i = 1 \/ i - 1 \in 1..Len(r)
    BY <1>1
<1>3. \A i \in 1..Len(r) : i + 1 \in 1..Len(s)
    BY <1>1
<1>4. ASSUME NEW x PROVE x \in Numbers(s) <=> x \in Numbers(r) \/ (m > 0 /\ x = m)
  <2>1. ASSUME x \in Numbers(s) PROVE x \in Numbers(r) \/ (m > 0 /\ x = m)
    <3>1. PICK i \in 1..Len(s) : s[i] = x /\ x > 0
        BY <2>1, NumbersIs
    <3>2. CASE i = 1
        BY <1>1, <3>1, <3>2
    <3>3. CASE i - 1 \in 1..Len(r)
      <4>1. r[i - 1] = s[(i - 1) + 1] /\ (i - 1) + 1 = i
          BY <1>1, <3>3
      <4>2. r[i - 1] = x
          BY <3>1, <4>1
      <4> QED
          BY <3>1, <3>3, <4>2, NumbersIs
    <3> QED
        BY <1>2, <3>2, <3>3
  <2>2. ASSUME x \in Numbers(r) PROVE x \in Numbers(s)
    <3>1. PICK i \in 1..Len(r) : r[i] = x /\ x > 0
        BY <2>2, NumbersIs
    <3>2. i + 1 \in 1..Len(s) /\ s[i + 1] = x
        BY <1>1, <1>3, <3>1
    <3> QED
        BY <3>1, <3>2, NumbersIs
  <2>3. ASSUME m > 0 PROVE m \in Numbers(s)
    <3>1. 1 \in 1..Len(s)
        BY <1>1
    <3> QED
        BY <1>1, <2>3, <3>1, NumbersIs
  <2> QED
      BY <2>1, <2>2, <2>3
<1>5. ASSUME Distinct(s) PROVE Distinct(r) /\ m \notin Numbers(r)
  <2>1. Distinct(r)
    <3> SUFFICES ASSUME NEW i \in 1..Len(r), NEW j \in 1..Len(r), r[i] = r[j], r[i] > 0
                 PROVE  i = j
        BY DEF Distinct
    <3>1. i + 1 = j + 1
        BY <1>1, <1>3, <1>5 DEF Distinct
    <3> QED
        BY <3>1
  <2>2. ASSUME m \in Numbers(r) PROVE FALSE
    <3>1. PICK i \in 1..Len(r) : r[i] = m /\ m > 0
        BY <2>2, NumbersIs
    <3>2. s[i + 1] = s[1] /\ i + 1 \in 1..Len(s) /\ 1 \in 1..Len(s)
        BY <1>1, <1>3, <3>1
    <3>3. i + 1 = 1
        BY <1>1, <1>5, <3>1, <3>2 DEF Distinct
    <3> QED
        BY <3>3
  <2> QED
      BY <2>1, <2>2
<1>6. \A i \in Tokens(r) : i + 1 \in Tokens(s) /\ i \in 1..Len(r)
    BY <1>1, <1>3 DEF Tokens
<1>7. m < 0 => 1 \in Tokens(s)
    BY <1>1 DEF Tokens
<1>8. Tokens(s) = {} => Tokens(r) = {} /\ m >= 0
    BY <1>1, <1>6, <1>7
<1>9. ASSUME \A i, j \in Tokens(s) : i = j
      PROVE  /\ \A i, j \in Tokens(r) : i = j
             /\ m < 0 => Tokens(r) = {}
  <2>1. ASSUME NEW i \in Tokens(r), NEW j \in Tokens(r) PROVE i = j
    <3>1. i + 1 = j + 1 /\ i \in 1..Len(r) /\ j \in 1..Len(r)
        BY <1>6, <1>9
    <3> QED
        BY <3>1
  <2>2. ASSUME m < 0, NEW i \in Tokens(r) PROVE FALSE
    <3>1. i + 1 = 1 /\ i \in 1..Len(r)
        BY <1>6, <1>7, <1>9, <2>2
    <3> QED
        BY <3>1
  <2> QED
      BY <2>1, <2>2
<1> QED
    BY <1>1, <1>4, <1>5, <1>8, <1>9 DEF r, m

\* A queue is cut in two.
LEMMA SplitQueue ==
    ASSUME NEW s \in Seq(Int), NEW n \in 0..Len(s)
    PROVE  LET a == SubSeq(s, 1, n)
               b == SubSeq(s, n + 1, Len(s))
           IN  /\ a \in Seq(Int) /\ b \in Seq(Int) /\ Len(a) = n
               /\ \A i \in 1..n : a[i] = s[i]
               /\ \A x \in Numbers(a) : x \in Numbers(s)
               /\ \A x \in Numbers(b) : x \in Numbers(s)
               /\ Distinct(s) => Distinct(a) /\ Distinct(b) /\ Disjoint(Numbers(a), Numbers(b))
               /\ Tokens(s) = {} => Tokens(b) = {}
               /\ (\A i, j \in Tokens(s) : i = j) => \A i, j \in Tokens(b) : i = j
<1> DEFINE a == SubSeq(s, 1, n)
           b == SubSeq(s, n + 1, Len(s))
           l == Len(s) - n
<1>1. Len(s) \in Nat /\ n \in Nat /\ \A i \in 1..Len(s) : s[i] \in Int
    BY LenProperties
<1>2. a \in Seq(Int) /\ Len(a) = n /\ \A i \in 1..n : a[i] = s[i]
  <2>1. \A i \in 1..n : s[i] \in Int
      BY <1>1
  <2>2. /\ a \in Seq(Int) /\ Len(a) = IF 1 <= n THEN n - 1 + 1 ELSE 0
        /\ \A i \in 1..(n - 1 + 1) : a[i] = s[1 + i - 1]
      BY <1>1, <2>1, SubSeqProperties
  <2> HIDE DEF a
  <2> QED
      BY <1>1, <2>2
<1>3. b \in Seq(Int) /\ Len(b) = l /\ l \in Nat /\ \A i \in 1..l : b[i] = s[n + i]
  <2>1. \A i \in (n + 1)..Len(s) : s[i] \in Int
      BY <1>1
  <2>2. /\ b \in Seq(Int) /\ Len(b) = IF n + 1 <= Len(s) THEN Len(s) - (n + 1) + 1 ELSE 0
        /\ \A i \in 1..(Len(s) - (n + 1) + 1) : b[i] = s[(n + 1) + i - 1]
      BY <1>1, <2>1, SubSeqProperties
  <2> HIDE DEF b
  <2> QED
      BY <1>1, <2>2
<1>4. \A i \in 1..l : n + i \in 1..Len(s) /\ n + i > n
    BY <1>1
<1>5. \A i \in 1..n : i \in 1..Len(s) /\ i <= n
    BY <1>1
<1> HIDE DEF a, b, l
<1>6. ASSUME NEW x \in Numbers(a) PROVE x > 0 /\ \E i \in 1..n : s[i] = x
  <2>1. PICK i \in 1..Len(a) : a[i] = x /\ x > 0
      BY NumbersIs
  <2> QED
      BY <1>2, <2>1
<1>7. ASSUME NEW x \in Numbers(b) PROVE x > 0 /\ \E i \in 1..l : s[n + i] = x
  <2>1. PICK i \in 1..Len(b) : b[i] = x /\ x > 0
      BY NumbersIs
  <2> QED
      BY <1>3, <2>1
<1>8. \A x \in Numbers(a) : x \in Numbers(s)
    BY <1>5, <1>6, NumbersIs
<1>9. \A x \in Numbers(b) : x \in Numbers(s)
    BY <1>4, <1>7, NumbersIs
<1>10. ASSUME Distinct(s) PROVE Distinct(a) /\ Distinct(b) /\ Disjoint(Numbers(a), Numbers(b))
  <2>1. Distinct(a)
      BY <1>2, <1>5, <1>10 DEF Distinct
  <2>2. Distinct(b)
    <3> SUFFICES ASSUME NEW i \in 1..Len(b), NEW j \in 1..Len(b), b[i] = b[j], b[i] > 0
                 PROVE  i = j
        BY DEF Distinct
    <3>1. n + i = n + j
        BY <1>3, <1>4, <1>10 DEF Distinct
    <3> QED
        BY <1>1, <1>3, <3>1
  <2>3. Disjoint(Numbers(a), Numbers(b))
    <3> SUFFICES ASSUME NEW x \in Numbers(a), x \in Numbers(b) PROVE FALSE
        BY DEF Disjoint
    <3>1. PICK i \in 1..n : s[i] = x /\ x > 0
        BY <1>6
    <3>2. PICK j \in 1..l : s[n + j] = x
        BY <1>7
    <3>3. i = n + j
        BY <1>4, <1>5, <1>10, <3>1, <3>2 DEF Distinct
    <3> QED
        BY <1>1, <1>3, <3>3
  <2> QED
      BY <2>1, <2>2, <2>3
<1>11. \A i \in Tokens(b) : n + i \in Tokens(s) /\ i \in 1..l
    BY <1>3, <1>4 DEF Tokens
<1>12. (\A i, j \in Tokens(s) : i = j) => \A i, j \in Tokens(b) : i = j
  <2> SUFFICES ASSUME \A i, j \in Tokens(s) : i = j, NEW i \in Tokens(b), NEW j \in Tokens(b)
               PROVE  i = j
      OBVIOUS
  <2>1. n + i = n + j /\ i \in Int /\ j \in Int
      BY <1>11
  <2> QED
      BY <1>1, <2>1
<1> QED
    BY <1>2, <1>3, <1>8, <1>9, <1>10, <1>11, <1>12 DEF a, b

\* The rows of an inserted message, of a call and of a result are rows.
LEMMA RowTypes ==
    /\ \A kind \in Kinds, id \in Int : Row(kind, id) \in Rows
    /\ \A kind, id : Row(kind, id).kind = kind /\ Row(kind, id).id = id
    /\ \A r \in Rows : \A k : r = Row("call", k) <=> r.kind = "call" /\ r.id = k
    /\ \A r \in Rows : \A k : r = Row("user", k) <=> r.kind = "user" /\ r.id = k
BY DEF Row, Rows

\* A call is in a sequence of rows, by kind and id.
LEMMA DeclaredIs ==
    ASSUME NEW s \in Seq(Rows), NEW k
    PROVE  Declared(s, k) <=> \E i \in 1..Len(s) : s[i].kind = "call" /\ s[i].id = k
<1>1. \A i \in 1..Len(s) : s[i] \in Rows
    BY ElementOfSeq
<1>2. \A i \in 1..Len(s) : s[i] = Row("call", k) <=> s[i].kind = "call" /\ s[i].id = k
    BY <1>1, RowTypes
<1> QED
    BY <1>2 DEF Declared

\* Two sequences of rows, one after the other, by position.
LEMMA ConcatIs ==
    ASSUME NEW s \in Seq(Rows), NEW t \in Seq(Rows)
    PROVE  LET r == s \o t
           IN  /\ r \in Seq(Rows) /\ Len(r) = Len(s) + Len(t)
               /\ Len(s) \in Nat /\ Len(t) \in Nat
               /\ \A i \in 1..Len(s) : i \in 1..Len(r) /\ r[i] = s[i]
               /\ \A i \in 1..Len(t) : Len(s) + i \in 1..Len(r) /\ r[Len(s) + i] = t[i]
               /\ \A i \in 1..Len(r) : i \in 1..Len(s) \/ i - Len(s) \in 1..Len(t)
               /\ \A i \in 1..Len(r) : i - Len(s) \in 1..Len(t) => r[i] = t[i - Len(s)]
<1> DEFINE r == s \o t
<1>1. /\ r \in Seq(Rows) /\ Len(r) = Len(s) + Len(t) /\ Len(s) \in Nat /\ Len(t) \in Nat
      /\ \A i \in 1..(Len(s) + Len(t)) : r[i] = IF i <= Len(s) THEN s[i] ELSE t[i - Len(s)]
    BY ConcatProperties, LenProperties
<1> HIDE DEF r
<1>2. \A i \in 1..Len(s) : i \in 1..Len(r) /\ r[i] = s[i]
    BY <1>1
<1>3. ASSUME NEW i \in 1..Len(t) PROVE Len(s) + i \in 1..Len(r) /\ r[Len(s) + i] = t[i]
  <2>1. Len(s) + i \in 1..(Len(s) + Len(t)) /\ ~(Len(s) + i <= Len(s)) /\ (Len(s) + i) - Len(s) = i
      BY <1>1
  <2> QED
      BY <1>1, <2>1
<1>4. \A i \in 1..Len(r) : i \in 1..Len(s) \/ i - Len(s) \in 1..Len(t)
    BY <1>1
<1>5. \A i \in 1..Len(r) : i - Len(s) \in 1..Len(t) => r[i] = t[i - Len(s)]
    BY <1>1
<1> QED
    BY <1>1, <1>2, <1>3, <1>4, <1>5 DEF r

\* What is in two sequences of rows, one after the other.
LEMMA ConcatRows ==
    ASSUME NEW s \in Seq(Rows), NEW t \in Seq(Rows)
    PROVE  LET r == s \o t
           IN  /\ Users(r) = Users(s) \cup Users(t)
               /\ Once(s) /\ Once(t) /\ Disjoint(Users(t), Users(s)) => Once(r)
               /\ \A k : Declared(r, k) <=> Declared(s, k) \/ Declared(t, k)
               /\ \A n : Bounded(r, n) <=> Bounded(s, n) /\ Bounded(t, n)
<1> DEFINE r == s \o t
<1>1. /\ r \in Seq(Rows) /\ Len(r) = Len(s) + Len(t) /\ Len(s) \in Nat /\ Len(t) \in Nat
      /\ \A i \in 1..Len(s) : i \in 1..Len(r) /\ r[i] = s[i]
      /\ \A i \in 1..Len(t) : Len(s) + i \in 1..Len(r) /\ r[Len(s) + i] = t[i]
      /\ \A i \in 1..Len(r) : i \in 1..Len(s) \/ i - Len(s) \in 1..Len(t)
      /\ \A i \in 1..Len(r) : i - Len(s) \in 1..Len(t) => r[i] = t[i - Len(s)]
    BY ConcatIs
<1> HIDE DEF r
<1>2. ASSUME NEW i \in 1..Len(r)
      PROVE  (\E j \in 1..Len(s) : r[i] = s[j]) \/ (\E j \in 1..Len(t) : r[i] = t[j])
    BY <1>1
<1>3. Users(r) = Users(s) \cup Users(t)
  <2>1. ASSUME NEW x \in Users(r) PROVE x \in Users(s) \/ x \in Users(t)
    <3>1. PICK i \in 1..Len(r) : r[i].kind = "user" /\ r[i].id = x
        BY UsersIs
    <3> QED
        BY <1>2, <3>1, UsersIs
  <2>2. ASSUME NEW x \in Users(s) PROVE x \in Users(r)
    <3>1. PICK i \in 1..Len(s) : s[i].kind = "user" /\ s[i].id = x
        BY UsersIs
    <3> QED
        BY <1>1, <3>1, UsersIs
  <2>3. ASSUME NEW x \in Users(t) PROVE x \in Users(r)
    <3>1. PICK i \in 1..Len(t) : t[i].kind = "user" /\ t[i].id = x
        BY UsersIs
    <3>2. PICK j \in 1..Len(r) : r[j] = t[i]
        BY <1>1
    <3> QED
        BY <3>1, <3>2, UsersIs
  <2> QED
      BY <2>1, <2>2, <2>3
<1>4. ASSUME Once(s), Once(t), Disjoint(Users(t), Users(s)) PROVE Once(r)
  <2> SUFFICES ASSUME NEW i \in 1..Len(r), NEW j \in 1..Len(r),
                      r[i].kind = "user", r[j].kind = "user", r[i].id = r[j].id
               PROVE  i = j
      BY DEF Once
  <2>1. CASE i \in 1..Len(s) /\ j \in 1..Len(s)
      BY <1>1, <1>4, <2>1 DEF Once
  <2>2. CASE i - Len(s) \in 1..Len(t) /\ j - Len(s) \in 1..Len(t)
    <3>1. i - Len(s) = j - Len(s)
        BY <1>1, <1>4, <2>2 DEF Once
    <3> QED
        BY <1>1, <3>1
  <2>3. CASE i \in 1..Len(s) /\ j - Len(s) \in 1..Len(t)
    <3>1. r[i] = s[i] /\ r[j] = t[j - Len(s)]
        BY <1>1, <2>3
    <3>2. r[i].id \in Users(s)
        BY <2>3, <3>1, UsersIs
    <3>3. r[j].id \in Users(t)
        BY <2>3, <3>1, UsersIs
    <3> QED
        BY <1>4, <3>2, <3>3 DEF Disjoint
  <2>4. CASE j \in 1..Len(s) /\ i - Len(s) \in 1..Len(t)
    <3>1. r[j] = s[j] /\ r[i] = t[i - Len(s)]
        BY <1>1, <2>4
    <3>2. r[j].id \in Users(s)
        BY <2>4, <3>1, UsersIs
    <3>3. r[i].id \in Users(t)
        BY <2>4, <3>1, UsersIs
    <3> QED
        BY <1>4, <3>2, <3>3 DEF Disjoint
  <2> QED
      BY <1>1, <2>1, <2>2, <2>3, <2>4
<1>5. ASSUME NEW k PROVE Declared(r, k) <=> Declared(s, k) \/ Declared(t, k)
  <2>1. Declared(r, k) => Declared(s, k) \/ Declared(t, k)
      BY <1>2 DEF Declared
  <2>2. Declared(s, k) => Declared(r, k)
      BY <1>1 DEF Declared
  <2>3. Declared(t, k) => Declared(r, k)
    <3>1. SUFFICES ASSUME NEW i \in 1..Len(t), t[i] = Row("call", k) PROVE Declared(r, k)
        BY DEF Declared
    <3>2. Len(s) + i \in 1..Len(r) /\ r[Len(s) + i] = t[i]
        BY <1>1
    <3> QED
        BY <3>1, <3>2 DEF Declared
  <2> QED
      BY <2>1, <2>2, <2>3
<1>6. ASSUME NEW n PROVE Bounded(r, n) <=> Bounded(s, n) /\ Bounded(t, n)
    BY <1>1, <1>2 DEF Bounded
<1> QED
    BY <1>3, <1>4, <1>5, <1>6 DEF r

\* One row more, as a sequence of its own.
LEMMA OneRow ==
    ASSUME NEW r \in Rows
    PROVE  /\ <<r>> \in Seq(Rows) /\ Len(<<r>>) = 1 /\ <<r>>[1] = r /\ Once(<<r>>)
           /\ Users(<<r>>) = IF r.kind = "user" THEN {r.id} ELSE {}
           /\ \A k : Declared(<<r>>, k) <=> r = Row("call", k)
           /\ \A s \in Seq(Rows) : Append(s, r) = s \o <<r>>
<1> DEFINE t == <<r>>
<1>1. t \in Seq(Rows) /\ Len(t) = 1 /\ t[1] = r
    OBVIOUS
<1>2. \A s \in Seq(Rows) : Append(s, r) = s \o t
    BY AppendIsConcat
<1> HIDE DEF t
<1>3. \A i \in 1..Len(t) : i = 1
    BY <1>1
<1>4. 1 \in 1..Len(t)
    BY <1>1
<1>5. Users(t) = IF r.kind = "user" THEN {r.id} ELSE {}
  <2>1. \A x : x \in Users(t) <=> r.kind = "user" /\ r.id = x
      BY <1>1, <1>3, <1>4, UsersIs
  <2> QED
      BY <2>1
<1>6. Once(t)
    BY <1>3 DEF Once
<1>7. \A k : Declared(t, k) <=> r = Row("call", k)
    BY <1>1, <1>3, <1>4 DEF Declared
<1> QED
    BY <1>1, <1>2, <1>5, <1>6, <1>7 DEF t

\* The rows of injected messages.
LEMMA InjectedRows ==
    ASSUME NEW q \in Seq(Int), \A i \in 1..Len(q) : q[i] > 0, NEW t,
           t = [i \in 1..Len(q) |-> Row("user", q[i])]
    PROVE  /\ t \in Seq(Rows) /\ Len(t) = Len(q)
           /\ \A i \in 1..Len(t) : t[i].kind = "user"
           /\ Users(t) = Numbers(q)
           /\ Distinct(q) => Once(t)
<1>1. Len(q) \in Nat /\ \A i \in 1..Len(q) : q[i] \in Int
    BY LenProperties, ElementOfSeq
<1>2. \A i \in 1..Len(q) : Row("user", q[i]) \in Rows
    BY <1>1, RowTypes DEF Kinds
<1>3. t \in Seq(Rows) /\ Len(t) = Len(q)
  <2>1. t \in [1..Len(q) -> Rows]
      BY <1>2
  <2>2. t \in Seq(Rows)
      BY <1>1, <2>1, SeqDef
  <2>3. DOMAIN t = 1..Len(q) /\ DOMAIN t = 1..Len(t) /\ Len(t) \in Nat
      BY <2>2, LenProperties
  <2> QED
      BY <1>1, <2>2, <2>3
<1>4. \A i \in 1..Len(t) : t[i].kind = "user" /\ t[i].id = q[i]
    BY <1>3, RowTypes
<1>5. Users(t) = Numbers(q)
  <2>1. ASSUME NEW x \in Users(t) PROVE x \in Numbers(q)
    <3>1. PICK i \in 1..Len(t) : t[i].id = x
        BY UsersIs
    <3>2. i \in 1..Len(q) /\ q[i] = x
        BY <1>3, <1>4, <3>1
    <3> QED
        BY <3>2, NumbersIs
  <2>2. ASSUME NEW x \in Numbers(q) PROVE x \in Users(t)
    <3>1. PICK i \in 1..Len(q) : q[i] = x
        BY NumbersIs
    <3>2. i \in 1..Len(t) /\ t[i].kind = "user" /\ t[i].id = x
        BY <1>3, <1>4, <3>1
    <3> QED
        BY <3>2, UsersIs
  <2> QED
      BY <2>1, <2>2
<1>6. ASSUME Distinct(q) PROVE Once(t)
  <2> SUFFICES ASSUME NEW i \in 1..Len(t), NEW j \in 1..Len(t), t[i].id = t[j].id
               PROVE  i = j
      BY DEF Once
  <2>1. i \in 1..Len(q) /\ j \in 1..Len(q) /\ q[i] = q[j] /\ q[i] > 0
      BY <1>3, <1>4
  <2> QED
      BY <1>6, <2>1 DEF Distinct
<1> QED
    BY <1>3, <1>4, <1>5, <1>6

\* What acknowledge_pending_followups leaves in the journal.
LEMMA WithoutIs ==
    ASSUME NEW s \in Seq(Nat \ {0}), NEW X
    PROVE  /\ Without(s, X) \in Seq(Nat \ {0})
           /\ \A x : x \in Numbers(Without(s, X)) <=> x \in Numbers(s) /\ x \notin X
           /\ Distinct(s) => Distinct(Without(s, X))
<1> DEFINE P == Nat \ {0}
           k == Kept(s, X)
           Good(n) == /\ k[n] \in Seq(P)
                      /\ \A x : x \in Numbers(k[n]) <=> x \notin X /\ \E i \in 1..n : s[i] = x
                      /\ Distinct(s) => Distinct(k[n])
           S == {n \in Nat : n <= Len(s) => Good(n)}
<1>1. Len(s) \in Nat /\ \A i \in 1..Len(s) : s[i] \in P
    BY LenProperties, ElementOfSeq
<1>2. /\ k[0] = <<>>
      /\ \A n \in 0..Len(s) : n # 0 => k[n] = Keep(k[n - 1], s[n], X)
    BY <1>1, KeptIs
<1> HIDE DEF k
<1>3. 0 \in S
  <2>1. <<>> \in Seq(P) /\ Len(<<>>) = 0
      BY EmptySeq
  <2>2. \A x : x \notin Numbers(<<>>)
      BY <2>1, NumbersIs
  <2>3. Distinct(<<>>)
      BY <2>1 DEF Distinct
  <2>4. \A x : ~\E i \in 1..0 : s[i] = x
      OBVIOUS
  <2>5. Good(0)
      BY <1>2, <2>1, <2>2, <2>3, <2>4
  <2> HIDE DEF Good
  <2> QED
      BY <2>5
<1>4. ASSUME NEW n \in Nat, n \in S, n + 1 <= Len(s) PROVE Good(n + 1)
  <2>1. Good(n)
      BY <1>1, <1>4
  <2>2. n + 1 \in 0..Len(s) /\ n + 1 # 0 /\ (n + 1) - 1 = n /\ n + 1 \in 1..Len(s)
      BY <1>1, <1>4
  <2>3. k[n + 1] = Keep(k[n], s[n + 1], X)
      BY <1>2, <2>2
  <2>4. s[n + 1] \in P
      BY <1>1, <2>2
  <2>5. \A x : (\E i \in 1..(n + 1) : s[i] = x) <=> (\E i \in 1..n : s[i] = x) \/ x = s[n + 1]
    <3>1. \A i \in 1..(n + 1) : i \in 1..n \/ i = n + 1
        OBVIOUS
    <3>2. n + 1 \in 1..(n + 1) /\ \A i \in 1..n : i \in 1..(n + 1)
        OBVIOUS
    <3> QED
        BY <3>1, <3>2
  <2>6. CASE s[n + 1] \in X
    <3>1. k[n + 1] = k[n]
        BY <2>3, <2>6 DEF Keep
    <3> QED
        BY <2>1, <2>5, <2>6, <3>1
  <2>7. CASE s[n + 1] \notin X
    <3> DEFINE q == k[n]
               m == s[n + 1]
               r == Append(q, m)
    <3>1. k[n + 1] = r
        BY <2>3, <2>7 DEF Keep
    <3>2. q \in Seq(P) /\ m \in P /\ m \in Int /\ m > 0
        BY <2>1, <2>4
    <3>3. q \in Seq(Int)
        BY <3>2, SeqMonotonic
    <3>4. r \in Seq(P)
        BY <3>2, AppendProperties
    <3> HIDE DEF q, m
    <3>5. /\ Numbers(r) = Numbers(q) \cup IF m > 0 THEN {m} ELSE {}
          /\ Distinct(q) /\ m \notin Numbers(q) => Distinct(r)
        BY <3>2, <3>3, AppendQueue
    <3>6. \A x : x \in Numbers(r) <=> x \in Numbers(q) \/ x = m
        BY <3>2, <3>5
    <3>7. \A x : x \in Numbers(q) <=> x \notin X /\ \E i \in 1..n : s[i] = x
        BY <2>1 DEF q
    <3>8. \A x : x \in Numbers(r) <=> x \notin X /\ \E i \in 1..(n + 1) : s[i] = x
        BY <2>5, <2>7, <3>6, <3>7 DEF m
    <3>9. ASSUME Distinct(s) PROVE Distinct(r)
      <4>1. Distinct(q)
          BY <2>1, <3>9 DEF q
      <4>2. ASSUME m \in Numbers(q) PROVE FALSE
        <5>1. PICK i \in 1..n : s[i] = m
            BY <3>7, <4>2
        <5>2. i \in 1..Len(s) /\ i # n + 1
            BY <1>1, <1>4
        <5> QED
            BY <2>2, <3>2, <3>9, <5>1, <5>2 DEF Distinct, m
      <4> QED
          BY <3>5, <4>1, <4>2
    <3> HIDE DEF r
    <3> QED
        BY <3>1, <3>4, <3>8, <3>9
  <2> QED
      BY <2>6, <2>7
<1>5. \A n \in Nat : n \in S => n + 1 \in S
  <2> HIDE DEF Good
  <2> QED
      BY <1>4
<1>6. Nat \subseteq S
  <2> HIDE DEF S
  <2> QED
      BY <1>3, <1>5, SetInduction
<1>7. Good(Len(s))
  <2> HIDE DEF Good
  <2> QED
      BY <1>1, <1>6
<1>8. Without(s, X) = k[Len(s)]
    BY DEF Without, k
<1>9. \A x : x \in Numbers(s) <=> \E i \in 1..Len(s) : s[i] = x
    BY <1>1, NumbersIs
<1> QED
    BY <1>7, <1>8, <1>9

\* _save_turn keeps every row of a message.
LEMMA SaveRowIs ==
    ASSUME NEW msgs \in Seq(Rows), NEW row \in Rows
    PROVE  LET r == SaveRow(msgs, row)
           IN  /\ r \in Seq(Rows)
               /\ Users(r) = Users(msgs) \cup IF row.kind = "user" THEN {row.id} ELSE {}
               /\ Once(msgs) /\ (row.kind = "user" => row.id \notin Users(msgs)) => Once(r)
               /\ \A k : Declared(msgs, k) => Declared(r, k)
               /\ row.kind = "call" => Declared(r, row.id)
<1> DEFINE t == <<row>>
           r == msgs \o t
<1>1. /\ t \in Seq(Rows) /\ Once(t) /\ Users(t) = IF row.kind = "user" THEN {row.id} ELSE {}
      /\ Append(msgs, row) = r
    BY OneRow
<1>2. \/ SaveRow(msgs, row) = r
      \/ SaveRow(msgs, row) = msgs /\ row.kind # "user" /\ row.kind # "call"
    BY <1>1 DEF SaveRow
<1>6. row.kind = "call" => Declared(t, row.id)
  <2>1. 1 \in 1..Len(t) /\ t[1] = row
      BY OneRow
  <2> QED
      BY <1>1, <2>1, DeclaredIs
<1> HIDE DEF t
<1>3. r \in Seq(Rows) /\ Users(r) = Users(msgs) \cup Users(t)
      /\ (Once(msgs) /\ Once(t) /\ Disjoint(Users(t), Users(msgs)) => Once(r))
      /\ \A k : Declared(msgs, k) \/ Declared(t, k) => Declared(r, k)
    BY <1>1, ConcatIs, ConcatRows
<1> HIDE DEF r
<1>4. CASE SaveRow(msgs, row) = msgs /\ row.kind # "user" /\ row.kind # "call"
    BY <1>4
<1>5. CASE SaveRow(msgs, row) = r
  <2>1. (row.kind = "user" => row.id \notin Users(msgs)) => Disjoint(Users(t), Users(msgs))
      BY <1>1 DEF Disjoint
  <2> QED
      BY <1>1, <1>3, <1>5, <1>6, <2>1
<1> QED
    BY <1>2, <1>4, <1>5

\* What _save_turn adds to the history.
LEMMA SavedIs ==
    ASSUME NEW msgs \in Seq(Rows), NEW rows \in Seq(Rows)
    PROVE  /\ Saved(msgs, rows) \in Seq(Rows)
           /\ Users(Saved(msgs, rows)) = Users(msgs) \cup Users(rows)
           /\ Once(msgs) /\ Once(rows) /\ Disjoint(Users(rows), Users(msgs)) =>
                 Once(Saved(msgs, rows))
           /\ \A k : Declared(msgs, k) \/ Declared(rows, k) => Declared(Saved(msgs, rows), k)
<1> DEFINE f == Saving(msgs, rows)
           Adds(x, n) == \E i \in 1..n : rows[i].kind = "user" /\ rows[i].id = x
           Calls(k, n) == \E i \in 1..n : rows[i].kind = "call" /\ rows[i].id = k
           Good(n) == /\ f[n] \in Seq(Rows)
                      /\ \A x : x \in Users(f[n]) <=> x \in Users(msgs) \/ Adds(x, n)
                      /\ Once(msgs) /\ Once(rows) /\ Disjoint(Users(rows), Users(msgs)) =>
                            Once(f[n])
                      /\ \A k : Declared(msgs, k) \/ Calls(k, n) => Declared(f[n], k)
           S == {n \in Nat : n <= Len(rows) => Good(n)}
<1>1. Len(rows) \in Nat /\ \A i \in 1..Len(rows) : rows[i] \in Rows
    BY LenProperties, ElementOfSeq
<1>2. /\ f[0] = msgs
      /\ \A n \in 0..Len(rows) : n # 0 => f[n] = SaveRow(f[n - 1], rows[n])
    BY <1>1, SavingIs
<1> HIDE DEF f
<1>3. 0 \in S
    BY <1>2
<1>4. ASSUME NEW n \in Nat, n \in S, n + 1 <= Len(rows) PROVE Good(n + 1)
  <2> DEFINE m == f[n]
             row == rows[n + 1]
             r == SaveRow(m, row)
  <2>1. Good(n)
      BY <1>1, <1>4
  <2>2. n + 1 \in 0..Len(rows) /\ n + 1 # 0 /\ (n + 1) - 1 = n /\ n + 1 \in 1..Len(rows)
      BY <1>1, <1>4
  <2>3. f[n + 1] = r
      BY <1>2, <2>2
  <2>4. row \in Rows /\ m \in Seq(Rows)
      BY <1>1, <2>1, <2>2
  <2>5. \A x : Adds(x, n + 1) <=> Adds(x, n) \/ (row.kind = "user" /\ row.id = x)
    <3>1. \A i \in 1..(n + 1) : i \in 1..n \/ i = n + 1
        OBVIOUS
    <3>2. n + 1 \in 1..(n + 1) /\ \A i \in 1..n : i \in 1..(n + 1)
        OBVIOUS
    <3> QED
        BY <3>1, <3>2
  <2>11. \A k : Calls(k, n + 1) => Calls(k, n) \/ (row.kind = "call" /\ row.id = k)
    <3>1. \A i \in 1..(n + 1) : i \in 1..n \/ i = n + 1
        OBVIOUS
    <3> QED
        BY <3>1
  <2> HIDE DEF m, row
  <2>6. /\ r \in Seq(Rows)
        /\ Users(r) = Users(m) \cup IF row.kind = "user" THEN {row.id} ELSE {}
        /\ Once(m) /\ (row.kind = "user" => row.id \notin Users(m)) => Once(r)
        /\ \A k : Declared(m, k) => Declared(r, k)
        /\ row.kind = "call" => Declared(r, row.id)
      BY <2>4, SaveRowIs
  <2> HIDE DEF r
  <2>7. \A x : x \in Users(m) <=> x \in Users(msgs) \/ Adds(x, n)
      BY <2>1 DEF m
  <2>8. ASSUME Once(msgs), Once(rows), Disjoint(Users(rows), Users(msgs)) PROVE Once(r)
    <3>1. Once(m)
        BY <2>1, <2>8 DEF m
    <3>2. ASSUME row.kind = "user", row.id \in Users(m) PROVE FALSE
      <4>1. row.id \in Users(rows)
          BY <2>2, <3>2, UsersIs DEF row
      <4>2. row.id \notin Users(msgs)
          BY <2>8, <4>1 DEF Disjoint
      <4>3. PICK i \in 1..n : rows[i].kind = "user" /\ rows[i].id = row.id
          BY <2>7, <3>2, <4>2
      <4>4. i \in 1..Len(rows) /\ i # n + 1
          BY <1>1, <1>4
      <4> QED
          BY <2>2, <2>8, <3>2, <4>3, <4>4 DEF Once, row
    <3> QED
        BY <2>6, <3>1, <3>2
  <2>9. \A x : x \in Users(r) <=> x \in Users(msgs) \/ Adds(x, n + 1)
    <3> HIDE DEF Adds
    <3> QED
        BY <2>5, <2>6, <2>7
  <2>10. \A k : Declared(msgs, k) \/ Calls(k, n + 1) => Declared(r, k)
    <3>1. \A k : Declared(msgs, k) \/ Calls(k, n) => Declared(m, k)
        BY <2>1 DEF m
    <3> HIDE DEF Calls
    <3> QED
        BY <2>6, <2>11, <3>1
  <2> HIDE DEF Adds, Calls
  <2> QED
      BY <2>3, <2>6, <2>8, <2>9, <2>10
<1>5. \A n \in Nat : n \in S => n + 1 \in S
  <2> HIDE DEF Good
  <2> QED
      BY <1>4
<1>6. Nat \subseteq S
  <2> HIDE DEF S
  <2> QED
      BY <1>3, <1>5, SetInduction
<1>7. Good(Len(rows))
  <2> HIDE DEF Good
  <2> QED
      BY <1>1, <1>6
<1>8. Saved(msgs, rows) = f[Len(rows)]
    BY DEF Saved, f
<1>9. \A x : x \in Users(rows) <=> Adds(x, Len(rows))
    BY UsersIs
<1>10. \A k : Declared(rows, k) => Calls(k, Len(rows))
    BY DeclaredIs
<1> HIDE DEF Adds, Calls
<1> QED
    BY <1>7, <1>8, <1>9, <1>10

(***************************************************************************)
(* What the functions of recovery keep.                                    *)
(***************************************************************************)
\* Only a checkpoint of a call adds to the calls in the history.
OldCalls(s, r) ==
    s.checkpoint.phase \notin CallPhases =>
        /\ r.checkpoint.phase \notin CallPhases
        /\ \A x : NewCalls(x, s.msgs) => NewCalls(x, r.msgs)

\* r is s with rows that are not a user's at the end of the history.
Grows(s, r) ==
    /\ r \in Sessions /\ r.journal = s.journal
    /\ Users(r.msgs) = Users(s.msgs) /\ (Once(s.msgs) => Once(r.msgs))
    /\ \A k : Declared(s.msgs, k) => Declared(r.msgs, k)
    /\ \A k : Recalled(s, k) => Recalled(r, k)
    /\ \A n, A : Sound(s, n, A) => Sound(r, n, A)
    /\ OldCalls(s, r)

\* The fields of a session.
LEMMA SessionFields ==
    ASSUME NEW s \in Sessions
    PROVE  /\ s.msgs \in Seq(Rows) /\ s.checkpoint \in Checkpoints /\ s.pending \in BOOLEAN
           /\ s.journal \in Seq(Nat \ {0}) /\ s.status \in Statuses /\ s.rid \in Nat
           /\ s.can \in BOOLEAN /\ s.count \in Nat
BY DEF Sessions

\* Legal histories, one after the other.
LEMMA ClosedConcat ==
    ASSUME NEW s \in Seq(Rows), NEW t \in Seq(Rows), NEW A, Closed(s, A), Closed(t, A)
    PROVE  Closed(s \o t, A)
<1> DEFINE r == s \o t
<1>1. /\ Len(r) = Len(s) + Len(t) /\ Len(s) \in Nat /\ Len(t) \in Nat
      /\ \A i \in 1..Len(s) : i \in 1..Len(r) /\ r[i] = s[i]
      /\ \A i \in 1..Len(t) : Len(s) + i \in 1..Len(r) /\ r[Len(s) + i] = t[i]
      /\ \A i \in 1..Len(r) : i \in 1..Len(s) \/ i - Len(s) \in 1..Len(t)
      /\ \A i \in 1..Len(r) : i - Len(s) \in 1..Len(t) => r[i] = t[i - Len(s)]
    BY ConcatIs
<1> HIDE DEF r
<1> SUFFICES ASSUME NEW i \in 1..Len(r)
             PROVE  /\ r[i].kind = "call" /\ r[i].id \notin A =>
                          /\ i < Len(r) /\ r[i + 1].id = r[i].id
                          /\ r[i + 1].kind \in {"result", "cut"}
                    /\ r[i].kind \in {"result", "cut"} =>
                          i > 1 /\ r[i - 1].kind = "call" /\ r[i - 1].id = r[i].id
    BY DEF Closed, r
<1>2. CASE i \in 1..Len(s)
  <2>1. r[i] = s[i]
      BY <1>1, <1>2
  <2>2. i < Len(s) => i + 1 \in 1..Len(s)
      BY <1>1, <1>2
  <2>3. i < Len(s) => r[i + 1] = s[i + 1] /\ i < Len(r)
      BY <1>1, <2>2
  <2>4. i > 1 => i - 1 \in 1..Len(s)
      BY <1>1, <1>2
  <2>5. i > 1 => r[i - 1] = s[i - 1]
      BY <1>1, <2>4
  <2> QED
      BY <1>2, <2>1, <2>3, <2>5 DEF Closed
<1>3. CASE i - Len(s) \in 1..Len(t)
  <2>1. PICK j \in 1..Len(t) : j = i - Len(s)
      BY <1>3
  <2>2. r[i] = t[j] /\ i = Len(s) + j
      BY <1>1, <1>3, <2>1
  <2>3. j < Len(t) => j + 1 \in 1..Len(t)
      BY <1>1
  <2>4. j < Len(t) => r[Len(s) + (j + 1)] = t[j + 1]
      BY <1>1, <2>3
  <2>5. Len(s) + (j + 1) = i + 1 /\ (j < Len(t) => i < Len(r))
      BY <1>1, <2>2
  <2>6. j > 1 => j - 1 \in 1..Len(t)
      BY <1>1
  <2>7. j > 1 => r[Len(s) + (j - 1)] = t[j - 1]
      BY <1>1, <2>6
  <2>8. Len(s) + (j - 1) = i - 1 /\ (j > 1 => i > 1)
      BY <1>1, <2>2
  <2>9. /\ t[j].kind = "call" /\ t[j].id \notin A =>
              /\ j < Len(t) /\ t[j + 1].id = t[j].id
              /\ t[j + 1].kind \in {"result", "cut"}
        /\ t[j].kind \in {"result", "cut"} =>
              j > 1 /\ t[j - 1].kind = "call" /\ t[j - 1].id = t[j].id
      BY DEF Closed
  <2>10. (j < Len(t) => r[i + 1] = t[j + 1]) /\ (j > 1 => r[i - 1] = t[j - 1])
      BY <2>4, <2>5, <2>7, <2>8
  <2> QED
      BY <2>2, <2>5, <2>8, <2>9, <2>10
<1> QED
    BY <1>1, <1>2, <1>3

\* How many of at most two restored rows the history ends with.
LEMMA OverlapIs ==
    ASSUME NEW msgs \in Seq(Rows), NEW rows \in Seq(Rows), Len(rows) \in 1..2
    PROVE  LET n == Overlap(msgs, rows)
           IN  /\ n \in 0..Len(rows) /\ n <= Len(msgs)
               /\ \A i \in 1..n : msgs[Len(msgs) - n + i] = rows[i]
<1> DEFINE Ends(n) == n <= Len(msgs) /\ \A i \in 1..n : msgs[Len(msgs) - n + i] = rows[i]
           D == {0} \cup {n \in 1..Len(rows) : Ends(n)}
<1>1. Overlap(msgs, rows) = CHOOSE x \in D : \A y \in D : x >= y
    BY DEF Overlap, Max
<1>2. Len(msgs) \in Nat
    BY LenProperties
<1>3. Ends(0)
    BY <1>2
<1> HIDE DEF Ends
<1>4. \A n \in D : n \in 0..2 /\ n \in 0..Len(rows) /\ Ends(n)
  <2>1. \A n \in 1..Len(rows) : n \in 0..2 /\ n \in 0..Len(rows)
    <3>1. PICK l \in 1..2 : l = Len(rows)
        OBVIOUS
    <3>2. \A n \in 1..l : n \in 0..2 /\ n \in 0..l
        OBVIOUS
    <3> QED
        BY <3>1, <3>2
  <2>2. 0 \in 0..2 /\ 0 \in 0..Len(rows)
      OBVIOUS
  <2> QED
      BY <1>3, <2>1, <2>2
<1>5. 0 \in D
    OBVIOUS
<1> HIDE DEF D
<1>6. \E x \in D : \A y \in D : x >= y
  <2>1. CASE 2 \in D
      BY <1>4, <2>1
  <2>2. CASE 2 \notin D /\ 1 \in D
    <3>1. \A y \in D : 1 >= y
        BY <1>4, <2>2
    <3> QED
        BY <2>2, <3>1
  <2>3. CASE 2 \notin D /\ 1 \notin D
    <3>1. \A y \in D : 0 >= y
        BY <1>4, <2>3
    <3> QED
        BY <1>5, <3>1
  <2> QED
      BY <2>1, <2>2, <2>3
<1>7. Overlap(msgs, rows) \in D
    BY <1>1, <1>6
<1>8. Overlap(msgs, rows) \in 0..Len(rows) /\ Ends(Overlap(msgs, rows))
    BY <1>4, <1>7
<1> QED
    BY <1>8 DEF Ends

\* Rows that are not a user's at the end of the history.
LEMMA AddedRows ==
    ASSUME NEW s \in Sessions, NEW r \in Sessions, NEW t \in Seq(Rows),
           \A i \in 1..Len(t) : t[i].kind # "user",
           r.msgs = s.msgs \o t
    PROVE  /\ Users(r.msgs) = Users(s.msgs) /\ (Once(s.msgs) => Once(r.msgs))
           /\ \A k : Declared(r.msgs, k) <=> Declared(s.msgs, k) \/ Declared(t, k)
           /\ \A n : Bounded(r.msgs, n) <=> Bounded(s.msgs, n) /\ Bounded(t, n)
           /\ \A A : Closed(s.msgs, A) /\ Closed(t, A) => Closed(r.msgs, A)
           /\ (\A i \in 1..Len(t) : t[i].kind \notin ToolKinds) =>
                 \A x : NewCalls(x, s.msgs) => NewCalls(x, r.msgs)
<1>1. s.msgs \in Seq(Rows)
    BY SessionFields
<1>2. Users(t) = {}
    BY UsersIs
<1>3. Once(t)
    BY DEF Once
<1>4. Disjoint(Users(t), Users(s.msgs))
    BY <1>2 DEF Disjoint
<1>5. /\ Users(r.msgs) = Users(s.msgs) \cup Users(t)
      /\ Once(s.msgs) /\ Once(t) /\ Disjoint(Users(t), Users(s.msgs)) => Once(r.msgs)
      /\ \A k : Declared(r.msgs, k) <=> Declared(s.msgs, k) \/ Declared(t, k)
      /\ \A n : Bounded(r.msgs, n) <=> Bounded(s.msgs, n) /\ Bounded(t, n)
    BY <1>1, ConcatRows
<1>6. ASSUME \A i \in 1..Len(t) : t[i].kind \notin ToolKinds, NEW x, NewCalls(x, s.msgs)
      PROVE  NewCalls(x, r.msgs)
  <2> DEFINE m == s.msgs
             q == r.msgs
  <2>1. /\ \A i \in 1..Len(m) : q[i] = m[i]
        /\ \A i \in 1..Len(q) : i \in 1..Len(m) \/ i - Len(m) \in 1..Len(t)
        /\ \A i \in 1..Len(q) : i - Len(m) \in 1..Len(t) => q[i] = t[i - Len(m)]
      BY <1>1, ConcatIs
  <2>2. \A i \in 1..Len(q) : q[i].kind \in ToolKinds => i \in 1..Len(m) /\ q[i] = m[i]
      BY <1>6, <2>1
  <2> QED
      BY <1>6, <2>2 DEF NewCalls
<1>7. ASSUME NEW A, Closed(s.msgs, A), Closed(t, A) PROVE Closed(r.msgs, A)
    BY <1>1, <1>7, ClosedConcat
<1> QED
    BY <1>2, <1>3, <1>4, <1>5, <1>6, <1>7

\* Calls that are new behind a history that has each of its calls once.
LEMMA CallsJoin ==
    ASSUME NEW s \in Seq(Rows), NEW t \in Seq(Rows), NEW r, r = s \o t,
           CallsOnce(s), CallsOnce(t),
           \A i \in 1..Len(t) : t[i].kind = "call" => ~Declared(s, t[i].id)
    PROVE  CallsOnce(r)
<1>1. /\ Len(s) \in Nat
      /\ \A i \in 1..Len(s) : r[i] = s[i]
      /\ \A i \in 1..Len(r) : i \in 1..Len(s) \/ i - Len(s) \in 1..Len(t)
      /\ \A i \in 1..Len(r) : i - Len(s) \in 1..Len(t) => r[i] = t[i - Len(s)]
    BY ConcatIs
<1>2. ASSUME NEW i \in 1..Len(s), NEW j \in 1..Len(t), s[i].kind = "call", t[j].kind = "call"
      PROVE  s[i].id # t[j].id
  <2>1. Declared(s, s[i].id)
      BY <1>2, DeclaredIs
  <2>2. ~Declared(s, t[j].id)
      BY <1>2
  <2> QED
      BY <2>1, <2>2
<1> SUFFICES ASSUME NEW i \in 1..Len(r), NEW j \in 1..Len(r),
                    r[i].kind = "call", r[j].kind = "call", r[i].id = r[j].id
             PROVE  i = j
    BY DEF CallsOnce
<1>3. CASE i \in 1..Len(s) /\ j \in 1..Len(s)
    BY <1>1, <1>3 DEF CallsOnce
<1>4. CASE i - Len(s) \in 1..Len(t) /\ j - Len(s) \in 1..Len(t)
  <2>1. r[i] = t[i - Len(s)] /\ r[j] = t[j - Len(s)]
      BY <1>1, <1>4
  <2>2. i - Len(s) = j - Len(s)
      BY <1>4, <2>1 DEF CallsOnce
  <2> QED
      BY <1>1, <2>2
<1>5. CASE i \in 1..Len(s) /\ j - Len(s) \in 1..Len(t)
  <2>1. r[i] = s[i] /\ r[j] = t[j - Len(s)]
      BY <1>1, <1>5
  <2> QED
      BY <1>2, <1>5, <2>1
<1>6. CASE j \in 1..Len(s) /\ i - Len(s) \in 1..Len(t)
  <2>1. r[j] = s[j] /\ r[i] = t[i - Len(s)]
      BY <1>1, <1>6
  <2> QED
      BY <1>2, <1>6, <2>1
<1> QED
    BY <1>1, <1>3, <1>4, <1>5, <1>6

\* Rows that are no calls add none.
LEMMA NoCalls ==
    ASSUME NEW s \in Seq(Rows), NEW t \in Seq(Rows), NEW r, r = s \o t, CallsOnce(s),
           \A i \in 1..Len(t) : t[i].kind # "call"
    PROVE  CallsOnce(r) /\ \A k : Declared(r, k) => Declared(s, k)
<1>1. CallsOnce(t)
    BY DEF CallsOnce
<1>2. \A k : ~Declared(t, k)
    BY DeclaredIs
<1>3. CallsOnce(r)
    BY <1>1, CallsJoin
<1>4. \A k : Declared(r, k) <=> Declared(s, k) \/ Declared(t, k)
    BY ConcatRows
<1> QED
    BY <1>2, <1>3, <1>4

\* The rows that restore_runtime_checkpoint makes of a checkpoint.
LEMMA RestoredRowsIs ==
    ASSUME NEW c \in Checkpoints, c # NoCheckpoint
    PROVE  LET rows == RestoredRows(c)
           IN  /\ rows \in Seq(Rows) /\ Len(rows) \in 1..2
               /\ \A i \in 1..Len(rows) : rows[i].kind # "user"
               /\ \A i \in 1..Len(rows) : rows[i].kind \in ToolKinds => c.phase \in CallPhases
               /\ \A i \in 1..Len(rows) : rows[i].id = c.id
               /\ c.phase \in CallPhases => /\ Len(rows) = 2 /\ rows[1] = Row("call", c.id)
                                            /\ rows[2].kind \in {"cut", "result"}
               /\ c.phase \notin CallPhases => Len(rows) = 1 /\ rows[1].kind = "answer"
<1> DEFINE rows == RestoredRows(c)
           k == c.id
<1>1. c.phase \in {"awaiting_tools", "tools_completed", "final_response"} /\ k \in Int
    BY DEF Checkpoints, Phases
<1>2. /\ Row("call", k) \in Rows /\ Row("cut", k) \in Rows /\ Row("result", k) \in Rows
      /\ Row("answer", k) \in Rows
    BY <1>1, RowTypes DEF Kinds
<1>3. \A kind, id : Row(kind, id).kind = kind /\ Row(kind, id).id = id
    BY RowTypes
<1> DEFINE call == Row("call", k)
           done == Row("result", k)
           made == Row("cut", k)
           answer == Row("answer", k)
<1>4. /\ call.kind = "call" /\ done.kind = "result" /\ made.kind = "cut" /\ answer.kind = "answer"
      /\ call.id = k /\ done.id = k /\ made.id = k /\ answer.id = k
    BY <1>3
<1>5. CASE c.phase = "awaiting_tools"
  <2>1. rows = <<call, made>>
      BY <1>5 DEF RestoredRows
  <2> HIDE DEF rows, call, done, made, answer
  <2>2. rows \in Seq(Rows) /\ Len(rows) = 2 /\ rows[1] = call /\ rows[2] = made
      BY <1>2, <2>1 DEF call, made
  <2> QED
      BY <1>4, <1>5, <2>2 DEF ToolKinds, CallPhases, call, rows
<1>6. CASE c.phase = "tools_completed"
  <2>1. rows = <<call, done>>
      BY <1>6 DEF RestoredRows
  <2> HIDE DEF rows, call, done, made, answer
  <2>2. rows \in Seq(Rows) /\ Len(rows) = 2 /\ rows[1] = call /\ rows[2] = done
      BY <1>2, <2>1 DEF call, done
  <2> QED
      BY <1>4, <1>6, <2>2 DEF ToolKinds, CallPhases, call, rows
<1>7. CASE c.phase = "final_response"
  <2>1. rows = <<answer>>
      BY <1>7 DEF RestoredRows
  <2> HIDE DEF rows, call, done, made, answer
  <2>2. rows \in Seq(Rows) /\ Len(rows) = 1 /\ rows[1] = answer
      BY <1>2, <2>1 DEF answer
  <2> QED
      BY <1>4, <1>7, <2>2 DEF ToolKinds, CallPhases, rows
<1> QED
    BY <1>1, <1>5, <1>6, <1>7

\* restore_runtime_checkpoint puts the call of the checkpoint in the history.
LEMMA RestoreCheckpointGrows ==
    ASSUME NEW s \in Sessions
    PROVE  LET r == RestoreCheckpoint(s)
           IN  /\ Grows(s, r) /\ r.status = s.status /\ r.rid = s.rid
               /\ r.checkpoint = NoCheckpoint
               /\ \A k : Recalled(s, k) => Declared(r.msgs, k)
<1> DEFINE r == RestoreCheckpoint(s)
           c == s.checkpoint
<1>1. c \in Checkpoints /\ s.msgs \in Seq(Rows)
    BY SessionFields
<1>2. CASE c = NoCheckpoint
  <2>1. r = s
      BY <1>2 DEF RestoreCheckpoint
  <2>2. c.phase \notin CallPhases
      BY <1>2 DEF NoCheckpoint, CallPhases
  <2> HIDE DEF r
  <2>3. \A k : Recalled(s, k) => Declared(r.msgs, k)
      BY <2>1, <2>2 DEF Recalled
  <2> QED
      BY <1>2, <2>1, <2>3 DEF Grows, OldCalls, r
<1>3. CASE c # NoCheckpoint
  <2> DEFINE rows == RestoredRows(c)
             n == Overlap(s.msgs, rows)
             t == SubSeq(rows, n + 1, Len(rows))
  <2>1. r = [s EXCEPT !.msgs = s.msgs \o t, !.checkpoint = NoCheckpoint, !.pending = FALSE]
      BY <1>3 DEF RestoreCheckpoint
  <2>2. /\ rows \in Seq(Rows) /\ Len(rows) \in 1..2
        /\ \A i \in 1..Len(rows) : rows[i].kind # "user"
        /\ \A i \in 1..Len(rows) : rows[i].kind \in ToolKinds => c.phase \in CallPhases
        /\ \A i \in 1..Len(rows) : rows[i].id = c.id
        /\ c.phase \in CallPhases => /\ Len(rows) = 2 /\ rows[1] = Row("call", c.id)
                                     /\ rows[2].kind \in {"cut", "result"}
        /\ c.phase \notin CallPhases => Len(rows) = 1 /\ rows[1].kind = "answer"
      BY <1>1, <1>3, RestoredRowsIs
  <2> HIDE DEF rows
  <2>3. /\ n \in 0..Len(rows) /\ n <= Len(s.msgs)
        /\ \A i \in 1..n : s.msgs[Len(s.msgs) - n + i] = rows[i]
      BY <1>1, <2>2, OverlapIs
  <2> HIDE DEF n
  <2>4. /\ t \in Seq(Rows) /\ Len(t) = Len(rows) - n
        /\ \A i \in 1..Len(t) : t[i] = rows[n + i] /\ n + i \in 1..Len(rows)
    <3>1. \A i \in (n + 1)..Len(rows) : rows[i] \in Rows
        BY <2>2, <2>3, ElementOfSeq
    <3>2. n + 1 \in Int /\ Len(rows) \in Int
        BY <2>2, <2>3
    <3>3. /\ t \in Seq(Rows)
          /\ Len(t) = IF n + 1 <= Len(rows) THEN Len(rows) - (n + 1) + 1 ELSE 0
          /\ \A i \in 1..(Len(rows) - (n + 1) + 1) : t[i] = rows[(n + 1) + i - 1]
        BY <3>1, <3>2, SubSeqProperties
    <3> HIDE DEF t
    <3>4. Len(t) = Len(rows) - n
        BY <2>2, <2>3, <3>3
    <3>5. ASSUME NEW i \in 1..Len(t) PROVE t[i] = rows[n + i] /\ n + i \in 1..Len(rows)
      <4>1. (n + 1) + i - 1 = n + i /\ i \in 1..(Len(rows) - (n + 1) + 1) /\ n + i \in 1..Len(rows)
          BY <2>2, <2>3, <3>4
      <4> QED
          BY <3>3, <4>1
    <3> QED
        BY <3>3, <3>4, <3>5
  <2> HIDE DEF t
  <2>5. s.msgs \o t \in Seq(Rows)
      BY <1>1, <2>4, ConcatProperties
  <2>6. r \in Sessions /\ r.msgs = s.msgs \o t /\ r.checkpoint = NoCheckpoint
        /\ r.journal = s.journal /\ r.status = s.status /\ r.rid = s.rid
      BY <2>1, <2>5 DEF Sessions, Checkpoints
  <2> HIDE DEF r
  <2>7. \A i \in 1..Len(t) : t[i].kind # "user"
      BY <2>2, <2>4
  <2>8. /\ Users(r.msgs) = Users(s.msgs) /\ (Once(s.msgs) => Once(r.msgs))
        /\ \A k : Declared(r.msgs, k) <=> Declared(s.msgs, k) \/ Declared(t, k)
        /\ \A m : Bounded(r.msgs, m) <=> Bounded(s.msgs, m) /\ Bounded(t, m)
        /\ \A A : Closed(s.msgs, A) /\ Closed(t, A) => Closed(r.msgs, A)
        /\ (\A i \in 1..Len(t) : t[i].kind \notin ToolKinds) =>
              \A x : NewCalls(x, s.msgs) => NewCalls(x, r.msgs)
      BY <2>4, <2>6, <2>7, AddedRows
  <2>9. ASSUME c.phase \in CallPhases PROVE Declared(r.msgs, c.id)
    <3>1. CASE n = 0
      <4>1. 1 \in 1..Len(t) /\ t[1] = rows[0 + 1]
          BY <2>2, <2>4, <2>9, <3>1
      <4>2. Declared(t, c.id)
          BY <2>2, <2>9, <4>1 DEF Declared
      <4> QED
          BY <2>8, <4>2
    <3>2. CASE n # 0
      <4>1. 1 \in 1..n /\ Len(s.msgs) \in Nat
          BY <1>1, <2>2, <2>3, <3>2, LenProperties
      <4>2. s.msgs[Len(s.msgs) - n + 1] = rows[1]
          BY <2>3, <4>1
      <4>3. Len(s.msgs) - n + 1 \in 1..Len(s.msgs)
          BY <2>2, <2>3, <4>1
      <4>4. Declared(s.msgs, c.id)
          BY <2>2, <2>9, <4>2, <4>3 DEF Declared
      <4> QED
          BY <2>8, <4>4
    <3> QED
        BY <3>1, <3>2
  <2>10. \A k : Recalled(s, k) => Declared(r.msgs, k)
      BY <2>8, <2>9 DEF Recalled
  <2>11. ASSUME Fresh(s) PROVE Fresh(r)
    <3>1. ASSUME NEW i \in 1..Len(t), t[i].kind = "call"
          PROVE  n + i = 1 /\ c.phase \in CallPhases /\ t[i].id = c.id
      <4>1. t[i] = rows[n + i] /\ n + i \in 1..Len(rows)
          BY <2>4
      <4>2. c.phase \in CallPhases /\ t[i].id = c.id
          BY <2>2, <3>1, <4>1 DEF ToolKinds
      <4>3. n + i # 2
          BY <2>2, <3>1, <4>1, <4>2
      <4> QED
          BY <2>2, <4>1, <4>2, <4>3
    <3>2. CallsOnce(t)
      <4>1. Len(t) \in Nat
          BY <2>4, LenProperties
      <4> QED
          BY <2>3, <3>1, <4>1 DEF CallsOnce
    <3>3. \A i \in 1..Len(t) : t[i].kind = "call" => ~Declared(s.msgs, t[i].id)
        BY <2>11, <3>1 DEF Fresh
    <3>4. CallsOnce(r.msgs)
        BY <1>1, <2>4, <2>6, <2>11, <3>2, <3>3, CallsJoin DEF Fresh
    <3> QED
        BY <2>6, <3>4 DEF Fresh, NoCheckpoint, CallPhases
  <2>12. ASSUME NEW m, NEW A, Sound(s, m, A) PROVE Sound(r, m, A)
    <3>0. Fresh(r)
        BY <2>11, <2>12 DEF Sound
    <3>1. Bounded(t, m)
      <4>1. \A i \in 1..Len(t) : t[i].kind \in ToolKinds => c.phase \in CallPhases /\ t[i].id = c.id
          BY <2>2, <2>4
      <4> QED
          BY <2>12, <4>1 DEF Sound, Bounded
    <3>2. CASE c.phase \notin CallPhases
      <4>1. \A i \in 1..Len(t) : t[i].kind \notin ToolKinds
          BY <2>2, <2>4, <3>2
      <4>2. Closed(t, A)
          BY <4>1 DEF Closed, ToolKinds
      <4> QED
          BY <2>6, <2>8, <2>12, <3>0, <3>1, <4>2 DEF Sound, NoCheckpoint, CallPhases
    <3>3. CASE c.phase \in CallPhases
      <4>1. n # 1
        <5> SUFFICES ASSUME n = 1 PROVE FALSE
            OBVIOUS
        <5>1. 1 \in 1..n /\ Len(s.msgs) \in Nat /\ Len(s.msgs) >= 1
            BY <1>1, <2>3, LenProperties
        <5>2. s.msgs[Len(s.msgs) - n + 1] = rows[1]
            BY <2>3, <5>1
        <5>3. Len(s.msgs) - n + 1 = Len(s.msgs) /\ Len(s.msgs) \in 1..Len(s.msgs)
            BY <5>1
        <5>4. Declared(s.msgs, c.id)
            BY <2>2, <3>3, <5>2, <5>3 DEF Declared
        <5> QED
            BY <2>12, <3>3, <5>4 DEF Sound, Fresh
      <4>2. CASE n = 2
        <5>1. Len(t) = 0
            BY <2>2, <2>4, <3>3, <4>2
        <5>2. Closed(t, A)
            BY <5>1 DEF Closed
        <5> QED
            BY <2>6, <2>8, <2>12, <3>0, <3>1, <5>2 DEF Sound, NoCheckpoint, CallPhases
      <4>3. CASE n = 0
        <5>1. Len(t) = 2
            BY <2>2, <2>4, <3>3, <4>3
        <5>2. t[1] = rows[0 + 1] /\ t[2] = rows[0 + 2] /\ 1 \in 1..Len(t) /\ 2 \in 1..Len(t)
            BY <2>4, <4>3, <5>1
        <5>3. t[1] = Row("call", c.id) /\ t[2].kind \in {"cut", "result"} /\ t[2].id = c.id
            BY <2>2, <3>3, <5>2
        <5>4. t[1].kind = "call" /\ t[1].id = c.id
            BY <5>3, RowTypes
        <5>5. \A i \in 1..Len(t) : i = 1 \/ i = 2
            BY <5>1
        <5>6. Closed(t, A)
            BY <5>1, <5>3, <5>4, <5>5 DEF Closed
        <5> QED
            BY <2>6, <2>8, <2>12, <3>0, <3>1, <5>6 DEF Sound, NoCheckpoint, CallPhases
      <4> QED
          BY <2>2, <2>3, <3>3, <4>1, <4>2, <4>3
    <3> QED
        BY <3>2, <3>3
  <2>13. \A k : Declared(r.msgs, k) => Recalled(r, k)
      BY DEF Recalled
  <2>15. OldCalls(s, r)
    <3> SUFFICES ASSUME c.phase \notin CallPhases
                 PROVE  /\ r.checkpoint.phase \notin CallPhases
                        /\ \A x : NewCalls(x, s.msgs) => NewCalls(x, r.msgs)
        BY DEF OldCalls
    <3>1. \A i \in 1..Len(t) : t[i].kind \notin ToolKinds
        BY <2>2, <2>4
    <3> QED
        BY <2>6, <2>8, <3>1 DEF NoCheckpoint, CallPhases
  <2>14. Grows(s, r)
      BY <2>6, <2>8, <2>10, <2>12, <2>13, <2>15 DEF Grows
  <2> QED
      BY <2>6, <2>10, <2>14 DEF r
<1> QED
    BY <1>2, <1>3

\* A note at the end of the history, or nothing.
LEMMA AddNote ==
    ASSUME NEW s \in Sessions, NEW r \in Sessions, r.journal = s.journal,
           r.checkpoint = s.checkpoint,
           r.msgs = s.msgs \/ r.msgs = Append(s.msgs, Row("note", 0))
    PROVE  Grows(s, r)
<1>1. CASE r.msgs = s.msgs
    BY <1>1 DEF Grows, OldCalls, Recalled, Sound, Fresh
<1>2. CASE r.msgs = Append(s.msgs, Row("note", 0))
  <2> DEFINE note == Row("note", 0)
             t == <<note>>
  <2>1. note \in Rows /\ note.kind = "note" /\ s.msgs \in Seq(Rows)
      BY RowTypes, SessionFields DEF Kinds
  <2> HIDE DEF note
  <2>2. t \in Seq(Rows) /\ Len(t) = 1 /\ t[1] = note /\ Append(s.msgs, note) = s.msgs \o t
      BY <2>1, OneRow
  <2> HIDE DEF t
  <2>3. \A i \in 1..Len(t) : t[i].kind = "note"
      BY <2>1, <2>2
  <2>4. (\A A : Closed(t, A)) /\ \A n : Bounded(t, n)
      BY <2>3 DEF Closed, Bounded, ToolKinds
  <2>5. r.msgs = s.msgs \o t
      BY <1>2, <2>2 DEF note
  <2>6. \A i \in 1..Len(t) : t[i].kind # "user"
      BY <2>3
  <2>7. /\ Users(r.msgs) = Users(s.msgs) /\ (Once(s.msgs) => Once(r.msgs))
        /\ \A k : Declared(r.msgs, k) <=> Declared(s.msgs, k) \/ Declared(t, k)
        /\ \A n : Bounded(r.msgs, n) <=> Bounded(s.msgs, n) /\ Bounded(t, n)
        /\ \A A : Closed(s.msgs, A) /\ Closed(t, A) => Closed(r.msgs, A)
        /\ (\A i \in 1..Len(t) : t[i].kind \notin ToolKinds) =>
              \A x : NewCalls(x, s.msgs) => NewCalls(x, r.msgs)
      BY <2>2, <2>5, <2>6, AddedRows
  <2>8. \A k : Declared(s.msgs, k) => Declared(r.msgs, k)
      BY <2>7
  <2>9. \A k : Recalled(s, k) => Recalled(r, k)
      BY <2>8 DEF Recalled
  <2>10. \A n, A : Sound(s, n, A) => Sound(r, n, A)
    <3>1. \A i \in 1..Len(t) : t[i].kind # "call"
        BY <2>3
    <3>2. CallsOnce(s.msgs) =>
              CallsOnce(r.msgs) /\ \A k : Declared(r.msgs, k) => Declared(s.msgs, k)
        BY <2>1, <2>2, <2>5, <3>1, NoCalls
    <3>3. Fresh(s) => Fresh(r)
        BY <3>2 DEF Fresh
    <3> QED
        BY <2>4, <2>7, <3>3 DEF Sound
  <2>11. OldCalls(s, r)
    <3>1. \A i \in 1..Len(t) : t[i].kind \notin ToolKinds
        BY <2>3 DEF ToolKinds
    <3> QED
        BY <2>7, <3>1 DEF OldCalls
  <2> QED
      BY <2>7, <2>8, <2>9, <2>10, <2>11 DEF Grows
<1> QED
    BY <1>1, <1>2

\* Grows is transitive.
LEMMA GrowsTwice ==
    ASSUME NEW a, NEW b, NEW c, Grows(a, b), Grows(b, c)
    PROVE  Grows(a, c)
BY DEF Grows, OldCalls

\* A row at the end of the history.
LEMMA NoteTyped ==
    ASSUME NEW s \in Sessions
    PROVE  Append(s.msgs, Row("note", 0)) \in Seq(Rows)
<1>1. Row("note", 0) \in Rows
    BY RowTypes DEF Kinds
<1> QED
    BY <1>1, SessionFields, AppendProperties

\* _set_state leaves the history alone.
LEMMA SetStateGrows ==
    ASSUME NEW s \in Sessions, NEW status \in Statuses, NEW rid \in Nat, NEW can \in BOOLEAN,
           NEW count \in Nat
    PROVE  LET r == SetState(s, status, rid, can, count)
           IN  /\ Grows(s, r) /\ r.status = status /\ r.rid = rid
               /\ r.msgs = s.msgs /\ r.checkpoint = s.checkpoint
<1> DEFINE r == SetState(s, status, rid, can, count)
<1>1. r \in Sessions
    BY Zenon DEF SetState, Sessions
<1>2. /\ r.journal = s.journal /\ r.checkpoint = s.checkpoint /\ r.msgs = s.msgs
      /\ r.status = status /\ r.rid = rid
    BY DEF SetState, Sessions
<1> HIDE DEF r
<1> QED
    BY <1>1, <1>2, AddNote DEF r

\* _resolve leaves the history alone.
LEMMA ResolveGrows ==
    ASSUME NEW s \in Sessions
    PROVE  /\ Grows(s, Resolve(s)) /\ Resolve(s).status = "recovered" /\ Resolve(s).rid = s.rid
           /\ Resolve(s).msgs = s.msgs /\ Resolve(s).checkpoint = s.checkpoint
<1> DEFINE r == Resolve(s)
<1>1. r \in Sessions
  <2>1. s.rid \in Nat /\ 0 \in Nat /\ "recovered" \in Statuses /\ TRUE \in BOOLEAN
      BY SessionFields DEF Statuses
  <2> QED
      BY <2>1, Zenon DEF Resolve, SetState, Sessions
<1>2. /\ r.journal = s.journal /\ r.checkpoint = s.checkpoint /\ r.msgs = s.msgs
      /\ r.status = "recovered" /\ r.rid = s.rid
    BY DEF Resolve, SetState, Sessions
<1> HIDE DEF r
<1> QED
    BY <1>1, <1>2, AddNote DEF r

\* restore_pending_interruption adds a note, or nothing.
LEMMA RestorePendingGrows ==
    ASSUME NEW s \in Sessions
    PROVE  LET r == RestorePending(s)
           IN  /\ Grows(s, r) /\ r.status = s.status /\ r.rid = s.rid
               /\ r.checkpoint = s.checkpoint
<1> DEFINE r == RestorePending(s)
           q == Append(s.msgs, Row("note", 0))
<1>1. q \in Seq(Rows)
    BY NoteTyped
<1> HIDE DEF q
<1>2. \/ r = s
      \/ r = [s EXCEPT !.pending = FALSE, !.msgs = q]
      \/ r = [s EXCEPT !.pending = FALSE, !.msgs = s.msgs]
    BY DEF RestorePending, q
<1>3. s.msgs \in Seq(Rows)
    BY SessionFields
<1>4. /\ r \in Sessions /\ r.journal = s.journal /\ r.checkpoint = s.checkpoint
      /\ r.status = s.status /\ r.rid = s.rid /\ (r.msgs = s.msgs \/ r.msgs = q)
  <2> HIDE DEF r
  <2> QED
      BY <1>1, <1>2, <1>3 DEF Sessions
<1> HIDE DEF r
<1> QED
    BY <1>4, AddNote DEF r, q

\* append_recovery_interruption adds a note, or nothing.
LEMMA AppendInterruptionGrows ==
    ASSUME NEW s \in Sessions
    PROVE  LET r == AppendInterruption(s)
           IN  /\ Grows(s, r) /\ r.status = s.status /\ r.rid = s.rid
               /\ r.checkpoint = s.checkpoint
<1> DEFINE r == AppendInterruption(s)
           q == Append(s.msgs, Row("note", 0))
<1>1. q \in Seq(Rows)
    BY NoteTyped
<1> HIDE DEF q
<1>2. r = s \/ r = [s EXCEPT !.msgs = q]
    BY DEF AppendInterruption, q
<1>3. /\ r \in Sessions /\ r.journal = s.journal /\ r.checkpoint = s.checkpoint
      /\ r.status = s.status /\ r.rid = s.rid /\ (r.msgs = s.msgs \/ r.msgs = q)
  <2> HIDE DEF r
  <2> QED
      BY <1>1, <1>2 DEF Sessions
<1> HIDE DEF r
<1> QED
    BY <1>3, AddNote DEF r, q

\* Grows gives a session, and a session grows to itself.
LEMMA GrowsSelf ==
    ASSUME NEW s \in Sessions
    PROVE  Grows(s, s)
BY DEF Grows, OldCalls

\* admit, for a user's message.
LEMMA SupersedeGrows ==
    ASSUME NEW s \in Sessions
    PROVE  LET r == Supersede(s)
           IN  /\ Grows(s, r) /\ r.rid = s.rid /\ r.status \notin Open
               /\ s.status \notin Open => r = s
               /\ s.checkpoint = NoCheckpoint => r.checkpoint = NoCheckpoint
<1>1. CASE s.status \notin Open
    BY <1>1, GrowsSelf DEF Supersede
<1>2. CASE s.status \in Open
  <2> DEFINE a == RestoreCheckpoint(s)
             b == IF a.pending THEN RestorePending(a) ELSE AppendInterruption(a)
  <2>1. Grows(s, a) /\ a.rid = s.rid /\ a.checkpoint = NoCheckpoint
      BY RestoreCheckpointGrows
  <2>2. Supersede(s) = Resolve(b)
      BY <1>2 DEF Supersede
  <2> HIDE DEF a
  <2>3. a \in Sessions
      BY <2>1 DEF Grows
  <2>4. Grows(a, b) /\ b.rid = a.rid /\ b.checkpoint = a.checkpoint
      BY <2>3, RestorePendingGrows, AppendInterruptionGrows
  <2> HIDE DEF b
  <2>5. b \in Sessions
      BY <2>4 DEF Grows
  <2>6. /\ Grows(b, Resolve(b)) /\ Resolve(b).status = "recovered" /\ Resolve(b).rid = b.rid
        /\ Resolve(b).checkpoint = b.checkpoint
      BY <2>5, ResolveGrows
  <2>7. Grows(s, Resolve(b))
      BY <2>1, <2>4, <2>6, GrowsTwice
  <2> QED
      BY <1>2, <2>1, <2>2, <2>4, <2>6, <2>7 DEF Open
<1> QED
    BY <1>1, <1>2

\* turn_completed.
LEMMA CompletedGrows ==
    ASSUME NEW s \in Sessions
    PROVE  LET r == Completed(s)
           IN  /\ Grows(s, r) /\ r.rid = s.rid /\ r.msgs = s.msgs /\ r.checkpoint = s.checkpoint
               /\ r.status # "resuming"
               /\ r.status = "awaiting_user" => s.status = "awaiting_user"
<1>1. CASE s.status = "resuming"
    BY <1>1, ResolveGrows DEF Completed
<1>2. CASE s.status # "resuming"
    BY <1>2, GrowsSelf DEF Completed
<1> QED
    BY <1>1, <1>2

\* The worker is cancelled.
LEMMA CancelledGrows ==
    ASSUME NEW s \in Sessions
    PROVE  LET r == Cancelled(s)
           IN  /\ Grows(s, r) /\ r.status = s.status /\ r.rid = s.rid
               /\ ~InTurn => r = s
BY RestoreCheckpointGrows, GrowsSelf DEF Cancelled

\* A dismissal.
LEMMA DismissedGrows ==
    ASSUME NEW s \in Sessions
    PROVE  LET r == Resolve(RestorePending(RestoreCheckpoint(s)))
           IN  Grows(s, r) /\ r.rid = s.rid /\ r.status = "recovered"
<1> DEFINE a == RestoreCheckpoint(s)
           b == RestorePending(a)
<1>1. Grows(s, a) /\ a.rid = s.rid
    BY RestoreCheckpointGrows
<1> HIDE DEF a
<1>2. a \in Sessions
    BY <1>1 DEF Grows
<1>3. Grows(a, b) /\ b.rid = a.rid
    BY <1>2, RestorePendingGrows
<1> HIDE DEF b
<1>4. b \in Sessions
    BY <1>3 DEF Grows
<1>5. Grows(b, Resolve(b)) /\ Resolve(b).status = "recovered" /\ Resolve(b).rid = b.rid
    BY <1>4, ResolveGrows
<1>6. Grows(s, Resolve(b))
    BY <1>1, <1>3, <1>5, GrowsTwice
<1> QED
    BY <1>1, <1>3, <1>5, <1>6 DEF a, b

\* _recover_session.
LEMMA RecoveredGrows ==
    ASSUME NEW s \in Sessions, NEW rid \in Nat, NEW unfinished \in BOOLEAN
    PROVE  LET r == Recovered(s, rid, unfinished)
           IN  Grows(s, r) /\ r.rid \in {s.rid, rid} /\ r.status # "resuming"
<1> DEFINE r == Recovered(s, rid, unfinished)
           a == RestoreCheckpoint(s)
           b == RestorePending(a)
           Good(x) == Grows(s, x) /\ x.rid \in {s.rid, rid} /\ x.status # "resuming"
<1>1. s.rid \in Nat /\ {"awaiting_user", "recovered"} \subseteq Statuses
    BY SessionFields DEF Statuses
<1>2. Grows(s, a)
    BY RestoreCheckpointGrows
<1>3. a \in Sessions
    BY <1>2 DEF Grows
<1> HIDE DEF a
<1>4. Grows(a, b)
    BY <1>3, RestorePendingGrows
<1>5. b \in Sessions /\ Grows(s, b)
    BY <1>2, <1>4, GrowsTwice DEF Grows
<1> HIDE DEF b
<1>6. HasContext(s.msgs) \in BOOLEAN
    BY DEF HasContext
<1>7. Grows(s, s)
    BY GrowsSelf
<1>8. ASSUME NEW x \in Sessions, Grows(s, x), NEW status \in {"awaiting_user", "recovered"},
             NEW i \in {s.rid, rid}, NEW can \in BOOLEAN
      PROVE  Good(SetState(x, status, i, can, 0))
  <2> DEFINE y == SetState(x, status, i, can, 0)
  <2>1. i \in Nat /\ status \in Statuses
      BY <1>1, <1>8
  <2>2. Grows(x, y) /\ y.status = status /\ y.rid = i
      BY <2>1, SetStateGrows
  <2> HIDE DEF y
  <2>3. Grows(s, y)
      BY <1>8, <2>2, GrowsTwice
  <2> QED
      BY <2>2, <2>3 DEF y
<1>9. Good(Resolve(s))
    BY <1>7, <1>8 DEF Resolve
<1>10. s.status # "resuming" => Good(s)
    BY <1>7
<1>11. /\ Good(SetState(s, "awaiting_user", s.rid, TRUE, 0))
       /\ Good(SetState(s, "awaiting_user", rid, HasContext(s.msgs), 0))
    BY <1>6, <1>7, <1>8
<1>12. Good(SetState(b, "awaiting_user", s.rid, TRUE, 0))
    BY <1>5, <1>8
<1>13. /\ Good(SetState(a, "recovered", rid, TRUE, 0))
       /\ Good(SetState(a, "awaiting_user", rid, TRUE, 0))
    BY <1>2, <1>3, <1>8
<1> HIDE DEF Good
<1>14. Good(r)
    BY <1>9, <1>10, <1>11, <1>12, <1>13 DEF Recovered, a, b
<1> QED
    BY <1>14 DEF Good

(***************************************************************************)
(* The parts of the actions.                                               *)
(***************************************************************************)
\* The session with another journal, or another checkpoint.
LEMMA SessionJournal ==
    ASSUME NEW s \in Sessions, NEW j \in Seq(Nat \ {0}), NEW r, r = [s EXCEPT !.journal = j]
    PROVE  /\ r \in Sessions /\ r.checkpoint = s.checkpoint /\ r.msgs = s.msgs
           /\ r.journal = j /\ r.status = s.status /\ r.rid = s.rid
BY DEF Sessions

LEMMA SessionCheckpoint ==
    ASSUME NEW s \in Sessions, NEW c \in Checkpoints, NEW r, r = [s EXCEPT !.checkpoint = c]
    PROVE  /\ r \in Sessions /\ r.checkpoint = c /\ r.msgs = s.msgs
           /\ r.journal = s.journal /\ r.status = s.status /\ r.rid = s.rid
BY DEF Sessions

\* Edits of a worker keep its type.
LEMMA WorkerEdits ==
    ASSUME NEW w \in Workers
    PROVE  /\ w.pc \in Pcs /\ w.msg \in Int /\ w.rows \in Seq(Rows)
           /\ NoWorker \in Workers /\ NoWorker.pc = "none" /\ NoWorker.rows = <<>>
           /\ \A p \in Pcs : LET v == [w EXCEPT !.pc = p]
                             IN  v \in Workers /\ v.pc = p /\ v.msg = w.msg /\ v.rows = w.rows
           /\ \A p \in Pcs, rows \in Seq(Rows) :
                 LET v == [w EXCEPT !.pc = p, !.rows = rows]
                 IN  v \in Workers /\ v.pc = p /\ v.msg = w.msg /\ v.rows = rows
           /\ LET v == [NoWorker EXCEPT !.pc = "idle"]
              IN  v \in Workers /\ v.pc = "idle" /\ v.msg = 0 /\ v.rows = <<>>
           /\ \A m \in Int : LET v == [NoWorker EXCEPT !.pc = "locked", !.msg = m]
                             IN  v \in Workers /\ v.pc = "locked" /\ v.msg = m /\ v.rows = <<>>
<1>1. <<>> \in Seq(Rows) /\ {"none", "idle", "locked"} \subseteq Pcs
    BY EmptySeq DEF Pcs
<1>2. w.pc \in Pcs /\ w.msg \in Int /\ w.rows \in Seq(Rows)
    BY DEF Workers
<1>3. NoWorker \in Workers /\ NoWorker.pc = "none" /\ NoWorker.rows = <<>>
    BY <1>1 DEF NoWorker, Workers
<1>4. ASSUME NEW p \in Pcs
      PROVE  LET v == [w EXCEPT !.pc = p]
             IN  v \in Workers /\ v.pc = p /\ v.msg = w.msg /\ v.rows = w.rows
    BY DEF Workers
<1>5. ASSUME NEW p \in Pcs, NEW rows \in Seq(Rows)
      PROVE  LET v == [w EXCEPT !.pc = p, !.rows = rows]
             IN  v \in Workers /\ v.pc = p /\ v.msg = w.msg /\ v.rows = rows
    BY DEF Workers
<1>6. LET v == [NoWorker EXCEPT !.pc = "idle"]
      IN  v \in Workers /\ v.pc = "idle" /\ v.msg = 0 /\ v.rows = <<>>
  <2> DEFINE v == [NoWorker EXCEPT !.pc = "idle"]
  <2>1. v = [pc |-> "idle", msg |-> 0, rows |-> <<>>]
      BY DEF NoWorker
  <2>2. "idle" \in Pcs /\ 0 \in Int /\ <<>> \in Seq(Rows)
      BY <1>1 DEF Pcs
  <2> HIDE DEF v
  <2>3. v \in Workers
      BY <2>1, <2>2 DEF Workers
  <2> QED
      BY <2>1, <2>3 DEF v
<1>7. ASSUME NEW m \in Int
      PROVE  LET v == [NoWorker EXCEPT !.pc = "locked", !.msg = m]
             IN  v \in Workers /\ v.pc = "locked" /\ v.msg = m /\ v.rows = <<>>
    BY <1>1 DEF NoWorker, Workers
<1> QED
    BY <1>2, <1>3, <1>4, <1>5, <1>6, <1>7, Zenon

\* _enqueue_session_message: the message joins the queue, and the journal when a worker
\* is there already.
LEMMA EnqueueIs ==
    ASSUME NEW m \in Int \ {0}, NEW s \in Sessions, NEW w \in Workers, NEW q \in Seq(Int \ {0}),
           w.pc = "none" => q = <<>>, Enqueue(m, s, w, q)
    PROVE  /\ session' \in Sessions /\ session'.msgs = s.msgs
           /\ session'.checkpoint = s.checkpoint
           /\ session'.status = s.status /\ session'.rid = s.rid
           /\ inbox' = Append(q, m)
           /\ \/ w.pc = "none" /\ worker' = [w EXCEPT !.pc = "idle"]
              \/ w.pc # "none" /\ worker' = w
           /\ \/ session'.journal = s.journal
              \/ m > 0 /\ m \notin Numbers(s.journal) /\ session'.journal = Append(s.journal, m)
           /\ \/ journaled' = journaled
              \/ m > 0 /\ journaled' = journaled \cup {m} /\ m \in Numbers(session'.journal)
<1>1. CASE w.pc = "none"
  <2>1. q = <<>> /\ Append(<<>>, m) = <<m>>
      BY <1>1
  <2>2. session' = s /\ worker' = [w EXCEPT !.pc = "idle"] /\ inbox' = <<m>>
        /\ journaled' = journaled
      BY <1>1 DEF Enqueue
  <2> QED
      BY <1>1, <2>1, <2>2
<1>2. CASE w.pc # "none" /\ m < 0
  <2>1. session' = s /\ worker' = w /\ inbox' = Append(q, m) /\ journaled' = journaled
      BY <1>2 DEF Enqueue, IsContinuation
  <2> QED
      BY <1>2, <2>1
<1>3. CASE w.pc # "none" /\ ~(m < 0)
  <2> DEFINE j == IF Contains(s.journal, m) THEN s.journal ELSE Append(s.journal, m)
  <2>1. /\ session' = [s EXCEPT !.journal = j] /\ worker' = w /\ inbox' = Append(q, m)
        /\ journaled' = journaled \cup {m}
      BY <1>3 DEF Enqueue, IsContinuation
  <2>2. m \in Nat \ {0} /\ m > 0 /\ m \in Int
      BY <1>3
  <2>3. s.journal \in Seq(Nat \ {0})
      BY SessionFields
  <2>4. s.journal \in Seq(Int)
      BY <2>3, SeqMonotonic
  <2>5. Contains(s.journal, m) <=> m \in Numbers(s.journal)
      BY <2>2, NumbersIs DEF Contains
  <2>6. /\ j \in Seq(Nat \ {0}) /\ m \in Numbers(j)
        /\ \/ j = s.journal
           \/ m \notin Numbers(s.journal) /\ j = Append(s.journal, m)
    <3>1. CASE m \in Numbers(s.journal)
        BY <2>3, <2>5, <3>1
    <3>2. CASE m \notin Numbers(s.journal)
      <4>1. j = Append(s.journal, m)
          BY <2>5, <3>2
      <4>2. Append(s.journal, m) \in Seq(Nat \ {0})
          BY <2>2, <2>3, AppendProperties
      <4>3. m \in Numbers(Append(s.journal, m))
          BY <2>2, <2>4, AppendQueue
      <4> QED
          BY <3>2, <4>1, <4>2, <4>3
    <3> QED
        BY <3>1, <3>2
  <2> HIDE DEF j
  <2>7. /\ session' \in Sessions /\ session'.msgs = s.msgs /\ session'.checkpoint = s.checkpoint
        /\ session'.status = s.status /\ session'.rid = s.rid /\ session'.journal = j
      BY <2>1, <2>6, SessionJournal
  <2> QED
      BY <1>3, <2>1, <2>2, <2>6, <2>7
<1> QED
    BY <1>1, <1>2, <1>3

\* The follow-ups that can be injected are the user's messages at the front of the inbox.
LEMMA InjectableIs ==
    ASSUME inbox \in Seq(Int \ {0}), \A i, j \in Tokens(inbox) : i = j
    PROVE  \E n \in 0..Len(inbox) : /\ Injectable = SubSeq(inbox, 1, n)
                                    /\ \A i \in 1..n : inbox[i] > 0
<1>1. Len(inbox) \in Nat /\ \A i \in 1..Len(inbox) : inbox[i] \in Int /\ inbox[i] # 0
    BY LenProperties, ElementOfSeq
<1>2. CASE Tokens(inbox) = {}
  <2>1. ~\E i \in 1..Len(inbox) : IsContinuation(inbox[i])
      BY <1>2 DEF Tokens, IsContinuation
  <2>2. Injectable = SubSeq(inbox, 1, Len(inbox))
      BY <2>1 DEF Injectable
  <2>3. \A i \in 1..Len(inbox) : inbox[i] > 0
      BY <1>1, <1>2 DEF Tokens
  <2>4. Len(inbox) \in 0..Len(inbox)
      BY <1>1
  <2> QED
      BY <2>2, <2>3, <2>4
<1>3. CASE Tokens(inbox) # {}
  <2>1. PICK t \in Tokens(inbox) : TRUE
      BY <1>3
  <2>2. t \in 1..Len(inbox) /\ inbox[t] < 0 /\ \A i \in Tokens(inbox) : i = t
      BY <2>1 DEF Tokens
  <2>3. {i \in 1..Len(inbox) : IsContinuation(inbox[i])} = {t}
      BY <2>2 DEF Tokens, IsContinuation
  <2>4. Min({t}) = t
    <3>1. t >= t
        BY <1>1, <2>2
    <3>2. \E x \in {t} : \A y \in {t} : x <= y
        BY <1>1, <2>2
    <3> QED
        BY <3>2 DEF Min
  <2>5. \E i \in 1..Len(inbox) : IsContinuation(inbox[i])
      BY <2>2 DEF IsContinuation
  <2>6. Injectable = SubSeq(inbox, 1, t - 1)
      BY <2>3, <2>4, <2>5 DEF Injectable
  <2>7. t - 1 \in 0..Len(inbox) /\ \A i \in 1..(t - 1) : i \in 1..Len(inbox) /\ i # t
      BY <1>1, <2>2
  <2>8. \A i \in 1..(t - 1) : inbox[i] > 0
    <3>1. \A i \in 1..Len(inbox) : i # t => ~(inbox[i] < 0)
        BY <2>2 DEF Tokens
    <3> QED
        BY <1>1, <2>7, <3>1
  <2> QED
      BY <2>6, <2>7, <2>8
<1> QED
    BY <1>2, <1>3

\* A worker goes on to its next stage.
LEMMA WorkerPc ==
    ASSUME NEW w \in Workers, NEW p \in Pcs, NEW v, v = [w EXCEPT !.pc = p]
    PROVE  v \in Workers /\ v.pc = p /\ v.msg = w.msg /\ v.rows = w.rows
BY DEF Workers


\* What route hands to _enqueue_session_message for a user's message.
LEMMA RouteMessageIs ==
    ASSUME Types, Quiet, NEW m \in 1..MaxMsgs, RouteMessage(m)
    PROVE  /\ up = "up" /\ bus # <<>> /\ m = Head(bus) /\ bus' = Tail(bus)
           /\ \E s \in Sessions, w \in Workers, q \in Seq(Int \ {0}) :
                 /\ Enqueue(m, s, w, q) /\ (w.pc = "none" => q = <<>>)
                 /\ Grows(session, s) /\ s.rid = session.rid
                 /\ s.status = session.status \/ s.status \notin Open
                 /\ \/ w = worker /\ q = inbox
                    \/ w = NoWorker /\ q = <<>>
                 /\ \/ s = session
                    \/ w = NoWorker
                    \/ session.status \in Open /\ worker.pc # "none" /\ ~RunsContinuation
           /\ UNCHANGED <<up, late, goal, sent, tools, latest, clicks, resumed, faults>>
<1>1. session \in Sessions /\ worker \in Workers /\ inbox \in Seq(Int \ {0})
      /\ (worker.pc = "none" => inbox = <<>>)
    BY DEF Types, Quiet
<1>2. NoWorker \in Workers /\ <<>> \in Seq(Int \ {0})
    BY <1>1, WorkerEdits, EmptySeq
<1>3. up = "up" /\ bus # <<>> /\ m = Head(bus) /\ bus' = Tail(bus)
    BY DEF RouteMessage, Routes
<1>4. UNCHANGED <<up, late, goal, sent, tools, latest, clicks, resumed, faults>>
    BY DEF RouteMessage
<1>5. CASE worker.pc # "none" /\ session.status \in Open /\ RunsContinuation
  <2> DEFINE a == Cancelled(session)
             b == Supersede(a)
  <2>1. Enqueue(m, b, NoWorker, <<>>)
      BY <1>5 DEF RouteMessage
  <2>2. Grows(session, a) /\ a.status = session.status /\ a.rid = session.rid
      BY <1>1, CancelledGrows
  <2> HIDE DEF a
  <2>3. a \in Sessions
      BY <2>2 DEF Grows
  <2>4. Grows(a, b) /\ b.rid = a.rid /\ b.status \notin Open
      BY <2>3, SupersedeGrows
  <2> HIDE DEF b
  <2>5. Grows(session, b) /\ b \in Sessions
      BY <2>2, <2>4, GrowsTwice DEF Grows
  <2> QED
      BY <1>2, <1>3, <1>4, <2>1, <2>2, <2>4, <2>5
<1>6. CASE worker.pc # "none" /\ session.status \in Open /\ ~RunsContinuation
  <2> DEFINE b == Supersede(session)
  <2>1. Enqueue(m, b, worker, inbox)
      BY <1>6 DEF RouteMessage
  <2>2. Grows(session, b) /\ b.rid = session.rid /\ b.status \notin Open
      BY <1>1, SupersedeGrows
  <2> HIDE DEF b
  <2>3. b \in Sessions
      BY <2>2 DEF Grows
  <2> QED
      BY <1>1, <1>3, <1>4, <1>6, <2>1, <2>2, <2>3
<1>7. CASE ~(worker.pc # "none" /\ session.status \in Open)
  <2>1. Enqueue(m, session, worker, inbox)
      BY <1>7 DEF RouteMessage
  <2>2. Grows(session, session)
      BY <1>1, GrowsSelf
  <2> QED
      BY <1>1, <1>3, <1>4, <2>1, <2>2
<1> QED
    BY <1>5, <1>6, <1>7

\* No continuation is added.
LEMMA TokensShrink ==
    ASSUME OneToken, \A i, j \in Tokens(bus)' : i = j, \A i, j \in Tokens(inbox)' : i = j,
           Tokens(bus) = {} => Tokens(bus)' = {}, Tokens(inbox) = {} => Tokens(inbox)' = {},
           Starting' => Starting,
           session'.status = "awaiting_user" => session.status = "awaiting_user",
           resumed' = resumed, clicks' = clicks
    PROVE  OneToken'
BY DEF OneToken, TokenQueued

\* The queues stay as they are.
LEMMA TokensSame ==
    ASSUME OneToken, bus' = bus, inbox' = inbox, Starting' => Starting,
           session'.status = "awaiting_user" => session.status = "awaiting_user",
           resumed' = resumed, clicks' = clicks
    PROVE  OneToken'
<1>1. Tokens(bus)' = Tokens(bus) /\ Tokens(inbox)' = Tokens(inbox)
    BY DEF Tokens
<1> QED
    BY <1>1, TokensShrink DEF OneToken

\* An empty queue has nothing in it.
LEMMA EmptyQueue ==
    /\ Tokens(<<>>) = {} /\ Numbers(<<>>) = {} /\ Distinct(<<>>) /\ <<>> \in Seq(Int)
    /\ Users(<<>>) = {} /\ Once(<<>>) /\ (\A A : Closed(<<>>, A)) /\ (\A n : Bounded(<<>>, n))
    /\ \A k : ~Declared(<<>>, k)
<1>1. Len(<<>>) = 0 /\ \A i : i \notin 1..0
    OBVIOUS
<1> QED
    BY <1>1, EmptySeq
    DEF Tokens, Numbers, Distinct, Users, Once, Closed, Bounded, Declared

(***************************************************************************)
(* Types, and one continuation for a click.                                *)
(***************************************************************************)
\* A worker that runs or waits means that the gateway is up.
LEMMA WorkerUp ==
    ASSUME Basis, worker.pc # "none"
    PROVE  up = "up"
<1>1. worker # NoWorker
    BY DEF NoWorker
<1> QED
    BY <1>1 DEF Basis, Types, Quiet

\* What Basis says of the session and the worker.
LEMMA BasisIs ==
    ASSUME Basis
    PROVE  /\ session \in Sessions /\ worker \in Workers
           /\ bus \in Seq(Int) /\ inbox \in Seq(Int \ {0}) /\ inbox \in Seq(Int)
           /\ session.msgs \in Seq(Rows) /\ session.journal \in Seq(Nat \ {0})
           /\ session.journal \in Seq(Int)
           /\ worker.pc \in Pcs /\ worker.msg \in Int /\ worker.rows \in Seq(Rows)
           /\ session.rid \in Nat /\ faults \in Nat
<1>1. /\ session \in Sessions /\ worker \in Workers
      /\ bus \in Seq(Int) /\ inbox \in Seq(Int \ {0})
    BY DEF Basis, Types
<1>2. inbox \in Seq(Int)
    BY <1>1, SeqMonotonic
<1>3. session.msgs \in Seq(Rows) /\ session.journal \in Seq(Nat \ {0}) /\ session.rid \in Nat
    BY <1>1, SessionFields
<1>4. session.journal \in Seq(Int)
    BY <1>3, SeqMonotonic
<1>5. worker.pc \in Pcs /\ worker.msg \in Int /\ worker.rows \in Seq(Rows)
    BY <1>1, WorkerEdits
<1>6. faults \in Nat
    BY RecoveryAssumption DEF Basis, Types
<1> QED
    BY <1>1, <1>2, <1>3, <1>4, <1>5, <1>6

\* The user sends a message.
LEMMA UserSendsBasis ==
    ASSUME Basis, UserSends
    PROVE  Basis'
<1>1. bus \in Seq(Int) /\ sent \in Nat /\ up = "up"
    BY DEF Basis, Types, UserSends
<1>2. bus' = Append(bus, sent + 1) /\ sent' = sent + 1 /\ sent + 1 \in Int /\ sent + 1 >= 0
    BY <1>1 DEF UserSends
<1>3. bus' \in Seq(Int) /\ Tokens(bus') = Tokens(bus)
    BY <1>1, <1>2, AppendQueue
<1>4. UNCHANGED <<up, session, inbox, worker, late, goal, tools, latest, journaled, clicks,
                  resumed, faults>>
    BY DEF UserSends
<1>5. Types'
    BY <1>2, <1>3, <1>4 DEF Basis, Types
<1>6. Quiet'
    BY <1>1, <1>4 DEF Basis, Quiet
<1>7. OneToken'
    BY <1>3, <1>4 DEF Basis, OneToken, TokenQueued, Starting
<1> QED
    BY <1>5, <1>6, <1>7 DEF Basis

\* A user's message is routed.
LEMMA RouteMessageBasis ==
    ASSUME Basis, NEW m \in 1..MaxMsgs, RouteMessage(m)
    PROVE  Basis'
<1>1. /\ up = "up" /\ bus # <<>> /\ m = Head(bus) /\ bus' = Tail(bus)
      /\ UNCHANGED <<up, late, goal, sent, tools, latest, clicks, resumed, faults>>
    BY RouteMessageIs DEF Basis
<1>2. PICK s \in Sessions, w \in Workers, q \in Seq(Int \ {0}) :
          /\ Enqueue(m, s, w, q) /\ (w.pc = "none" => q = <<>>)
          /\ Grows(session, s) /\ s.rid = session.rid
          /\ s.status = session.status \/ s.status \notin Open
          /\ \/ w = worker /\ q = inbox
             \/ w = NoWorker /\ q = <<>>
    BY RouteMessageIs DEF Basis
<1>3. /\ session \in Sessions /\ worker \in Workers /\ bus \in Seq(Int) /\ inbox \in Seq(Int)
    BY BasisIs
<1>4. m \in Nat \ {0} /\ m \in Int \ {0} /\ m \in Int /\ m >= 0
    BY RecoveryAssumption
<1>5. q \in Seq(Int)
    BY SeqMonotonic
<1>6. /\ session' \in Sessions /\ session'.status = s.status /\ session'.rid = s.rid
      /\ inbox' = Append(q, m)
      /\ \/ w.pc = "none" /\ worker' = [w EXCEPT !.pc = "idle"]
         \/ w.pc # "none" /\ worker' = w
      /\ \/ journaled' = journaled
         \/ m > 0 /\ journaled' = journaled \cup {m} /\ m \in Numbers(session'.journal)
    BY <1>2, <1>4, EnqueueIs
<1>7. /\ inbox' \in Seq(Int \ {0}) /\ Tokens(inbox') = Tokens(q)
    BY <1>4, <1>5, <1>6, AppendQueue, AppendProperties
<1>8. /\ bus' \in Seq(Int) /\ (Tokens(bus) = {} => Tokens(bus') = {})
      /\ (\A i, j \in Tokens(bus) : i = j) => \A i, j \in Tokens(bus') : i = j
    BY <1>1, <1>3, TailQueue
<1>9. "idle" \in Pcs
    BY DEF Pcs
<1>10. /\ worker' \in Workers /\ worker'.rows = w.rows
       /\ worker'.pc # "none" /\ worker'.pc \in {w.pc, "idle"} /\ worker'.msg = w.msg
  <2>1. LET v == [w EXCEPT !.pc = "idle"]
        IN  v \in Workers /\ v.pc = "idle" /\ v.msg = w.msg /\ v.rows = w.rows
      BY <1>9, WorkerEdits, Zenon
  <2>2. CASE w.pc = "none" /\ worker' = [w EXCEPT !.pc = "idle"]
      BY <2>1, <2>2
  <2>3. CASE w.pc # "none" /\ worker' = w
      BY <2>3
  <2> QED
      BY <1>6, <2>2, <2>3
<1>11. Types'
    BY <1>1, <1>4, <1>6, <1>7, <1>8, <1>10 DEF Basis, Types
<1>12. w = worker \/ (w.pc = "none" /\ w.rows = <<>>)
    BY <1>2, <1>3, WorkerEdits
<1>13. Quiet'
  <2>1. up' # "down" /\ session'.rid <= faults'
      BY <1>1, <1>2, <1>6 DEF Basis, Quiet
  <2>2. worker'.pc \in {"none", "idle", "locked", "restored"} => worker'.rows = <<>>
      BY <1>6, <1>10, <1>12 DEF Basis, Quiet
  <2>3. worker'.pc \in {"locked", "restored"} => worker'.msg # 0
      BY <1>6, <1>10, <1>12 DEF Basis, Quiet
  <2>4. worker'.pc \in {"tool", "ran"} => worker'.rows # <<>>
      BY <1>6, <1>10, <1>12 DEF Basis, Quiet
  <2> QED
      BY <1>10, <2>1, <2>2, <2>3, <2>4 DEF Quiet
<1>14. OneToken'
  <2>1. Starting' => Starting
      BY <1>6, <1>10, <1>12 DEF Starting
  <2>2. session'.status = "awaiting_user" => session.status = "awaiting_user"
      BY <1>2, <1>6 DEF Open
  <2>3. (\A i, j \in Tokens(inbox)' : i = j) /\ (Tokens(inbox) = {} => Tokens(inbox)' = {})
      BY <1>2, <1>7, EmptyQueue DEF Basis, OneToken
  <2>4. (\A i, j \in Tokens(bus)' : i = j) /\ (Tokens(bus) = {} => Tokens(bus)' = {})
      BY <1>8 DEF Basis, OneToken
  <2> QED
      BY <1>1, <2>1, <2>2, <2>3, <2>4, TokensShrink DEF Basis
<1> QED
    BY <1>11, <1>13, <1>14 DEF Basis

\* A continuation is routed.
LEMMA RouteContinuationBasis ==
    ASSUME Basis, NEW rid \in 1..MaxFaults, RouteContinuation(Continuation(rid))
    PROVE  Basis'
<1> DEFINE m == Continuation(rid)
<1>1. /\ up = "up" /\ bus # <<>> /\ m = Head(bus) /\ bus' = Tail(bus)
      /\ UNCHANGED <<up, late, goal, sent, tools, latest, clicks, resumed, faults>>
    BY DEF RouteContinuation, Routes
<1>2. UNCHANGED <<session, inbox, worker, journaled>> \/ Enqueue(m, session, worker, inbox)
    BY DEF RouteContinuation
<1>3. m \in Int \ {0} /\ m \in Int /\ m < 0
    BY RecoveryAssumption DEF Continuation
<1> HIDE DEF m
<1>4. /\ session \in Sessions /\ worker \in Workers /\ bus \in Seq(Int) /\ inbox \in Seq(Int)
      /\ inbox \in Seq(Int \ {0})
    BY BasisIs
<1>5. /\ bus' \in Seq(Int) /\ (Tokens(bus) = {} => Tokens(bus') = {} /\ m >= 0)
      /\ (\A i, j \in Tokens(bus) : i = j) => Tokens(bus') = {}
    BY <1>1, <1>3, <1>4, TailQueue
<1>6. Tokens(bus) # {} /\ Tokens(bus') = {} /\ Tokens(inbox) = {} /\ ~Starting
      /\ session.status # "awaiting_user" /\ resumed < clicks
    BY <1>3, <1>5 DEF Basis, OneToken, TokenQueued
<1>7. CASE UNCHANGED <<session, inbox, worker, journaled>>
  <2>1. Types'
      BY <1>1, <1>5, <1>7 DEF Basis, Types
  <2>2. Quiet'
      BY <1>1, <1>7 DEF Basis, Quiet
  <2>3. OneToken'
      BY <1>1, <1>6, <1>7 DEF Basis, OneToken, TokenQueued, Starting
  <2> QED
      BY <2>1, <2>2, <2>3 DEF Basis
<1>8. CASE Enqueue(m, session, worker, inbox)
  <2>1. worker.pc = "none" => inbox = <<>>
      BY DEF Basis, Quiet
  <2>2. /\ session' \in Sessions /\ session'.status = session.status
        /\ session'.rid = session.rid /\ inbox' = Append(inbox, m)
        /\ \/ worker.pc = "none" /\ worker' = [worker EXCEPT !.pc = "idle"]
           \/ worker.pc # "none" /\ worker' = worker
        /\ journaled' = journaled
      BY <1>3, <1>4, <1>8, <2>1, EnqueueIs
  <2>3. /\ inbox' \in Seq(Int \ {0}) /\ \A i, j \in Tokens(inbox') : i = j
      BY <1>3, <1>4, <1>6, <2>2, AppendQueue, AppendProperties
  <2>4. "idle" \in Pcs
      BY DEF Pcs
  <2>5. /\ worker' \in Workers /\ worker'.rows = worker.rows
        /\ worker'.pc # "none" /\ worker'.pc \in {worker.pc, "idle"} /\ worker'.msg = worker.msg
        /\ worker'.pc = "idle" => worker.pc \in {"none", "idle"}
    <3>1. LET v == [worker EXCEPT !.pc = "idle"]
          IN  v \in Workers /\ v.pc = "idle" /\ v.msg = worker.msg /\ v.rows = worker.rows
        BY <1>4, <2>4, WorkerEdits, Zenon
    <3>2. CASE worker.pc = "none" /\ worker' = [worker EXCEPT !.pc = "idle"]
        BY <3>1, <3>2
    <3>3. CASE worker.pc # "none" /\ worker' = worker
        BY <1>4, <3>3
    <3> QED
        BY <2>2, <3>2, <3>3
  <2>6. Types'
      BY <1>1, <1>5, <2>2, <2>3, <2>5 DEF Basis, Types
  <2>7. Quiet'
    <3>1. up' # "down" /\ session'.rid <= faults'
        BY <1>1, <2>2 DEF Basis, Quiet
    <3> QED
        BY <2>5, <3>1 DEF Basis, Quiet
  <2>8. OneToken'
    <3>1. ~Starting'
        BY <1>6, <2>5 DEF Starting
    <3> QED
        BY <1>1, <1>6, <2>2, <2>3, <3>1 DEF Basis, OneToken, TokenQueued
  <2> QED
      BY <2>6, <2>7, <2>8 DEF Basis
<1> QED
    BY <1>2, <1>7, <1>8

\* A step that leaves the queues alone.
LEMMA SameQueues ==
    ASSUME Basis, up = "up", session' \in Sessions, worker' \in Workers,
           session'.rid = session.rid,
           session'.status = "awaiting_user" => session.status = "awaiting_user",
           Starting' => Starting,
           worker'.pc = "none" => inbox = <<>>,
           worker'.pc \in {"none", "idle", "locked", "restored"} => worker'.rows = <<>>,
           worker'.pc \in {"locked", "restored"} => worker'.msg # 0,
           worker'.pc \in {"tool", "ran"} => worker'.rows # <<>>,
           UNCHANGED <<up, bus, inbox, goal, sent, journaled, clicks, resumed>>,
           late' \subseteq late, tools' \in Nat, faults' \in 0..MaxFaults, faults' >= faults
    PROVE  Basis'
<1>1. Types'
    BY DEF Basis, Types
<1>2. session.rid \in Nat /\ faults \in Nat /\ faults' \in Nat
    BY BasisIs, RecoveryAssumption
<1>3. session'.rid <= faults'
    BY <1>2 DEF Basis, Quiet
<1>4. Quiet'
    BY <1>3 DEF Quiet
<1>5. OneToken'
    BY TokensSame DEF Basis
<1> QED
    BY <1>1, <1>4, <1>5 DEF Basis

\* The worker is gone.
LEMMA WorkerExitsBasis ==
    ASSUME Basis, WorkerExits
    PROVE  Basis'
<1>1. /\ worker.pc = "idle" /\ inbox = <<>> /\ worker' = NoWorker
      /\ UNCHANGED <<up, session, bus, inbox, late, goal, sent, tools, journaled, clicks,
                     resumed, faults>>
    BY DEF WorkerExits, env
<1>2. up = "up" /\ session \in Sessions /\ worker \in Workers /\ faults \in Nat
    BY <1>1, WorkerUp, BasisIs
<1>3. worker' \in Workers /\ worker'.pc = "none" /\ worker'.rows = <<>>
    BY <1>1, <1>2, WorkerEdits
<1>4. ~Starting'
    BY <1>3 DEF Starting
<1>5. tools' \in Nat /\ faults' \in 0..MaxFaults /\ faults' >= faults
    BY <1>1, <1>2 DEF Basis, Types
<1> QED
    BY <1>1, <1>2, <1>3, <1>4, <1>5, SameQueues

\* A continuation of a session that has no goal is dropped.
LEMMA DropContinuationBasis ==
    ASSUME Basis, DropContinuation
    PROVE  Basis'
<1>1. /\ worker.pc = "locked" /\ worker' = [NoWorker EXCEPT !.pc = "idle"]
      /\ UNCHANGED <<up, session, bus, inbox, late, goal, sent, tools, journaled, clicks,
                     resumed, faults>>
    BY DEF DropContinuation, env
<1>2. up = "up" /\ session \in Sessions /\ worker \in Workers /\ faults \in Nat
    BY <1>1, WorkerUp, BasisIs
<1>3. worker' \in Workers /\ worker'.pc = "idle" /\ worker'.rows = <<>>
    BY <1>1, <1>2, WorkerEdits, Zenon
<1>4. ~Starting'
    BY <1>3 DEF Starting
<1>5. tools' \in Nat /\ faults' \in 0..MaxFaults /\ faults' >= faults
    BY <1>1, <1>2 DEF Basis, Types
<1> QED
    BY <1>1, <1>2, <1>3, <1>4, <1>5, SameQueues

\* What _build_turn writes for a user's message.
LEMMA BuildTurnIs ==
    ASSUME Basis, BuildTurn
    PROVE  /\ up = "up" /\ worker.pc = "restored" /\ worker.rows = <<>> /\ worker.msg # 0
           /\ worker' \in Workers /\ worker'.pc = "request" /\ worker'.msg = worker.msg
           /\ worker'.rows = <<>>
           /\ session' \in Sessions /\ session'.rid = session.rid
           /\ session'.status = session.status /\ session'.checkpoint = session.checkpoint
           /\ worker.msg < 0 => session' = session
           /\ worker.msg > 0 =>
                 /\ session'.msgs = Append(session.msgs, Row("user", worker.msg))
                 /\ session'.journal = Without(session.journal, {worker.msg})
           /\ UNCHANGED <<up, bus, inbox, late, env>>
<1>1. /\ worker.pc = "restored" /\ worker' = [worker EXCEPT !.pc = "request"]
      /\ UNCHANGED <<up, bus, inbox, late, env>>
    BY DEF BuildTurn
<1>2. /\ session \in Sessions /\ worker \in Workers /\ worker.msg \in Int
      /\ session.msgs \in Seq(Rows) /\ session.journal \in Seq(Nat \ {0})
    BY BasisIs
<1>3. up = "up" /\ worker.rows = <<>> /\ worker.msg # 0
    BY <1>1, WorkerUp DEF Basis, Quiet
<1>4. worker' \in Workers /\ worker'.pc = "request" /\ worker'.msg = worker.msg
      /\ worker'.rows = worker.rows
  <2>1. "request" \in Pcs
      BY DEF Pcs
  <2> QED
      BY <1>1, <1>2, <2>1, WorkerPc
<1>5. CASE worker.msg < 0
  <2>1. session' = session
      BY <1>5 DEF BuildTurn, IsContinuation
  <2> QED
      BY <1>1, <1>2, <1>3, <1>4, <1>5, <2>1
<1>6. CASE worker.msg > 0
  <2> DEFINE msgs == Append(session.msgs, Row("user", worker.msg))
             j == Without(session.journal, {worker.msg})
  <2>1. session' = [session EXCEPT !.msgs = msgs, !.pending = TRUE, !.journal = j]
      BY <1>2, <1>6 DEF BuildTurn, IsContinuation
  <2>2. Row("user", worker.msg) \in Rows
      BY <1>2, RowTypes DEF Kinds
  <2>3. msgs \in Seq(Rows) /\ j \in Seq(Nat \ {0})
      BY <1>2, <2>2, AppendProperties, WithoutIs
  <2> HIDE DEF msgs, j
  <2>4. LET r == [session EXCEPT !.msgs = msgs, !.pending = TRUE, !.journal = j]
        IN  /\ r \in Sessions /\ r.checkpoint = session.checkpoint /\ r.msgs = msgs
            /\ r.journal = j /\ r.status = session.status /\ r.rid = session.rid
      BY <1>2, <2>3 DEF Sessions
  <2> QED
      BY <1>1, <1>2, <1>3, <1>4, <1>6, <2>1, <2>4 DEF msgs, j
<1> QED
    BY <1>2, <1>3, <1>5, <1>6

\* The user's message becomes a row.
LEMMA BuildTurnBasis ==
    ASSUME Basis, BuildTurn
    PROVE  Basis'
<1>1. /\ up = "up" /\ worker' \in Workers /\ worker'.pc = "request"
      /\ session' \in Sessions /\ session'.rid = session.rid
      /\ session'.status = session.status
      /\ UNCHANGED <<up, bus, inbox, late, env>>
    BY BuildTurnIs
<1>2. UNCHANGED <<goal, sent, tools, journaled, clicks, resumed, faults>>
    BY <1>1 DEF env
<1>3. ~Starting'
    BY <1>1 DEF Starting
<1>4. tools' \in Nat /\ faults' \in 0..MaxFaults /\ faults' >= faults
    BY <1>2, BasisIs DEF Basis, Types
<1> QED
    BY <1>1, <1>2, <1>3, <1>4, SameQueues

\* What a call of the model writes.
LEMMA ModelCallsToolIs ==
    ASSUME Basis, ModelCallsTool
    PROVE  /\ up = "up" /\ worker.pc = "request" /\ tools \in Nat /\ tools' = tools + 1
           /\ worker' \in Workers /\ worker'.pc = "tool" /\ worker'.msg = worker.msg
           /\ worker'.rows = Append(worker.rows, Row("call", tools'))
           /\ Row("call", tools') \in Rows
           /\ session' \in Sessions /\ session'.rid = session.rid
           /\ session'.status = session.status /\ session'.msgs = session.msgs
           /\ session'.journal = session.journal
           /\ session'.checkpoint = [phase |-> "awaiting_tools", id |-> tools']
           /\ latest' = 0
           /\ UNCHANGED <<up, bus, inbox, late, goal, sent, journaled, clicks, resumed, faults>>
<1> DEFINE c == [phase |-> "awaiting_tools", id |-> tools']
           rows == Append(worker.rows, Row("call", tools'))
<1>1. /\ worker.pc = "request" /\ tools' = tools + 1
      /\ worker' = [worker EXCEPT !.pc = "tool", !.rows = rows]
      /\ session' = [session EXCEPT !.checkpoint = c] /\ latest' = 0
      /\ UNCHANGED <<up, bus, inbox, late, goal, sent, journaled, clicks, resumed, faults>>
    BY DEF ModelCallsTool, Emit
<1>2. up = "up" /\ session \in Sessions /\ worker \in Workers /\ worker.rows \in Seq(Rows)
    BY <1>1, WorkerUp, BasisIs
<1>3. tools \in Nat /\ tools' \in Nat
    BY <1>1 DEF Basis, Types
<1>4. c \in Checkpoints
    BY <1>3 DEF Checkpoints, Phases
<1>5. Row("call", tools') \in Rows
    BY <1>3, RowTypes DEF Kinds
<1>6. rows \in Seq(Rows)
    BY <1>2, <1>5, AppendProperties
<1> HIDE DEF c, rows
<1>7. /\ session' \in Sessions /\ session'.checkpoint = c /\ session'.msgs = session.msgs
      /\ session'.journal = session.journal /\ session'.status = session.status
      /\ session'.rid = session.rid
    BY <1>1, <1>2, <1>4, SessionCheckpoint
<1>8. "tool" \in Pcs
    BY DEF Pcs
<1>9. worker' \in Workers /\ worker'.pc = "tool" /\ worker'.msg = worker.msg
      /\ worker'.rows = rows
  <2>1. worker' = [worker EXCEPT !.pc = "tool", !.rows = rows]
      BY <1>1
  <2> QED
      BY <1>2, <1>6, <1>8, <2>1 DEF Workers
<1> QED
    BY <1>1, <1>2, <1>3, <1>5, <1>7, <1>9 DEF c, rows

\* The model calls a tool.
LEMMA ModelCallsToolBasis ==
    ASSUME Basis, ModelCallsTool
    PROVE  Basis'
<1>1. /\ up = "up" /\ worker' \in Workers /\ worker'.pc = "tool" /\ tools \in Nat
      /\ tools' = tools + 1 /\ session' \in Sessions /\ session'.rid = session.rid
      /\ session'.status = session.status
      /\ worker'.rows = Append(worker.rows, Row("call", tools'))
      /\ Row("call", tools') \in Rows
      /\ UNCHANGED <<up, bus, inbox, late, goal, sent, journaled, clicks, resumed, faults>>
    BY ModelCallsToolIs
<1>2. ~Starting' /\ worker'.rows # <<>>
  <2>1. worker.rows \in Seq(Rows)
      BY BasisIs
  <2>2. worker'.rows # <<>>
      BY <1>1, <2>1, AppendProperties
  <2> QED
      BY <1>1, <2>2 DEF Starting
<1>3. tools' \in Nat /\ faults' \in 0..MaxFaults /\ faults' >= faults
    BY <1>1, BasisIs DEF Basis, Types
<1> QED
    BY <1>1, <1>2, <1>3, SameQueues

\* The tool runs.
LEMMA ToolRunsBasis ==
    ASSUME Basis, ToolRuns
    PROVE  Basis'
<1>1. /\ worker.pc = "tool" /\ worker' = [worker EXCEPT !.pc = "ran"]
      /\ UNCHANGED <<up, session, bus, inbox, late, goal, sent, tools, journaled, clicks,
                     resumed, faults>>
    BY DEF ToolRuns
<1>2. up = "up" /\ session \in Sessions /\ worker \in Workers /\ faults \in Nat /\ "ran" \in Pcs
    BY <1>1, WorkerUp, BasisIs DEF Pcs
<1>3. worker' \in Workers /\ worker'.pc = "ran" /\ worker'.rows = worker.rows
    BY <1>1, <1>2, WorkerPc
<1>6. worker'.rows # <<>>
    BY <1>1, <1>3 DEF Basis, Quiet
<1>4. ~Starting'
    BY <1>3 DEF Starting
<1>5. tools' \in Nat /\ faults' \in 0..MaxFaults /\ faults' >= faults
    BY <1>1, <1>2 DEF Basis, Types
<1> QED
    BY <1>1, <1>2, <1>3, <1>4, <1>5, <1>6, SameQueues

\* The tool is a question to the user.
LEMMA AsksUserBasis ==
    ASSUME Basis, AsksUser
    PROVE  Basis'
<1>1. /\ worker.pc = "ran" /\ worker' = [worker EXCEPT !.pc = "final"]
      /\ UNCHANGED <<up, session, bus, inbox, late, goal, sent, tools, journaled, clicks,
                     resumed, faults>>
    BY DEF AsksUser
<1>2. up = "up" /\ session \in Sessions /\ worker \in Workers /\ faults \in Nat /\ "final" \in Pcs
    BY <1>1, WorkerUp, BasisIs DEF Pcs
<1>3. worker' \in Workers /\ worker'.pc = "final"
    BY <1>1, <1>2, WorkerPc
<1>4. ~Starting'
    BY <1>3 DEF Starting
<1>5. tools' \in Nat /\ faults' \in 0..MaxFaults /\ faults' >= faults
    BY <1>1, <1>2 DEF Basis, Types
<1> QED
    BY <1>1, <1>2, <1>3, <1>4, <1>5, SameQueues

\* What _persist_turn writes.
LEMMA PersistTurnIs ==
    ASSUME Basis, PersistTurn
    PROVE  /\ up = "up" /\ worker.pc = "final"
           /\ worker' \in Workers /\ worker'.pc = "saved" /\ worker'.rows = worker.rows
           /\ worker'.msg = worker.msg
           /\ session' \in Sessions /\ session'.rid = session.rid
           /\ session'.status = session.status
           /\ session'.msgs = Saved(session.msgs, worker.rows)
           /\ session'.journal = Without(session.journal, Users(worker.rows))
           /\ session'.checkpoint = NoCheckpoint
           /\ UNCHANGED <<up, bus, inbox, late, env>>
<1> DEFINE msgs == Saved(session.msgs, worker.rows)
           j == Without(session.journal, Users(worker.rows))
<1>1. /\ worker.pc = "final" /\ worker' = [worker EXCEPT !.pc = "saved"]
      /\ session' = [session EXCEPT !.msgs = msgs, !.journal = j, !.pending = FALSE,
                                    !.checkpoint = NoCheckpoint]
      /\ UNCHANGED <<up, bus, inbox, late, env>>
    BY DEF PersistTurn
<1>2. /\ session \in Sessions /\ worker \in Workers /\ worker.rows \in Seq(Rows)
      /\ session.msgs \in Seq(Rows) /\ session.journal \in Seq(Nat \ {0}) /\ "saved" \in Pcs
    BY BasisIs DEF Pcs
<1>3. up = "up"
    BY <1>1, WorkerUp
<1>4. msgs \in Seq(Rows) /\ j \in Seq(Nat \ {0})
    BY <1>2, SavedIs, WithoutIs
<1> HIDE DEF msgs, j
<1>5. /\ session' \in Sessions /\ session'.checkpoint = NoCheckpoint /\ session'.msgs = msgs
      /\ session'.journal = j /\ session'.status = session.status
      /\ session'.rid = session.rid
  <2>1. session' = [session EXCEPT !.msgs = msgs, !.journal = j, !.pending = FALSE,
                                   !.checkpoint = NoCheckpoint]
      BY <1>1
  <2>2. NoCheckpoint \in Checkpoints
      BY DEF Checkpoints
  <2> QED
      BY <1>2, <1>4, <2>1, <2>2 DEF Sessions
<1>6. worker' \in Workers /\ worker'.pc = "saved" /\ worker'.msg = worker.msg
      /\ worker'.rows = worker.rows
    BY <1>1, <1>2, WorkerPc
<1> QED
    BY <1>1, <1>3, <1>5, <1>6 DEF msgs, j

\* The rows of the turn are saved.
LEMMA PersistTurnBasis ==
    ASSUME Basis, PersistTurn
    PROVE  Basis'
<1>1. /\ up = "up" /\ worker' \in Workers /\ worker'.pc = "saved"
      /\ session' \in Sessions /\ session'.rid = session.rid
      /\ session'.status = session.status
      /\ UNCHANGED <<up, bus, inbox, late, env>>
    BY PersistTurnIs
<1>2. UNCHANGED <<goal, sent, tools, journaled, clicks, resumed, faults>>
    BY <1>1 DEF env
<1>3. ~Starting'
    BY <1>1 DEF Starting
<1>4. tools' \in Nat /\ faults' \in 0..MaxFaults /\ faults' >= faults
    BY <1>2, BasisIs DEF Basis, Types
<1> QED
    BY <1>1, <1>2, <1>3, <1>4, SameQueues

\* What the end of a turn leaves, completed or failed.
LEMMA TurnEndsIs ==
    ASSUME Basis, CompleteTurn \/ TurnFails
    PROVE  /\ up = "up"
           /\ worker.pc \in {"saved", "restored", "request", "tool", "ran"}
           /\ worker' \in Workers /\ worker'.pc = "idle" /\ worker'.rows = <<>>
           /\ worker'.msg = 0
           /\ Grows(session, session') /\ session'.rid = session.rid
           /\ session'.msgs = session.msgs /\ session'.checkpoint = session.checkpoint
           /\ session'.status # "resuming"
           /\ session'.status = "awaiting_user" => session.status = "awaiting_user"
           /\ UNCHANGED <<up, bus, inbox, late, goal, sent, tools, latest, journaled, clicks,
                          resumed>>
           /\ faults' \in 0..MaxFaults /\ faults' >= faults
<1>1. /\ worker.pc \in {"saved", "restored", "request", "tool", "ran"}
      /\ session' = Completed(session) /\ worker' = [NoWorker EXCEPT !.pc = "idle"]
      /\ UNCHANGED <<up, bus, inbox, late, goal, sent, tools, latest, journaled, clicks, resumed>>
      /\ (faults' = faults \/ (faults < MaxFaults /\ faults' = faults + 1))
    BY DEF CompleteTurn, TurnFails, env
<1>2. session \in Sessions /\ worker \in Workers /\ faults \in Nat /\ faults \in 0..MaxFaults
    BY BasisIs DEF Basis, Types
<1>3. up = "up"
    BY <1>1, WorkerUp
<1>4. worker' \in Workers /\ worker'.pc = "idle" /\ worker'.rows = <<>> /\ worker'.msg = 0
    BY <1>1, <1>2, WorkerEdits, Zenon
<1>5. /\ Grows(session, session') /\ session'.rid = session.rid
      /\ session'.msgs = session.msgs /\ session'.checkpoint = session.checkpoint
      /\ session'.status # "resuming"
      /\ session'.status = "awaiting_user" => session.status = "awaiting_user"
    BY <1>1, <1>2, CompletedGrows
<1>6. faults' \in 0..MaxFaults /\ faults' >= faults
    BY <1>1, <1>2, RecoveryAssumption
<1> QED
    BY <1>1, <1>3, <1>4, <1>5, <1>6

\* A turn is over.
LEMMA TurnEndsBasis ==
    ASSUME Basis, CompleteTurn \/ TurnFails
    PROVE  Basis'
<1>1. /\ up = "up" /\ worker' \in Workers /\ worker'.pc = "idle" /\ worker'.rows = <<>>
      /\ Grows(session, session') /\ session'.rid = session.rid
      /\ session'.status = "awaiting_user" => session.status = "awaiting_user"
      /\ UNCHANGED <<up, bus, inbox, late, goal, sent, tools, latest, journaled, clicks, resumed>>
      /\ faults' \in 0..MaxFaults /\ faults' >= faults
    BY TurnEndsIs
<1>2. ~Starting'
    BY <1>1 DEF Starting
<1>3. tools' \in Nat /\ session' \in Sessions
    BY <1>1 DEF Basis, Types, Grows
<1> QED
    BY <1>1, <1>2, <1>3, SameQueues

\* What is injected, and what is left in the inbox.
LEMMA InjectedIs ==
    ASSUME Basis, NEW q, q = SubSeq(inbox, Len(Injectable) + 1, Len(inbox))
    PROVE  /\ Injected \in Seq(Rows) /\ \A i \in 1..Len(Injected) : Injected[i].kind = "user"
           /\ q \in Seq(Int \ {0})
           /\ \A x \in Users(Injected) : x \in Numbers(inbox)
           /\ \A x \in Numbers(q) : x \in Numbers(inbox)
           /\ Distinct(inbox) =>
                 Once(Injected) /\ Distinct(q) /\ Disjoint(Users(Injected), Numbers(q))
           /\ Tokens(inbox) = {} => Tokens(q) = {}
           /\ \A i, j \in Tokens(q) : i = j
<1>1. inbox \in Seq(Int) /\ inbox \in Seq(Int \ {0}) /\ \A i, j \in Tokens(inbox) : i = j
    BY BasisIs DEF Basis, OneToken
<1>2. PICK n \in 0..Len(inbox) : Injectable = SubSeq(inbox, 1, n) /\ \A i \in 1..n : inbox[i] > 0
    BY <1>1, InjectableIs
<1> DEFINE a == SubSeq(inbox, 1, n)
           b == SubSeq(inbox, n + 1, Len(inbox))
<1>3. /\ a \in Seq(Int) /\ b \in Seq(Int) /\ Len(a) = n
      /\ \A i \in 1..n : a[i] = inbox[i]
      /\ \A x \in Numbers(a) : x \in Numbers(inbox)
      /\ \A x \in Numbers(b) : x \in Numbers(inbox)
      /\ Distinct(inbox) => Distinct(a) /\ Distinct(b) /\ Disjoint(Numbers(a), Numbers(b))
      /\ Tokens(inbox) = {} => Tokens(b) = {}
      /\ (\A i, j \in Tokens(inbox) : i = j) => \A i, j \in Tokens(b) : i = j
    BY <1>1, SplitQueue
<1>4. b \in Seq(Int \ {0})
  <2>1. \A i \in (n + 1)..Len(inbox) : inbox[i] \in Int \ {0}
      BY <1>1, ElementOfSeq
  <2>2. n + 1 \in Int /\ Len(inbox) \in Int
      BY <1>1, LenProperties
  <2> QED
      BY <2>1, <2>2, SubSeqProperties
<1>5. q = b
    BY <1>2, <1>3
<1>6. Injected = [i \in 1..Len(a) |-> Row("user", a[i])]
    BY <1>2 DEF Injected
<1> HIDE DEF a, b
<1>7. \A i \in 1..Len(a) : a[i] > 0
    BY <1>2, <1>3
<1>8. /\ Injected \in Seq(Rows) /\ \A i \in 1..Len(Injected) : Injected[i].kind = "user"
      /\ Users(Injected) = Numbers(a) /\ (Distinct(a) => Once(Injected))
    BY <1>3, <1>6, <1>7, InjectedRows
<1> QED
    BY <1>1, <1>3, <1>4, <1>5, <1>8

\* What a request that goes on writes: after a tool, or after an answer.
LEMMA TurnGoesOnIs ==
    ASSUME Basis, ToolDone \/ ModelAnswers
    PROVE  /\ up = "up" /\ worker.pc \in {"ran", "request"}
           /\ worker' \in Workers /\ worker'.msg = worker.msg
           /\ worker'.pc \in {"request", "final"}
           /\ ToolDone => worker.pc = "ran" /\ worker'.pc = "request" /\ latest' = latest
           /\ ModelAnswers => worker.pc = "request" /\ latest' = 0
           /\ \E row \in Rows :
                 /\ worker'.rows = (worker.rows \o <<row>>) \o Injected
                 /\ ToolDone => row = Row("result", Last(worker.rows).id)
                 /\ ModelAnswers => row.kind = "answer"
           /\ Last(worker.rows).id \in Int \/ worker.pc = "request"
           /\ session' \in Sessions /\ session'.rid = session.rid
           /\ session'.status = session.status /\ session'.msgs = session.msgs
           /\ session'.journal = session.journal
           /\ ToolDone => session'.checkpoint =
                            [phase |-> "tools_completed", id |-> Last(worker.rows).id]
           /\ ModelAnswers => session'.checkpoint.phase = "final_response"
           /\ inbox' = SubSeq(inbox, Len(Injectable) + 1, Len(inbox))
           /\ UNCHANGED <<up, bus, late, goal, sent, tools, journaled, clicks, resumed, faults>>
<1>1. /\ session \in Sessions /\ worker \in Workers /\ worker.rows \in Seq(Rows)
      /\ worker.msg \in Int
    BY BasisIs
<1>2. Injected \in Seq(Rows)
    BY InjectedIs
<1>3. {"request", "final"} \subseteq Pcs
    BY DEF Pcs
<1>4. CASE ToolDone
  <2> DEFINE k == Last(worker.rows).id
             c == [phase |-> "tools_completed", id |-> k]
             row == Row("result", k)
             rows == Append(worker.rows, row) \o Injected
  <2>1. /\ worker.pc = "ran" /\ session' = [session EXCEPT !.checkpoint = c]
        /\ worker' = [worker EXCEPT !.pc = "request", !.rows = rows]
        /\ inbox' = SubSeq(inbox, Len(Injectable) + 1, Len(inbox))
        /\ UNCHANGED <<up, bus, late, env>>
      BY <1>4 DEF ToolDone, Emit
  <2>2. up = "up" /\ worker.rows # <<>>
      BY <2>1, WorkerUp DEF Basis, Quiet
  <2>3. k \in Int
    <3>1. Len(worker.rows) \in 1..Len(worker.rows)
        BY <1>1, <2>2, EmptySeq, LenProperties
    <3>2. worker.rows[Len(worker.rows)] \in Rows
        BY <1>1, <3>1, ElementOfSeq
    <3> QED
        BY <3>2 DEF Last, Rows
  <2>4. c \in Checkpoints
      BY <2>3 DEF Checkpoints, Phases
  <2>5. row \in Rows
      BY <2>3, RowTypes DEF Kinds
  <2> HIDE DEF row, c
  <2>6. Append(worker.rows, row) = worker.rows \o <<row>> /\ <<row>> \in Seq(Rows)
      BY <1>1, <2>5, OneRow
  <2>7. rows = (worker.rows \o <<row>>) \o Injected /\ rows \in Seq(Rows)
      BY <1>1, <1>2, <2>6, ConcatProperties
  <2> HIDE DEF rows
  <2>8. /\ session' \in Sessions /\ session'.checkpoint = c /\ session'.msgs = session.msgs
        /\ session'.journal = session.journal /\ session'.status = session.status
        /\ session'.rid = session.rid
    <3>1. session' = [session EXCEPT !.checkpoint = c]
        BY <2>1
    <3> QED
        BY <1>1, <2>4, <3>1 DEF Sessions
  <2>9. worker' \in Workers /\ worker'.pc = "request" /\ worker'.msg = worker.msg
        /\ worker'.rows = rows
    <3>1. worker' = [worker EXCEPT !.pc = "request", !.rows = rows]
        BY <2>1
    <3> QED
        BY <1>1, <1>3, <2>7, <3>1 DEF Workers
  <2>10. UNCHANGED <<up, bus, late, goal, sent, tools, latest, journaled, clicks, resumed, faults>>
      BY <2>1 DEF env
  <2>11. ~ModelAnswers
      BY <2>1 DEF ModelAnswers
  <2> QED
      BY <2>1, <2>2, <2>3, <2>5, <2>7, <2>8, <2>9, <2>10, <2>11, <1>4 DEF row, c
<1>5. CASE ModelAnswers
  <2> DEFINE c == [phase |-> "final_response", id |-> worker.msg]
             row == Row("answer", worker.msg)
             rows == Append(worker.rows, row) \o Injected
             pc == IF Injectable = <<>> THEN "final" ELSE "request"
  <2>1. /\ worker.pc = "request" /\ session' = [session EXCEPT !.checkpoint = c]
        /\ worker' = [worker EXCEPT !.pc = pc, !.rows = rows]
        /\ inbox' = SubSeq(inbox, Len(Injectable) + 1, Len(inbox)) /\ latest' = 0
        /\ UNCHANGED <<up, bus, late, goal, sent, tools, journaled, clicks, resumed, faults>>
      BY <1>5 DEF ModelAnswers, Emit
  <2>2. up = "up"
      BY <2>1, WorkerUp
  <2>3. pc \in {"request", "final"} /\ pc \in Pcs
      BY <1>3
  <2>4. c \in Checkpoints /\ c.phase = "final_response"
      BY <1>1 DEF Checkpoints, Phases
  <2>5. row \in Rows /\ row.kind = "answer"
      BY <1>1, RowTypes DEF Kinds
  <2> HIDE DEF row, c, pc
  <2>6. Append(worker.rows, row) = worker.rows \o <<row>> /\ <<row>> \in Seq(Rows)
      BY <1>1, <2>5, OneRow
  <2>7. rows = (worker.rows \o <<row>>) \o Injected /\ rows \in Seq(Rows)
      BY <1>1, <1>2, <2>6, ConcatProperties
  <2> HIDE DEF rows
  <2>8. /\ session' \in Sessions /\ session'.checkpoint = c /\ session'.msgs = session.msgs
        /\ session'.journal = session.journal /\ session'.status = session.status
        /\ session'.rid = session.rid
    <3>1. session' = [session EXCEPT !.checkpoint = c]
        BY <2>1
    <3> QED
        BY <1>1, <2>4, <3>1 DEF Sessions
  <2>9. worker' \in Workers /\ worker'.pc = pc /\ worker'.msg = worker.msg
        /\ worker'.rows = rows
    <3>1. worker' = [worker EXCEPT !.pc = pc, !.rows = rows]
        BY <2>1
    <3> QED
        BY <1>1, <2>3, <2>7, <3>1 DEF Workers
  <2>10. ~ToolDone
      BY <2>1 DEF ToolDone
  <2> QED
      BY <1>5, <2>1, <2>2, <2>3, <2>4, <2>5, <2>7, <2>8, <2>9, <2>10
<1> QED
    BY <1>4, <1>5

\* A request goes on.
LEMMA TurnGoesOnBasis ==
    ASSUME Basis, ToolDone \/ ModelAnswers
    PROVE  Basis'
<1>1. /\ up = "up" /\ worker' \in Workers /\ worker'.pc \in {"request", "final"}
      /\ session' \in Sessions /\ session'.rid = session.rid
      /\ session'.status = session.status
      /\ inbox' = SubSeq(inbox, Len(Injectable) + 1, Len(inbox))
      /\ UNCHANGED <<up, bus, late, goal, sent, tools, journaled, clicks, resumed, faults>>
    BY TurnGoesOnIs
<1>2. /\ inbox' \in Seq(Int \ {0}) /\ (Tokens(inbox) = {} => Tokens(inbox') = {})
      /\ \A i, j \in Tokens(inbox') : i = j
    BY <1>1, InjectedIs
<1>3. Types'
    BY <1>1, <1>2 DEF Basis, Types
<1>4. Quiet'
    BY <1>1 DEF Basis, Quiet
<1>5. OneToken'
  <2>1. ~Starting'
      BY <1>1 DEF Starting
  <2> QED
      BY <1>1, <1>2, <2>1 DEF Basis, OneToken, TokenQueued
<1> QED
    BY <1>3, <1>4, <1>5 DEF Basis

\* What /stop leaves.
LEMMA StopIs ==
    ASSUME Basis, Stop
    PROVE  /\ up = "up" /\ worker.pc # "none"
           /\ Grows(session, session') /\ session'.status = session.status
           /\ session'.rid = session.rid
           /\ ~InTurn => session' = session
           /\ worker' = NoWorker /\ worker' \in Workers /\ worker'.pc = "none"
           /\ worker'.rows = <<>> /\ inbox' = <<>>
           /\ UNCHANGED <<up, bus, late, goal, sent, tools, latest, journaled, clicks, resumed,
                          faults>>
<1>1. /\ up = "up" /\ worker.pc # "none" /\ session' = Cancelled(session)
      /\ worker' = NoWorker /\ inbox' = <<>>
      /\ UNCHANGED <<up, bus, late, goal, sent, tools, latest, journaled, clicks, resumed, faults>>
    BY DEF Stop
<1>2. session \in Sessions /\ worker \in Workers
    BY BasisIs
<1>3. /\ Grows(session, session') /\ session'.status = session.status
      /\ session'.rid = session.rid /\ (~InTurn => session' = session)
    BY <1>1, <1>2, CancelledGrows
<1>4. worker' \in Workers /\ worker'.pc = "none" /\ worker'.rows = <<>>
    BY <1>1, <1>2, WorkerEdits
<1> QED
    BY <1>1, <1>3, <1>4

\* The user stops the worker.
LEMMA StopBasis ==
    ASSUME Basis, Stop
    PROVE  Basis'
<1>1. /\ up = "up" /\ Grows(session, session') /\ session'.status = session.status
      /\ session'.rid = session.rid /\ worker' \in Workers /\ worker'.pc = "none"
      /\ worker'.rows = <<>> /\ inbox' = <<>>
      /\ UNCHANGED <<up, bus, late, goal, sent, tools, latest, journaled, clicks, resumed, faults>>
    BY StopIs
<1>2. session' \in Sessions /\ inbox' \in Seq(Int \ {0})
    BY <1>1, EmptySeq DEF Grows
<1>3. Types'
    BY <1>1, <1>2 DEF Basis, Types
<1>4. Quiet'
    BY <1>1 DEF Basis, Quiet
<1>5. OneToken'
  <2>1. ~Starting' /\ Tokens(inbox') = {}
      BY <1>1, EmptyQueue DEF Starting
  <2> QED
      BY <1>1, <2>1 DEF Basis, OneToken, TokenQueued
<1> QED
    BY <1>3, <1>4, <1>5 DEF Basis

\* What the worker does with the message it takes.
LEMMA TakeMessageIs ==
    ASSUME Basis, TakeMessage
    PROVE  /\ up = "up" /\ worker.pc = "idle" /\ inbox # <<>> /\ inbox' = Tail(inbox)
           /\ inbox' \in Seq(Int \ {0}) /\ Head(inbox) \in Int \ {0}
           /\ worker' \in Workers /\ worker'.rows = <<>>
           /\ Grows(session, session') /\ session'.rid = session.rid
           /\ \/ session'.status = session.status
              \/ session'.status \notin Open
           /\ \/ worker' = worker /\ session' = session
              \/ worker'.pc = "locked" /\ worker'.msg = Head(inbox)
           /\ worker'.pc = "locked" /\ Head(inbox) > 0 => session'.status \notin Open
           /\ worker'.pc = "locked" /\ Head(inbox) < 0 => session'.status # "awaiting_user"
           /\ UNCHANGED <<up, bus, late, goal, sent, tools, latest, journaled, clicks, resumed,
                          faults>>
<1> DEFINE m == Head(inbox)
<1>1. /\ worker.pc = "idle" /\ inbox # <<>> /\ inbox' = Tail(inbox)
      /\ UNCHANGED <<up, bus, late, goal, sent, tools, latest, journaled, clicks, resumed, faults>>
    BY DEF TakeMessage, env
<1>2. /\ session \in Sessions /\ worker \in Workers /\ inbox \in Seq(Int \ {0})
    BY BasisIs
<1>3. m \in Int \ {0} /\ inbox' \in Seq(Int \ {0})
    BY <1>1, <1>2, HeadTailProperties
<1>4. up = "up" /\ worker.rows = <<>>
    BY <1>1, WorkerUp DEF Basis, Quiet
<1>5. CASE IsContinuation(m) /\ ~AdmitsContinuation(m)
  <2>1. UNCHANGED <<session, worker>>
      BY <1>5 DEF TakeMessage
  <2>2. Grows(session, session')
      BY <1>2, <2>1, GrowsSelf
  <2> QED
      BY <1>1, <1>2, <1>3, <1>4, <2>1, <2>2
<1>6. CASE ~(IsContinuation(m) /\ ~AdmitsContinuation(m))
  <2>1. /\ worker' = [NoWorker EXCEPT !.pc = "locked", !.msg = m]
        /\ session' = IF IsContinuation(m) THEN session ELSE Supersede(session)
      BY <1>6 DEF TakeMessage
  <2>2. m \in Int /\ m # 0 /\ (m < 0 <=> IsContinuation(m))
      BY <1>3 DEF IsContinuation
  <2> HIDE DEF m
  <2>3. worker' \in Workers /\ worker'.pc = "locked" /\ worker'.msg = m /\ worker'.rows = <<>>
      BY <1>2, <2>1, <2>2, WorkerEdits, Zenon
  <2>4. CASE IsContinuation(m)
    <3>1. session' = session /\ session.status = "resuming"
        BY <1>6, <2>1, <2>4 DEF AdmitsContinuation
    <3>2. Grows(session, session')
        BY <1>2, <3>1, GrowsSelf
    <3> QED
        BY <1>1, <1>3, <1>4, <2>2, <2>3, <2>4, <3>1, <3>2 DEF m
  <2>5. CASE ~IsContinuation(m)
    <3>1. session' = Supersede(session)
        BY <2>1, <2>5
    <3>2. Grows(session, session') /\ session'.rid = session.rid /\ session'.status \notin Open
        BY <1>2, <3>1, SupersedeGrows
    <3> QED
        BY <1>1, <1>3, <1>4, <2>2, <2>3, <2>5, <3>2 DEF m
  <2> QED
      BY <2>4, <2>5
<1> QED
    BY <1>5, <1>6

\* The worker takes a message.
LEMMA TakeMessageBasis ==
    ASSUME Basis, TakeMessage
    PROVE  Basis'
<1>1. /\ up = "up" /\ worker.pc = "idle" /\ inbox # <<>> /\ inbox' = Tail(inbox)
      /\ inbox' \in Seq(Int \ {0}) /\ Head(inbox) \in Int \ {0}
      /\ worker' \in Workers /\ worker'.rows = <<>>
      /\ Grows(session, session') /\ session'.rid = session.rid
      /\ \/ session'.status = session.status
         \/ session'.status \notin Open
      /\ \/ worker' = worker /\ session' = session
         \/ worker'.pc = "locked" /\ worker'.msg = Head(inbox)
      /\ UNCHANGED <<up, bus, late, goal, sent, tools, latest, journaled, clicks, resumed, faults>>
    BY TakeMessageIs
<1>2. session' \in Sessions /\ inbox \in Seq(Int)
    BY <1>1, BasisIs DEF Grows
<1>3. Types'
    BY <1>1, <1>2 DEF Basis, Types
<1>4. Quiet'
    BY <1>1 DEF Basis, Quiet
<1>5. /\ Tokens(inbox) = {} => Tokens(inbox') = {} /\ Head(inbox) >= 0
      /\ \A i, j \in Tokens(inbox') : i = j
      /\ Head(inbox) < 0 => Tokens(inbox') = {}
  <2>1. \A i, j \in Tokens(inbox) : i = j
      BY DEF Basis, OneToken
  <2> QED
      BY <1>1, <1>2, <2>1, TailQueue
<1>6. session'.status = "awaiting_user" => session.status = "awaiting_user"
    BY <1>1 DEF Open
<1>7. Tokens(bus)' = Tokens(bus)
    BY <1>1
<1>8. OneToken'
  <2>1. CASE Starting'
    <3>1. Head(inbox) < 0
        BY <1>1, <2>1 DEF Starting
    <3>2. Tokens(inbox') = {} /\ Tokens(inbox) # {}
        BY <1>1, <1>5, <3>1
    <3> QED
        BY <1>1, <1>6, <1>7, <2>1, <3>2 DEF Basis, OneToken, TokenQueued
  <2>2. CASE ~Starting'
      BY <1>1, <1>5, <1>6, <1>7, <2>2 DEF Basis, OneToken, TokenQueued
  <2> QED
      BY <2>1, <2>2
<1> QED
    BY <1>3, <1>4, <1>8 DEF Basis

\* What _restore_turn writes.
LEMMA RestoreTurnIs ==
    ASSUME Basis, RestoreTurn
    PROVE  /\ up = "up" /\ worker.pc = "locked" /\ worker.rows = <<>> /\ worker.msg # 0
           /\ worker' \in Workers /\ worker'.pc = "restored" /\ worker'.msg = worker.msg
           /\ worker'.rows = <<>>
           /\ Grows(session, session') /\ session'.rid = session.rid
           /\ session'.status = session.status
           /\ session'.checkpoint = NoCheckpoint
           /\ \A k : Recalled(session, k) => Declared(session'.msgs, k)
           /\ resumed' = IF worker.msg < 0 THEN resumed + 1 ELSE resumed
           /\ UNCHANGED <<up, bus, inbox, late, goal, sent, tools, latest, journaled, clicks,
                          faults>>
<1>1. /\ worker.pc = "locked" /\ worker' = [worker EXCEPT !.pc = "restored"]
      /\ session' = IF IsContinuation(worker.msg) THEN RestoreCheckpoint(session)
                    ELSE RestorePending(RestoreCheckpoint(session))
      /\ resumed' = IF worker.msg < 0 THEN resumed + 1 ELSE resumed
      /\ UNCHANGED <<up, bus, inbox, late, goal, sent, tools, latest, journaled, clicks, faults>>
    BY DEF RestoreTurn, IsContinuation
<1>2. /\ session \in Sessions /\ worker \in Workers /\ worker.msg \in Int /\ "restored" \in Pcs
    BY BasisIs DEF Pcs
<1>3. up = "up" /\ worker.rows = <<>> /\ worker.msg # 0
    BY <1>1, WorkerUp DEF Basis, Quiet
<1>4. worker' \in Workers /\ worker'.pc = "restored" /\ worker'.msg = worker.msg
      /\ worker'.rows = worker.rows
    BY <1>1, <1>2, WorkerPc
<1> DEFINE a == RestoreCheckpoint(session)
<1>5. /\ Grows(session, a) /\ a.status = session.status /\ a.rid = session.rid
      /\ a.checkpoint = NoCheckpoint /\ \A k : Recalled(session, k) => Declared(a.msgs, k)
    BY <1>2, RestoreCheckpointGrows
<1>6. session' = a \/ session' = RestorePending(a)
    BY <1>1
<1> HIDE DEF a
<1>7. a \in Sessions
    BY <1>5 DEF Grows
<1>8. /\ Grows(a, RestorePending(a)) /\ RestorePending(a).status = a.status
      /\ RestorePending(a).rid = a.rid /\ RestorePending(a).checkpoint = a.checkpoint
    BY <1>7, RestorePendingGrows
<1>9. CASE session' = a
    BY <1>1, <1>3, <1>4, <1>5, <1>9
<1>10. CASE session' = RestorePending(a)
  <2>1. Grows(session, session')
      BY <1>5, <1>8, <1>10, GrowsTwice
  <2>2. \A k : Declared(a.msgs, k) => Declared(session'.msgs, k)
      BY <1>8, <1>10 DEF Grows
  <2> QED
      BY <1>1, <1>3, <1>4, <1>5, <1>8, <1>10, <2>1, <2>2
<1> QED
    BY <1>6, <1>9, <1>10

\* A turn starts.
LEMMA RestoreTurnBasis ==
    ASSUME Basis, RestoreTurn
    PROVE  Basis'
<1>1. /\ up = "up" /\ worker.pc = "locked" /\ worker.msg # 0
      /\ worker' \in Workers /\ worker'.pc = "restored" /\ worker'.msg = worker.msg
      /\ worker'.rows = <<>>
      /\ Grows(session, session') /\ session'.rid = session.rid
      /\ session'.status = session.status
      /\ resumed' = IF worker.msg < 0 THEN resumed + 1 ELSE resumed
      /\ UNCHANGED <<up, bus, inbox, late, goal, sent, tools, latest, journaled, clicks, faults>>
    BY RestoreTurnIs
<1>2. session' \in Sessions /\ resumed \in Nat /\ clicks \in Nat
    BY <1>1 DEF Grows, Basis, Types
<1>3. Types'
    BY <1>1, <1>2 DEF Basis, Types
<1>4. Quiet'
    BY <1>1 DEF Basis, Quiet
<1>5. Tokens(bus)' = Tokens(bus) /\ Tokens(inbox)' = Tokens(inbox) /\ ~Starting'
    BY <1>1 DEF Starting
<1>6. CASE worker.msg < 0
  <2>1. Starting
      BY <1>1, <1>6 DEF Starting
  <2>2. Tokens(bus) = {} /\ Tokens(inbox) = {} /\ resumed < clicks
      BY <2>1 DEF Basis, OneToken, TokenQueued
  <2>3. resumed' <= clicks'
      BY <1>1, <1>2, <2>2
  <2>4. OneToken'
      BY <1>5, <2>2, <2>3 DEF OneToken, TokenQueued
  <2> QED
      BY <1>3, <1>4, <2>4 DEF Basis
<1>7. CASE ~(worker.msg < 0)
  <2>1. OneToken'
      BY <1>1, <1>5, <1>7 DEF Basis, OneToken, TokenQueued
  <2> QED
      BY <1>3, <1>4, <2>1 DEF Basis
<1> QED
    BY <1>6, <1>7

\* The gateway dies.
LEMMA CrashBasis ==
    ASSUME Basis, Crash
    PROVE  Basis'
<1>1. /\ up' = "down" /\ bus' = <<>> /\ inbox' = <<>> /\ worker' = NoWorker /\ late' = {}
      /\ faults < MaxFaults /\ faults' = faults + 1
      /\ UNCHANGED <<session, goal, sent, tools, latest, journaled, clicks, resumed>>
    BY DEF Crash
<1>2. /\ session \in Sessions /\ worker \in Workers /\ session.rid \in Nat /\ faults \in Nat
      /\ session.rid <= faults
    BY BasisIs DEF Basis, Quiet
<1>3. worker' \in Workers /\ worker'.pc = "none" /\ worker'.rows = <<>>
    BY <1>1, <1>2, WorkerEdits
<1>4. faults' \in 0..MaxFaults /\ session'.rid <= faults' /\ session'.rid < faults'
    BY <1>1, <1>2, RecoveryAssumption
<1>5. bus' \in Seq(Int) /\ inbox' \in Seq(Int \ {0})
    BY <1>1, EmptySeq
<1>6. Types'
    BY <1>1, <1>3, <1>4, <1>5 DEF Basis, Types
<1>7. Quiet'
    BY <1>1, <1>3, <1>4 DEF Quiet
<1>8. OneToken'
  <2>1. ~Starting' /\ Tokens(bus') = {} /\ Tokens(inbox') = {}
      BY <1>1, <1>3, EmptyQueue DEF Starting
  <2> QED
      BY <1>1, <2>1 DEF Basis, OneToken, TokenQueued
<1> QED
    BY <1>6, <1>7, <1>8 DEF Basis

\* What a start of the gateway makes of the store.
LEMMA RestartIs ==
    ASSUME Basis, NEW unfinished \in BOOLEAN, Restart(unfinished)
    PROVE  /\ up = "down" /\ up' = "up" /\ bus = <<>> /\ inbox = <<>> /\ worker = NoWorker
           /\ worker.pc = "none" /\ worker.rows = <<>>
           /\ Grows(session, session') /\ session'.rid <= faults
           /\ bus' = session.journal \/ bus' = <<>>
           /\ UNCHANGED <<inbox, worker, late, goal, sent, tools, latest, journaled, clicks,
                          resumed, faults>>
<1>1. /\ up = "down" /\ up' = "up"
      /\ \/ /\ session' = Recovered(session, session.rid + 1, unfinished)
            /\ bus' = session.journal
         \/ UNCHANGED <<session, bus>>
      /\ UNCHANGED <<inbox, worker, late, goal, sent, tools, latest, journaled, clicks, resumed,
                     faults>>
    BY DEF Restart, env
<1>2. /\ bus = <<>> /\ worker = NoWorker /\ session.rid < faults /\ session.rid \in Nat
      /\ faults \in Nat /\ session \in Sessions
    BY <1>1, BasisIs DEF Basis, Quiet
<1>3. worker.pc = "none" /\ worker.rows = <<>>
    BY <1>2 DEF NoWorker
<1>4. inbox = <<>>
    BY <1>3 DEF Basis, Quiet
<1>5. Grows(session, session') /\ session'.rid <= faults
  <2>1. CASE session' = session
      BY <1>2, <2>1, GrowsSelf
  <2>2. CASE session' = Recovered(session, session.rid + 1, unfinished)
    <3>1. session.rid + 1 \in Nat
        BY <1>2
    <3>2. Grows(session, session') /\ session'.rid \in {session.rid, session.rid + 1}
        BY <1>2, <2>2, <3>1, RecoveredGrows
    <3> QED
        BY <1>2, <3>2
  <2> QED
      BY <1>1, <2>1, <2>2
<1> QED
    BY <1>1, <1>2, <1>3, <1>4, <1>5

\* The gateway starts.
LEMMA RestartBasis ==
    ASSUME Basis, NEW unfinished \in BOOLEAN, Restart(unfinished)
    PROVE  Basis'
<1>1. /\ up' = "up" /\ inbox = <<>> /\ worker = NoWorker
      /\ worker.pc = "none" /\ worker.rows = <<>>
      /\ Grows(session, session') /\ session'.rid <= faults
      /\ bus' = session.journal \/ bus' = <<>>
      /\ UNCHANGED <<inbox, worker, late, goal, sent, tools, latest, journaled, clicks, resumed,
                     faults>>
    BY RestartIs
<1>2. session' \in Sessions /\ session.journal \in Seq(Nat \ {0}) /\ session.journal \in Seq(Int)
    BY <1>1, BasisIs DEF Grows
<1>3. bus' \in Seq(Int)
    BY <1>1, <1>2, EmptySeq
<1>4. Types'
    BY <1>1, <1>2, <1>3 DEF Basis, Types
<1>5. Quiet'
    BY <1>1 DEF Quiet
<1>6. OneToken'
  <2>1. Tokens(session.journal) = {}
    <3>1. \A i \in 1..Len(session.journal) : session.journal[i] \in Nat
        BY <1>2, ElementOfSeq
    <3> QED
        BY <3>1 DEF Tokens
  <2>2. Tokens(bus)' = {} /\ Tokens(inbox)' = {} /\ ~Starting'
      BY <1>1, <2>1, EmptyQueue DEF Starting
  <2> QED
      BY <1>1, <2>2 DEF Basis, OneToken, TokenQueued
<1> QED
    BY <1>4, <1>5, <1>6 DEF Basis

\* What an action of the user does to the recovery, when it is not refused.
LEMMA ActIs ==
    ASSUME Basis, NEW action \in {"continue", "dismiss"}, NEW rid, Act(action, rid)
    PROVE  \/ UNCHANGED <<session, bus, clicks>>
           \/ /\ session.status = "awaiting_user"
              /\ Grows(session, session') /\ session'.rid = session.rid
              /\ session'.msgs = session.msgs /\ session'.checkpoint = session.checkpoint
              /\ session'.status = "resuming"
              /\ bus' = Append(bus, -session.rid) /\ clicks' = clicks + 1
           \/ /\ action = "dismiss"
              /\ Grows(session, session') /\ session'.rid = session.rid
              /\ session'.status = "recovered" /\ UNCHANGED <<bus, clicks>>
<1>1. session \in Sessions /\ session.rid \in Nat /\ session.msgs \in Seq(Rows)
    BY BasisIs
<1>2. CASE session.rid # rid
    BY <1>2 DEF Act
<1>3. CASE session.rid = rid /\ action = "continue"
  <2>1. Continue(rid)
      BY <1>3 DEF Act
  <2>2. CASE ~(session.status = "awaiting_user" /\ session.can)
      BY <2>1, <2>2 DEF Continue
  <2>3. CASE session.status = "awaiting_user" /\ session.can
    <3> DEFINE n == Len(session.msgs)
    <3>1. /\ session' = SetState(session, "resuming", rid, TRUE, n)
          /\ bus' = Append(bus, -session.rid) /\ clicks' = clicks + 1
        BY <1>3, <2>1, <2>3 DEF Continue, Continuation
    <3>2. n \in Nat /\ rid \in Nat /\ "resuming" \in Statuses
        BY <1>1, <1>3, LenProperties DEF Statuses
    <3> HIDE DEF n
    <3>3. /\ Grows(session, session') /\ session'.status = "resuming" /\ session'.rid = rid
          /\ session'.msgs = session.msgs /\ session'.checkpoint = session.checkpoint
      <4>1. TRUE \in BOOLEAN
          OBVIOUS
      <4>2. session' \in Sessions
          BY <1>1, <3>1, <3>2, <4>1, Zenon DEF SetState, Sessions
      <4>3. /\ session'.journal = session.journal /\ session'.checkpoint = session.checkpoint
            /\ session'.msgs = session.msgs /\ session'.status = "resuming" /\ session'.rid = rid
          BY <1>1, <3>1 DEF SetState, Sessions
      <4> QED
          BY <1>1, <4>2, <4>3, AddNote
    <3> QED
        BY <1>3, <2>3, <3>1, <3>3
  <2> QED
      BY <2>2, <2>3
<1>4. CASE session.rid = rid /\ action = "dismiss"
  <2>1. Dismiss(rid)
      BY <1>4 DEF Act
  <2>2. /\ session' = Resolve(RestorePending(RestoreCheckpoint(session)))
        /\ UNCHANGED <<bus, clicks>>
      BY <2>1 DEF Dismiss
  <2>3. Grows(session, session') /\ session'.rid = session.rid /\ session'.status = "recovered"
      BY <1>1, <2>2, DismissedGrows
  <2> QED
      BY <1>4, <2>2, <2>3
<1> QED
    BY <1>2, <1>3, <1>4

\* Which steps are clicks that arrive.
Clicks(action) ==
    \/ ClickNow(action)
    \/ \E click \in late : ClickArrives(click) /\ click[1] = action

\* What such a click leaves alone.
LEMMA ClicksAre ==
    ASSUME Basis, NEW action, Clicks(action)
    PROVE  /\ up = "up" /\ \E rid : Act(action, rid)
           /\ ClickNow(action) => session.status = "awaiting_user"
           /\ late' \subseteq late
           /\ UNCHANGED <<up, inbox, worker, goal, sent, tools, latest, journaled, resumed, faults>>
BY DEF Clicks, ClickNow, ClickArrives

\* A click arrives.
LEMMA ClicksBasis ==
    ASSUME Basis, NEW action \in {"continue", "dismiss"}, Clicks(action)
    PROVE  Basis'
<1>1. PICK rid : Act(action, rid)
    BY ClicksAre
<1>2. /\ up = "up" /\ late' \subseteq late
      /\ UNCHANGED <<up, inbox, worker, goal, sent, tools, latest, journaled, resumed, faults>>
    BY ClicksAre
<1>3. /\ session \in Sessions /\ worker \in Workers /\ bus \in Seq(Int) /\ session.rid \in Nat
      /\ tools \in Nat /\ faults \in Nat /\ faults \in 0..MaxFaults /\ clicks \in Nat
      /\ resumed \in Nat
    BY BasisIs DEF Basis, Types
<1>4. /\ worker.pc = "none" => inbox = <<>>
      /\ worker.pc \in {"none", "idle", "locked", "restored"} => worker.rows = <<>>
      /\ worker.pc \in {"locked", "restored"} => worker.msg # 0
      /\ worker.pc \in {"tool", "ran"} => worker.rows # <<>>
      /\ session.rid <= faults
    BY DEF Basis, Quiet
<1>5. Starting' => Starting
    BY <1>2 DEF Starting
<1>6. CASE UNCHANGED <<session, bus, clicks>>
  <2>1. tools' \in Nat /\ faults' \in 0..MaxFaults /\ faults' >= faults
      BY <1>2, <1>3
  <2> QED
      BY <1>2, <1>3, <1>4, <1>5, <1>6, <2>1, SameQueues
<1>7. CASE /\ session.status = "awaiting_user"
           /\ Grows(session, session') /\ session'.rid = session.rid
           /\ session'.status = "resuming"
           /\ bus' = Append(bus, -session.rid) /\ clicks' = clicks + 1
  <2>1. ~TokenQueued /\ Tokens(bus) = {} /\ Tokens(inbox) = {} /\ ~Starting /\ resumed <= clicks
      BY <1>7 DEF Basis, OneToken, TokenQueued
  <2>2. -session.rid \in Int
      BY <1>3
  <2>3. bus' \in Seq(Int) /\ \A i, j \in Tokens(bus') : i = j
      BY <1>3, <1>7, <2>1, <2>2, AppendQueue
  <2>4. session' \in Sessions /\ clicks' \in Nat /\ resumed' < clicks'
      BY <1>2, <1>3, <1>7, <2>1 DEF Grows
  <2>5. Types'
      BY <1>2, <2>3, <2>4 DEF Basis, Types
  <2>6. Quiet'
      BY <1>2, <1>4, <1>7 DEF Quiet
  <2>7. Tokens(inbox)' = {} /\ ~Starting'
      BY <1>2, <1>5, <2>1
  <2>8. OneToken'
      BY <1>7, <1>3, <1>2, <2>3, <2>4, <2>7 DEF OneToken, TokenQueued
  <2> QED
      BY <2>5, <2>6, <2>8 DEF Basis
<1>8. CASE /\ Grows(session, session') /\ session'.rid = session.rid
           /\ session'.status = "recovered" /\ UNCHANGED <<bus, clicks>>
  <2>1. tools' \in Nat /\ faults' \in 0..MaxFaults /\ faults' >= faults /\ session' \in Sessions
      BY <1>2, <1>3, <1>8 DEF Grows
  <2> QED
      BY <1>2, <1>3, <1>4, <1>5, <1>8, <2>1, SameQueues
<1> QED
    BY <1>1, <1>6, <1>7, <1>8, ActIs

\* A click that will arrive late.
LEMMA ClickLateBasis ==
    ASSUME Basis, NEW action, ClickLate(action)
    PROVE  Basis'
<1>1. /\ action \in LateActions /\ late' = late \cup {<<action, session.rid>>}
      /\ UNCHANGED <<up, session, bus, inbox, worker, goal, sent, tools, latest, journaled, clicks,
                     resumed, faults>>
    BY DEF ClickLate, env
<1>2. session.rid \in Nat
    BY BasisIs
<1>3. Types'
    BY <1>1, <1>2 DEF Basis, Types
<1>4. Quiet'
    BY <1>1 DEF Basis, Quiet
<1>5. OneToken'
    BY <1>1, TokensSame DEF Basis, Starting
<1> QED
    BY <1>3, <1>4, <1>5 DEF Basis

\* The steps of the specification, by what they do.
LEMMA NextIs ==
    ASSUME Basis, Next
    PROVE  \/ \E m \in 1..MaxMsgs : RouteMessage(m)
           \/ \E rid \in 1..MaxFaults : RouteContinuation(Continuation(rid))
           \/ TakeMessage \/ WorkerExits \/ DropContinuation \/ RestoreTurn \/ BuildTurn
           \/ ToolRuns \/ AsksUser \/ (ToolDone \/ ModelAnswers) \/ PersistTurn
           \/ (CompleteTurn \/ TurnFails) \/ ModelCallsTool \/ UserSends \/ Stop \/ Crash
           \/ \E unfinished \in BOOLEAN : Restart(unfinished)
           \/ \E action \in {"continue", "dismiss"} : Clicks(action) \/ ClickLate(action)
<1>1. \A click \in late : click[1] \in {"continue", "dismiss"}
    BY RecoveryAssumption DEF Basis, Types
<1>2. ASSUME NEW click \in late, ClickArrives(click)
      PROVE  \E action \in {"continue", "dismiss"} : Clicks(action)
    BY <1>1, <1>2 DEF Clicks
<1>3. ASSUME NEW action \in {"continue", "dismiss"}, ClickNow(action)
      PROVE  Clicks(action)
    BY <1>3 DEF Clicks
<1> QED
    BY <1>2, <1>3 DEF Next, Step

\* Every step keeps Basis.
LEMMA BasisNext ==
    ASSUME Basis, [Next]_vars
    PROVE  Basis'
<1>1. CASE UNCHANGED vars
  <2>1. UNCHANGED <<up, session, bus, inbox, worker, late, goal, sent, tools, latest, journaled,
                    clicks, resumed, faults>>
      BY <1>1 DEF vars, env
  <2>2. Types'
      BY <2>1 DEF Basis, Types
  <2>3. Quiet'
      BY <2>1 DEF Basis, Quiet
  <2>4. OneToken'
      BY <2>1, TokensSame DEF Basis, Starting
  <2> QED
      BY <2>2, <2>3, <2>4 DEF Basis
<1>2. CASE Next
    BY <1>2, NextIs, RouteMessageBasis, RouteContinuationBasis, TakeMessageBasis,
       WorkerExitsBasis, DropContinuationBasis, RestoreTurnBasis, BuildTurnBasis, ToolRunsBasis,
       AsksUserBasis, TurnGoesOnBasis, PersistTurnBasis, TurnEndsBasis, ModelCallsToolBasis,
       UserSendsBasis, StopBasis, CrashBasis, RestartBasis, ClicksBasis, ClickLateBasis
<1> QED
    BY <1>1, <1>2

\* The initial state has Basis.
LEMMA BasisInit == Init => Basis
<1> SUFFICES ASSUME Init PROVE Basis
    OBVIOUS
<1>1. <<>> \in Seq(Int) /\ <<>> \in Seq(Int \ {0}) /\ <<>> \in Seq(Rows)
      /\ <<>> \in Seq(Nat \ {0}) /\ NoCheckpoint \in Checkpoints
    BY EmptySeq DEF Checkpoints
<1>2. NewSession \in Sessions /\ NewSession.rid = 0 /\ NewSession.status = "none"
    BY <1>1 DEF NewSession, Sessions, Statuses
<1>3. NoWorker \in Workers /\ NoWorker.pc = "none" /\ NoWorker.rows = <<>>
    BY <1>1 DEF NoWorker, Workers, Pcs
<1>4. Types
    BY <1>1, <1>2, <1>3, RecoveryAssumption DEF Types, Init
<1>5. Quiet
    BY <1>2, <1>3 DEF Quiet, Init
<1>6. Tokens(bus) = {} /\ Tokens(inbox) = {} /\ ~Starting
    BY <1>3, EmptyQueue DEF Init, Starting
<1>7. OneToken
    BY <1>6 DEF OneToken, TokenQueued, Init
<1> QED
    BY <1>4, <1>5, <1>7 DEF Basis

\* Basis is an invariant.
LEMMA BasisHolds == Spec => []Basis
<1>1. Init => Basis
    BY BasisInit
<1>2. Basis /\ [Next]_vars => Basis'
    BY BasisNext
<1> QED
    BY <1>1, <1>2, PTL DEF Spec

\* The states of the gateway, of the recovery and of the worker are the ones the code
\* names, and a worker that is gone has left no inbox behind (AgentLoop,
\* RecoveryCoordinator).
THEOREM RecoveryTypes == Spec => []TypeOK
<1>1. Basis => TypeOK
  <2> SUFFICES ASSUME Basis PROVE TypeOK
      OBVIOUS
  <2>1. /\ session.status \in Statuses /\ session.checkpoint \in Checkpoints
        /\ session.rid \in Nat /\ worker.pc \in Pcs
      BY BasisIs, SessionFields
  <2>2. session.checkpoint.phase \in Phases
      BY <2>1 DEF Checkpoints, NoCheckpoint, Phases
  <2>3. session.rid \in 0..MaxFaults + 1
      BY <2>1, RecoveryAssumption DEF Basis, Types, Quiet
  <2> QED
      BY <2>1, <2>2, <2>3 DEF TypeOK, Basis, Types, Quiet, Statuses, Phases, Pcs
<1> QED
    BY <1>1, BasisHolds, PTL

\* An interrupted turn runs again at most once for each click on Continue, whatever is
\* late, stopped or interrupted again (RecoveryCoordinator.handle_action and admit).
THEOREM OneContinuationForAClick == Spec => []ResumeNeedsClick
<1>1. Basis => ResumeNeedsClick
    BY DEF Basis, OneToken, ResumeNeedsClick
<1> QED
    BY <1>1, BasisHolds, PTL

(***************************************************************************)
(* Where the user's messages are.                                          *)
(***************************************************************************)
\* Rows after rows, when no message is in both.
LEMMA ConcatOnce ==
    ASSUME NEW s \in Seq(Rows), NEW t \in Seq(Rows), NEW r, r = s \o t,
           Disjoint(Users(t), Users(s)), Once(t)
    PROVE  r \in Seq(Rows) /\ (Once(s) => Once(r)) /\ Users(r) = Users(s) \cup Users(t)
<1>1. s \o t \in Seq(Rows)
    BY ConcatIs
<1>2. Users(s \o t) = Users(s) \cup Users(t)
    BY ConcatRows
<1>3. Once(s) => Once(s \o t)
    BY ConcatRows
<1> QED
    BY <1>1, <1>2, <1>3

\* Messages leave the queues and the turn, and nothing else happens to them.
LEMMA PlacesShrink ==
    ASSUME Places, Distinct(bus)', Distinct(inbox)', Distinct(session.journal)',
           Once(session.msgs)', worker'.pc # "saved" => Once(worker.rows)',
           \A x \in Numbers(bus)' : x \in Numbers(bus),
           \A x \in Numbers(inbox)' : x \in Numbers(inbox),
           \A x \in Taken' : x \in Taken, \A x \in RowUsers' : x \in RowUsers,
           Users(session.msgs)' = Users(session.msgs),
           Numbers(session.journal)' = Numbers(session.journal),
           sent' = sent, journaled' = journaled
    PROVE  Places'
<1> DEFINE A == Apart(Numbers(bus), Numbers(inbox), Taken, RowUsers, Users(session.msgs),
                      Numbers(session.journal), sent, journaled)
<1>1. A
    BY DEF Places
<1>2. A'
    BY <1>1 DEF Apart
<1> QED
    BY <1>2 DEF Places

\* A step of recovery leaves the messages where they are.
LEMMA GrowsPlaces ==
    ASSUME Places, NEW r, Grows(session, r)
    PROVE  /\ Distinct(r.journal) /\ Once(r.msgs) /\ Users(r.msgs) = Users(session.msgs)
           /\ Numbers(r.journal) = Numbers(session.journal)
BY DEF Grows, Places

\* The user sends a message.
LEMMA UserSendsPlaces ==
    ASSUME Basis, Places, UserSends
    PROVE  Places'
<1>1. bus \in Seq(Int) /\ sent \in Nat
    BY DEF Basis, Types
<1>2. /\ bus' = Append(bus, sent + 1) /\ sent' = sent + 1 /\ sent + 1 \in Int /\ sent + 1 > 0
      /\ UNCHANGED <<session, inbox, worker, journaled>>
    BY <1>1 DEF UserSends
<1> DEFINE A == Apart(Numbers(bus), Numbers(inbox), Taken, RowUsers, Users(session.msgs),
                      Numbers(session.journal), sent, journaled)
<1>3. A
    BY DEF Places
<1>4. sent + 1 \notin 1..sent /\ sent + 1 \in 1..sent' /\ \A x \in 1..sent : x \in 1..sent'
    BY <1>1, <1>2
<1>5. sent + 1 \notin Numbers(bus)
    BY <1>3, <1>4 DEF Apart
<1>6. \A x : x \in Numbers(bus)' <=> x \in Numbers(bus) \/ x = sent + 1
    BY <1>1, <1>2, AppendQueue
<1>7. Distinct(bus)'
    BY <1>1, <1>2, <1>5, AppendQueue DEF Places
<1>8. Taken' = Taken /\ RowUsers' = RowUsers
    BY <1>2 DEF Taken, RowUsers
<1>9. A'
    BY <1>2, <1>3, <1>4, <1>6, <1>8 DEF Apart
<1> QED
    BY <1>2, <1>7, <1>9 DEF Places

\* A user's message is routed.
LEMMA RouteMessagePlaces ==
    ASSUME Basis, Places, NEW m \in 1..MaxMsgs, RouteMessage(m)
    PROVE  Places'
<1>1. /\ bus # <<>> /\ m = Head(bus) /\ bus' = Tail(bus) /\ sent' = sent
    BY RouteMessageIs DEF Basis
<1>2. PICK s \in Sessions, w \in Workers, q \in Seq(Int \ {0}) :
          /\ Enqueue(m, s, w, q) /\ (w.pc = "none" => q = <<>>)
          /\ Grows(session, s)
          /\ \/ w = worker /\ q = inbox
             \/ w = NoWorker /\ q = <<>>
    BY RouteMessageIs DEF Basis
<1>3. bus \in Seq(Int) /\ worker \in Workers
    BY BasisIs
<1>4. m \in Nat \ {0} /\ m \in Int \ {0} /\ m \in Int /\ m > 0
    BY RecoveryAssumption
<1>5. q \in Seq(Int)
    BY SeqMonotonic
<1>6. /\ session'.msgs = s.msgs /\ inbox' = Append(q, m)
      /\ \/ w.pc = "none" /\ worker' = [w EXCEPT !.pc = "idle"]
         \/ w.pc # "none" /\ worker' = w
      /\ \/ session'.journal = s.journal
         \/ m \notin Numbers(s.journal) /\ session'.journal = Append(s.journal, m)
      /\ \/ journaled' = journaled
         \/ journaled' = journaled \cup {m} /\ m \in Numbers(session'.journal)
    BY <1>2, <1>4, EnqueueIs
<1>7. /\ Distinct(bus)' /\ m \notin Numbers(bus)'
      /\ \A x : x \in Numbers(bus) <=> x \in Numbers(bus)' \/ x = m
    BY <1>1, <1>3, <1>4, TailQueue DEF Places
<1> DEFINE A == Apart(Numbers(bus), Numbers(inbox), Taken, RowUsers, Users(session.msgs),
                      Numbers(session.journal), sent, journaled)
<1>8. A
    BY DEF Places
<1>9. /\ Distinct(s.journal) /\ Once(s.msgs) /\ Users(s.msgs) = Users(session.msgs)
      /\ Numbers(s.journal) = Numbers(session.journal)
    BY <1>2, GrowsPlaces
<1>10. Distinct(q) /\ \A x \in Numbers(q) : x \in Numbers(inbox)
    BY <1>2, EmptyQueue DEF Places
<1>11. m \notin Numbers(q)
    BY <1>7, <1>8, <1>10 DEF Apart
<1>12. Distinct(inbox)' /\ \A x : x \in Numbers(inbox)' <=> x \in Numbers(q) \/ x = m
    BY <1>4, <1>5, <1>6, <1>10, <1>11, AppendQueue
<1>13. /\ \A x \in Taken' : x \in Taken
       /\ \A x \in RowUsers' : x \in RowUsers
       /\ worker'.pc # "saved" => Once(worker.rows)'
  <2>1. CASE w.pc = "none" /\ worker' = [w EXCEPT !.pc = "idle"]
    <3>1. worker'.pc = "idle" /\ worker'.rows = w.rows
        BY <2>1 DEF Workers
    <3>2. w.rows = <<>>
        BY <1>2, <2>1 DEF Basis, Quiet, NoWorker
    <3>3. Taken' = {} /\ RowUsers' = {} /\ Once(worker'.rows)
        BY <3>1, <3>2, EmptyQueue DEF Taken, RowUsers
    <3> QED
        BY <3>3
  <2>2. CASE w.pc # "none" /\ worker' = w
    <3>1. worker' = worker
        BY <1>2, <2>2 DEF NoWorker
    <3>2. Taken' = Taken /\ RowUsers' = RowUsers
        BY <3>1 DEF Taken, RowUsers
    <3> QED
        BY <3>1, <3>2 DEF Places
  <2> QED
      BY <1>6, <2>1, <2>2
<1>14. s.journal \in Seq(Int)
  <2>1. s.journal \in Seq(Nat \ {0})
      BY SessionFields
  <2> QED
      BY <2>1, SeqMonotonic
<1>15. /\ Distinct(session.journal)'
       /\ \A x : x \in Numbers(s.journal) => x \in Numbers(session.journal)'
       /\ \A x : x \in Numbers(session.journal)' => x \in Numbers(s.journal) \/ x = m
  <2>1. CASE session'.journal = s.journal
      BY <1>9, <2>1
  <2>2. CASE m \notin Numbers(s.journal) /\ session'.journal = Append(s.journal, m)
    <3>1. /\ Distinct(Append(s.journal, m))
          /\ Numbers(Append(s.journal, m)) = Numbers(s.journal) \cup IF m > 0 THEN {m} ELSE {}
        BY <1>4, <1>9, <1>14, <2>2, AppendQueue
    <3> QED
        BY <1>4, <2>2, <3>1
  <2> QED
      BY <1>6, <2>1, <2>2
<1>16. \A x : x \in journaled' => x \in journaled \/ (x = m /\ x \in Numbers(session.journal)')
    BY <1>6
<1>17. Users(session.msgs)' = Users(session.msgs) /\ Once(session.msgs)'
    BY <1>6, <1>9
<1> DEFINE B == Numbers(bus)
           I == Numbers(inbox)
           U == Users(session.msgs)
           J == Numbers(session.journal)
<1>18. A'
  <2> SUFFICES ASSUME NEW x
               PROVE  /\ x \in B' => x \notin I' /\ x \notin Taken' /\ x \notin RowUsers'
                                     /\ x \notin U'
                      /\ x \in I' => x \notin Taken' /\ x \notin RowUsers' /\ x \notin U'
                      /\ x \in Taken' => x \notin RowUsers' /\ x \notin U'
                      /\ x \in RowUsers' => x \notin U'
                      /\ x \in J' => x \notin U'
                      /\ x \in B' \/ x \in I' \/ x \in Taken' \/ x \in RowUsers' \/ x \in U'
                            \/ x \in J' => x \in 1..sent'
                      /\ x \in journaled' => x \in J' \/ x \in U'
      BY DEF Apart
  <2>1. /\ x \in B => x \notin I /\ x \notin Taken /\ x \notin RowUsers /\ x \notin U
        /\ x \in I => x \notin Taken /\ x \notin RowUsers /\ x \notin U
        /\ x \in Taken => x \notin RowUsers /\ x \notin U
        /\ x \in RowUsers => x \notin U
        /\ x \in J => x \notin U
        /\ x \in B \/ x \in I \/ x \in Taken \/ x \in RowUsers \/ x \in U \/ x \in J =>
              x \in 1..sent
        /\ x \in journaled => x \in J \/ x \in U
      BY <1>8 DEF Apart
  <2>2. /\ x \in B <=> x \in B' \/ x = m
        /\ x = m => x \notin B'
        /\ x \in I' => x \in I \/ x = m
        /\ x \in Taken' => x \in Taken
        /\ x \in RowUsers' => x \in RowUsers
        /\ x \in U' <=> x \in U
        /\ x \in J => x \in J'
        /\ x \in J' => x \in J \/ x = m
        /\ x \in journaled' => x \in journaled \/ x \in J'
        /\ x \in 1..sent' <=> x \in 1..sent
      BY <1>1, <1>7, <1>9, <1>10, <1>12, <1>13, <1>15, <1>16, <1>17
  <2> HIDE DEF B, I, U, J
  <2> QED
      BY <2>1, <2>2
<1> QED
    BY <1>7, <1>12, <1>13, <1>15, <1>17, <1>18 DEF Places

\* A continuation is routed.
LEMMA RouteContinuationPlaces ==
    ASSUME Basis, Places, NEW rid \in 1..MaxFaults, RouteContinuation(Continuation(rid))
    PROVE  Places'
<1> DEFINE m == Continuation(rid)
<1>1. /\ bus # <<>> /\ m = Head(bus) /\ bus' = Tail(bus) /\ sent' = sent
    BY DEF RouteContinuation, Routes
<1>2. UNCHANGED <<session, inbox, worker, journaled>> \/ Enqueue(m, session, worker, inbox)
    BY DEF RouteContinuation
<1>3. m \in Int \ {0} /\ m \in Int /\ m < 0 /\ ~(m > 0)
    BY RecoveryAssumption DEF Continuation
<1> HIDE DEF m
<1>4. /\ session \in Sessions /\ worker \in Workers /\ bus \in Seq(Int) /\ inbox \in Seq(Int)
      /\ inbox \in Seq(Int \ {0})
    BY BasisIs
<1>5. Distinct(bus)' /\ \A x \in Numbers(bus)' : x \in Numbers(bus)
    BY <1>1, <1>4, TailQueue DEF Places
<1>6. CASE UNCHANGED <<session, inbox, worker, journaled>>
  <2>1. Taken' = Taken /\ RowUsers' = RowUsers
      BY <1>6 DEF Taken, RowUsers
  <2>2. /\ Distinct(inbox)' /\ Distinct(session.journal)' /\ Once(session.msgs)'
        /\ (worker'.pc # "saved" => Once(worker.rows)')
      BY <1>6 DEF Places
  <2> QED
      BY <1>1, <1>5, <1>6, <2>1, <2>2, PlacesShrink
<1>7. CASE Enqueue(m, session, worker, inbox)
  <2>1. worker.pc = "none" => inbox = <<>>
      BY DEF Basis, Quiet
  <2>2. /\ session'.msgs = session.msgs /\ session'.journal = session.journal
        /\ inbox' = Append(inbox, m)
        /\ \/ worker.pc = "none" /\ worker' = [worker EXCEPT !.pc = "idle"]
           \/ worker.pc # "none" /\ worker' = worker
        /\ journaled' = journaled
      BY <1>3, <1>4, <1>7, <2>1, EnqueueIs
  <2>3. m \notin Numbers(inbox)
      BY <1>3, NumbersIs
  <2>4. Distinct(inbox)' /\ \A x \in Numbers(inbox)' : x \in Numbers(inbox)
      BY <1>3, <1>4, <2>2, <2>3, AppendQueue DEF Places
  <2>5. /\ \A x \in Taken' : x \in Taken
        /\ \A x \in RowUsers' : x \in RowUsers
        /\ worker'.pc # "saved" => Once(worker.rows)'
    <3>1. CASE worker.pc = "none" /\ worker' = [worker EXCEPT !.pc = "idle"]
      <4>1. worker'.pc = "idle" /\ worker'.rows = worker.rows
          BY <1>4, <3>1 DEF Workers
      <4>2. worker.rows = <<>>
          BY <3>1 DEF Basis, Quiet
      <4>3. Taken' = {} /\ RowUsers' = {} /\ Once(worker'.rows)
          BY <4>1, <4>2, EmptyQueue DEF Taken, RowUsers
      <4> QED
          BY <4>3
    <3>2. CASE worker.pc # "none" /\ worker' = worker
        BY <3>2 DEF Taken, RowUsers, Places
    <3> QED
        BY <2>2, <3>1, <3>2
  <2>6. Distinct(session.journal)' /\ Once(session.msgs)'
      BY <2>2 DEF Places
  <2>7. Users(session.msgs)' = Users(session.msgs)
        /\ Numbers(session.journal)' = Numbers(session.journal)
      BY <2>2
  <2> QED
      BY <1>1, <1>5, <2>2, <2>4, <2>5, <2>6, <2>7, PlacesShrink
<1> QED
    BY <1>2, <1>6, <1>7

\* The worker takes a message.
LEMMA TakeMessagePlaces ==
    ASSUME Basis, Places, TakeMessage
    PROVE  Places'
<1> DEFINE m == Head(inbox)
<1>1. /\ worker.pc = "idle" /\ inbox # <<>> /\ inbox' = Tail(inbox) /\ m \in Int \ {0}
      /\ worker' \in Workers /\ worker'.rows = <<>> /\ Grows(session, session')
      /\ \/ worker' = worker /\ session' = session
         \/ worker'.pc = "locked" /\ worker'.msg = m
      /\ UNCHANGED <<bus, sent, journaled>>
    BY TakeMessageIs
<1>2. inbox \in Seq(Int)
    BY BasisIs
<1>3. /\ Distinct(inbox)' /\ m \notin Numbers(inbox)'
      /\ Numbers(inbox) = Numbers(inbox') \cup IF m > 0 THEN {m} ELSE {}
    BY <1>1, <1>2, TailQueue DEF Places
<1>4. m \in Int
    BY <1>1
<1> HIDE DEF m
<1>5. /\ \A x : x \in Numbers(inbox)' => x \in Numbers(inbox) /\ x # m
      /\ m > 0 => m \in Numbers(inbox)
    BY <1>3
<1>6. /\ \A x \in Taken' : x = m /\ m > 0
      /\ RowUsers' = {} /\ Once(worker.rows)'
    BY <1>1, EmptyQueue DEF Taken, RowUsers
<1>7. /\ Distinct(session.journal)' /\ Once(session.msgs)'
      /\ Users(session.msgs)' = Users(session.msgs)
      /\ Numbers(session.journal)' = Numbers(session.journal)
    BY <1>1, GrowsPlaces
<1> DEFINE A == Apart(Numbers(bus), Numbers(inbox), Taken, RowUsers, Users(session.msgs),
                      Numbers(session.journal), sent, journaled)
<1>8. A
    BY DEF Places
<1>9. A'
    BY <1>1, <1>5, <1>6, <1>7, <1>8 DEF Apart
<1>10. Distinct(bus)'
    BY <1>1 DEF Places
<1> QED
    BY <1>3, <1>6, <1>7, <1>9, <1>10 DEF Places

\* The worker ends its turn, or itself, or drops a continuation.
LEMMA WorkerLeavesPlaces ==
    ASSUME Basis, Places, NEW r, Grows(session, r), session' = r,
           worker'.pc \in {"none", "idle"}, worker'.rows = <<>>, bus' = bus,
           inbox' = inbox \/ inbox' = <<>>, UNCHANGED <<sent, journaled>>
    PROVE  Places'
<1>1. /\ Distinct(session.journal)' /\ Once(session.msgs)'
      /\ Users(session.msgs)' = Users(session.msgs)
      /\ Numbers(session.journal)' = Numbers(session.journal)
    BY GrowsPlaces
<1>2. Taken' = {} /\ RowUsers' = {} /\ Once(worker.rows)'
    BY EmptyQueue DEF Taken, RowUsers
<1>3. Distinct(inbox)' /\ \A x \in Numbers(inbox)' : x \in Numbers(inbox)
    BY EmptyQueue DEF Places
<1>4. Distinct(bus)' /\ \A x \in Numbers(bus)' : x \in Numbers(bus)
    BY DEF Places
<1> QED
    BY <1>1, <1>2, <1>3, <1>4, PlacesShrink

\* WorkerExits, DropContinuation, Stop and the end of a turn.
LEMMA IdlePlaces ==
    ASSUME Basis, Places, WorkerExits \/ DropContinuation \/ Stop \/ CompleteTurn \/ TurnFails
    PROVE  Places'
<1>1. session \in Sessions /\ worker \in Workers
    BY BasisIs
<1>2. CASE WorkerExits \/ DropContinuation
  <2>1. /\ worker' = NoWorker \/ worker' = [NoWorker EXCEPT !.pc = "idle"]
        /\ UNCHANGED <<session, bus, inbox, sent, journaled>>
      BY <1>2 DEF WorkerExits, DropContinuation, env
  <2>2. worker'.pc \in {"none", "idle"} /\ worker'.rows = <<>>
      BY <2>1 DEF NoWorker
  <2>3. Grows(session, session)
      BY <1>1, GrowsSelf
  <2> QED
      BY <2>1, <2>2, <2>3, WorkerLeavesPlaces
<1>3. CASE Stop
  <2>1. /\ Grows(session, session') /\ worker'.pc = "none" /\ worker'.rows = <<>>
        /\ inbox' = <<>> /\ UNCHANGED <<bus, sent, journaled>>
      BY <1>3, StopIs
  <2> QED
      BY <2>1, WorkerLeavesPlaces
<1>4. CASE CompleteTurn \/ TurnFails
  <2>1. /\ Grows(session, session') /\ worker'.pc = "idle" /\ worker'.rows = <<>>
        /\ UNCHANGED <<bus, inbox, sent, journaled>>
      BY <1>4, TurnEndsIs
  <2> QED
      BY <2>1, WorkerLeavesPlaces
<1> QED
    BY <1>2, <1>3, <1>4

\* A turn starts.
LEMMA RestoreTurnPlaces ==
    ASSUME Basis, Places, RestoreTurn
    PROVE  Places'
<1>1. /\ worker.pc = "locked" /\ worker'.pc = "restored" /\ worker'.msg = worker.msg
      /\ worker'.rows = <<>> /\ Grows(session, session')
      /\ UNCHANGED <<bus, inbox, sent, journaled>>
    BY RestoreTurnIs
<1>2. /\ Distinct(session.journal)' /\ Once(session.msgs)'
      /\ Users(session.msgs)' = Users(session.msgs)
      /\ Numbers(session.journal)' = Numbers(session.journal)
    BY <1>1, GrowsPlaces
<1>3. Taken' = Taken /\ RowUsers' = {} /\ Once(worker.rows)'
    BY <1>1, EmptyQueue DEF Taken, RowUsers
<1>4. Distinct(inbox)' /\ Distinct(bus)' /\ Numbers(bus)' = Numbers(bus)
      /\ Numbers(inbox)' = Numbers(inbox)
    BY <1>1 DEF Places
<1> QED
    BY <1>1, <1>2, <1>3, <1>4, PlacesShrink

\* The user's message becomes a row, and leaves the journal.
LEMMA BuildTurnPlaces ==
    ASSUME Basis, Places, BuildTurn
    PROVE  Places'
<1> DEFINE m == worker.msg
           row == Row("user", m)
<1>1. /\ worker.pc = "restored" /\ m # 0 /\ worker'.pc = "request"
      /\ worker'.rows = <<>>
      /\ m < 0 => session' = session
      /\ m > 0 => /\ session'.msgs = Append(session.msgs, row)
                  /\ session'.journal = Without(session.journal, {m})
      /\ UNCHANGED <<up, bus, inbox, late, env>>
    BY BuildTurnIs
<1>2. UNCHANGED <<sent, journaled>>
    BY <1>1 DEF env
<1>3. /\ m \in Int /\ session.msgs \in Seq(Rows) /\ session.journal \in Seq(Nat \ {0})
    BY BasisIs
<1>4. /\ Taken' = {} /\ RowUsers' = {} /\ Once(worker.rows)'
      /\ Taken = IF m > 0 THEN {m} ELSE {}
    BY <1>1, EmptyQueue DEF Taken, RowUsers
<1>5. Distinct(inbox)' /\ Distinct(bus)' /\ Numbers(bus)' = Numbers(bus)
      /\ Numbers(inbox)' = Numbers(inbox)
    BY <1>1 DEF Places
<1>6. CASE m < 0
  <2>1. session' = session
      BY <1>1, <1>6
  <2>2. Distinct(session.journal)' /\ Once(session.msgs)'
      BY <2>1 DEF Places
  <2> QED
      BY <1>2, <1>4, <1>5, <2>1, <2>2, PlacesShrink
<1>7. CASE m > 0
  <2>1. row \in Rows /\ row.kind = "user" /\ row.id = m
      BY <1>3, RowTypes DEF Kinds
  <2> DEFINE t == <<row>>
  <2>2. /\ session'.msgs = Append(session.msgs, row)
        /\ session'.journal = Without(session.journal, {m})
      BY <1>1, <1>7
  <2> HIDE DEF row
  <2>3. /\ t \in Seq(Rows) /\ Once(t) /\ Users(t) = {m}
        /\ Append(session.msgs, row) = session.msgs \o t
      BY <1>3, <2>1, OneRow
  <2> HIDE DEF t
  <2> DEFINE A == Apart(Numbers(bus), Numbers(inbox), Taken, RowUsers, Users(session.msgs),
                        Numbers(session.journal), sent, journaled)
  <2>4. A
      BY DEF Places
  <2>5. m \in Taken
      BY <1>4, <1>7
  <2>6. m \notin Users(session.msgs)
      BY <2>4, <2>5 DEF Apart
  <2>7. Disjoint(Users(t), Users(session.msgs))
      BY <2>3, <2>6 DEF Disjoint
  <2>8. /\ Once(session.msgs)'
        /\ \A x : x \in Users(session.msgs)' <=> x \in Users(session.msgs) \/ x = m
    <3>1. session'.msgs = session.msgs \o t /\ Once(session.msgs)
        BY <2>2, <2>3 DEF Places
    <3>2. Once(session'.msgs) /\ Users(session'.msgs) = Users(session.msgs) \cup Users(t)
        BY <1>3, <2>3, <2>7, <3>1, ConcatOnce
    <3> QED
        BY <2>3, <3>2
  <2>9. /\ Distinct(session.journal)'
        /\ \A x : x \in Numbers(session.journal)' <=> x \in Numbers(session.journal) /\ x # m
    <3>1. /\ \A x : x \in Numbers(session'.journal) <=>
                       x \in Numbers(session.journal) /\ x \notin {m}
          /\ Distinct(session.journal) => Distinct(session'.journal)
        BY <1>3, <2>2, WithoutIs
    <3> QED
        BY <3>1 DEF Places
  <2> HIDE DEF m
  <2>10. A'
      BY <1>2, <1>4, <1>5, <2>4, <2>5, <2>8, <2>9 DEF Apart
  <2> QED
      BY <1>4, <1>5, <2>8, <2>9, <2>10 DEF Places
<1> QED
    BY <1>1, <1>3, <1>6, <1>7

\* The model calls a tool, or the tool runs, or it asks the user.
LEMMA ToolPlaces ==
    ASSUME Basis, Places, ModelCallsTool \/ ToolRuns \/ AsksUser
    PROVE  Places'
<1>1. worker.rows \in Seq(Rows) /\ session \in Sessions /\ worker \in Workers
    BY BasisIs
<1>2. /\ worker.pc \in {"request", "tool", "ran"} /\ worker'.pc \in {"tool", "ran", "final"}
      /\ Users(worker.rows)' = Users(worker.rows)
      /\ (Once(worker.rows) => Once(worker.rows)')
      /\ session'.msgs = session.msgs /\ session'.journal = session.journal
      /\ UNCHANGED <<bus, inbox, sent, journaled>>
  <2>1. CASE ModelCallsTool
    <3> DEFINE row == Row("call", tools')
               t == <<row>>
    <3>1. /\ worker.pc = "request" /\ worker'.pc = "tool"
          /\ worker'.rows = Append(worker.rows, row) /\ row \in Rows
          /\ session'.msgs = session.msgs /\ session'.journal = session.journal
          /\ UNCHANGED <<bus, inbox, sent, journaled>>
        BY <2>1, ModelCallsToolIs
    <3>2. row.kind = "call"
        BY RowTypes
    <3> HIDE DEF row
    <3>3. /\ t \in Seq(Rows) /\ Once(t) /\ Users(t) = {}
          /\ Append(worker.rows, row) = worker.rows \o t
        BY <1>1, <3>1, <3>2, OneRow
    <3> HIDE DEF t
    <3>4. Disjoint(Users(t), Users(worker.rows))
        BY <3>3 DEF Disjoint
    <3>5. /\ Users(worker.rows)' = Users(worker.rows)
          /\ (Once(worker.rows) => Once(worker.rows)')
      <4>1. worker'.rows = worker.rows \o t
          BY <3>1, <3>3
      <4>2. /\ Once(worker.rows) => Once(worker'.rows)
            /\ Users(worker'.rows) = Users(worker.rows) \cup Users(t)
          BY <1>1, <3>3, <3>4, <4>1, ConcatOnce
      <4> QED
          BY <3>3, <4>2
    <3> QED
        BY <3>1, <3>5
  <2>2. CASE ToolRuns
    <3>1. /\ worker.pc = "tool" /\ worker' = [worker EXCEPT !.pc = "ran"]
          /\ UNCHANGED <<session, bus, inbox, sent, journaled>>
        BY <2>2 DEF ToolRuns
    <3>2. worker'.pc = "ran" /\ worker'.rows = worker.rows
        BY <1>1, <3>1 DEF Workers
    <3> QED
        BY <3>1, <3>2
  <2>3. CASE AsksUser
    <3>1. /\ worker.pc = "ran" /\ worker' = [worker EXCEPT !.pc = "final"]
          /\ UNCHANGED <<session, bus, inbox, sent, journaled>>
        BY <2>3 DEF AsksUser
    <3>2. worker'.pc = "final" /\ worker'.rows = worker.rows
        BY <1>1, <3>1 DEF Workers
    <3> QED
        BY <3>1, <3>2
  <2> QED
      BY <2>1, <2>2, <2>3
<1>3. Taken' = {} /\ RowUsers' = RowUsers /\ Once(worker.rows)'
    BY <1>2 DEF Taken, RowUsers, Places
<1>4. /\ Distinct(inbox)' /\ Distinct(bus)' /\ Numbers(bus)' = Numbers(bus)
      /\ Numbers(inbox)' = Numbers(inbox)
      /\ Distinct(session.journal)' /\ Once(session.msgs)'
      /\ Users(session.msgs)' = Users(session.msgs)
      /\ Numbers(session.journal)' = Numbers(session.journal)
    BY <1>2 DEF Places
<1> QED
    BY <1>2, <1>3, <1>4, PlacesShrink

\* Follow-ups are injected.
LEMMA TurnGoesOnPlaces ==
    ASSUME Basis, Places, ToolDone \/ ModelAnswers
    PROVE  Places'
<1>1. /\ worker.pc \in {"ran", "request"} /\ worker'.pc \in {"request", "final"}
      /\ session'.msgs = session.msgs /\ session'.journal = session.journal
      /\ inbox' = SubSeq(inbox, Len(Injectable) + 1, Len(inbox))
      /\ UNCHANGED <<bus, sent, journaled>>
    BY TurnGoesOnIs
<1>2. PICK row \in Rows :
          /\ worker'.rows = (worker.rows \o <<row>>) \o Injected
          /\ ToolDone => row = Row("result", Last(worker.rows).id)
          /\ ModelAnswers => row.kind = "answer"
    BY TurnGoesOnIs
<1>3. row.kind # "user"
    BY <1>2, RowTypes
<1>4. /\ Injected \in Seq(Rows)
      /\ \A x \in Users(Injected) : x \in Numbers(inbox)
      /\ \A x \in Numbers(inbox') : x \in Numbers(inbox)
      /\ Once(Injected) /\ Distinct(inbox') /\ Disjoint(Users(Injected), Numbers(inbox'))
    BY <1>1, InjectedIs DEF Places
<1>5. worker.rows \in Seq(Rows) /\ Once(worker.rows)
    BY <1>1, BasisIs DEF Places
<1> DEFINE t == <<row>>
           b == worker.rows \o t
           u == Injected
<1>6. t \in Seq(Rows) /\ Once(t) /\ Users(t) = {}
    BY <1>3, OneRow
<1> HIDE DEF t
<1>7. Disjoint(Users(t), Users(worker.rows))
    BY <1>6 DEF Disjoint
<1>8. b \in Seq(Rows) /\ Once(b) /\ Users(b) = Users(worker.rows)
  <2> HIDE DEF b
  <2>1. b = worker.rows \o t
      BY DEF b
  <2>2. b \in Seq(Rows) /\ Once(b) /\ Users(b) = Users(worker.rows) \cup Users(t)
      BY <1>5, <1>6, <1>7, <2>1, ConcatOnce
  <2> QED
      BY <1>6, <2>2
<1>9. worker'.rows = b \o u
    BY <1>2 DEF t
<1> HIDE DEF b, u
<1> DEFINE A == Apart(Numbers(bus), Numbers(inbox), Taken, RowUsers, Users(session.msgs),
                      Numbers(session.journal), sent, journaled)
<1>10. A
    BY DEF Places
<1>11. RowUsers = Users(worker.rows)
    BY <1>1 DEF RowUsers
<1>12. Disjoint(Users(u), Users(b))
    BY <1>4, <1>8, <1>10, <1>11 DEF Apart, Disjoint, u
<1>13. Once(worker.rows)' /\ Users(worker.rows)' = Users(b) \cup Users(u)
    BY <1>4, <1>8, <1>9, <1>12, ConcatRows DEF u
<1>14. RowUsers' = Users(worker.rows)' /\ Taken' = {}
    BY <1>1 DEF RowUsers, Taken
<1>15. \A x : x \in RowUsers' <=> x \in RowUsers \/ x \in Users(u)
    BY <1>8, <1>11, <1>13, <1>14
<1>16. /\ \A x \in Users(u) : x \in Numbers(inbox) /\ x \notin Numbers(inbox)'
       /\ \A x \in Numbers(inbox)' : x \in Numbers(inbox)
    BY <1>4 DEF Disjoint, u
<1>17. /\ Distinct(bus)' /\ Numbers(bus)' = Numbers(bus)
       /\ Distinct(session.journal)' /\ Once(session.msgs)'
       /\ Users(session.msgs)' = Users(session.msgs)
       /\ Numbers(session.journal)' = Numbers(session.journal)
    BY <1>1 DEF Places
<1>18. A'
    BY <1>1, <1>10, <1>14, <1>15, <1>16, <1>17 DEF Apart
<1> QED
    BY <1>4, <1>13, <1>17, <1>18 DEF Places

\* The rows of the turn join the history, and their messages leave the journal.
LEMMA PersistTurnPlaces ==
    ASSUME Basis, Places, PersistTurn
    PROVE  Places'
<1>1. /\ worker.pc = "final" /\ worker'.pc = "saved"
      /\ session'.msgs = Saved(session.msgs, worker.rows)
      /\ session'.journal = Without(session.journal, Users(worker.rows))
      /\ UNCHANGED <<up, bus, inbox, late, env>>
    BY PersistTurnIs
<1>2. UNCHANGED <<sent, journaled>>
    BY <1>1 DEF env
<1>3. /\ worker.rows \in Seq(Rows) /\ session.msgs \in Seq(Rows)
      /\ session.journal \in Seq(Nat \ {0}) /\ Once(worker.rows) /\ Once(session.msgs)
    BY <1>1, BasisIs DEF Places
<1> DEFINE A == Apart(Numbers(bus), Numbers(inbox), Taken, RowUsers, Users(session.msgs),
                      Numbers(session.journal), sent, journaled)
<1>4. A
    BY DEF Places
<1>5. RowUsers = Users(worker.rows) /\ RowUsers' = {} /\ Taken' = {}
    BY <1>1 DEF RowUsers, Taken
<1>6. Disjoint(Users(worker.rows), Users(session.msgs))
    BY <1>4, <1>5 DEF Apart, Disjoint
<1>7. /\ Users(session'.msgs) = Users(session.msgs) \cup Users(worker.rows)
      /\ Once(session'.msgs)
    BY <1>1, <1>3, <1>6, SavedIs
<1>8. /\ \A x : x \in Numbers(session'.journal) <=>
                   x \in Numbers(session.journal) /\ x \notin Users(worker.rows)
      /\ Distinct(session.journal) => Distinct(session'.journal)
    BY <1>1, <1>3, WithoutIs
<1>9. /\ Distinct(bus)' /\ Numbers(bus)' = Numbers(bus) /\ Distinct(inbox)'
      /\ Numbers(inbox)' = Numbers(inbox) /\ Distinct(session.journal)'
    BY <1>1, <1>8 DEF Places
<1>10. /\ \A x : x \in Users(session.msgs)' <=> x \in Users(session.msgs) \/ x \in RowUsers
       /\ \A x : x \in Numbers(session.journal)' <=>
                    x \in Numbers(session.journal) /\ x \notin RowUsers
    BY <1>5, <1>7, <1>8
<1>11. A'
    BY <1>2, <1>4, <1>5, <1>9, <1>10 DEF Apart
<1> QED
    BY <1>1, <1>7, <1>9, <1>11 DEF Places

\* The gateway dies.
LEMMA CrashPlaces ==
    ASSUME Basis, Places, Crash
    PROVE  Places'
<1>1. /\ bus' = <<>> /\ inbox' = <<>> /\ worker' = NoWorker
      /\ UNCHANGED <<session, sent, journaled>>
    BY DEF Crash
<1>2. worker'.pc = "none" /\ worker'.rows = <<>>
    BY <1>1 DEF NoWorker
<1>3. Taken' = {} /\ RowUsers' = {} /\ Once(worker.rows)'
    BY <1>2, EmptyQueue DEF Taken, RowUsers
<1>4. Distinct(bus)' /\ Numbers(bus)' = {} /\ Distinct(inbox)' /\ Numbers(inbox)' = {}
    BY <1>1, EmptyQueue
<1>5. Distinct(session.journal)' /\ Once(session.msgs)'
    BY <1>1 DEF Places
<1> QED
    BY <1>1, <1>3, <1>4, <1>5, PlacesShrink

\* The gateway starts, and the journal is queued again.
LEMMA RestartPlaces ==
    ASSUME Basis, Places, NEW unfinished \in BOOLEAN, Restart(unfinished)
    PROVE  Places'
<1>1. /\ inbox = <<>> /\ worker.pc = "none" /\ worker.rows = <<>> /\ Grows(session, session')
      /\ bus' = session.journal \/ bus' = <<>>
      /\ UNCHANGED <<inbox, worker, sent, journaled>>
    BY RestartIs
<1>2. /\ Distinct(session.journal)' /\ Once(session.msgs)'
      /\ Users(session.msgs)' = Users(session.msgs)
      /\ Numbers(session.journal)' = Numbers(session.journal)
    BY <1>1, GrowsPlaces
<1>3. Taken' = {} /\ RowUsers' = {} /\ Once(worker.rows)'
    BY <1>1, EmptyQueue DEF Taken, RowUsers
<1>4. /\ Distinct(bus)' /\ \A x \in Numbers(bus)' : x \in Numbers(session.journal)
      /\ Distinct(inbox)' /\ Numbers(inbox)' = {}
    BY <1>1, EmptyQueue DEF Places
<1> DEFINE A == Apart(Numbers(bus), Numbers(inbox), Taken, RowUsers, Users(session.msgs),
                      Numbers(session.journal), sent, journaled)
<1>5. A
    BY DEF Places
<1>6. A'
    BY <1>1, <1>2, <1>3, <1>4, <1>5 DEF Apart
<1> QED
    BY <1>2, <1>3, <1>4, <1>6 DEF Places

\* A click arrives.
LEMMA ClicksPlaces ==
    ASSUME Basis, Places, NEW action \in {"continue", "dismiss"}, Clicks(action)
    PROVE  Places'
<1>1. PICK rid : Act(action, rid)
    BY ClicksAre
<1>2. UNCHANGED <<inbox, worker, sent, journaled>>
    BY ClicksAre
<1>3. session \in Sessions /\ session.rid \in Nat /\ bus \in Seq(Int)
    BY BasisIs
<1>4. Grows(session, session') /\ (bus' = bus \/ bus' = Append(bus, -session.rid))
  <2>1. Grows(session, session)
      BY <1>3, GrowsSelf
  <2> QED
      BY <1>1, <2>1, ActIs
<1>5. /\ Distinct(session.journal)' /\ Once(session.msgs)'
      /\ Users(session.msgs)' = Users(session.msgs)
      /\ Numbers(session.journal)' = Numbers(session.journal)
    BY <1>4, GrowsPlaces
<1>6. /\ Taken' = Taken /\ RowUsers' = RowUsers /\ Distinct(inbox)'
      /\ Numbers(inbox)' = Numbers(inbox) /\ (worker'.pc # "saved" => Once(worker.rows)')
    BY <1>2 DEF Taken, RowUsers, Places
<1>7. Distinct(bus)' /\ \A x \in Numbers(bus)' : x \in Numbers(bus)
  <2>1. CASE bus' = bus
      BY <2>1 DEF Places
  <2>2. CASE bus' = Append(bus, -session.rid)
    <3>1. -session.rid \in Int /\ ~(-session.rid > 0)
        BY <1>3
    <3>2. -session.rid \notin Numbers(bus)
        BY <3>1, NumbersIs
    <3> QED
        BY <1>3, <2>2, <3>1, <3>2, AppendQueue DEF Places
  <2> QED
      BY <1>4, <2>1, <2>2
<1> QED
    BY <1>2, <1>5, <1>6, <1>7, PlacesShrink

\* Every step keeps Places.
LEMMA PlacesNext ==
    ASSUME Basis, Places, [Next]_vars
    PROVE  Places'
<1>1. ASSUME UNCHANGED <<session, bus, inbox, worker, sent, journaled>> PROVE Places'
  <2>1. /\ Taken' = Taken /\ RowUsers' = RowUsers /\ Distinct(inbox)' /\ Distinct(bus)'
        /\ Distinct(session.journal)' /\ Once(session.msgs)'
        /\ (worker'.pc # "saved" => Once(worker.rows)')
      BY <1>1 DEF Taken, RowUsers, Places
  <2> QED
      BY <1>1, <2>1, PlacesShrink
<1>2. CASE UNCHANGED vars
    BY <1>1, <1>2 DEF vars, env
<1>3. ASSUME NEW action, ClickLate(action) PROVE Places'
    BY <1>1, <1>3 DEF ClickLate, env
<1>4. CASE Next
    BY <1>3, <1>4, NextIs, RouteMessagePlaces, RouteContinuationPlaces, TakeMessagePlaces,
       IdlePlaces, RestoreTurnPlaces, BuildTurnPlaces, ToolPlaces, TurnGoesOnPlaces,
       PersistTurnPlaces, UserSendsPlaces, CrashPlaces, RestartPlaces, ClicksPlaces
<1> QED
    BY <1>2, <1>4

\* Places is an invariant.
LEMMA PlacesHolds == Spec => []Places
<1>1. Init => Places
  <2> SUFFICES ASSUME Init PROVE Places
      OBVIOUS
  <2>1. /\ bus = <<>> /\ inbox = <<>> /\ session.journal = <<>> /\ session.msgs = <<>>
        /\ worker.pc = "none" /\ worker.rows = <<>> /\ journaled = {}
      BY DEF Init, NewSession, NoWorker
  <2>2. Taken = {} /\ RowUsers = {}
      BY <2>1, EmptyQueue DEF Taken, RowUsers
  <2> QED
      BY <2>1, <2>2, EmptyQueue DEF Places, Apart
<1>2. Basis /\ Places /\ [Next]_vars => Places'
    BY PlacesNext
<1> QED
    BY <1>1, <1>2, BasisHolds, PTL DEF Spec

\* A follow-up that was journaled is in the journal until its row is in the history, and
\* then it is there once, whatever crash, injection, stop or requeueing comes between
\* (_enqueue_session_message, _drain_pending, acknowledge_pending_followups).
THEOREM JournaledFollowupsKept == Spec => []FollowupsKept
<1>1. Basis /\ Places => FollowupsKept
  <2> SUFFICES ASSUME Basis, Places, NEW m \in journaled
               PROVE  /\ m \in Users(session.msgs) \/ Contains(session.journal, m)
                      /\ Cardinality({i \in 1..Len(session.msgs) :
                                        session.msgs[i] = Row("user", m)}) <= 1
                      /\ ~(m \in Users(session.msgs) /\ Contains(session.journal, m))
      BY DEF FollowupsKept
  <2> DEFINE msgs == session.msgs
             D == {i \in 1..Len(msgs) : msgs[i] = Row("user", m)}
  <2>1. msgs \in Seq(Rows) /\ session.journal \in Seq(Nat \ {0})
      BY BasisIs
  <2>2. \A i \in 1..Len(session.journal) : session.journal[i] > 0
      BY <2>1, ElementOfSeq
  <2>3. Contains(session.journal, m) <=> m \in Numbers(session.journal)
      BY <2>2, NumbersIs DEF Contains
  <2>4. /\ m \in Numbers(session.journal) \/ m \in Users(msgs)
        /\ ~(m \in Numbers(session.journal) /\ m \in Users(msgs))
      BY DEF Places, Apart
  <2>5. \A i, j \in D : i = j
    <3>1. \A i \in D : i \in 1..Len(msgs) /\ msgs[i].kind = "user" /\ msgs[i].id = m
        BY RowTypes
    <3>2. Once(msgs)
        BY DEF Places
    <3> HIDE DEF D
    <3> QED
        BY <3>1, <3>2 DEF Once
  <2> HIDE DEF D
  <2>6. Cardinality(D) <= 1
    <3>1. CASE D = {}
        BY <3>1, FS_EmptySet
    <3>2. CASE D # {}
      <4>1. PICK i \in D : TRUE
          BY <3>2
      <4>2. D = {i}
          BY <2>5, <4>1
      <4>3. Cardinality({i}) = 1
          BY FS_Singleton
      <4> QED
          BY <4>2, <4>3
    <3> QED
        BY <3>1, <3>2
  <2> QED
      BY <2>3, <2>4, <2>6 DEF D
<1> QED
    BY <1>1, BasisHolds, PlacesHolds, PTL

(***************************************************************************)
(* Where the last executed call is.                                        *)
(***************************************************************************)
\* The history grows, and the worker stays as it is or is not in a turn.
LEMMA VisibleGrows ==
    ASSUME Visible, latest' = latest,
           \A k : Recalled(session, k) => Recalled(session', k),
           \A k : Declared(session.msgs, k) => Declared(session'.msgs, k),
           worker' = worker \/ worker'.pc \in {"none", "idle", "locked"}
    PROVE  Visible'
<1>1. CASE worker' = worker
    BY <1>1 DEF Visible, InTurn
<1>2. CASE worker'.pc \in {"none", "idle", "locked"}
    BY <1>2 DEF Visible, InTurn
<1> QED
    BY <1>1, <1>2

\* The same for a step of recovery.
LEMMA VisibleRecovery ==
    ASSUME Visible, latest' = latest, NEW s, Grows(session, s),
           session'.msgs = s.msgs, session'.checkpoint = s.checkpoint,
           worker' = worker \/ worker'.pc \in {"none", "idle", "locked"}
    PROVE  Visible'
<1>1. /\ \A k : Recalled(session, k) => Recalled(session', k)
      /\ \A k : Declared(session.msgs, k) => Declared(session'.msgs, k)
    BY DEF Grows, Recalled
<1> QED
    BY <1>1, VisibleGrows

\* The steps that are not in a turn.
LEMMA OutsideVisible ==
    ASSUME Basis, Visible,
           \/ UserSends \/ TakeMessage \/ WorkerExits \/ DropContinuation \/ Stop \/ Crash
           \/ CompleteTurn \/ TurnFails
           \/ \E m \in 1..MaxMsgs : RouteMessage(m)
           \/ \E rid \in 1..MaxFaults : RouteContinuation(Continuation(rid))
           \/ \E unfinished \in BOOLEAN : Restart(unfinished)
           \/ \E action \in {"continue", "dismiss"} : Clicks(action) \/ ClickLate(action)
    PROVE  Visible'
<1>1. session \in Sessions /\ worker \in Workers /\ Grows(session, session)
    BY BasisIs, GrowsSelf
<1>2. CASE UserSends
  <2>1. UNCHANGED <<session, worker, latest>>
      BY <1>2 DEF UserSends
  <2> QED
      BY <1>1, <2>1, VisibleRecovery
<1>3. CASE TakeMessage
  <2>1. /\ Grows(session, session') /\ latest' = latest
        /\ worker' = worker \/ worker'.pc = "locked"
      BY <1>3, TakeMessageIs
  <2> QED
      BY <2>1, VisibleRecovery
<1>4. CASE WorkerExits \/ DropContinuation
  <2>1. /\ worker' = NoWorker \/ worker' = [NoWorker EXCEPT !.pc = "idle"]
        /\ UNCHANGED <<session, latest>>
      BY <1>4 DEF WorkerExits, DropContinuation, env
  <2>2. worker'.pc \in {"none", "idle"}
      BY <2>1 DEF NoWorker
  <2> QED
      BY <1>1, <2>1, <2>2, VisibleRecovery
<1>5. CASE Stop
  <2>1. Grows(session, session') /\ latest' = latest /\ worker'.pc = "none"
      BY <1>5, StopIs
  <2> QED
      BY <2>1, VisibleRecovery
<1>6. CASE Crash
  <2>1. UNCHANGED <<session, latest>> /\ worker' = NoWorker
      BY <1>6 DEF Crash
  <2>2. worker'.pc = "none"
      BY <2>1 DEF NoWorker
  <2> QED
      BY <1>1, <2>1, <2>2, VisibleRecovery
<1>7. CASE CompleteTurn \/ TurnFails
  <2>1. Grows(session, session') /\ latest' = latest /\ worker'.pc = "idle"
      BY <1>7, TurnEndsIs
  <2> QED
      BY <2>1, VisibleRecovery
<1>8. ASSUME NEW m \in 1..MaxMsgs, RouteMessage(m) PROVE Visible'
  <2>1. latest' = latest
      BY <1>8, RouteMessageIs DEF Basis
  <2>2. PICK s \in Sessions, w \in Workers, q \in Seq(Int \ {0}) :
            /\ Enqueue(m, s, w, q) /\ (w.pc = "none" => q = <<>>) /\ Grows(session, s)
            /\ \/ w = worker /\ q = inbox
               \/ w = NoWorker /\ q = <<>>
      BY <1>8, RouteMessageIs DEF Basis
  <2>3. m \in Int \ {0}
      BY RecoveryAssumption
  <2>4. /\ session'.msgs = s.msgs /\ session'.checkpoint = s.checkpoint
        /\ \/ w.pc = "none" /\ worker' = [w EXCEPT !.pc = "idle"]
           \/ w.pc # "none" /\ worker' = w
      BY <2>2, <2>3, EnqueueIs
  <2>5. worker' = worker \/ worker'.pc = "idle"
    <3>1. CASE w.pc = "none" /\ worker' = [w EXCEPT !.pc = "idle"]
        BY <3>1 DEF Workers
    <3>2. CASE w.pc # "none" /\ worker' = w
        BY <2>2, <3>2 DEF NoWorker
    <3> QED
        BY <2>4, <3>1, <3>2
  <2> QED
      BY <2>1, <2>2, <2>4, <2>5, VisibleRecovery
<1>9. ASSUME NEW rid \in 1..MaxFaults, RouteContinuation(Continuation(rid)) PROVE Visible'
  <2> DEFINE m == Continuation(rid)
  <2>1. latest' = latest
        /\ (UNCHANGED <<session, inbox, worker, journaled>> \/ Enqueue(m, session, worker, inbox))
      BY <1>9 DEF RouteContinuation
  <2>2. CASE UNCHANGED <<session, inbox, worker, journaled>>
      BY <1>1, <2>1, <2>2, VisibleRecovery
  <2>3. CASE Enqueue(m, session, worker, inbox)
    <3>1. m \in Int \ {0} /\ inbox \in Seq(Int \ {0}) /\ (worker.pc = "none" => inbox = <<>>)
      <4>1. m \in Int \ {0}
          BY RecoveryAssumption DEF Continuation
      <4>2. inbox \in Seq(Int \ {0})
          BY BasisIs
      <4>3. worker.pc = "none" => inbox = <<>>
          BY DEF Basis, Quiet
      <4> QED
          BY <4>1, <4>2, <4>3
    <3> HIDE DEF m
    <3>2. /\ session'.msgs = session.msgs /\ session'.checkpoint = session.checkpoint
          /\ \/ worker.pc = "none" /\ worker' = [worker EXCEPT !.pc = "idle"]
             \/ worker.pc # "none" /\ worker' = worker
        BY <1>1, <2>3, <3>1, EnqueueIs
    <3>3. worker' = worker \/ worker'.pc = "idle"
        BY <1>1, <3>2 DEF Workers
    <3> QED
        BY <1>1, <2>1, <3>2, <3>3, VisibleRecovery
  <2> QED
      BY <2>1, <2>2, <2>3
<1>10. ASSUME NEW unfinished \in BOOLEAN, Restart(unfinished) PROVE Visible'
  <2>1. Grows(session, session') /\ latest' = latest /\ worker' = worker
      BY <1>10, RestartIs
  <2> QED
      BY <2>1, VisibleRecovery
<1>11. ASSUME NEW action \in {"continue", "dismiss"}, Clicks(action) PROVE Visible'
  <2>1. PICK rid : Act(action, rid)
      BY <1>11, ClicksAre
  <2>2. latest' = latest /\ worker' = worker
      BY <1>11, ClicksAre
  <2>3. Grows(session, session')
      BY <1>1, <2>1, ActIs
  <2> QED
      BY <2>2, <2>3, VisibleRecovery
<1>12. ASSUME NEW action, ClickLate(action) PROVE Visible'
  <2>1. UNCHANGED <<session, worker, latest>>
      BY <1>12 DEF ClickLate, env
  <2> QED
      BY <1>1, <2>1, VisibleRecovery
<1> QED
    BY <1>2, <1>3, <1>4, <1>5, <1>6, <1>7, <1>8, <1>9, <1>10, <1>11, <1>12

\* A turn starts: the call of the checkpoint is in the history.
LEMMA RestoreTurnVisible ==
    ASSUME Basis, Visible, RestoreTurn
    PROVE  Visible'
<1>1. /\ worker'.pc = "restored" /\ Grows(session, session') /\ latest' = latest
      /\ \A k : Recalled(session, k) => Declared(session'.msgs, k)
    BY RestoreTurnIs
<1>2. latest' # 0 => Declared(session'.msgs, latest')
    BY <1>1 DEF Visible
<1> QED
    BY <1>1, <1>2 DEF Visible, Recalled

\* The user's message becomes a row.
LEMMA BuildTurnVisible ==
    ASSUME Basis, Visible, BuildTurn
    PROVE  Visible'
<1>1. /\ worker.pc = "restored" /\ worker'.pc = "request" /\ worker.rows = <<>>
      /\ worker.msg # 0 /\ worker'.rows = <<>> /\ session'.checkpoint = session.checkpoint
      /\ worker.msg < 0 => session' = session
      /\ worker.msg > 0 => session'.msgs = Append(session.msgs, Row("user", worker.msg))
    BY BuildTurnIs
<1>2. latest' = latest
    BY DEF BuildTurn, env
<1>3. session.msgs \in Seq(Rows) /\ worker.msg \in Int
    BY BasisIs
<1>4. \A k : Declared(session.msgs, k) => Declared(session'.msgs, k)
  <2>1. CASE worker.msg < 0
      BY <1>1, <2>1
  <2>2. CASE worker.msg > 0
    <3> DEFINE row == Row("user", worker.msg)
               t == <<row>>
    <3>1. row \in Rows
        BY <1>3, RowTypes DEF Kinds
    <3>2. session'.msgs = Append(session.msgs, row)
        BY <1>1, <2>2
    <3> HIDE DEF row
    <3>3. t \in Seq(Rows) /\ session'.msgs = session.msgs \o t
        BY <1>3, <3>1, <3>2, OneRow
    <3> HIDE DEF t
    <3>4. \A k : Declared(session.msgs \o t, k) <=> Declared(session.msgs, k) \/ Declared(t, k)
        BY <1>3, <3>3, ConcatRows
    <3> QED
        BY <3>3, <3>4
  <2> QED
      BY <1>1, <1>3, <2>1, <2>2
<1>5. latest # 0 => Recalled(session', latest)
    BY <1>1, <1>4 DEF Visible, Recalled
<1>6. latest # 0 => Declared(session'.msgs, latest)
    BY <1>1, <1>4, EmptyQueue DEF Visible, InTurn
<1> QED
    BY <1>1, <1>2, <1>5, <1>6 DEF Visible

\* The last row of the turn.
LEMMA LastRow ==
    ASSUME NEW s \in Seq(Rows), NEW row \in Rows, NEW r, r = Append(s, row)
    PROVE  Last(r) = row /\ r \in Seq(Rows) /\ r # <<>>
BY AppendProperties, LenProperties DEF Last

\* The model calls a tool.
LEMMA ModelCallsToolVisible ==
    ASSUME Basis, Visible, ModelCallsTool
    PROVE  Visible'
<1>1. /\ worker'.pc = "tool" /\ worker'.rows = Append(worker.rows, Row("call", tools'))
      /\ Row("call", tools') \in Rows /\ tools \in Nat /\ tools' = tools + 1 /\ latest' = 0
      /\ session'.checkpoint = [phase |-> "awaiting_tools", id |-> tools']
    BY ModelCallsToolIs
<1>2. worker.rows \in Seq(Rows)
    BY BasisIs
<1>3. Last(worker'.rows) = Row("call", tools')
    BY <1>1, <1>2, LastRow
<1>4. Last(worker'.rows).kind = "call" /\ Last(worker'.rows).id = tools' /\ tools' > 0
    BY <1>1, <1>3, RowTypes
<1>5. Recalled(session', tools')
    BY <1>1 DEF Recalled, CallPhases
<1> QED
    BY <1>1, <1>4, <1>5 DEF Visible

\* A call that is the last row is in the rows.
LEMMA LastDeclared ==
    ASSUME NEW s \in Seq(Rows), s # <<>>, Last(s).kind = "call"
    PROVE  Declared(s, Last(s).id) /\ Last(s).id \in Int
<1>1. Len(s) \in 1..Len(s)
    BY EmptySeq, LenProperties
<1>2. s[Len(s)] \in Rows
    BY <1>1, ElementOfSeq
<1>3. s[Len(s)].kind = "call" /\ Last(s).id = s[Len(s)].id
    BY DEF Last
<1>4. s[Len(s)].id \in Int
    BY <1>2 DEF Rows
<1> QED
    BY <1>1, <1>3, <1>4, DeclaredIs

\* The tool runs.
LEMMA ToolRunsVisible ==
    ASSUME Basis, Visible, ToolRuns
    PROVE  Visible'
<1>1. /\ worker.pc = "tool" /\ worker' = [worker EXCEPT !.pc = "ran"]
      /\ latest' = Last(worker.rows).id /\ session' = session
    BY DEF ToolRuns
<1>2. worker \in Workers /\ worker.rows \in Seq(Rows) /\ worker.rows # <<>>
    BY <1>1, BasisIs DEF Basis, Quiet
<1>3. worker'.pc = "ran" /\ worker'.rows = worker.rows
    BY <1>1, <1>2 DEF Workers
<1>4. /\ Last(worker.rows).kind = "call" /\ Last(worker.rows).id > 0
      /\ Recalled(session, Last(worker.rows).id)
    BY <1>1 DEF Visible
<1>5. Declared(worker.rows, Last(worker.rows).id)
    BY <1>2, <1>4, LastDeclared
<1> QED
    BY <1>1, <1>3, <1>4, <1>5 DEF Visible

\* The tool is a question to the user.
LEMMA AsksUserVisible ==
    ASSUME Basis, Visible, AsksUser
    PROVE  Visible'
<1>1. /\ worker.pc = "ran" /\ worker' = [worker EXCEPT !.pc = "final"]
      /\ latest' = latest /\ session' = session
    BY DEF AsksUser
<1>2. worker \in Workers
    BY BasisIs
<1>3. worker'.pc = "final" /\ worker'.rows = worker.rows
    BY <1>1, <1>2 DEF Workers
<1> QED
    BY <1>1, <1>3 DEF Visible, InTurn

\* The rows of the turn join the history.
LEMMA PersistTurnVisible ==
    ASSUME Basis, Visible, PersistTurn
    PROVE  Visible'
<1>1. /\ worker.pc = "final" /\ worker'.pc = "saved" /\ latest' = latest
      /\ session'.msgs = Saved(session.msgs, worker.rows)
    BY PersistTurnIs DEF env
<1>2. session.msgs \in Seq(Rows) /\ worker.rows \in Seq(Rows)
    BY BasisIs
<1>3. latest # 0 => Declared(session.msgs, latest) \/ Declared(worker.rows, latest)
    BY <1>1 DEF Visible, InTurn
<1>4. latest # 0 => Declared(session'.msgs, latest)
    BY <1>1, <1>2, <1>3, SavedIs
<1> QED
    BY <1>1, <1>4 DEF Visible, Recalled

\* A request goes on.
LEMMA TurnGoesOnVisible ==
    ASSUME Basis, Visible, ToolDone \/ ModelAnswers
    PROVE  Visible'
<1>1. /\ worker'.pc \in {"request", "final"} /\ session'.msgs = session.msgs
      /\ ToolDone => worker.pc = "ran" /\ worker'.pc = "request" /\ latest' = latest
      /\ ModelAnswers => latest' = 0
      /\ ToolDone => session'.checkpoint =
                       [phase |-> "tools_completed", id |-> Last(worker.rows).id]
    BY TurnGoesOnIs
<1>2. CASE ModelAnswers
    BY <1>1, <1>2 DEF Visible
<1>3. CASE ToolDone
  <2>1. PICK row \in Rows : worker'.rows = (worker.rows \o <<row>>) \o Injected
      BY TurnGoesOnIs
  <2>2. worker.rows \in Seq(Rows) /\ worker.rows # <<>> /\ Injected \in Seq(Rows)
      BY <1>1, <1>3, BasisIs, InjectedIs DEF Basis, Quiet
  <2>3. latest = Last(worker.rows).id /\ Last(worker.rows).kind = "call"
      BY <1>1, <1>3 DEF Visible
  <2>4. Declared(worker.rows, latest)
      BY <2>2, <2>3, LastDeclared
  <2> DEFINE t == <<row>>
             b == worker.rows \o t
  <2>5. t \in Seq(Rows)
      BY OneRow
  <2> HIDE DEF t
  <2>6. b \in Seq(Rows)
      BY <2>2, <2>5, ConcatIs
  <2>7. Declared(b, latest)
      BY <2>2, <2>4, <2>5, ConcatRows
  <2>8. worker'.rows = b \o Injected
      BY <2>1 DEF t
  <2> HIDE DEF b
  <2>9. Declared(worker'.rows, latest)
      BY <2>2, <2>6, <2>7, <2>8, ConcatRows
  <2>10. Recalled(session', latest)
      BY <1>1, <1>3, <2>3 DEF Recalled, CallPhases
  <2> QED
      BY <1>1, <1>3, <2>9, <2>10 DEF Visible
<1> QED
    BY <1>2, <1>3

\* Every step keeps Visible.
LEMMA VisibleNext ==
    ASSUME Basis, Visible, [Next]_vars
    PROVE  Visible'
<1>1. CASE UNCHANGED vars
    BY <1>1 DEF vars, env, Visible, InTurn
<1>2. CASE Next
    BY <1>2, NextIs, OutsideVisible, RestoreTurnVisible, BuildTurnVisible,
       ModelCallsToolVisible, ToolRunsVisible, AsksUserVisible, TurnGoesOnVisible,
       PersistTurnVisible
<1> QED
    BY <1>1, <1>2

\* Visible is an invariant.
LEMMA VisibleHolds == Spec => []Visible
<1>1. Init => Visible
    BY DEF Init, Visible, NoWorker
<1>2. Basis /\ Visible /\ [Next]_vars => Visible'
    BY VisibleNext
<1> QED
    BY <1>1, <1>2, BasisHolds, PTL DEF Spec

\* A tool call that was executed, with nothing checkpointed after it, is in the context
\* of every later request, whatever crash, stop, failure or click comes between
\* (AgentRunner's checkpoints, restore_runtime_checkpoint).
THEOREM ExecutedCallVisible == Spec => []LastCallVisible
<1>1. Basis /\ Visible => LastCallVisible
  <2> SUFFICES ASSUME Basis, Visible, worker.pc = "request", latest # 0
               PROVE  Declared(Context, latest)
      BY DEF LastCallVisible
  <2>1. session.msgs \in Seq(Rows) /\ worker.rows \in Seq(Rows)
      BY BasisIs
  <2>2. Declared(session.msgs, latest) \/ Declared(worker.rows, latest)
      BY DEF Visible, InTurn
  <2> QED
      BY <2>1, <2>2, ConcatRows DEF Context
<1> QED
    BY <1>1, BasisHolds, VisibleHolds, PTL

(***************************************************************************)
(* Legal histories.                                                        *)
(***************************************************************************)
\* Rows that may end with a call.
LEMMA ClosedPaired ==
    ASSUME NEW s, NEW A, Closed(s, A)
    PROVE  Paired(s, A)
BY DEF Closed, Paired

\* The ids of rows are numbers.
LEMMA RowIds ==
    ASSUME NEW s \in Seq(Rows)
    PROVE  \A i \in 1..Len(s) : s[i].id \in Int
<1>1. \A i \in 1..Len(s) : s[i] \in Rows
    BY ElementOfSeq
<1>2. \A r \in Rows : r.id \in Int
    BY DEF Rows
<1> QED
    BY <1>1, <1>2

\* More calls were made.
LEMMA BoundedMore ==
    ASSUME NEW s \in Seq(Rows), NEW n \in Int, NEW m \in Int, n <= m, Bounded(s, n)
    PROVE  Bounded(s, m)
<1>1. \A i \in 1..Len(s) : s[i].id \in Int
    BY RowIds
<1> QED
    BY <1>1 DEF Bounded

\* A call after closed rows.
LEMMA PairedCall ==
    ASSUME NEW s \in Seq(Rows), NEW row \in Rows, NEW r, r = Append(s, row), NEW A,
           Closed(s, A), row.kind = "call"
    PROVE  Paired(r, A)
<1>1. /\ Len(r) = Len(s) + 1 /\ Len(s) \in Nat /\ r[Len(s) + 1] = row
      /\ \A i \in 1..Len(s) : r[i] = s[i]
    BY AppendProperties, LenProperties
<1> SUFFICES ASSUME NEW i \in 1..Len(r)
             PROVE  /\ r[i].kind = "call" /\ r[i].id \notin A =>
                          \/ i = Len(r)
                          \/ r[i + 1].id = r[i].id /\ r[i + 1].kind \in {"result", "cut"}
                    /\ r[i].kind \in {"result", "cut"} =>
                          i > 1 /\ r[i - 1].kind = "call" /\ r[i - 1].id = r[i].id
    BY DEF Paired
<1>2. CASE i = Len(r)
    BY <1>1, <1>2
<1>3. CASE i # Len(r)
  <2>1. i \in 1..Len(s)
      BY <1>1, <1>3
  <2>2. i < Len(s) => i + 1 \in 1..Len(s)
      BY <1>1, <2>1
  <2>3. i > 1 => i - 1 \in 1..Len(s)
      BY <1>1, <2>1
  <2>4. r[i] = s[i] /\ (i < Len(s) => r[i + 1] = s[i + 1]) /\ (i > 1 => r[i - 1] = s[i - 1])
      BY <1>1, <2>1, <2>2, <2>3
  <2> QED
      BY <2>1, <2>4 DEF Closed
<1> QED
    BY <1>2, <1>3

\* The result of the call that the rows end with.
LEMMA ClosedResult ==
    ASSUME NEW s \in Seq(Rows), NEW row \in Rows, NEW r, r = s \o <<row>>, NEW A,
           Paired(s, A), s # <<>>, Last(s).kind = "call", row.kind \in {"result", "cut"},
           row.id = Last(s).id
    PROVE  Closed(r, A)
<1>1. Append(s, row) = s \o <<row>>
    BY OneRow
<1>2. /\ Len(r) = Len(s) + 1 /\ Len(s) \in Nat /\ r[Len(s) + 1] = row
      /\ \A i \in 1..Len(s) : r[i] = s[i]
    BY <1>1, AppendProperties, LenProperties
<1>3. Len(s) \in 1..Len(s)
    BY EmptySeq, LenProperties
<1>4. s[Len(s)].kind = "call" /\ row.id = s[Len(s)].id
    BY DEF Last
<1> SUFFICES ASSUME NEW i \in 1..Len(r)
             PROVE  /\ r[i].kind = "call" /\ r[i].id \notin A =>
                          /\ i < Len(r) /\ r[i + 1].id = r[i].id
                          /\ r[i + 1].kind \in {"result", "cut"}
                    /\ r[i].kind \in {"result", "cut"} =>
                          i > 1 /\ r[i - 1].kind = "call" /\ r[i - 1].id = r[i].id
    BY DEF Closed
<1>5. CASE i = Len(r)
  <2>1. r[i] = row /\ i - 1 = Len(s) /\ i > 1
      BY <1>2, <1>3, <1>5
  <2>2. r[i - 1] = s[Len(s)]
      BY <1>2, <1>3, <2>1
  <2> QED
      BY <1>4, <2>1, <2>2
<1>6. CASE i # Len(r)
  <2>1. i \in 1..Len(s) /\ i < Len(r)
      BY <1>2, <1>6
  <2>2. i < Len(s) => i + 1 \in 1..Len(s)
      BY <1>2, <2>1
  <2>3. i > 1 => i - 1 \in 1..Len(s)
      BY <1>2, <2>1
  <2>4. r[i] = s[i] /\ (i < Len(s) => r[i + 1] = s[i + 1]) /\ (i > 1 => r[i - 1] = s[i - 1])
      BY <1>2, <2>1, <2>2, <2>3
  <2>5. i = Len(s) => r[i + 1] = row
      BY <1>2
  <2>6. i = Len(s) \/ i < Len(s)
      BY <1>2, <2>1
  <2> QED
      BY <1>4, <2>1, <2>4, <2>5, <2>6 DEF Paired
<1> QED
    BY <1>5, <1>6

\* The call that the rows end with is a question to the user.
LEMMA ClosedQuestion ==
    ASSUME NEW s \in Seq(Rows), NEW A, Paired(s, A), s # <<>>, Last(s).kind = "call"
    PROVE  Closed(s, A \cup {Last(s).id})
<1>1. Len(s) \in Nat /\ Last(s) = s[Len(s)]
    BY LenProperties DEF Last
<1> SUFFICES ASSUME NEW i \in 1..Len(s)
             PROVE  /\ s[i].kind = "call" /\ s[i].id \notin A \cup {Last(s).id} =>
                          /\ i < Len(s) /\ s[i + 1].id = s[i].id
                          /\ s[i + 1].kind \in {"result", "cut"}
                    /\ s[i].kind \in {"result", "cut"} =>
                          i > 1 /\ s[i - 1].kind = "call" /\ s[i - 1].id = s[i].id
    BY DEF Closed
<1>2. i = Len(s) \/ i < Len(s)
    BY <1>1
<1> QED
    BY <1>1, <1>2 DEF Paired

\* More questions were asked.
LEMMA ClosedMore ==
    ASSUME NEW s, NEW A, NEW B, A \subseteq B, Closed(s, A)
    PROVE  Closed(s, B)
BY DEF Closed

\* Rows without a call after the rows of a turn.
LEMMA ConcatCalls ==
    ASSUME NEW s \in Seq(Rows), NEW t \in Seq(Rows), NEW r, r = s \o t,
           \A i \in 1..Len(t) : t[i].kind # "call"
    PROVE  /\ CallsOnce(s) => CallsOnce(r)
           /\ \A msgs : NewCalls(s, msgs) => NewCalls(r, msgs)
<1>1. /\ \A i \in 1..Len(s) : i \in 1..Len(r) /\ r[i] = s[i]
      /\ \A i \in 1..Len(r) : i \in 1..Len(s) \/ i - Len(s) \in 1..Len(t)
      /\ \A i \in 1..Len(r) : i - Len(s) \in 1..Len(t) => r[i] = t[i - Len(s)]
    BY ConcatIs
<1>2. \A i \in 1..Len(r) : r[i].kind = "call" => i \in 1..Len(s) /\ r[i] = s[i]
    BY <1>1
<1>3. CallsOnce(s) => CallsOnce(r)
    BY <1>2 DEF CallsOnce
<1>4. \A msgs : NewCalls(s, msgs) => NewCalls(r, msgs)
    BY <1>2 DEF NewCalls
<1> QED
    BY <1>3, <1>4

\* A new call after the rows of a turn.
LEMMA AppendCall ==
    ASSUME NEW s \in Seq(Rows), NEW msgs \in Seq(Rows), NEW n \in Nat, NEW r,
           r = Append(s, Row("call", n + 1)), Bounded(s, n), Bounded(msgs, n)
    PROVE  /\ Bounded(r, n + 1) /\ (CallsOnce(s) => CallsOnce(r))
           /\ NewCalls(s, msgs) => NewCalls(r, msgs)
<1> DEFINE row == Row("call", n + 1)
<1>1. row \in Rows /\ row.kind = "call" /\ row.id = n + 1
    BY RowTypes DEF Kinds
<1>2. r = Append(s, row)
    OBVIOUS
<1> HIDE DEF row
<1>3. /\ Len(r) = Len(s) + 1 /\ Len(s) \in Nat /\ r[Len(s) + 1] = row
      /\ \A i \in 1..Len(s) : r[i] = s[i]
    BY <1>1, <1>2, AppendProperties, LenProperties
<1>4. \A i \in 1..Len(r) : i \in 1..Len(s) \/ i = Len(s) + 1
    BY <1>3
<1>5. \A i \in 1..Len(s) : s[i].id \in Int
    BY RowIds
<1>6. \A i \in 1..Len(msgs) : msgs[i].id \in Int
    BY RowIds
<1>7. Bounded(r, n + 1)
  <2>1. \A i \in 1..Len(s) : s[i].kind \in ToolKinds => s[i].id <= n + 1
      BY <1>5 DEF Bounded
  <2> QED
      BY <1>1, <1>3, <1>4, <2>1 DEF Bounded
<1>8. \A i \in 1..Len(s) : s[i].kind = "call" => s[i].id # n + 1
    BY <1>5 DEF Bounded, ToolKinds
<1>9. \A i \in 1..Len(msgs) : msgs[i].kind \in ToolKinds => msgs[i].id # n + 1
    BY <1>6 DEF Bounded
<1>10. CallsOnce(s) => CallsOnce(r)
    BY <1>1, <1>3, <1>4, <1>8 DEF CallsOnce
<1>11. NewCalls(s, msgs) => NewCalls(r, msgs)
    BY <1>1, <1>3, <1>4, <1>9 DEF NewCalls
<1> QED
    BY <1>7, <1>10, <1>11

\* _save_turn drops no row of a turn that can be saved.
LEMMA SavedAll ==
    ASSUME NEW msgs \in Seq(Rows), NEW rows \in Seq(Rows), NEW A, Closed(rows, A),
           CallsOnce(rows), NewCalls(rows, msgs)
    PROVE  Saved(msgs, rows) = msgs \o rows
<1> DEFINE f == Saving(msgs, rows)
           l == Len(msgs)
           Good(n) == /\ f[n] \in Seq(Rows) /\ Len(f[n]) = l + n
                      /\ \A i \in 1..l : f[n][i] = msgs[i]
                      /\ \A i \in 1..n : f[n][l + i] = rows[i]
           S == {n \in Nat : n <= Len(rows) => Good(n)}
<1>1. /\ Len(rows) \in Nat /\ l \in Nat /\ \A i \in 1..Len(rows) : rows[i] \in Rows
      /\ \A i \in 1..l : msgs[i] \in Rows
    BY LenProperties, ElementOfSeq
<1>2. /\ f[0] = msgs
      /\ \A n \in 0..Len(rows) : n # 0 => f[n] = SaveRow(f[n - 1], rows[n])
    BY <1>1, SavingIs
<1> HIDE DEF f
<1>3. 0 \in S
  <2>1. Good(0)
      BY <1>1, <1>2
  <2> HIDE DEF Good
  <2> QED
      BY <2>1
<1>4. ASSUME NEW n \in Nat, n \in S, n + 1 <= Len(rows) PROVE Good(n + 1)
  <2> DEFINE m == f[n]
             row == rows[n + 1]
  <2>1. Good(n)
    <3> HIDE DEF Good
    <3> QED
        BY <1>1, <1>4
  <2>2. n + 1 \in 0..Len(rows) /\ n + 1 # 0 /\ (n + 1) - 1 = n /\ n + 1 \in 1..Len(rows)
      BY <1>1, <1>4
  <2>3. f[n + 1] = SaveRow(m, row)
      BY <1>2, <2>2
  <2>4. row \in Rows
      BY <1>1, <2>2
  <2>5. /\ m \in Seq(Rows) /\ Len(m) = l + n
        /\ \A i \in 1..l : m[i] = msgs[i]
        /\ \A i \in 1..n : m[l + i] = rows[i]
      BY <2>1
  <2>6. ASSUME row.kind = "result" PROVE Declared(m, row.id) /\ ~Fulfilled(m, row.id)
    <3>1. n + 1 > 1 /\ rows[(n + 1) - 1].kind = "call" /\ rows[(n + 1) - 1].id = row.id
        BY <2>2, <2>6 DEF Closed
    <3>2. rows[n].kind = "call" /\ rows[n].id = row.id /\ n \in 1..n /\ n \in 1..Len(rows)
        BY <1>1, <1>4, <2>2, <3>1
    <3>3. l + n \in 1..Len(m) /\ m[l + n] = rows[n]
        BY <1>1, <2>5, <3>2
    <3>4. Declared(m, row.id)
      <4>1. m[l + n].kind = "call" /\ m[l + n].id = row.id
          BY <3>2, <3>3
      <4>2. Declared(m, row.id) <=>
                \E i \in 1..Len(m) : m[i].kind = "call" /\ m[i].id = row.id
          BY <2>5, DeclaredIs
      <4> QED
          BY <3>3, <4>1, <4>2
    <3>5. ASSUME NEW j \in 1..Len(m), m[j].kind \in {"result", "cut"}, m[j].id = row.id
          PROVE  FALSE
      <4>1. CASE j \in 1..l
          BY <2>5, <3>2, <3>5, <4>1 DEF NewCalls, ToolKinds
      <4>2. CASE j \notin 1..l
        <5>1. PICK i \in 1..n : j = l + i
          <6>1. j - l \in 1..n /\ j = l + (j - l)
              BY <1>1, <2>5, <4>2
          <6> QED
              BY <6>1
        <5>2. m[j] = rows[i] /\ i \in 1..Len(rows)
            BY <1>1, <1>4, <2>5, <5>1
        <5>3. i > 1 /\ rows[i - 1].kind = "call" /\ rows[i - 1].id = row.id
            BY <3>5, <5>2 DEF Closed
        <5>4. i - 1 \in 1..Len(rows) /\ i - 1 # n
            BY <1>1, <1>4, <5>2, <5>3
        <5> QED
            BY <3>2, <5>3, <5>4 DEF CallsOnce
      <4> QED
          BY <4>1, <4>2
    <3> QED
        BY <3>4, <3>5 DEF Fulfilled
  <2>7. f[n + 1] = Append(m, row)
      BY <2>3, <2>6 DEF SaveRow
  <2> HIDE DEF m
  <2>8. /\ Append(m, row) \in Seq(Rows) /\ Len(Append(m, row)) = Len(m) + 1
        /\ Append(m, row)[Len(m) + 1] = row
        /\ \A i \in 1..Len(m) : Append(m, row)[i] = m[i]
      BY <2>4, <2>5, AppendProperties
  <2>9. f[n + 1] \in Seq(Rows) /\ Len(f[n + 1]) = l + (n + 1)
      BY <1>1, <2>5, <2>7, <2>8
  <2>10. \A i \in 1..l : f[n + 1][i] = msgs[i]
    <3>1. \A i \in 1..l : i \in 1..Len(m)
        BY <1>1, <2>5
    <3> QED
        BY <2>5, <2>7, <2>8, <3>1
  <2>11. ASSUME NEW i \in 1..(n + 1) PROVE f[n + 1][l + i] = rows[i]
    <3>1. CASE i = n + 1
      <4>1. l + i = Len(m) + 1
          BY <1>1, <2>5, <3>1
      <4> QED
          BY <2>7, <2>8, <3>1, <4>1
    <3>2. CASE i # n + 1
      <4>1. i \in 1..n /\ l + i \in 1..Len(m)
          BY <1>1, <2>5, <3>2
      <4> QED
          BY <2>5, <2>7, <2>8, <4>1
    <3> QED
        BY <3>1, <3>2
  <2> QED
      BY <2>9, <2>10, <2>11
<1>5. \A n \in Nat : n \in S => n + 1 \in S
  <2> HIDE DEF Good
  <2> QED
      BY <1>4
<1>6. Nat \subseteq S
  <2> HIDE DEF S
  <2> QED
      BY <1>3, <1>5, SetInduction
<1>7. Good(Len(rows))
  <2> HIDE DEF Good
  <2> QED
      BY <1>1, <1>6
<1> DEFINE a == Saved(msgs, rows)
           b == msgs \o rows
<1>8. /\ a \in Seq(Rows) /\ Len(a) = l + Len(rows)
      /\ \A i \in 1..l : a[i] = msgs[i]
      /\ \A i \in 1..Len(rows) : a[l + i] = rows[i]
    BY <1>7 DEF Saved, f
<1>9. /\ b \in Seq(Rows) /\ Len(b) = l + Len(rows)
      /\ \A i \in 1..l : b[i] = msgs[i]
      /\ \A i \in 1..Len(rows) : b[l + i] = rows[i]
    BY ConcatIs
<1> HIDE DEF a, b
<1>10. \A i \in 1..Len(a) : a[i] = b[i]
  <2> TAKE i \in 1..Len(a)
  <2>1. CASE i \in 1..l
      BY <1>8, <1>9, <2>1
  <2>2. CASE i \notin 1..l
    <3>1. i - l \in 1..Len(rows) /\ i = l + (i - l)
        BY <1>1, <1>8, <2>2
    <3>2. a[l + (i - l)] = rows[i - l] /\ b[l + (i - l)] = rows[i - l]
        BY <1>8, <1>9, <3>1
    <3> QED
        BY <3>1, <3>2
  <2> QED
      BY <2>1, <2>2
<1>11. a = b
    BY <1>8, <1>9, <1>10, SeqEqual
<1> QED
    BY <1>11 DEF a, b

\* The history does not have the calls of the turn.
LEMMA NotDeclared ==
    ASSUME NEW s \in Seq(Rows), NEW msgs \in Seq(Rows), NewCalls(s, msgs)
    PROVE  \A i \in 1..Len(s) : s[i].kind = "call" => ~Declared(msgs, s[i].id)
<1> SUFFICES ASSUME NEW i \in 1..Len(s), s[i].kind = "call" PROVE ~Declared(msgs, s[i].id)
    OBVIOUS
<1>1. \A j \in 1..Len(msgs) : msgs[j].kind = "call" => s[i].id # msgs[j].id
    BY DEF NewCalls, ToolKinds
<1> QED
    BY <1>1, DeclaredIs

\* The history with the rows of the turn.
LEMMA CallsSaved ==
    ASSUME NEW msgs \in Seq(Rows), NEW s \in Seq(Rows), CallsOnce(msgs), CallsOnce(s),
           NewCalls(s, msgs)
    PROVE  CallsOnce(msgs \o s)
<1> DEFINE r == msgs \o s
<1>1. r = msgs \o s
    OBVIOUS
<1>2. \A i \in 1..Len(s) : s[i].kind = "call" => ~Declared(msgs, s[i].id)
    BY NotDeclared
<1> HIDE DEF r
<1>3. CallsOnce(r)
    BY <1>1, <1>2, CallsJoin
<1> QED
    BY <1>3 DEF r

\* A worker outside a turn has nothing to save.
LEMMA HistoryIdle ==
    ASSUME Sound(session, tools, asked)', worker'.pc \in {"none", "idle"}, worker'.rows = <<>>
    PROVE  History'
<1>1. Paired(<<>>, asked') /\ CallsOnce(<<>>) /\ NewCalls(<<>>, session'.msgs)
  <2>1. Len(<<>>) = 0 /\ \A i : i \notin 1..0
      OBVIOUS
  <2> QED
      BY <2>1 DEF Paired, CallsOnce, NewCalls
<1>2. Savable'
    BY <1>1, EmptyQueue DEF Savable
<1> QED
    BY <1>2 DEF History

\* Nothing happens to the history or the turn.
LEMMA HistorySame ==
    ASSUME History, worker' = worker, tools' = tools, asked' = asked, session'.msgs = session.msgs,
           session'.checkpoint = session.checkpoint,
           session'.status = "awaiting_user" => session.status = "awaiting_user",
           session'.status \in Open => session.status \in Open
    PROVE  History'
<1>1. Sound(session, tools, asked)'
    BY DEF History, Sound, Fresh
<1>2. Savable => Savable'
    BY DEF Savable
<1> QED
    BY <1>1, <1>2 DEF History

\* A step of recovery.
LEMMA GrowsSound ==
    ASSUME History, NEW s, Grows(session, s), session'.msgs = s.msgs,
           session'.checkpoint = s.checkpoint, tools' = tools, asked' = asked
    PROVE  Sound(session, tools, asked)'
BY DEF History, Grows, Sound, Fresh

\* A worker that starts a turn has nothing to save yet.
LEMMA HistoryStarts ==
    ASSUME Sound(session, tools, asked)', worker'.rows = <<>>, session'.status # "awaiting_user",
           worker'.msg < 0 \/ session'.status \notin Open
    PROVE  History'
<1>1. Paired(<<>>, asked') /\ CallsOnce(<<>>) /\ NewCalls(<<>>, session'.msgs)
  <2>1. Len(<<>>) = 0 /\ \A i : i \notin 1..0
      OBVIOUS
  <2> QED
      BY <2>1 DEF Paired, CallsOnce, NewCalls
<1>2. Savable'
    BY <1>1, EmptyQueue DEF Savable
<1> QED
    BY <1>2 DEF History

\* A late dismissal restores no call of a running turn.
LEMMA DismissHistory ==
    ASSUME Basis, History, UNCHANGED <<worker, tools, asked>>, Grows(session, session'),
           session'.status = "recovered",
           ~(InTurn /\ session.checkpoint.phase \in CallPhases)
    PROVE  History'
<1>1. Sound(session, tools, asked)'
    BY GrowsSound
<1>2. session'.status \notin Open /\ session'.status # "awaiting_user"
    BY DEF Open
<1>3. CASE ~InTurn
  <2>1. worker.rows = <<>>
    <3>1. worker.pc \in Pcs
        BY BasisIs
    <3> QED
        BY <1>3, <3>1 DEF Basis, Quiet, Pcs, InTurn
  <2> QED
      BY <1>1, <1>2, <2>1, HistoryStarts
<1>4. CASE session.checkpoint.phase \notin CallPhases
  <2>1. NewCalls(worker.rows, session.msgs) => NewCalls(worker.rows, session'.msgs)
      BY <1>4 DEF Grows, OldCalls
  <2>2. Savable => Savable'
      BY <2>1 DEF Savable
  <2> QED
      BY <1>1, <1>2, <2>2 DEF History
<1> QED
    BY <1>3, <1>4

\* The steps that are not in a turn.
LEMMA OutsideHistory ==
    ASSUME Basis, History, asked' = asked, ~torn',
           \/ UserSends \/ WorkerExits \/ DropContinuation \/ Stop \/ Crash
           \/ CompleteTurn \/ TurnFails
           \/ \E m \in 1..MaxMsgs : RouteMessage(m)
           \/ \E rid \in 1..MaxFaults : RouteContinuation(Continuation(rid))
           \/ \E unfinished \in BOOLEAN : Restart(unfinished)
           \/ \E action \in {"continue", "dismiss"} : Clicks(action) \/ ClickLate(action)
    PROVE  History'
<1>1. session \in Sessions /\ worker \in Workers /\ Grows(session, session)
    BY BasisIs, GrowsSelf
<1>2. CASE UserSends
  <2>1. UNCHANGED <<session, worker, tools>>
      BY <1>2 DEF UserSends
  <2> QED
      BY <2>1, HistorySame
<1>3. CASE WorkerExits \/ DropContinuation
  <2>1. /\ worker' = NoWorker \/ worker' = [NoWorker EXCEPT !.pc = "idle"]
        /\ UNCHANGED <<session, tools>>
      BY <1>3 DEF WorkerExits, DropContinuation, env
  <2>2. worker'.pc \in {"none", "idle"} /\ worker'.rows = <<>>
      BY <2>1 DEF NoWorker
  <2>3. Sound(session, tools, asked)'
      BY <1>1, <2>1, GrowsSound
  <2> QED
      BY <2>2, <2>3, HistoryIdle
<1>4. CASE Stop
  <2>1. Grows(session, session') /\ tools' = tools /\ worker'.pc = "none" /\ worker'.rows = <<>>
      BY <1>4, StopIs
  <2>2. Sound(session, tools, asked)'
      BY <2>1, GrowsSound
  <2> QED
      BY <2>1, <2>2, HistoryIdle
<1>5. CASE Crash
  <2>1. UNCHANGED <<session, tools>> /\ worker' = NoWorker
      BY <1>5 DEF Crash
  <2>2. worker'.pc = "none" /\ worker'.rows = <<>>
      BY <2>1 DEF NoWorker
  <2>3. Sound(session, tools, asked)'
      BY <1>1, <2>1, GrowsSound
  <2> QED
      BY <2>2, <2>3, HistoryIdle
<1>6. CASE CompleteTurn \/ TurnFails
  <2>1. Grows(session, session') /\ tools' = tools /\ worker'.pc = "idle" /\ worker'.rows = <<>>
      BY <1>6, TurnEndsIs
  <2>2. Sound(session, tools, asked)'
      BY <2>1, GrowsSound
  <2> QED
      BY <2>1, <2>2, HistoryIdle
<1>7. ASSUME NEW m \in 1..MaxMsgs, RouteMessage(m) PROVE History'
  <2>1. tools' = tools
      BY <1>7, RouteMessageIs DEF Basis
  <2>2. PICK s \in Sessions, w \in Workers, q \in Seq(Int \ {0}) :
            /\ Enqueue(m, s, w, q) /\ (w.pc = "none" => q = <<>>) /\ Grows(session, s)
            /\ s.status = session.status \/ s.status \notin Open
            /\ \/ w = worker /\ q = inbox
               \/ w = NoWorker /\ q = <<>>
            /\ \/ s = session
               \/ w = NoWorker
               \/ session.status \in Open /\ worker.pc # "none" /\ ~RunsContinuation
      BY <1>7, RouteMessageIs DEF Basis
  <2>3. m \in Int \ {0}
      BY RecoveryAssumption
  <2>4. /\ session'.msgs = s.msgs /\ session'.checkpoint = s.checkpoint
        /\ session'.status = s.status
        /\ \/ w.pc = "none" /\ worker' = [w EXCEPT !.pc = "idle"]
           \/ w.pc # "none" /\ worker' = w
      BY <2>2, <2>3, EnqueueIs
  <2>5. Sound(session, tools, asked)'
      BY <2>1, <2>2, <2>4, GrowsSound
  <2>6. CASE w.pc = "none"
    <3>1. worker'.pc = "idle" /\ worker'.rows = w.rows
        BY <2>4, <2>6 DEF Workers
    <3>2. w.rows = <<>>
        BY <2>2, <2>6 DEF Basis, Quiet, NoWorker
    <3> QED
        BY <2>5, <3>1, <3>2, HistoryIdle
  <2>7. CASE w.pc # "none" /\ s = session
    <3>1. worker' = worker
        BY <2>2, <2>4, <2>7 DEF NoWorker
    <3> QED
        BY <2>1, <2>4, <2>7, <3>1, HistorySame
  <2>8. CASE w.pc # "none" /\ s # session
    <3>1. worker' = worker /\ w # NoWorker
        BY <2>2, <2>4, <2>8 DEF NoWorker
    <3>2. session.status \in Open /\ worker.pc # "none" /\ ~RunsContinuation
        BY <2>2, <2>8, <3>1
    <3>3. worker.pc = "idle"
        BY <3>2 DEF History, RunsContinuation, IsContinuation
    <3>4. worker.rows = <<>>
        BY <3>3 DEF Basis, Quiet
    <3> QED
        BY <2>5, <3>1, <3>3, <3>4, HistoryIdle
  <2> QED
      BY <2>6, <2>7, <2>8
<1>8. ASSUME NEW rid \in 1..MaxFaults, RouteContinuation(Continuation(rid)) PROVE History'
  <2> DEFINE m == Continuation(rid)
  <2>1. tools' = tools
        /\ (UNCHANGED <<session, inbox, worker, journaled>> \/ Enqueue(m, session, worker, inbox))
      BY <1>8 DEF RouteContinuation
  <2>2. CASE UNCHANGED <<session, inbox, worker, journaled>>
      BY <2>1, <2>2, HistorySame
  <2>3. CASE Enqueue(m, session, worker, inbox)
    <3>1. m \in Int \ {0} /\ inbox \in Seq(Int \ {0}) /\ (worker.pc = "none" => inbox = <<>>)
      <4>1. m \in Int \ {0}
          BY RecoveryAssumption DEF Continuation
      <4>2. inbox \in Seq(Int \ {0})
          BY BasisIs
      <4>3. worker.pc = "none" => inbox = <<>>
          BY DEF Basis, Quiet
      <4> QED
          BY <4>1, <4>2, <4>3
    <3> HIDE DEF m
    <3>2. /\ session'.msgs = session.msgs /\ session'.checkpoint = session.checkpoint
          /\ session'.status = session.status
          /\ \/ worker.pc = "none" /\ worker' = [worker EXCEPT !.pc = "idle"]
             \/ worker.pc # "none" /\ worker' = worker
        BY <1>1, <2>3, <3>1, EnqueueIs
    <3>3. CASE worker.pc # "none"
        BY <2>1, <3>2, <3>3, HistorySame
    <3>4. CASE worker.pc = "none"
      <4>1. worker'.pc = "idle" /\ worker'.rows = worker.rows
          BY <1>1, <3>2, <3>4 DEF Workers
      <4>2. worker.rows = <<>>
          BY <3>4 DEF Basis, Quiet
      <4>3. Sound(session, tools, asked)'
          BY <1>1, <2>1, <3>2, GrowsSound
      <4> QED
          BY <4>1, <4>2, <4>3, HistoryIdle
    <3> QED
        BY <3>3, <3>4
  <2> QED
      BY <2>1, <2>2, <2>3
<1>9. ASSUME NEW unfinished \in BOOLEAN, Restart(unfinished) PROVE History'
  <2>1. /\ Grows(session, session') /\ UNCHANGED <<worker, tools>> /\ worker.pc = "none"
        /\ worker.rows = <<>>
      BY <1>9, RestartIs
  <2>2. Sound(session, tools, asked)'
      BY <2>1, GrowsSound
  <2> QED
      BY <2>1, <2>2, HistoryIdle
<1>10. ASSUME NEW action \in {"continue", "dismiss"}, Clicks(action) PROVE History'
  <2>1. PICK rid : Act(action, rid)
      BY <1>10, ClicksAre
  <2>2. UNCHANGED <<worker, tools>>
      BY <1>10, ClicksAre
  <2>3. CASE UNCHANGED <<session, bus, clicks>>
      BY <2>2, <2>3, HistorySame
  <2>4. CASE /\ session.status = "awaiting_user" /\ session'.msgs = session.msgs
             /\ session'.checkpoint = session.checkpoint /\ session'.status = "resuming"
      BY <2>2, <2>4, HistorySame DEF Open
  <2>5. CASE action = "dismiss" /\ Grows(session, session') /\ session'.status = "recovered"
    <3>1. CASE ClickNow(action)
      <4>1. session.status = "awaiting_user"
          BY <3>1 DEF ClickNow
      <4>2. ~InTurn
          BY <4>1 DEF History, InTurn
      <4> QED
          BY <2>2, <2>5, <4>2, DismissHistory
    <3>2. ASSUME NEW click \in late, ClickArrives(click), click[1] = action PROVE History'
      <4>1. ~Tears("dismiss", click[2]) /\ Act("dismiss", click[2])
          BY <2>5, <3>2 DEF ClickArrives
      <4>2. CASE session.rid # click[2]
        <5>1. session' = session
            BY <4>1, <4>2 DEF Act
        <5> QED
            BY <2>2, <5>1, HistorySame
      <4>3. CASE session.rid = click[2]
        <5>1. ~(InTurn /\ session.checkpoint.phase \in CallPhases)
            BY <4>1, <4>3 DEF Tears, CallPhases
        <5> QED
            BY <2>2, <2>5, <5>1, DismissHistory
      <4> QED
          BY <4>2, <4>3
    <3> QED
        BY <1>10, <3>1, <3>2 DEF Clicks
  <2> QED
      BY <2>1, <2>3, <2>4, <2>5, ActIs
<1>11. ASSUME NEW action, ClickLate(action) PROVE History'
  <2>1. UNCHANGED <<session, worker, tools>>
      BY <1>11 DEF ClickLate, env
  <2> QED
      BY <2>1, HistorySame
<1> QED
    BY <1>2, <1>3, <1>4, <1>5, <1>6, <1>7, <1>8, <1>9, <1>10, <1>11

\* The worker takes a message.
LEMMA TakeMessageHistory ==
    ASSUME Basis, History, asked' = asked, TakeMessage
    PROVE  History'
<1>1. /\ worker.pc = "idle" /\ worker'.rows = <<>> /\ Grows(session, session')
      /\ Head(inbox) \in Int \ {0} /\ tools' = tools
      /\ \/ worker' = worker /\ session' = session
         \/ worker'.pc = "locked" /\ worker'.msg = Head(inbox)
      /\ worker'.pc = "locked" /\ Head(inbox) > 0 => session'.status \notin Open
      /\ worker'.pc = "locked" /\ Head(inbox) < 0 => session'.status # "awaiting_user"
    BY TakeMessageIs
<1>2. Sound(session, tools, asked)'
    BY <1>1, GrowsSound
<1>3. CASE worker' = worker
    BY <1>1, <1>2, <1>3, HistoryIdle
<1>4. CASE worker'.pc = "locked" /\ worker'.msg = Head(inbox)
  <2>1. worker'.msg < 0 \/ worker'.msg > 0
      BY <1>1, <1>4
  <2>2. session'.status # "awaiting_user" /\ (worker'.msg < 0 \/ session'.status \notin Open)
      BY <1>1, <1>4, <2>1 DEF Open
  <2> QED
      BY <1>1, <1>2, <2>2, HistoryStarts
<1> QED
    BY <1>1, <1>3, <1>4

\* A turn starts.
LEMMA RestoreTurnHistory ==
    ASSUME Basis, History, asked' = asked, RestoreTurn
    PROVE  History'
<1>1. /\ worker.pc = "locked" /\ worker'.msg = worker.msg /\ worker'.rows = <<>>
      /\ Grows(session, session') /\ session'.status = session.status /\ tools' = tools
    BY RestoreTurnIs
<1>2. Sound(session, tools, asked)'
    BY <1>1, GrowsSound
<1>3. session.status # "awaiting_user" /\ (worker.msg < 0 \/ session.status \notin Open)
    BY <1>1 DEF History
<1> QED
    BY <1>1, <1>2, <1>3, HistoryStarts

\* The user's message becomes a row.
LEMMA BuildTurnHistory ==
    ASSUME Basis, History, asked' = asked, BuildTurn
    PROVE  History'
<1>1. /\ worker.pc = "restored" /\ worker'.msg = worker.msg /\ worker'.rows = <<>>
      /\ worker.msg # 0 /\ session' \in Sessions
      /\ session'.status = session.status /\ session'.checkpoint = session.checkpoint
      /\ worker.msg < 0 => session' = session
      /\ worker.msg > 0 => session'.msgs = Append(session.msgs, Row("user", worker.msg))
    BY BuildTurnIs
<1>2. tools' = tools
    BY DEF BuildTurn, env
<1>3. session.status # "awaiting_user" /\ (worker.msg < 0 \/ session.status \notin Open)
    BY <1>1 DEF History
<1>4. session.msgs \in Seq(Rows) /\ worker.msg \in Int
    BY BasisIs
<1>5. Sound(session, tools, asked)'
  <2>1. CASE worker.msg < 0
      BY <1>1, <1>2, <2>1 DEF History
  <2>2. CASE worker.msg > 0
    <3> DEFINE row == Row("user", worker.msg)
               t == <<row>>
    <3>1. row \in Rows /\ row.kind = "user"
        BY <1>4, RowTypes DEF Kinds
    <3>2. session'.msgs = Append(session.msgs, row)
        BY <1>1, <2>2
    <3> HIDE DEF row
    <3>3. t \in Seq(Rows) /\ session'.msgs = session.msgs \o t /\ Len(t) = 1 /\ t[1] = row
        BY <1>4, <3>1, <3>2, OneRow
    <3> HIDE DEF t
    <3>4. \A i \in 1..Len(t) : t[i].kind = "user"
        BY <3>1, <3>3
    <3>5. Closed(t, asked) /\ Bounded(t, tools)
        BY <3>4 DEF Closed, Bounded, ToolKinds
    <3>6. Closed(session.msgs, asked) /\ Bounded(session.msgs, tools)
        BY DEF History, Sound
    <3>7. Closed(session.msgs \o t, asked)
        BY <1>4, <3>3, <3>5, <3>6, ClosedConcat
    <3>8. Bounded(session.msgs \o t, tools)
        BY <1>4, <3>3, <3>5, <3>6, ConcatRows
    <3>9. \A i \in 1..Len(t) : t[i].kind # "call"
        BY <3>4
    <3>10. Fresh(session)
        BY DEF History, Sound
    <3>11. /\ CallsOnce(session'.msgs)
           /\ \A k : Declared(session'.msgs, k) => Declared(session.msgs, k)
        BY <1>4, <3>3, <3>9, <3>10, NoCalls DEF Fresh
    <3>12. Fresh(session)'
        BY <1>1, <3>10, <3>11 DEF Fresh
    <3> QED
        BY <1>1, <1>2, <3>3, <3>7, <3>8, <3>12 DEF History, Sound
  <2> QED
      BY <1>1, <1>4, <2>1, <2>2
<1> QED
    BY <1>1, <1>3, <1>5, HistoryStarts

\* The model calls a tool.
LEMMA ModelCallsToolHistory ==
    ASSUME Basis, History, asked' = asked, ModelCallsTool
    PROVE  History'
<1>1. /\ worker.pc = "request" /\ tools \in Nat /\ tools' = tools + 1
      /\ worker'.pc = "tool" /\ worker'.msg = worker.msg
      /\ worker'.rows = Append(worker.rows, Row("call", tools'))
      /\ Row("call", tools') \in Rows
      /\ session'.status = session.status /\ session'.msgs = session.msgs
      /\ session'.checkpoint = [phase |-> "awaiting_tools", id |-> tools']
    BY ModelCallsToolIs
<1>2. session.msgs \in Seq(Rows) /\ worker.rows \in Seq(Rows)
    BY BasisIs
<1>3. /\ Closed(session.msgs, asked) /\ Bounded(session.msgs, tools)
      /\ Closed(worker.rows, asked) /\ Bounded(worker.rows, tools)
      /\ CallsOnce(worker.rows) /\ NewCalls(worker.rows, session.msgs)
    BY <1>1 DEF History, Sound, Savable
<1>4. Row("call", tools').kind = "call"
    BY RowTypes
<1>5. Paired(worker'.rows, asked)
    BY <1>1, <1>2, <1>3, <1>4, PairedCall
<1>6. /\ Bounded(worker'.rows, tools') /\ CallsOnce(worker'.rows)
      /\ NewCalls(worker'.rows, session.msgs)
  <2>1. worker'.rows = Append(worker.rows, Row("call", tools + 1))
      BY <1>1
  <2>2. /\ Bounded(worker'.rows, tools + 1) /\ CallsOnce(worker'.rows)
        /\ NewCalls(worker'.rows, session.msgs)
      BY <1>1, <1>2, <1>3, <2>1, AppendCall
  <2> QED
      BY <1>1, <2>2
<1>7. Savable'
    BY <1>1, <1>5, <1>6 DEF Savable
<1>8. Bounded(session.msgs, tools')
    BY <1>1, <1>2, <1>3, BoundedMore
<1>9. Fresh(session)'
  <2>1. ~Declared(session.msgs, tools + 1)
    <3>1. \A i \in 1..Len(session.msgs) :
              session.msgs[i].kind = "call" => session.msgs[i].id # tools + 1
      <4>1. \A i \in 1..Len(session.msgs) : session.msgs[i].id \in Int
          BY <1>2, RowIds
      <4> QED
          BY <1>1, <1>3, <4>1 DEF Bounded, ToolKinds
    <3> QED
        BY <1>2, <3>1, DeclaredIs
  <2> QED
      BY <1>1, <2>1 DEF History, Sound, Fresh
<1>10. Sound(session, tools, asked)'
    BY <1>1, <1>3, <1>8, <1>9 DEF Sound
<1> QED
    BY <1>1, <1>7, <1>10 DEF History

\* The tool runs.
LEMMA ToolRunsHistory ==
    ASSUME Basis, History, asked' = asked, ToolRuns
    PROVE  History'
<1>1. /\ worker.pc = "tool" /\ worker' = [worker EXCEPT !.pc = "ran"]
      /\ session' = session /\ tools' = tools
    BY DEF ToolRuns
<1>2. worker \in Workers
    BY BasisIs
<1>3. worker'.pc = "ran" /\ worker'.rows = worker.rows /\ worker'.msg = worker.msg
    BY <1>1, <1>2 DEF Workers
<1>4. Savable'
    BY <1>1, <1>3 DEF History, Savable
<1> QED
    BY <1>1, <1>3, <1>4 DEF History

\* The tool is a question to the user: its call stays without a result.
LEMMA AsksUserHistory ==
    ASSUME Basis, Visible, History, AsksUser
    PROVE  History'
<1>1. /\ worker.pc = "ran" /\ worker' = [worker EXCEPT !.pc = "final"]
      /\ asked' = asked \cup {Last(worker.rows).id} /\ UNCHANGED <<session, tools>>
    BY DEF AsksUser
<1>2. worker \in Workers /\ worker.rows \in Seq(Rows)
    BY BasisIs
<1>3. worker'.pc = "final" /\ worker'.rows = worker.rows /\ worker'.msg = worker.msg
    BY <1>1, <1>2 DEF Workers
<1>4. worker.rows # <<>> /\ Last(worker.rows).kind = "call"
    BY <1>1 DEF Basis, Quiet, Visible
<1>5. Closed(worker.rows, asked')
  <2>1. Paired(worker.rows, asked)
      BY <1>1 DEF History, Savable
  <2> QED
      BY <1>1, <1>2, <1>4, <2>1, ClosedQuestion
<1>6. Savable'
  <2>1. Paired(worker.rows, asked')
      BY <1>5, ClosedPaired
  <2>2. Savable
      BY <1>1 DEF History
  <2> QED
      BY <1>1, <1>3, <1>5, <2>1, <2>2 DEF Savable
<1>7. Sound(session, tools, asked)'
  <2>1. Sound(session, tools, asked)
      BY DEF History
  <2>2. Closed(session.msgs, asked')
      BY <1>1, <2>1, ClosedMore DEF Sound
  <2> QED
      BY <1>1, <2>1, <2>2 DEF Sound
<1> QED
    BY <1>1, <1>3, <1>6, <1>7 DEF History

\* A request goes on: the call has its result now, or the answer is a row.
LEMMA TurnGoesOnHistory ==
    ASSUME Basis, Visible, History, asked' = asked, ToolDone \/ ModelAnswers
    PROVE  History'
<1>1. /\ worker.pc \in {"ran", "request"} /\ worker'.msg = worker.msg
      /\ worker'.pc \in {"request", "final"} /\ tools' = tools
      /\ ToolDone => worker.pc = "ran"
      /\ ModelAnswers => worker.pc = "request"
      /\ session'.status = session.status /\ session'.msgs = session.msgs
      /\ ToolDone => session'.checkpoint =
                       [phase |-> "tools_completed", id |-> Last(worker.rows).id]
      /\ ModelAnswers => session'.checkpoint.phase = "final_response"
    BY TurnGoesOnIs
<1>2. PICK row \in Rows :
          /\ worker'.rows = (worker.rows \o <<row>>) \o Injected
          /\ ToolDone => row = Row("result", Last(worker.rows).id)
          /\ ModelAnswers => row.kind = "answer"
    BY TurnGoesOnIs
<1>3. worker.rows \in Seq(Rows) /\ Injected \in Seq(Rows)
      /\ \A i \in 1..Len(Injected) : Injected[i].kind = "user"
    BY BasisIs, InjectedIs
<1>4. /\ Closed(session.msgs, asked) /\ Bounded(session.msgs, tools)
      /\ Paired(worker.rows, asked) /\ Bounded(worker.rows, tools)
      /\ CallsOnce(worker.rows) /\ NewCalls(worker.rows, session.msgs)
      /\ worker.pc = "request" => Closed(worker.rows, asked)
    BY <1>1 DEF History, Sound, Savable
<1> DEFINE t == <<row>>
           b == worker.rows \o t
           u == Injected
           k == Last(worker.rows).id
<1>5. t \in Seq(Rows) /\ Len(t) = 1 /\ t[1] = row
    BY OneRow
<1>6. \A i \in 1..Len(t) : t[i] = row
    BY <1>5
<1>7. ASSUME ToolDone
      PROVE  /\ worker.rows # <<>> /\ Last(worker.rows).kind = "call"
             /\ row.kind = "result" /\ row.id = k /\ k <= tools
  <2>1. worker.rows # <<>> /\ Last(worker.rows).kind = "call"
      BY <1>1, <1>7 DEF Basis, Quiet, Visible
  <2>2. row.kind = "result" /\ row.id = k
      BY <1>2, <1>7, RowTypes
  <2>3. Len(worker.rows) \in 1..Len(worker.rows)
      BY <1>3, <2>1, EmptySeq, LenProperties
  <2>4. Last(worker.rows) = worker.rows[Len(worker.rows)]
      BY DEF Last
  <2>5. k <= tools
      BY <1>4, <2>1, <2>3, <2>4 DEF Bounded, ToolKinds
  <2> QED
      BY <2>1, <2>2, <2>5
<1>8. Closed(b, asked)
  <2>1. CASE ToolDone
      BY <1>3, <1>4, <1>7, <2>1, ClosedResult
  <2>2. CASE ModelAnswers
    <3>1. row.kind = "answer" /\ Closed(worker.rows, asked)
        BY <1>1, <1>2, <1>4, <2>2
    <3>2. Closed(t, asked)
        BY <1>6, <3>1 DEF Closed
    <3> HIDE DEF t
    <3> QED
        BY <1>3, <1>5, <3>1, <3>2, ClosedConcat
  <2> QED
      BY <2>1, <2>2
<1>9. row.kind # "call" /\ (row.kind \in ToolKinds => row.id <= tools)
    BY <1>2, <1>7 DEF ToolKinds
<1>10. Bounded(t, tools)
    BY <1>6, <1>9 DEF Bounded
<1>11. \A i \in 1..Len(t) : t[i].kind # "call"
    BY <1>6, <1>9
<1> HIDE DEF t
<1>12. b \in Seq(Rows)
    BY <1>3, <1>5, ConcatIs
<1>13. Bounded(b, tools)
    BY <1>3, <1>4, <1>5, <1>10, ConcatRows
<1>14. CallsOnce(b) /\ NewCalls(b, session.msgs)
  <2> DEFINE w == worker.rows
  <2>1. w \in Seq(Rows) /\ b = w \o t
      BY <1>3
  <2>2. CallsOnce(w) /\ NewCalls(w, session.msgs)
      BY <1>4
  <2> HIDE DEF b, w
  <2> QED
      BY <1>5, <1>11, <2>1, <2>2, ConcatCalls
<1>15. worker'.rows = b \o u
    BY <1>2 DEF t
<1>16. Closed(u, asked) /\ Bounded(u, tools)
    BY <1>3 DEF Closed, Bounded, ToolKinds
<1>17. u \in Seq(Rows) /\ \A i \in 1..Len(u) : u[i].kind # "call"
    BY <1>3
<1> HIDE DEF b, u
<1>18. Closed(worker'.rows, asked)
    BY <1>8, <1>12, <1>15, <1>16, <1>17, ClosedConcat
<1>19. Bounded(worker'.rows, tools)
    BY <1>12, <1>13, <1>15, <1>16, <1>17, ConcatRows
<1>20. CallsOnce(worker'.rows) /\ NewCalls(worker'.rows, session.msgs)
    BY <1>12, <1>14, <1>15, <1>17, ConcatCalls
<1>21. Paired(worker'.rows, asked)
    BY <1>18, ClosedPaired
<1>22. Savable'
    BY <1>1, <1>18, <1>19, <1>20, <1>21 DEF Savable
<1>23. Sound(session, tools, asked)'
  <2>1. session'.checkpoint.phase \in CallPhases => session'.checkpoint.id <= tools
      BY <1>1, <1>7 DEF CallPhases
  <2>2. session'.checkpoint.phase \in CallPhases =>
            ~Declared(session.msgs, session'.checkpoint.id)
    <3>1. ASSUME ToolDone PROVE ~Declared(session.msgs, k)
      <4> DEFINE n == Len(worker.rows)
      <4>1. n \in 1..n /\ worker.rows[n].kind = "call" /\ worker.rows[n].id = k
          BY <1>3, <1>7, <3>1, EmptySeq, LenProperties DEF Last
      <4>2. session.msgs \in Seq(Rows)
          BY BasisIs
      <4> QED
          BY <1>3, <1>4, <4>1, <4>2, NotDeclared
    <3> QED
        BY <1>1, <3>1 DEF CallPhases
  <2>3. Fresh(session)'
      BY <1>1, <2>2 DEF History, Sound, Fresh
  <2> QED
      BY <1>1, <1>4, <2>1, <2>3 DEF Sound
<1> QED
    BY <1>1, <1>22, <1>23 DEF History

\* The rows of the turn join the history, all of them.
LEMMA PersistTurnHistory ==
    ASSUME Basis, History, asked' = asked, PersistTurn
    PROVE  History'
<1>1. /\ worker.pc = "final" /\ worker'.pc = "saved" /\ worker'.msg = worker.msg
      /\ session'.status = session.status
      /\ session'.msgs = Saved(session.msgs, worker.rows)
      /\ session'.checkpoint = NoCheckpoint
    BY PersistTurnIs
<1>2. tools' = tools
    BY DEF PersistTurn, env
<1>3. session.msgs \in Seq(Rows) /\ worker.rows \in Seq(Rows)
    BY BasisIs
<1>4. /\ Closed(session.msgs, asked) /\ Bounded(session.msgs, tools)
      /\ Closed(worker.rows, asked) /\ Bounded(worker.rows, tools)
      /\ CallsOnce(worker.rows) /\ NewCalls(worker.rows, session.msgs)
    BY <1>1 DEF History, Sound, Savable
<1>5. session'.msgs = session.msgs \o worker.rows
    BY <1>1, <1>3, <1>4, SavedAll
<1>6. Closed(session'.msgs, asked)
    BY <1>3, <1>4, <1>5, ClosedConcat
<1>7. Bounded(session'.msgs, tools)
    BY <1>3, <1>4, <1>5, ConcatRows
<1>8. CallsOnce(session.msgs)
    BY DEF History, Sound, Fresh
<1>9. CallsOnce(session'.msgs)
    BY <1>3, <1>4, <1>5, <1>8, CallsSaved
<1>10. Fresh(session)'
    BY <1>1, <1>9 DEF Fresh, NoCheckpoint, CallPhases
<1>11. Sound(session, tools, asked)'
    BY <1>1, <1>2, <1>6, <1>7, <1>10 DEF Sound, NoCheckpoint, CallPhases
<1> QED
    BY <1>1, <1>11 DEF History

\* Only a question to the user is added to the questions, and a torn history stays so.
LEMMA AskedKept ==
    ASSUME [Next]_vars
    PROVE  /\ asked' = asked \/ AsksUser
           /\ torn => torn'
<1>1. CASE UNCHANGED vars
    BY <1>1 DEF vars, env
<1>2. CASE Next
  <2>1. ASSUME NEW m, RouteMessage(m) \/ RouteContinuation(m) PROVE UNCHANGED <<asked, torn>>
      BY <2>1 DEF RouteMessage, RouteContinuation
  <2>2. ASSUME \/ TakeMessage \/ WorkerExits \/ DropContinuation \/ RestoreTurn \/ BuildTurn
               \/ ToolDone \/ PersistTurn \/ CompleteTurn
        PROVE  UNCHANGED <<asked, torn>>
      BY <2>2 DEF TakeMessage, WorkerExits, DropContinuation, RestoreTurn, BuildTurn, ToolDone,
                  PersistTurn, CompleteTurn, env
  <2>3. ASSUME \/ ToolRuns \/ ModelAnswers \/ ModelCallsTool \/ TurnFails \/ UserSends
               \/ Stop \/ Crash
        PROVE  UNCHANGED <<asked, torn>>
      BY <2>3 DEF ToolRuns, ModelAnswers, ModelCallsTool, TurnFails, UserSends, Stop, Crash
  <2>4. ASSUME NEW unfinished, Restart(unfinished) PROVE UNCHANGED <<asked, torn>>
      BY <2>4 DEF Restart, env
  <2>5. ASSUME NEW action, ClickNow(action) \/ ClickLate(action) PROVE UNCHANGED <<asked, torn>>
      BY <2>5 DEF ClickNow, ClickLate, env
  <2>6. ASSUME NEW click, ClickArrives(click) PROVE asked' = asked /\ (torn => torn')
      BY <2>6 DEF ClickArrives
  <2>7. ASSUME AsksUser PROVE torn => torn'
      BY <2>7 DEF AsksUser
  <2> QED
      BY <1>2, <2>1, <2>2, <2>3, <2>4, <2>5, <2>6, <2>7 DEF Next, Step
<1> QED
    BY <1>1, <1>2

\* Every step keeps History, or tears it.
LEMMA HistoryNext ==
    ASSUME Basis, Visible, torn \/ History, [Next]_vars
    PROVE  (torn \/ History)'
<1> SUFFICES ASSUME ~torn' PROVE History'
    OBVIOUS
<1>1. History /\ (asked' = asked \/ AsksUser)
    BY AskedKept
<1>2. CASE UNCHANGED vars
  <2>1. UNCHANGED <<session, worker, tools, asked>>
      BY <1>2 DEF vars, env
  <2> QED
      BY <1>1, <2>1, HistorySame
<1>3. CASE AsksUser
    BY <1>1, <1>3, AsksUserHistory
<1>4. CASE Next /\ asked' = asked
    BY <1>1, <1>3, <1>4, NextIs, OutsideHistory, TakeMessageHistory, RestoreTurnHistory,
       BuildTurnHistory, ModelCallsToolHistory, ToolRunsHistory, TurnGoesOnHistory,
       PersistTurnHistory
<1> QED
    BY <1>1, <1>2, <1>3, <1>4

\* The invariant.
LEMMA HistoryHolds == Spec => [](torn \/ History)
<1>1. Init => History
  <2> SUFFICES ASSUME Init PROVE History
      OBVIOUS
  <2>1. /\ session.msgs = <<>> /\ session.checkpoint = NoCheckpoint /\ session.status = "none"
        /\ worker.pc = "none" /\ worker.rows = <<>>
      BY DEF Init, NewSession, NoWorker
  <2>2. Paired(<<>>, asked) /\ CallsOnce(<<>>) /\ NewCalls(<<>>, session.msgs)
    <3>1. Len(<<>>) = 0 /\ \A i : i \notin 1..0
        OBVIOUS
    <3> QED
        BY <3>1 DEF Paired, CallsOnce, NewCalls
  <2>3. Sound(session, tools, asked)
      BY <2>1, <2>2, EmptyQueue DEF Sound, Fresh, NoCheckpoint, CallPhases
  <2>4. Savable
      BY <2>1, <2>2, EmptyQueue DEF Savable
  <2> QED
      BY <2>1, <2>3, <2>4 DEF History
<1>2. Basis /\ Visible /\ (torn \/ History) /\ [Next]_vars => (torn \/ History)'
    BY HistoryNext
<1> QED
    BY <1>1, <1>2, BasisHolds, VisibleHolds, PTL DEF Spec

\* Every request has a legal tool history, whatever crash, stop, failure, supersession or
\* click came before (restore_runtime_checkpoint, _save_turn): a call is there once and is
\* followed at once by its one result, and there is no result without its call.  The
\* exceptions are the ones HistoryWellFormed names: a question that ended its turn has no
\* result, and nothing is said once a late dismissal has restored the checkpoint of a
\* running turn.
THEOREM LegalToolHistory == Spec => []HistoryWellFormed
<1>1. Basis /\ (torn \/ History) => HistoryWellFormed
  <2> DEFINE Answered(i) == /\ i < Len(Context) /\ Context[i + 1].id = Context[i].id
                            /\ Context[i + 1].kind \in {"result", "cut"}
  <2> SUFFICES ASSUME Basis, History, worker.pc = "request", NEW i \in 1..Len(Context)
               PROVE  /\ Context[i].kind = "call" =>
                           /\ \/ Answered(i)
                              \/ Context[i].id \in asked /\ ~Fulfilled(Context, Context[i].id)
                           /\ \A j \in 1..Len(Context) : Context[j] = Context[i] => j = i
                      /\ Context[i].kind \in {"result", "cut"} =>
                           i > 1 /\ Context[i - 1] = Row("call", Context[i].id)
      BY DEF HistoryWellFormed
  <2>1. session.msgs \in Seq(Rows) /\ worker.rows \in Seq(Rows)
      BY BasisIs
  <2>2. /\ Closed(session.msgs, asked) /\ Closed(worker.rows, asked)
        /\ CallsOnce(session.msgs) /\ CallsOnce(worker.rows)
        /\ NewCalls(worker.rows, session.msgs)
      BY DEF History, Sound, Savable, Fresh
  <2>3. Context \in Seq(Rows) /\ Closed(Context, asked)
      BY <2>1, <2>2, ClosedConcat, ConcatIs DEF Context
  <2>4. CallsOnce(Context)
    <3>1. CallsOnce(session.msgs \o worker.rows)
        BY <2>1, <2>2, CallsSaved
    <3> QED
        BY <3>1 DEF Context
  <2>5. i > 1 => i - 1 \in 1..Len(Context)
      BY <2>3, LenProperties
  <2>6. i > 1 => Context[i - 1] \in Rows
      BY <2>3, <2>5, ElementOfSeq
  <2>7. /\ Context[i].kind = "call" /\ Context[i].id \notin asked => Answered(i)
        /\ Context[i].kind \in {"result", "cut"} =>
             i > 1 /\ Context[i - 1].kind = "call" /\ Context[i - 1].id = Context[i].id
      BY <2>3 DEF Closed
  <2>8. Context[i].kind = "call" =>
            \A j \in 1..Len(Context) : Context[j] = Context[i] => j = i
      BY <2>4 DEF CallsOnce
  <2>9. ASSUME Context[i].kind = "call", Fulfilled(Context, Context[i].id) PROVE Answered(i)
    <3>1. PICK j \in 1..Len(Context) :
              Context[j].kind \in {"result", "cut"} /\ Context[j].id = Context[i].id
        BY <2>9 DEF Fulfilled
    <3>2. j > 1 /\ Context[j - 1].kind = "call" /\ Context[j - 1].id = Context[j].id
        BY <2>3, <3>1 DEF Closed
    <3>3. Len(Context) \in Nat
        BY <2>3, LenProperties
    <3>4. j - 1 \in 1..Len(Context)
        BY <3>2, <3>3
    <3>5. j - 1 = i
        BY <2>4, <2>9, <3>1, <3>2, <3>4 DEF CallsOnce
    <3>6. j = i + 1 /\ i < Len(Context)
        BY <3>3, <3>5
    <3> QED
        BY <3>1, <3>6
  <2> HIDE DEF Answered
  <2> QED
      BY <2>6, <2>7, <2>8, <2>9, RowTypes
<1> QED
    BY <1>1, BasisHolds, HistoryHolds, PTL
=============================================================================
