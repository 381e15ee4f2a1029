--------------------------- MODULE SharedCapBudget ---------------------------
(***************************************************************************)
(* The cap budget of nanobot/kernel/budget_shared.py: one cap for all the  *)
(* processes that share a SQLite database.  Each write is one BEGIN        *)
(* IMMEDIATE transaction, hence one atomic step on db; a process reads the *)
(* clock, waits for the write lock, and may time out or die between its    *)
(* transactions.  Settles and releases that cannot be written wait in a    *)
(* queue of the process, and are lost with it.  A reservation has a lease: *)
(* once it has lapsed, the next writer charges what it still holds.        *)
(*                                                                         *)
(* The caps are stored and agreed on (BudgetCaps is about how they get     *)
(* there).                                                                 *)
(***************************************************************************)
EXTENDS BudgetRules, Sequences

CONSTANTS
    Procs,          \* the processes
    MaxAttempts,    \* bound: settles of a behaviour
    MaxCrashes,     \* bound: processes that die
    Nobody          \* the holder of a reservation object that is gone

ASSUME SharedAssumption ==
    /\ Nobody \notin Procs
    /\ MaxAttempts \in Nat
    /\ MaxCrashes \in Nat

VARIABLES
    db,        \* the database: rows, spend (USD by scope), tokens
    lapsed,    \* the open rows whose lease_expires_ms has passed
    handle,    \* handle[c]: the SharedReservation object of row c
    pending,   \* pending[p]: the queue of _Op of process p
    proc,      \* proc[p]: where process p is inside an operation of the budget
    crashes,   \* how many processes have died
    attempts,  \* how many attempts were settled
    overrun,   \* history: USD settled beyond what was still held for it
    overrunTokens,
    billed     \* history: USD of call c's attempts before its release, at most
               \* what was reserved (all of it after an unpriced attempt)

history == <<overrun, overrunTokens, billed>>
bounds == <<crashes, attempts>>

vars == <<db, lapsed, handle, pending, proc, bounds, history>>

NoRow ==
    [state |-> "none", usd |-> 0, tokens |-> 0, slots |-> {}, unpriced |-> FALSE,
     chargeUsd |-> 0, chargeTokens |-> 0]

NewRow(est) ==
    [NoRow EXCEPT !.state = "open", !.usd = AmountOf(est), !.tokens = est.tokens,
                  !.slots = est.slots]

NoHandle == [holder |-> Nobody, usd |-> 0, released |-> FALSE]

Idle == [pc |-> "idle", est |-> None]

-----------------------------------------------------------------------------
(* Inside a transaction: the database before and after one statement.      *)

\* _charge (and _add_spend): usd to the kernel scope and to each slot.
Charge(d, usd, tokens, slots) ==
    [d EXCEPT !.spend = AddIn(@, ScopesOf(slots), usd), !.tokens = @ + tokens]

\* What the rows in S hold in scope s (USD), and in tokens.
HeldBy(d, S, s) ==
    [c \in Calls |-> IF c \in S /\ s \in ScopesOf(d.rows[c].slots)
                     THEN d.rows[c].usd ELSE 0]

TokensBy(d, S) == [c \in Calls |-> IF c \in S THEN d.rows[c].tokens ELSE 0]

OpenRows(d) == {c \in Calls : d.rows[c].state = "open"}

\* The row after its lease ran out: what it held is now charged.
ExpiredRow(row) ==
    [row EXCEPT !.state = "expired", !.usd = 0, !.tokens = 0,
                !.chargeUsd = row.usd, !.chargeTokens = row.tokens]

\* Mutant of ExpiryCharge: an expired row is marked and not charged.
ExpiryChargeNothing(d, S, s) == 0

\* What the expiry of the rows in S charges to scope s.
ExpiryCharge(d, S, s) == SumTo(HeldBy(d, S, s), MaxCalls)

\* _expire: charge every open row whose lease is over at time now (the set of
\* rows that had lapsed when the clock was read).
Expire(d, now) ==
    LET S == OpenRows(d) \cap now
    IN  [rows |-> [c \in Calls |-> IF c \in S THEN ExpiredRow(d.rows[c])
                                   ELSE d.rows[c]],
         spend |-> [s \in Scopes |-> d.spend[s] + ExpiryCharge(d, S, s)],
         tokens |-> d.tokens + SumTo(TokensBy(d, S), MaxCalls)]

\* Mutant of ExposureOf: admissions forget what other calls have reserved.
ExposureOfSpend(d) == d.spend

\* _totals: spent plus reserved by scope, and in tokens.  A lapsed row counts as
\* spent and any other open row as reserved, so the sum does not depend on now.
ExposureOf(d) ==
    [s \in Scopes |-> d.spend[s] + SumTo(HeldBy(d, OpenRows(d), s), MaxCalls)]

TokensUsed(d) == d.tokens + SumTo(TokensBy(d, OpenRows(d)), MaxCalls)

\* What is held for the call of a row: its reservation, or what the expiry charged.
UsdHeld(row) == IF row.state = "expired" THEN row.chargeUsd ELSE row.usd
TokensHeld(row) == IF row.state = "expired" THEN row.chargeTokens ELSE row.tokens

\* _apply_settle.  After an expiry only the excess over the charge is new spend;
\* otherwise the whole cost is, and an open row holds that much less.
ApplySettle(d, op) ==
    LET row == d.rows[op.id]
        cost == IF op.cost = None THEN 0 ELSE op.cost
        takeUsd == Take(UsdHeld(row), cost)
        takeTokens == Take(TokensHeld(row), op.tokens)
        marked == [row EXCEPT !.unpriced = @ \/ op.unpriced]
    IN  CASE row.state = "expired" ->
             Charge([d EXCEPT !.rows[op.id] =
                        [marked EXCEPT !.chargeUsd = @ - takeUsd,
                                       !.chargeTokens = @ - takeTokens]],
                    cost - takeUsd, op.tokens - takeTokens, row.slots)
          [] row.state = "open" ->
             Charge([d EXCEPT !.rows[op.id] =
                        [marked EXCEPT !.usd = @ - takeUsd,
                                       !.tokens = @ - takeTokens]],
                    cost, op.tokens, row.slots)
          [] row.state = "released" ->
             Charge([d EXCEPT !.rows[op.id] = marked], cost, op.tokens, row.slots)

\* Mutant of Refund: an expired row gives its USD back after an unpriced attempt.
RefundAll(row) == row.chargeUsd

\* What an expired row gives back when it is released: its tokens, and its USD
\* unless an attempt was unpriced.
Refund(row) == IF row.unpriced THEN 0 ELSE row.chargeUsd

ReleasedRow(row) ==
    [row EXCEPT !.state = "released", !.usd = 0, !.tokens = 0,
                !.chargeUsd = 0, !.chargeTokens = 0]

\* _apply_release.  A second release finds the row released and does nothing.
ApplyRelease(d, op) ==
    LET row == d.rows[op.id]
        freed == [d EXCEPT !.rows[op.id] = ReleasedRow(row)]
    IN  CASE row.state = "released" -> d
          [] row.state = "expired" ->
             Charge(freed, -Refund(row), -row.chargeTokens, row.slots)
          [] row.state = "open" ->
             Charge(freed, IF row.unpriced THEN row.usd ELSE 0, 0, row.slots)

\* _apply: one transaction, after the leases that are over by then were expired.
Apply(d, op) ==
    IF op.kind = "settle" THEN ApplySettle(d, op) ELSE ApplyRelease(d, op)

-----------------------------------------------------------------------------
Init ==
    /\ db = [rows |-> [c \in Calls |-> NoRow], spend |-> [s \in Scopes |-> 0],
             tokens |-> 0]
    /\ lapsed = {}
    /\ handle = [c \in Calls |-> NoHandle]
    /\ pending = [p \in Procs |-> <<>>]
    /\ proc = [p \in Procs |-> Idle]
    /\ crashes = 0
    /\ attempts = 0
    /\ overrun = [s \in Scopes |-> 0]
    /\ overrunTokens = 0
    /\ billed = [c \in Calls |-> 0]

\* Where an operation is once _replay has returned: settle, release and flush are
\* over, an admission (one with an estimate) waits for the write lock.
AfterReplay(est) == IF est = None THEN Idle ELSE [pc |-> "begin", est |-> est]

\* Every operation starts with _replay, which returns at once on an empty queue.
StartReplay(p, est) ==
    proc' = [proc EXCEPT ![p] = IF pending'[p] = <<>> THEN AfterReplay(est)
                                ELSE [pc |-> "replay", est |-> est]]

\* admit, up to its call of _replay (as long as MaxCalls allows another call).
CallAdmit(p, est) ==
    /\ proc[p].pc = "idle"
    /\ \E c \in Calls : db.rows[c].state = "none"
    /\ UNCHANGED pending
    /\ StartReplay(p, est)
    /\ UNCHANGED <<db, lapsed, handle, bounds, history>>

\* settle: queue the attempt.  A late settle may follow the release.
CallSettle(p, c, event) ==
    LET cost == CostOf(event)
        op == [kind |-> "settle", id |-> c, tokens |-> event.tokens,
               cost |-> event.cost, unpriced |-> IsUnpricedUsage(event)]
    IN  /\ proc[p].pc = "idle"
        /\ handle[c].holder = p
        /\ attempts < MaxAttempts
        /\ attempts' = attempts + 1
        /\ pending' = [pending EXCEPT ![p] = Append(@, op)]
        /\ billed' = IF handle[c].released THEN billed
                     ELSE [billed EXCEPT ![c] =
                             IF op.unpriced THEN handle[c].usd
                             ELSE MinOf(handle[c].usd, @ + cost)]
        /\ StartReplay(p, None)
        /\ UNCHANGED <<db, lapsed, handle, crashes, overrun, overrunTokens>>

\* release: once per reservation object.
CallRelease(p, c) ==
    /\ proc[p].pc = "idle"
    /\ handle[c].holder = p
    /\ ~handle[c].released
    /\ handle' = [handle EXCEPT ![c].released = TRUE]
    /\ pending' = [pending EXCEPT ![p] =
                     Append(@, [kind |-> "release", id |-> c, tokens |-> 0,
                                cost |-> None, unpriced |-> FALSE])]
    /\ StartReplay(p, None)
    /\ UNCHANGED <<db, lapsed, bounds, history>>

\* flush (close, Kernel.close, interpreter exit), a new object of this process, and
\* _read before it reads: write what is queued.
CallFlush(p) ==
    /\ proc[p].pc = "idle"
    /\ pending[p] # <<>>
    /\ UNCHANGED pending
    /\ StartReplay(p, None)
    /\ UNCHANGED <<db, lapsed, handle, bounds, history>>

\* _try_expire, called by _read after its _replay (which may have failed): mark the
\* leases that were over when the clock was read.
TryExpire(p) ==
    /\ proc[p].pc = "idle"
    /\ \E now \in SUBSET lapsed :
          /\ now # {}
          /\ db' = Expire(db, now)
          /\ lapsed' = lapsed \ now
    /\ UNCHANGED <<handle, pending, proc, bounds, history>>

\* USD and tokens of a settle beyond what is held for its call (history).
ExcessOf(held, state, amount) ==
    IF state \in {"open", "expired"} THEN amount - MinOf(held, amount) ELSE amount

\* One round of _replay: the head of the queue is written, then removed.
ReplayOne(p) ==
    LET op == Head(pending[p])
        d == Expire(db, lapsed)
        row == db.rows[op.id]
        cost == IF op.cost = None THEN 0 ELSE op.cost
    IN  /\ proc[p].pc = "replay"
        /\ pending[p] # <<>>
        /\ db' = Apply(d, op)
        /\ pending' = [pending EXCEPT ![p] = Tail(@)]
        /\ overrun' = IF op.kind = "settle"
                      THEN AddIn(overrun, ScopesOf(row.slots),
                                 ExcessOf(UsdHeld(row), row.state, cost))
                      ELSE overrun
        /\ overrunTokens' = IF op.kind = "settle"
                            THEN overrunTokens
                                 + ExcessOf(TokensHeld(row), row.state, op.tokens)
                            ELSE overrunTokens
        /\ lapsed' = {}
        /\ proc' = [proc EXCEPT ![p] = IF Len(pending[p]) = 1
                                       THEN AfterReplay(@.est) ELSE @]
        /\ UNCHANGED <<handle, bounds, billed>>

\* _replay gives up: another writer holds the lock for longer than a replay waits.
\* What is left stays queued.
ReplayFails(p) ==
    /\ proc[p].pc = "replay"
    /\ proc' = [proc EXCEPT ![p] = AfterReplay(@.est)]
    /\ UNCHANGED <<db, lapsed, handle, pending, bounds, history>>

\* The transaction of admit: expire, total up, check, and insert the reservation; a
\* refusal keeps the expiry marks.  The clock was read before the wait for the lock,
\* so leases that ran out in the meantime are not expired yet.
AdmitCommit(p) ==
    \E now \in SUBSET lapsed :
       LET d == Expire(db, now)
           est == proc[p].est
       IN  /\ proc[p].pc = "begin"
           /\ \/ /\ Admissible(est, ExposureOf(d), TokensUsed(d))
                 /\ \E c \in Calls :
                       /\ d.rows[c].state = "none"
                       /\ \A b \in 1..(c - 1) : d.rows[b].state # "none"
                       /\ db' = [d EXCEPT !.rows[c] = NewRow(est)]
                       /\ handle' = [handle EXCEPT ![c] =
                                       [NoHandle EXCEPT !.holder = p,
                                                        !.usd = AmountOf(est)]]
              \/ /\ ~Admissible(est, ExposureOf(d), TokensUsed(d))
                 /\ db' = d
                 /\ UNCHANGED handle
           /\ lapsed' = lapsed \ now
           /\ proc' = [proc EXCEPT ![p] = Idle]
           /\ UNCHANGED <<pending, bounds, history>>

\* No write lock within lock_timeout_s, or a database error: budget_unavailable,
\* the transaction is rolled back and nothing is admitted.
AdmitUnavailable(p) ==
    /\ proc[p].pc = "begin"
    /\ proc' = [proc EXCEPT ![p] = Idle]
    /\ UNCHANGED <<db, lapsed, handle, pending, bounds, history>>

\* Time passes the lease of a row.
Lapse(c) ==
    /\ db.rows[c].state = "open"
    /\ c \notin lapsed
    /\ lapsed' = lapsed \cup {c}
    /\ UNCHANGED <<db, handle, pending, proc, bounds, history>>

\* A process is killed: its queue and its reservation objects are gone, the
\* transaction it may be waiting for never starts.  Another one takes its place.
Crash(p) ==
    /\ crashes < MaxCrashes
    /\ crashes' = crashes + 1
    /\ pending' = [pending EXCEPT ![p] = <<>>]
    /\ proc' = [proc EXCEPT ![p] = Idle]
    /\ handle' = [c \in Calls |-> IF handle[c].holder = p
                                  THEN NoHandle
                                  ELSE handle[c]]
    /\ UNCHANGED <<db, lapsed, attempts, history>>

Next ==
    \/ \E p \in Procs :
          \/ \E est \in Estimates : CallAdmit(p, est)
          \/ \E c \in Calls, event \in Events : CallSettle(p, c, event)
          \/ \E c \in Calls : CallRelease(p, c)
          \/ CallFlush(p)
          \/ ReplayOne(p)
          \/ ReplayFails(p)
          \/ AdmitCommit(p)
          \/ AdmitUnavailable(p)
          \/ TryExpire(p)
          \/ Crash(p)
    \/ \E c \in Calls : Lapse(c)

Spec == Init /\ [][Next]_vars

-----------------------------------------------------------------------------
(* What the database means to a caller of the budget: a row that expired   *)
(* still holds what the expiry charged, until its call settles or releases *)
(* it.  Spent and reserved are what they would be without the expiry.      *)

Reservations ==
    [c \in Calls |->
       LET row == db.rows[c]
       IN  [state |-> IF row.state = "expired" THEN "open" ELSE row.state,
            usd |-> UsdHeld(row), tokens |-> TokensHeld(row),
            slots |-> row.slots, unpriced |-> row.unpriced]]

ReservedUsd(s) ==
    SumTo([c \in Calls |-> IF s \in ScopesOf(db.rows[c].slots)
                           THEN UsdHeld(db.rows[c]) ELSE 0], MaxCalls)

ChargedByExpiry(s) ==
    SumTo([c \in Calls |-> IF s \in ScopesOf(db.rows[c].slots)
                           THEN db.rows[c].chargeUsd ELSE 0], MaxCalls)

ReservedTokens == SumTo([c \in Calls |-> TokensHeld(db.rows[c])], MaxCalls)

TokensChargedByExpiry ==
    SumTo([c \in Calls |-> db.rows[c].chargeTokens], MaxCalls)

Abstract == INSTANCE CapBudget WITH
    res <- Reservations,
    spent <- [s \in Scopes |-> db.spend[s] - ChargedByExpiry(s)],
    reserved <- [s \in Scopes |-> ReservedUsd(s)],
    spentTokens <- db.tokens - TokensChargedByExpiry,
    reservedTokens <- ReservedTokens,
    MaxSpend <- None,
    MaxTokens <- None

\* SharedCapBudget implements CapBudget: whatever the processes do at the same time,
\* whichever leases lapse and get marked, late or never, every committed transaction
\* of _apply and admit is one admit, settle or release of one in-memory CapBudget, or
\* changes nothing.  So the final spend is what it would be without the expiry.
ImplementsCapBudget == Abstract!Spec

\* FR-048: a settle that is queued, or lost with its process, never loosens the cap.
\* Spent plus reserved always covers what was billed for every call before its
\* release, as far as it was reserved, although the settle may never be written:
\* _replay writes in order, and an abandoned row is charged when its lease lapses.
CapsNeverLoosen ==
    db.spend[Kernel] + SumTo(HeldBy(db, OpenRows(db), Kernel), MaxCalls)
      >= SumTo([c \in Calls |-> billed[c]], MaxCalls)

\* The cap invariant of FR-045 at every committed state, for every capped scope.
CapHolds == Abstract!CapHolds

\* Every variable keeps its type; no amount in the database goes below zero (an expired
\* row never refunds more than _expire charged), and only open rows can lapse.
TypeOK ==
    /\ \A c \in Calls :
         /\ db.rows[c].state \in {"none", "open", "expired", "released"}
         /\ db.rows[c].usd \in Nat /\ db.rows[c].tokens \in Nat
         /\ db.rows[c].chargeUsd \in Nat /\ db.rows[c].chargeTokens \in Nat
         /\ db.rows[c].slots \subseteq Slots
    /\ db.spend \in [Scopes -> Nat]
    /\ db.tokens \in Nat
    /\ lapsed \subseteq OpenRows(db)
    /\ \A p \in Procs : proc[p].pc \in {"idle", "replay", "begin"}
    /\ crashes \in 0..MaxCrashes
    /\ attempts \in 0..MaxAttempts
=============================================================================
