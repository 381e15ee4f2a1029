# A TLA+ model of moeka (nanobot)

moeka is an agent framework in Python (package `nanobot`): a gateway receives messages
from chat channels, an agent loop turns them into model calls and tool runs, automations
(cron jobs, local triggers) submit turns of their own, and a kernel meters what the model
calls may cost. This directory models the parts of it whose correctness depends on order,
concurrency, crashes and timeouts. TLC checks the modules on small instances; TLAPS proves
the safety of the budgets, the model calls, the local triggers, the cron service and turn
recovery for every instance.

All paths below are relative to `src/nanobot/` unless they say otherwise. `PROJECT.json`
maps every definition to the lines it models.

## 1. The system and its parts

| part | state | operations | interacts with | hard behaviour |
|---|---|---|---|---|
| cap budget (`kernel/budget.py`) | spent and reserved USD and tokens, by tag slot; one reservation per call | `admit`, `settle`, `release` | every model call, from several threads | calls in flight, retries, attempts without a price, late settles, clamping |
| shared cap budget (`kernel/budget_shared.py`) | a SQLite database; per process a queue of unwritten operations | the same, plus `flush`, `close`, reads that expire leases | processes, through the database | lock timeouts, crashes, leases that lapse under a running call, stale clocks |
| caps agreement (`kernel/budget_shared.py`) | the stored caps, and what each object was built with | construction, `reset_caps`, the first admission | as above | constructors that find the database locked |
| local triggers (`triggers/local_store.py`, `local_runner.py`) | trigger records; delivery files in `inbox`, `processing`, `failed`; run records | create, enable, delete, enqueue; claim, deliver, record, complete, retry, recover | commands of other processes, the gateway loop, session turns | a crash between any two file operations, retries, deletes under way |
| session dispatch (`agent/loop.py`, `command/builtin.py`) | an inbox and a worker task per session, deferred automation turns, session locks, the concurrency gate | admission, a turn, mid-turn injection, `/stop`, `/new` | the bus, the runner, automation submitters | everything that happens between two `await`s of different tasks |
| automation turns (`agent/automation_turns.py`) | a future per submitted turn | `submit`, `defer_if_active`, `complete` | cron, local triggers, the session workers | a submitter must always be answered |
| cron (`cron/service.py`) | jobs in `jobs.json` and in memory, an action log of other processes, a timer task | start, tick, manual run, edits, merge of the log | files, session turns | saves that fail or are cut off, edits while a job runs, job timeouts |
| model calls (`providers/base.py`, `fallback_provider.py`, `kernel/budget.py`) | per call: attempt, provider, stream segment, reservation; shared: the circuit breaker | admit, attempt, retry, next provider, next round, cancel | the network, metering, the user's screen | stalls after text was shown, cancellation at any await, three nested loops |
| turns and recovery (`agent/runner.py`, `agent/loop.py`, `session/recovery.py`) | history, checkpoint, markers and journal of a session; the running turn | turn stages, checkpoints, injection, restart scan, Continue, Dismiss | the bus, the web UI | restarts in the middle of a turn, late clicks |
| outbound delivery (`channels/manager.py`, `channels/token_lock.py`) | the outbound queue, tasks per chat, slots, the runtime object of a channel and its token lock | coalesce, suppress, send with retry, enable, disable | the agent, channel adapters, other instances | order per chat, replacement of a channel while messages wait |
| subagents, exec sessions (`agent/subagent.py`, `agent/tools/*`) | tasks and processes per session | spawn, cancel, inject results | the loop | cancellation |

What makes each modelled part correct is stated by its properties, in section 4. The
full list of parts, with the ones that are not modelled and why, is in `PROJECT.json`
(`components`), and so are the hazards the properties are aimed at (`hazards`).

## 2. Modules

```
Sums ---- BudgetLemmas
  |          |     \____________________________________
BudgetRules -|------------ CapBudget ---- MCCapBudget   |
  |          |_______________ \______ CapBudgetProofs   |
  |__ SharedCapBudget ---- MCSharedCapBudget            |
        |  (implements CapBudget)                       |
        |___________________________ SharedCapBudgetProofs

BudgetCaps ------- BudgetCapsProofs        CronService ---- CronServiceProofs
LocalTriggers ---- LocalTriggersProofs     ModelCall ------ ModelCallProofs
TurnRecovery ----- TurnRecoveryProofs      OutboundDelivery ---- MCOutboundDelivery
SessionDispatch
```

**`Sums`** sums functions on `1..n` with a recursive function, so that `BudgetLemmas`
can prove what both budgets need about them (adding, updating one argument, bounds).

**`BudgetRules`** is what both budgets share: `check_admission` (`Admissible`),
`settle_charge` (`IsUnpricedUsage`, `CostOf`) and the scopes an amount is booked under:
`Kernel` for the whole budget, and one scope for each `(tag, value)` slot with a `per_tag`
cap. USD amounts are integers; floating point rounding is not modelled.

**`CapBudget`** is `CapBudget` of `kernel/budget.py`. Its methods hold one lock, so each is
one action: `Admit`, `Settle`, `Release`. `res[c]` is the `_CapReservation` of call `c`,
`spent`, `reserved` and the token totals are the fields of the class. The histories
`overrun` and `overrunTokens` add up what attempts cost beyond their reservations.
`MaxSpend` and `MaxTokens` bound the totals for TLC; `None` is no bound, which is what the
refinement uses.

**`SharedCapBudget`** is the database version. A `BEGIN IMMEDIATE` transaction is one
step on `db`. `proc[p]` says where process `p` is: inside `_replay`, or waiting for the
write lock of an admission. Each operation starts with `_replay`, which writes its queue
one transaction at a time and may give up (`ReplayFails`). Time is modelled by `lapsed`,
the rows whose lease has passed. A transaction whose clock was read before it waited for
the lock expires an arbitrary subset of `lapsed`. `Crash` loses the queue and the
reservation objects of a process. Every expired row still counts what it was charged, so
`Reservations` and the totals map the database to the variables of `CapBudget`, and
`ImplementsCapBudget` is that specification.

**`BudgetCaps`** is about how the caps get into the database: `_store_caps` with the write
lock, `_check_caps_readonly` without it, `_write_pending_caps` in the first admission.
`superseded` and `checked` are histories. `ReadsFail` lets the read fail too (a database
that is not yet in WAL mode).

**`LocalTriggers`** has one step for every write, move or removal of a file by the gateway
loop, whose position is `gateway.pc`. A file in a directory is its attempt counter.
Commands of other processes take the store's file lock, so they are one step each and are
kept out while the gateway is inside `recover`, `claim` or `retry`; a `delete` that fails
to remove some files, or dies before it has, leaves a subset of them. A turn is started
and ended by the agent (`TurnStarts`, `TurnEnds`); how the agent does that is
`SessionDispatch`. `StoreError` is a store call of the `try` block that raises, `Crash` a
kill or a raise in an error handler.

**`SessionDispatch`** models the tasks of the agent loop. asyncio runs one task at a
time, so a step is what a task does between two suspensions. A worker, and the
`asyncio.Queue` it serves, have the number of the message they were created for, and
`admission[s]` is the entry of `_pending_queues`: comparing it with a worker is the code's
`is pending`. The session lock is a FIFO queue of workers; the gate is the number of
workers in a turn. `/new` is a turn in an idle session and inline in an active one, `/stop`
is always inline. While `run()` waits for an inline command it receives nothing from the
bus, but automations still submit.

**`CronService`** is the scheduler of the gateway. Methods that do not await are atomic
for the other tasks but not for a crash: a call that reloads the store is in `call`, with
a step of its own for every write, so a crash can fall between the emptying of
`action.jsonl` and the save. `mem`, `dirty` and `timer` are `_store`, `_store_dirty` and
`_timer_task`; `Active` is `_active_executions`. A save raises before or after
`os.replace`. `_merge_action` applies the log line by line; since a line replaces or
removes a whole job, `Merge` lets the last line about a job decide. The turn a job submits is counted in `turn`: it may outlive its submitter
when the job timeout cancels that.

**`ModelCall`** is one streamed call. The layers that await are the values of `pc`; what
each layer keeps in local variables (its delta callback, its has-streamed flag, its guard)
is a field of the call. An attempt ends with one of five responses, which is all the layers
tell apart. `_call_provider` runs the loop of a GPU primary as a task of its own and waits
for the first output with `asyncio.wait`, which does not pass a cancellation on: `Cancel`
then releases the reservation and leaves the loop running (`Detached`, `stray`) until it
returns to nobody (`StrayReturns`).

**`TurnRecovery`** is one web UI session across restarts. A row of the history is a kind
and a number. `session` is the cached object and the stored one at once, since the code
saves after each change without an await in between; a crash loses `bus`, `inbox` and
`worker`. Recovery ids are numbered, and a message is a positive number, the continuation
of a recovery a negative one; a click is taken at once or is `late`. Whether the
transcript of the web UI ends inside a turn is chosen freely at a restart. A tool that has
run gives its result (`ToolDone`) or was `ask_user`, which ends the turn with a call that
has none (`AsksUser`; the history `asked` has these calls). The third exit of
`AgentRunner._run_core` at that point, for another fatal error, is never taken: `_run_tool`
returns no other exception than `AskUserInterrupt`. `torn` records that a late Dismiss
restored the checkpoint of a running turn.

**`OutboundDelivery`** is one channel of `ChannelManager`. Messages are numbered, `parts`
are the ones a merged delta stands for. A task is a record that waits for its `previous`,
for one of `Concurrency` send slots, and then sends; it leaves `tasks` with its done
callback. `current` is the object in `self.channels`, `polling` the objects whose `start()`
runs, `lock` the holder of the token lock. Each request to enable or disable the channel has
its own `call`, and requests may overlap: what one read before an await is in its record,
what it looks up again is read again. `overlapped` records that one began before another
had ended.

The modules meet at their interfaces: `LocalTriggers`' `TurnStarts` and `TurnEnds`, and
`CronService`'s `turn`, abstract what `SessionDispatch` does with an automation turn, and
`ModelCall` calls `Admit` and settles and releases as `CapBudget` expects it
(`SettledThenReleased` is its side of that contract). `TurnRecovery` refines the turn of
`SessionDispatch` by its stages and drops the automation turns.

Definitions named as a mutant in their comment (`TakeAll`, `StartPolling`, ...) are not
part of the specifications: each is the code with a plausible bug, and shows that the
property it is paired with in `PROJECT.json` notices it.

## 3. Runs and bounds

| run | instance | what it shows |
|---|---|---|
| `cap_budget` | 3 calls, a USD cap of 4, a token cap of 5, one tag slot with a cap of 2; attempts that cost less than, as much as and more than their reservation, without a price, and timed out | the totals match the reservations, the caps hold, exposure is freed only by the release of a call without unpriced attempts |
| `shared_budget` | 2 processes, 2 calls, a USD cap of 3 and a slot cap of 2 for calls of 1 and 2 USD, 2 attempts that cost more than reserved or time out, one crash | the caps hold, a lost settle loosens nothing, every transaction is a step of `CapBudget` |
| `budget_caps` | 3 processes, 2 different caps, 4 constructions | caps that were checked stay in force until a reset |
| `local_triggers` | 1 trigger, 2 deliveries, 3 attempts, 2 stops, 1 store error | nothing is lost, rerun without a fault or run for a deleted trigger; with fairness, every delivery leaves the queue for good |
| `session_dispatch` | 1 session, 4 messages of any kind, 1 inline command | no message is lost or handled twice, the user's input stays in order |
| `session_dispatch_live` | 2 sessions, 3 messages, `/new`, 1 permit of the gate | every message is handled or dropped by the command, every submitter is answered, no session starves another |
| `cron_service` | a one-shot job that is deleted after its run and a recurring one, 3 instants, 3 calls in the gateway or another process, 1 manual run at a time, 1 failed save, 1 crash | the scheduler stays alive, occurrences run once, acknowledged changes survive, revoked jobs stay quiet, due jobs run |
| `model_call` | 1 call at a time, again and again, with or without persistence, stream recovery and images; a primary (GPU or not) and 2 fallbacks, 2 attempts each, the breaker trips at 2 | segments, settlement, retry notices, termination |
| `turn_recovery` | 2 messages, 2 tool calls, 2 crashes or failed turns, 1 `/stop`, 1 late Continue or Dismiss, questions to the user, with and without a goal | the history of every request is legal (until a running turn is dismissed) and complete up to the last call, follow-ups are kept once, one click one continuation, a continuation under a goal is resolved |
| `outbound_delivery` | 2 chats, messages of any kind, 2 slots, 1 concurrent send, 2 attempts, another instance that wants the token; 3 messages with one change of the channel, 2 messages with two changes, which may overlap | order per chat, every message settled, one live object until changes overlap |

Two more runs (`session_stop`, `turn_continue`) show where the code does not do what it
says (section 6).

Why the bounds are enough: the budget needs two calls that compete for a cap and a third
one that is admitted into what they free, and attempts on both sides of their reservation.
Two attempts put a settle before and after the expiry of a row, or of its release.
Two deliveries make a batch with a rest that is left behind by a stop; three attempts
separate a first, a middle and a last one, and two stops allow a crash inside the recovery
from a crash. Four messages make a turn, an injection, one that arrives during the
conversion and one behind a barrier. Sessions share nothing but the gate, so one session
is enough for what does not concern the gate. Two cron jobs make a tick with a second
entry in its list while the first one is awaited; three instants let a recurring job
become due, run and become due again. Two fallbacks separate the first, which follows the
primary, from the next, which follows a fallback. Two tool calls separate the checkpointed
iteration from an earlier one; two faults allow the continuation of an interrupted turn to
be interrupted. Three messages with two slots make the dispatcher wait for a slot while
the channel is replaced; two changes are what it takes to overlap, and two messages
(`MaxMixed`) then give tasks of an old and of a new object.

`CHECK_DEADLOCK FALSE` is in every configuration but `model_call` because each system may
stop: when all calls, deliveries, jobs or messages the bounds allow have been handled.

Symmetry is used for the interchangeable processes of `SharedCapBudget`, where only safety
is checked (`ImplementsCapBudget` has no fairness).

## 4. Properties

* `CapHolds`: spent plus reserved passes a cap by no more than what attempts cost beyond
  their own reservations, in the whole budget and in each slot.
* `ReservedMatchesHeld`: the totals never drift from the reservations, so the clamps at
  zero in `_consume` never hide anything.
* `OnlyPricedReleaseFreesExposure`: exposure falls only at the release of a call without
  an unpriced attempt, by exactly what that call still held.
* `ImplementsCapBudget`, `CapsNeverLoosen`: expiry, late settles, queued and lost writes
  change neither the final spend nor the protection of the cap.
* `CheckedObjectsAgree`: who runs under which caps.
* `NoDeliveryLost`, `RerunOnlyAfterFault`, `DeletedTriggerStaysQuiet`,
  `EveryDeliveryLeavesTheQueue`: what "at least once" means for local triggers.
* `EachMessageOnce`, `InputInOrder`, `EveryInputHandled`, `EverySubmitterAnswered`: what
  a session owes to its user and to the automations.
* `SchedulerAlive`, `OccurrenceRunsOnce`, `ChangesSurvive`, `RevokedStaysQuiet`,
  `DueJobRuns`: what the cron service owes to the owner of a job. `ChangesSurvive` excepts
  what was in memory alone at a crash, or at a save that raised: `_merge_action` empties
  the action log before it saves, so that exception is real.
* `SegmentIsOneAttempt`, `SettledThenReleased`, `NoticeSettled`, `StandardCallEnds`: what
  a model call shows, pays and finishes. `SettledThenReleased` excepts the loop of a GPU
  primary that a cancellation leaves running: it goes on without a reservation, but it too
  has settled every attempt when it ends, and no other loop outlives its call.
* `HistoryWellFormed`, `LastCallVisible`, `FollowupsKept`, `ResumeNeedsClick`,
  `GoalContinuationResolved`: what survives of an interrupted turn. `HistoryWellFormed` is
  about the transcript as it is kept, before `prepare_for_model` repairs it for a request
  (it drops results without a call and fills in missing ones). It allows a question to the
  user to stay without a result, and it claims nothing once a late Dismiss has restored the
  checkpoint of a running turn: both are what the code does.
* `StreamsInOrder`, `OneLiveObject`, `EveryMessageSettled`: outbound messages. The second
  holds as long as no change of the channel begins before another has ended; the others
  hold whatever overlaps.

Every module but `BudgetCaps` has a type invariant too; it includes the bounds of the data (no negative
amount, no attempt counter past its limit, nobody twice in a lock).

### Fairness

* `LocalTriggers`: weak fairness of the gateway's steps taken together. A gateway that
  stopped is started again (a service manager does that; the stops are bounded), its loop
  goes on, and the turn it awaits ends. Crashes, shutdowns, store errors and commands are
  never required.
* `SessionDispatch`: weak fairness of each worker's own steps, the start of a turn
  included (asyncio runs every ready task, its locks and semaphores are FIFO), and of the
  command in progress; strong fairness only of `FinishTurn`, since a turn is bounded by
  `max_iterations` and by its timeouts although it may be interrupted by injections. No
  arrival of a message or command is required.
* `CronService`: weak fairness of the scheduler's steps, of the manual runs and calls in
  progress, and of time. A job ends by `job_timeout_s` at the latest, a stopped gateway is
  started again. No call, error or crash is required.
* `ModelCall`: weak fairness of each call's own steps: streams have an idle timeout and
  delays end. Text, cancellation and the cooldown are never required.
* `TurnRecovery`: weak fairness of the worker and the router taken together, and of the
  restart. Clicks, messages and faults are never required.
* `OutboundDelivery`: weak fairness of the dispatcher, of the tasks taken together (their
  attempts are bounded, so some task always ends) and of a change in progress.

## 5. Proofs

TLAPS proves the theorems below for every value of the constants. The assumptions are the
named `ASSUME`s of the modules: the constants have their types, and the values that stand
for "nobody" or "no job" (`NoOwner`, `NoJob`) are not triggers or jobs. The inductive
invariants were checked by TLC, on the instances of the runs, before they were proved.
In each module the proof that the invariant is inductive has one lemma per action.

### The in-memory budget (`CapBudgetProofs`)

`CapBudgetTypeOK`, `CapBudgetReservedMatchesHeld`, `CapBudgetCapHolds` and
`CapBudgetOnlyPricedReleaseFrees` state `TypeOK`, `ReservedMatchesHeld`, `CapHolds` and
`OnlyPricedReleaseFreesExposure`.

None of the invariants is inductive on its own. A release takes what its reservation holds out of
the totals, and clamps: that only frees the right amount if the totals cover every
reservation, which is `ReservedMatchesHeld` (lemma `ReservedCoversEach`). For that in turn
a reservation that was not admitted must hold nothing (`UnadmittedHoldNothing`), or an
admission would overwrite something that is counted. So

    IInv == TypeOK /\ UnadmittedHoldNothing /\ ReservedMatchesHeld /\ CapHolds

is the inductive invariant; `AdmitIInv`, `SettleIInv` and `ReleaseIInv` preserve it.
`ConsumeEffect` says what `_consume` does to the totals when the
clamp does not bind, `HeldUpdate` and `MatchPreserved` how one reservation changes a sum,
and `CapPreserved` that a settle raises exposure by no more than it raises `overrun`.
The action property follows from the same invariant: `AdmitFreesNothing` and
`SettleFreesNothing` show that exposure does not fall, because what a settle takes out of
the reserved totals is no more than it adds to the spend, and `ReleaseFrees` says what a
release hands back.

`BudgetLemmas` holds the facts on sums, with the induction over `1..n` they need: the
existence of the recursive function, its value at each argument, and sums of updates.

### The shared budget (`SharedCapBudgetProofs`, `BudgetCapsProofs`)

`SharedTypeOK` states `TypeOK`, `SharedImplementsCapBudget` the refinement
`ImplementsCapBudget`, `SharedCapHolds` `CapHolds`; `CapsAgreed` states
`CheckedObjectsAgree` of `BudgetCaps`.

The refinement is an argument about one database `d`. `Views`, `Spent`, `Reserved` and the
token totals are what a caller sees of it: an expired row is still open, holds what its
expiry charged, and that charge is not spent yet. `ExpireOK` shows that expiring rows
changes none of these, and `SettleEffect`, `ReleaseEffect` and `AdmitEffect` that a
transaction changes them as `CapBudget` does, whether the row was open or expired. Then
every step is an action of `CapBudget` or leaves the mapped variables alone (`Implements`).
The invariant this needs (`IInv`) says that only an open row reserves, that only an expired
one has a charge, that the charges are part of the spend, and that everything in a queue
is about an admitted call. `CapHolds` is then proved over the mapped steps, with the same
reason as in `CapBudgetProofs`.

`SharedCapsNeverLoosen` states `CapsNeverLoosen`: spent plus reserved covers what was
billed, also when the settle of an attempt is still queued or is lost with its process.
The spend is one number per scope, so the proof splits it: `Ledger` says that there is an
amount `paid` for every call, together no more than the spend, such that each call has paid
for its bill or can (`Covered`). A released row has paid; an open one holds the rest; and
if its holder still has operations for it in its queue, the bill may be covered only when
these are applied. `QueueCovers` follows the queue: `cover[i]` is what is paid for before
the i-th operation, it grows at a priced settle by at most what the settle books (an
unpriced one keeps the whole reservation for good), and a release is reached only when it
covers the bill. That is where the order of `_replay` matters: a
release in front of its settle would free the row with the bill unpaid. A crash drops the
queue, and the row then stays open or expires, which charges all of it.

### Local triggers (`LocalTriggersProofs`)

`TriggerTypes`, `DeliveriesKept`, `RerunsPaidFor` and `QuietAfterDelete` state `TypeOK`,
`NoDeliveryLost`, `RerunOnlyAfterFault` and `DeletedTriggerStaysQuiet`.

The properties speak of files and counts; they hold because files, counts and the batch in
the memory of the gateway agree. The invariant says so for each position of the gateway:
what is in `processing` is in the batch (or the gateway has not recovered yet), the first
delivery of the batch may have lost its file only where its outcome is recorded or its
copy is written, and the attempt counter of a delivery bounds the turns it
has started. Every
turn is paid for by an attempt and every attempt by a fault, which bounds the turns.

### Model calls (`ModelCallProofs`)

`CallTypes`, `SegmentsNeverMix`, `ReleasedOnceSettled` and `NoticesSettled` state `TypeOK`,
`SegmentIsOneAttempt`, `SettledThenReleased` (with its exception) and `NoticeSettled`, for
any number of concurrent calls. Every step changes one call (`BecomeOK`), so the
invariant is about one call record. A layer that starts over behind text it does not know of would mix two
attempts: `Streams` says that every layer whose callback is in place knows of the text in
the current segment, and that a layer about to start over has none. `Notices` lists where
"waiting" can still be the last notice.

### Cron (`CronServiceProofs`)

`CronTypes`, `SchedulerStaysAlive` and `AcknowledgedChangesSurvive` state `TypeOK`,
`SchedulerAlive` and `ChangesSurvive`; `OccurrencesRunOnce` and `RevokedJobsStayQuiet` the
action properties `OccurrenceRunsOnce` and `RevokedStaysQuiet`.

All but the first two depend on where the memory of the gateway, `jobs.json` and
`action.jsonl` may differ:

* `Synced`: memory and `jobs.json` are equal unless the store is dirty, a merge is not yet
  saved or a tick has run a job. `_load_store` reloads only then, so a reload brings
  nothing back.
* `Known`: whatever knows of a job, the job was added; and a line of the log that adds a
  job is about one the running gateway never had. So a merge revives no removed, revoked or
  fired job, and merging the same lines twice (a crash before the log was emptied) changes
  nothing.
* `Off` and `NextIsNew`: a revoked job is off in memory and on disk; the next time of an
  enabled job is one that has not fired, unless the timer is running it.
* `Phases` and `UnderWay`: which tasks can be under way together, and that a job under way
  has fired.

`ReloadStep`, `StoreStep` and `NextStep` carry these through every action that reloads or
changes the store. The action properties follow from `NextIsNew` and `Off` at the only step
that starts a job from the timer (`OnlyDueRuns`): it looks the job up again.

### Turn recovery (`TurnRecoveryProofs`)

`RecoveryTypes`, `OneContinuationForAClick`, `JournaledFollowupsKept` and
`ExecutedCallVisible` state `TypeOK`, `ResumeNeedsClick`, `FollowupsKept` and
`LastCallVisible`, and `LegalToolHistory` states `HistoryWellFormed`, for any number of
messages, tool calls, questions, faults, stops and late clicks of either kind.

Everything recovery does to the history is to append rows to it that are not a user's.
`Grows` says so, together with what else the restoring functions and `_set_state` keep; it
is reflexive and transitive, so a step of recovery is one `Grows`, however many of these it
calls. On top of it there is one invariant for each property:

* `Basis` (for `ResumeNeedsClick`): the types, what is empty when the gateway or the worker
  is gone, and `OneToken`: of the bus, the inbox and a worker that is about to start, at
  most one has a continuation, once, and then a click has not been used up yet. A recovery
  that awaits its user has none.
* `Places` (for `FollowupsKept`): a message is in at most one of the bus, the inbox, the
  hand of the worker, the rows of the turn and the history, and in each once. The journal
  has none that is in the history, and what it has no more is there. A restart
  requeues the journal when bus and inbox are empty, so that it doubles nothing.
* `Visible` (for `LastCallVisible`): the last executed call is in the history or in the
  checkpoint, and during the turn in the history or the rows. A checkpoint is overwritten
  only by the turn that has the call in its rows.
* `History` (for `HistoryWellFormed`): the stored history is closed (each call directly
  before its one result, or a question without any: `Closed(s, A)` for the questions `A`)
  and has no call twice, the call of the checkpoint is not in it yet, the rows of the turn
  can be appended to it (their calls are new, once, and closed but for the last), and no
  recovery is open in the turn of a user's message, nor offered in any: a recovery that
  restores the checkpoint of the running turn would make its calls old ones, and
  `_save_turn` would drop their results. A late dismissal can do exactly this, and `torn`
  then says so: the invariant is `torn \/ History`. A dismissal of a turn without a tool
  call in its checkpoint keeps `History` (`DismissHistory`).

`_save_turn` and the acknowledgement of follow-ups are loops over sequences. The model has
them as recursive functions, and what they compute for sequences of any length is proved by
induction over the set of the positions for which it holds (`SetInduction`, from the
well-founded order of the naturals).

### Only model-checked

* Liveness: `EveryDeliveryLeavesTheQueue`, `EveryInputHandled`, `EverySubmitterAnswered`,
  `DueJobRuns`, `StandardCallEnds`, `GoalContinuationResolved`, `EveryMessageSettled`. The
  prover has no rules for fairness.
* The safety of `SessionDispatch` (`EachMessageOnce`, `InputInOrder`) and of
  `OutboundDelivery` (`StreamsInOrder`, `OneLiveObject`): the models filter and fold their
  queues with `SelectSeq` and `FoldFunction`, which are recursive operators of the library.
  They would have to be restated as recursive functions first, as was done in
  `TurnRecovery`.

## 6. Where the code does not do what it says

Two runs end in a counterexample:

1. `session_stop`: an automation turn submitted while `/stop` awaits subagents and exec
   sessions is thrown away by `cmd_stop`, and its submitter is never answered.
2. `turn_continue`: Continue queues the interrupted turn as an internal continuation, and
   `_dispatch_one` drops internal continuations of sessions without an active sustained
   goal. Such a session stays "resuming" until the next message or restart.
   `GoalContinuationResolved` is the part that holds.

Other statements that TLC refutes on the same models, without a run of their own:

* FR-049 (`specs/005-multi-instance/spec.md`) wants differing caps to raise; two
  constructors that find the database locked both succeed, and the one that admits second
  runs under the other one's caps.
* `docs/automations.md` calls the trigger queue at-least-once; each interruption uses up
  an attempt, also before a turn was started, and the last one moves the delivery to
  `failed`.
* `_run_session_queue` is "the sole worker for a session"; `/new` as a turn gives up its
  own inbox while it goes on, so a second worker can start. The session lock still
  serialises their turns.
* "Half-open: allow one probe attempt" (`providers/fallback_provider.py`): with two
  `Calls`, both are let through.
* "the next prompt can see completed tool results" after `/stop` (`agent/loop.py`): the
  checkpoint has the last iteration only; `LastCallVisible` is what holds.
* "Materialize the durable checkpoint exactly once" (`session/recovery.py`): Dismiss,
  unlike Continue, has no check of the status. One that arrives when its recovery is
  resolved or being continued materialises the checkpoint of the turn that is running,
  whose rows bring the same call a second time; without `~torn`, `HistoryWellFormed` fails.
* "One poller per bot token" (`channels/token_lock.py`): overlapping enable and disable
  requests are not serialised; without `~overlapped`, `OneLiveObject` fails.
* "`release(reservation)` is called once when the logical call ends" (`kernel/budget.py`):
  a call that is cancelled while the first output of its GPU primary is awaited (the
  `asyncio.wait` of `_call_provider`) is released while that primary's loop runs on and may
  send more attempts; without `~stray`, `SettledThenReleased` fails.

## 7. What is left out

* In the modelled parts: floating point, trace events, the text of messages and errors,
  trigger names, unparsable delivery files (moved aside by the code), an `enqueue` that
  dies between its file and its record (the delivery stays and is delivered), a `flush`
  loop's waiting (it is any number of replays).
* Of the session loop: `aclose`, the loop's own continuations of sustained goals,
  `process_direct`, background shell commands, subagent results.
* Of cron: cron expressions and time zones, corrupt stores, agent-binding migrations, run
  records. Of model calls: delays and `Retry-After`, provider state, the adapters. Of the
  runner: answers that are errors or empty, recovery from length limits, the limits on
  iterations, denials and tool errors, the repairs of `prepare_for_model`. Of recovery:
  malformed checkpoints, provider state, the "failed" status of a scan that raises, sessions of other channels (they have no recovery). Of outbound delivery:
  `stop_all`, the watchdog of the dispatcher, a token lock that cannot be opened.
* The parts marked `not_modelled` in `PROJECT.json`.

The repository has 164,000 lines, most of them adapters of chat services and providers,
web UI handlers, tools and scripts: code that formats, parses and does I/O, where a state
machine would only repeat the code. The models cover the parts that coordinate tasks,
processes and restarts, which is a small share of the lines.

## 8. Plan

1. *done*: budgets (in memory, shared, caps), local triggers, session dispatch, cron,
   model calls, turn recovery, outbound delivery; proofs of the safety of all of these but
   session dispatch and outbound delivery.
2. Proofs: `InputInOrder` of `SessionDispatch` and `OneLiveObject` of `OutboundDelivery`,
   after their folds are restated as recursive functions.
3. Candidates for further modules: exec sessions and subagents (cancellation by session),
   the instance lock and registry, deferred answers and approval gates, compaction cursors.
