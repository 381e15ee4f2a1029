------------------------------ MODULE CronService ------------------------------
(***************************************************************************)
(* nanobot/cron/service.py: the scheduler of the gateway, the store it     *)
(* shares with other processes (jobs.json and action.jsonl), and the       *)
(* session turns its jobs submit.                                          *)
(*                                                                         *)
(* The methods of the service that do not await are atomic for the other   *)
(* tasks of the gateway, but not for a crash: a call that reloads the      *)
(* store is in `call` until it is done, with one step for every write.     *)
(* The tasks that await a job inside the service are the timer task and    *)
(* the manual runs.  Another process only appends to action.jsonl.         *)
(***************************************************************************)
EXTENDS Naturals, Sequences, FiniteSets, SequencesExt

CONSTANTS Jobs,            \* ids of jobs
          OneShot,         \* jobs with an "at" schedule; the others are "every"
          DeleteAfterRun,  \* one-shot jobs removed when they have run
          Period,          \* every_ms
          MaxSleep,        \* max_sleep_ms
          MaxTime,         \* the last instant; it stands for all later ones
          MaxFaults,       \* bound on crashes
          MaxSaveErrors,   \* bound on saves that raise
          MaxCalls,        \* bound on calls of the service and other processes
          MaxManual        \* bound on manual runs that are under way

NoJob == "no job"

ASSUME CronAssumption ==
    /\ NoJob \notin Jobs
    /\ OneShot \subseteq Jobs /\ DeleteAfterRun \subseteq OneShot
    /\ {Period, MaxSleep, MaxTime} \subseteq Nat \ {0}
    /\ {MaxFaults, MaxSaveErrors, MaxCalls, MaxManual} \subseteq Nat

None == 0                  \* next_run_at_ms = None, and no time at all

(***************************************************************************)
(* A CronJob: whether the store has it, `enabled`, the time of its         *)
(* one-shot schedule and state.next_run_at_ms.                             *)
(***************************************************************************)
Job == [known: BOOLEAN, enabled: BOOLEAN, at: 0..MaxTime, next: 0..MaxTime + Period]
Missing == [known |-> FALSE, enabled |-> FALSE, at |-> 0, next |-> None]
Store == [Jobs -> Job]

VARIABLES
    now,
    disk,        \* jobs.json
    log,         \* action.jsonl: additions and deletions of other processes
    mem,         \* _store of the gateway
    up,          \* "down", "registering" (before start), "running"
    dirty,       \* _store_dirty
    timer,       \* _timer_task: idle, asleep until `wake`, or inside _on_timer
    manual,      \* the jobs that run_job is executing, one entry per task
    call,        \* the synchronous call in progress
    turn,        \* session turns of jobs: submitted, not yet finished
    fired,       \* history: occurrences <<job, time>> the timer has started, and
                 \* <<job, None>> for a manual run
    accepted,    \* history: jobs whose addition was acknowledged
    withdrawn,   \* history: jobs whose removal was acknowledged
    revoked,     \* history: jobs that were disabled or removed in the gateway
    open,        \* history: jobs whose presence a fault left open: the change
                 \* was only in memory at a crash, or its save raised
    faults, saveErrors, calls

store == <<disk, log, mem, dirty>>
history == <<fired, accepted, withdrawn, revoked, open>>
vars == <<now, store, up, timer, manual, call, turn, history, faults, saveErrors, calls>>

Idle == [op |-> "none", job |-> NoJob, merged |-> FALSE]
NoTimer == [pc |-> "none", wake |-> 0, due |-> {}, job |-> NoJob, ran |-> FALSE]
Asleep(w) == [NoTimer EXCEPT !.pc = "asleep", !.wake = w]

Edits == {"add", "remove", "enable", "disable", "reschedule"}

Action == [op: {"add", "del"}, job: Jobs, rec: Job]
Timer == [pc: {"none", "asleep", "tick"}, wake: Nat, due: SUBSET Jobs,
          job: Jobs \cup {NoJob}, ran: BOOLEAN]
Call == [op: Edits \cup {"none", "start", "tick", "run", "saved", "read"},
         job: Jobs \cup {NoJob}, merged: BOOLEAN]

Init ==
    /\ now = 1
    /\ disk = [j \in Jobs |-> Missing] /\ log = <<>>
    /\ mem = [j \in Jobs |-> Missing] /\ dirty = FALSE
    /\ up = "down" /\ timer = NoTimer /\ call = Idle
    /\ manual = <<>>
    /\ turn = [j \in Jobs |-> 0]
    /\ fired = {} /\ accepted = {} /\ withdrawn = {} /\ revoked = {} /\ open = {}
    /\ faults = 0 /\ saveErrors = 0 /\ calls = 0

(***************************************************************************)
(* Schedules.                                                              *)
(***************************************************************************)
\* A mutant of ComputeNextRun: the interval is added twice
ComputeNextRunTwice(j, at, t) ==
    IF j \in OneShot THEN IF at > t THEN at ELSE None ELSE t + 2 * Period

\* _compute_next_run
ComputeNextRun(j, at, t) ==
    IF j \in OneShot THEN IF at > t THEN at ELSE None ELSE t + Period

\* _recompute_next_runs
RecomputeNextRuns(s, t) ==
    [j \in Jobs |-> IF s[j].known /\ s[j].enabled
                    THEN [s[j] EXCEPT !.next = ComputeNextRun(j, s[j].at, t)]
                    ELSE s[j]]

Due(s, j, t) == s[j].known /\ s[j].enabled /\ s[j].next # None /\ t >= s[j].next

\* _get_next_wake_ms and the delay of _arm_timer
WakeAt(s, t) ==
    LET times == {s[j].next : j \in {i \in Jobs : s[i].enabled /\ s[i].next # None}}
        wake  == Min({t + MaxSleep} \cup {IF n < t THEN t ELSE n : n \in times})
    IN  IF wake > MaxTime THEN MaxTime ELSE wake

(***************************************************************************)
(* _merge_action: the lines of action.jsonl applied to a store in their    *)
(* order, so that the last line about a job decides.                       *)
(***************************************************************************)
Lines(actions, j) == {i \in 1..Len(actions) : actions[i].job = j}
Decided(a) == IF a.op = "del" THEN Missing ELSE a.rec
Merge(s, actions) ==
    [j \in Jobs |-> IF Lines(actions, j) = {} THEN s[j]
                    ELSE Decided(actions[Max(Lines(actions, j))])]

Active == Len(manual) + (IF timer.pc = "tick" THEN 1 ELSE 0)

\* A mutant of Reloads: _load_store without its _store_dirty check
ReloadsDirty == Active = 0

\* _load_store: state that was not saved, and the store of a job that is
\* executing, are never replaced by what is on disk
Reloads == ~dirty /\ Active = 0

\* _arm_timer with the store s; t is the timer to replace
Armed(s, t, busy) == IF busy THEN t ELSE Asleep(WakeAt(s, now))

(***************************************************************************)
(* _save_store: the write replaces jobs.json and clears the flag, or       *)
(* raises before or after os.replace and leaves the store dirty.           *)
(***************************************************************************)
SaveOK(s) == disk' = s /\ dirty' = FALSE /\ UNCHANGED saveErrors
SaveRaises(s) ==
    /\ saveErrors < MaxSaveErrors
    /\ saveErrors' = saveErrors + 1
    /\ disk' \in {disk, s}
    /\ dirty' = TRUE

\* Another task of the event loop may run: no call is in progress, and a tick
\* is awaiting its job
LoopFree == call = Idle /\ (timer.pc = "tick" => timer.job # NoJob)

(***************************************************************************)
(* A call of the service starts with _load_store.  When it reloads and     *)
(* the log has lines, the log is emptied first and the store saved in the  *)
(* next step, all under the lock of action.jsonl.                          *)
(***************************************************************************)
Enter(op, j) ==
    /\ LoopFree
    /\ LET merges == Reloads /\ log # <<>> IN
       /\ mem' = IF Reloads THEN Merge(disk, log) ELSE mem
       /\ log' = IF merges THEN <<>> ELSE log
       /\ call' = [op |-> op, job |-> j, merged |-> merges]
    /\ UNCHANGED <<disk, dirty>>

\* the _save_store of _merge_action
MergeSaved ==
    /\ call.merged
    /\ SaveOK(mem)
    /\ call' = [call EXCEPT !.merged = FALSE]
    /\ UNCHANGED <<now, log, mem, up, timer, manual, turn, history, faults, calls>>

\* it raises: the call fails; a tick and a manual run go on to their finally
\* blocks.  A start that raises ends the gateway, which is a Crash.
MergeRaises ==
    /\ call.merged /\ call.op # "start"
    /\ SaveRaises(mem)
    /\ call' = Idle
    /\ timer' = IF call.op \in {"tick", "run"} THEN Asleep(WakeAt(mem, now)) ELSE timer
    /\ UNCHANGED <<now, log, mem, up, manual, turn, history, faults, calls>>

--------------------------------------------------------------------------------
(***************************************************************************)
(* The gateway starts: register_system_job and remove_system_job run       *)
(* before start(), so they save a merged store and leave the log alone.    *)
(***************************************************************************)
Register ==
    /\ up = "down"
    /\ LET s == Merge(disk, log) IN
       /\ up' = "registering"
       /\ mem' = s
       /\ SaveOK(s)
    /\ UNCHANGED <<now, log, timer, manual, call, turn, history, faults, calls>>

StartLoad ==
    /\ up = "registering"
    /\ Enter("start", NoJob)
    /\ UNCHANGED <<now, up, timer, manual, turn, history, faults, saveErrors, calls>>

\* start: recompute, save, arm
Start ==
    /\ call.op = "start" /\ ~call.merged
    /\ LET s == RecomputeNextRuns(mem, now) IN
       /\ mem' = s
       /\ SaveOK(s)
       /\ timer' = Asleep(WakeAt(s, now))
    /\ up' = "running" /\ call' = Idle
    /\ UNCHANGED <<now, log, manual, turn, history, faults, calls>>

--------------------------------------------------------------------------------
(***************************************************************************)
(* The timer task: tick and _on_timer.                                     *)
(***************************************************************************)
Wakes == up = "running" /\ timer.pc = "asleep" /\ now >= timer.wake /\ call = Idle

\* the store of an earlier tick is still dirty: save it and do nothing else
TickSaves ==
    /\ Wakes /\ dirty
    /\ SaveOK(mem) \/ SaveRaises(mem)
    /\ timer' = Armed(mem, NoTimer, manual # <<>>)
    /\ UNCHANGED <<now, log, mem, up, manual, call, turn, history, faults, calls>>

TickLoad ==
    /\ Wakes /\ ~dirty
    /\ Enter("tick", NoJob)
    /\ UNCHANGED <<now, up, timer, manual, turn, history, faults, saveErrors, calls>>

TickDue ==
    /\ call.op = "tick" /\ ~call.merged
    /\ timer' = [NoTimer EXCEPT !.pc = "tick", !.due = {j \in Jobs : Due(mem, j, now)}]
    /\ call' = Idle
    /\ UNCHANGED <<now, store, up, manual, turn, history, faults, saveErrors, calls>>

InTick == timer.pc = "tick" /\ timer.job = NoJob

\* A mutant of StillDue: the list computed at the start of the tick is used
StillDueAsListed(j) == TRUE

\* The next due job, looked up again since others may have been edited
StillDue(j) == Due(mem, j, now)

TickRunsJob(j) ==
    /\ InTick /\ j \in timer.due
    /\ IF StillDue(j)
       THEN /\ timer' = [timer EXCEPT !.due = @ \ {j}, !.job = j, !.ran = TRUE]
            /\ fired' = fired \cup {<<j, mem[j].next>>}
            /\ turn' = [turn EXCEPT ![j] = @ + 1]
       ELSE timer' = [timer EXCEPT !.due = @ \ {j}] /\ UNCHANGED <<fired, turn>>
    /\ UNCHANGED <<now, store, up, manual, call, accepted, withdrawn, revoked, open,
                   faults, saveErrors, calls>>

\* all jobs done: save if one ran, and re-arm whatever happened
TickEnds ==
    /\ InTick /\ timer.due = {}
    /\ IF timer.ran THEN SaveOK(mem) \/ SaveRaises(mem)
       ELSE UNCHANGED <<disk, dirty, saveErrors>>
    /\ timer' = Armed(mem, NoTimer, manual # <<>>)
    /\ UNCHANGED <<now, log, mem, up, manual, call, turn, history, faults, calls>>

\* A mutant of Executed: a recurring job keeps the occurrence it has run
ExecutedInPlace(s, j) == IF j \in OneShot THEN [s EXCEPT ![j].next = None] ELSE s

(***************************************************************************)
(* _execute_job after the await: the job object is updated if the store    *)
(* still has it.                                                           *)
(***************************************************************************)
Executed(s, j) ==
    IF ~s[j].known THEN s
    ELSE [s EXCEPT ![j] =
            IF j \in DeleteAfterRun THEN Missing
            ELSE IF j \in OneShot THEN [@ EXCEPT !.enabled = FALSE, !.next = None]
            ELSE [@ EXCEPT !.next = ComputeNextRun(j, s[j].at, now)]]

\* The await of a job ends with its turn, or by the job timeout: then the
\* submitter is cancelled and the turn stays in its session
JobAnswered(j, turns) ==
    \/ turns[j] > 0 /\ turn' = [turns EXCEPT ![j] = @ - 1]
    \/ turn' = turns

TickJobEnds ==
    /\ timer.pc = "tick" /\ timer.job # NoJob /\ call = Idle
    /\ mem' = Executed(mem, timer.job)
    /\ JobAnswered(timer.job, turn)
    /\ timer' = [timer EXCEPT !.job = NoJob]
    /\ UNCHANGED <<now, disk, log, dirty, up, manual, call, history, faults,
                   saveErrors, calls>>

\* A turn whose submitter has gone ends in its session
TurnEnds(j) ==
    /\ turn[j] > Cardinality({m \in 1..Len(manual) : manual[m] = j})
                 + (IF timer.job = j THEN 1 ELSE 0)
    /\ turn' = [turn EXCEPT ![j] = @ - 1]
    /\ UNCHANGED <<now, store, up, timer, manual, call, history, faults, saveErrors,
                   calls>>

--------------------------------------------------------------------------------
(***************************************************************************)
(* run_job, started by the web UI in a task of its own.                    *)
(***************************************************************************)
ManualLoad(j) ==
    /\ up = "running" /\ Len(manual) < MaxManual /\ calls < MaxCalls
    /\ ~dirty /\ Enter("run", j)
    /\ calls' = calls + 1
    /\ UNCHANGED <<now, up, timer, manual, turn, history, faults, saveErrors>>

\* a dirty store is saved first; if that raises, the run is refused
ManualSaves(j) ==
    /\ up = "running" /\ LoopFree /\ dirty /\ calls < MaxCalls
    /\ Len(manual) < MaxManual
    /\ calls' = calls + 1
    /\ \/ SaveOK(mem) /\ call' = [op |-> "saved", job |-> j, merged |-> FALSE]
          /\ UNCHANGED timer
       \/ SaveRaises(mem) /\ timer' = Armed(mem, timer, Active # 0) /\ UNCHANGED call
    /\ UNCHANGED <<now, log, mem, up, manual, turn, history, faults>>

ManualReloads ==
    /\ call.op = "saved"
    /\ LET merges == Reloads /\ log # <<>> IN
       /\ mem' = IF Reloads THEN Merge(disk, log) ELSE mem
       /\ log' = IF merges THEN <<>> ELSE log
       /\ call' = [call EXCEPT !.op = "run", !.merged = merges]
    /\ UNCHANGED <<now, disk, dirty, up, timer, manual, turn, history, faults,
                   saveErrors, calls>>

ManualStarts ==
    /\ call.op = "run" /\ ~call.merged
    /\ call' = Idle
    /\ IF mem[call.job].known /\ mem[call.job].enabled
       THEN /\ manual' = Append(manual, call.job)
            /\ turn' = [turn EXCEPT ![call.job] = @ + 1]
            /\ fired' = fired \cup {<<call.job, None>>}
            /\ UNCHANGED timer
       ELSE /\ timer' = Armed(mem, timer, Active # 0)
            /\ UNCHANGED <<manual, turn, fired>>
    /\ UNCHANGED <<now, store, up, accepted, withdrawn, revoked, open, faults,
                   saveErrors, calls>>

\* A mutant of RearmAfterRun: a manual run leaves the timer to the tick
RearmAfterRunNever(s, others) == timer

\* the finally block of run_job: the last execution re-arms the timer
RearmAfterRun(s, others) == Armed(s, timer, timer.pc = "tick" \/ others # <<>>)

ManualEnds(m) ==
    /\ LoopFree /\ m \in 1..Len(manual)
    /\ LET s == Executed(mem, manual[m]) IN
       /\ mem' = s
       /\ SaveOK(s) \/ SaveRaises(s)
       /\ JobAnswered(manual[m], turn)
       /\ manual' = RemoveAt(manual, m)
       /\ timer' = RearmAfterRun(s, manual')
    /\ UNCHANGED <<now, log, up, call, history, faults, calls>>

--------------------------------------------------------------------------------
(***************************************************************************)
(* Edits in the gateway (the cron tool, the web UI) and reads              *)
(* (list_jobs, get_job, status), which also reload and merge.              *)
(***************************************************************************)
\* ids are random: none is used twice
Fresh(j) == j \notin accepted \cup open /\ ~mem[j].known

Calls(op, j) ==
    /\ up = "running" /\ calls < MaxCalls
    /\ op = "add" => Fresh(j)
    /\ op = "reschedule" => j \in OneShot
    /\ Enter(op, j)
    /\ calls' = calls + 1
    /\ UNCHANGED <<now, up, timer, manual, turn, history, faults, saveErrors>>

\* the CronJob of add_job, with the time t of a one-shot schedule
NewJob(j, t) == [known |-> TRUE, enabled |-> TRUE, at |-> IF j \in OneShot THEN t ELSE 0,
                 next |-> ComputeNextRun(j, t, now)]

\* add_job, remove_job, enable_job and update_job: the job c with the id j after it
Edited(c, op, j, t) ==
    CASE op = "add" -> NewJob(j, t)
      [] op = "remove" -> Missing
      [] op = "enable" -> [c EXCEPT !.enabled = TRUE, !.next = ComputeNextRun(j, c.at, now)]
      [] op = "disable" -> [c EXCEPT !.enabled = FALSE, !.next = None]
      [] op = "reschedule" ->
           [c EXCEPT !.at = t,
                     !.next = IF ~c.enabled THEN None
                              ELSE IF t = c.at THEN @
                              ELSE ComputeNextRun(j, t, now)]

\* what an edit promises when it returns, and leaves open when it raises
Promised(op, j, returned) ==
    /\ accepted' = IF returned /\ op = "add" THEN accepted \cup {j} ELSE accepted
    /\ withdrawn' = IF returned /\ op = "remove" THEN withdrawn \cup {j} ELSE withdrawn
    /\ revoked' = IF op = "enable" THEN revoked \ {j}
                  ELSE IF returned /\ op \in {"remove", "disable"} THEN revoked \cup {j}
                  ELSE revoked
    /\ open' = IF ~returned /\ op \in {"add", "remove"} THEN open \cup {j} ELSE open
    /\ UNCHANGED fired

Edit(t) ==
    /\ call.op \in Edits /\ ~call.merged
    /\ call.op = "add" \/ mem[call.job].known
    /\ LET s == [mem EXCEPT ![call.job] = Edited(@, call.op, call.job, t)] IN
       /\ mem' = s
       /\ \/ /\ SaveOK(s)
             /\ timer' = Armed(s, timer, Active # 0)
             /\ Promised(call.op, call.job, TRUE)
          \/ /\ SaveRaises(s) /\ UNCHANGED timer
             /\ Promised(call.op, call.job, FALSE)
    /\ call' = Idle
    /\ UNCHANGED <<now, log, up, manual, turn, faults, calls>>

\* a read, or an edit of a job the store does not have
Returns ==
    /\ ~call.merged
    /\ \/ call.op = "read"
       \/ call.op \in Edits \ {"add"} /\ ~mem[call.job].known
    /\ call' = Idle
    /\ UNCHANGED <<now, store, up, timer, manual, turn, history, faults, saveErrors,
                   calls>>

--------------------------------------------------------------------------------
(***************************************************************************)
(* Another process (a command-line agent) edits through action.jsonl; its  *)
(* lock keeps it out while the gateway merges.                             *)
(***************************************************************************)
AppendAction(op, j, rec) ==
    /\ ~call.merged /\ calls < MaxCalls
    /\ calls' = calls + 1
    /\ log' = Append(log, [op |-> op, job |-> j, rec |-> rec])
    /\ UNCHANGED <<now, disk, mem, dirty, up, timer, manual, call, turn, fired, revoked,
                   open, faults, saveErrors>>

ExternalAdd(j, t) ==
    /\ Fresh(j) /\ ~(call.op = "add" /\ call.job = j)
    /\ accepted' = accepted \cup {j} /\ UNCHANGED withdrawn
    /\ AppendAction("add", j, NewJob(j, t))

ExternalRemove(j) ==
    /\ Merge(disk, log)[j].known
    /\ withdrawn' = withdrawn \cup {j} /\ UNCHANGED accepted
    /\ AppendAction("del", j, Missing)

--------------------------------------------------------------------------------
Tick ==
    /\ now < MaxTime
    /\ now' = now + 1
    /\ UNCHANGED <<store, up, timer, manual, call, turn, history, faults, saveErrors,
                   calls>>

\* The gateway dies or is stopped (stop() cancels the timer task and saves
\* nothing).  What was neither in jobs.json nor in action.jsonl is gone.
Crash ==
    /\ up # "down" /\ faults < MaxFaults
    /\ faults' = faults + 1
    /\ up' = "down" /\ timer' = NoTimer /\ call' = Idle /\ dirty' = FALSE
    /\ manual' = <<>>
    /\ turn' = [j \in Jobs |-> 0]
    /\ open' = open \cup {j \in Jobs : Merge(disk, log)[j].known # Merge(mem, log)[j].known}
    /\ mem' = [j \in Jobs |-> Missing]
    /\ UNCHANGED <<now, disk, log, fired, accepted, withdrawn, revoked, saveErrors, calls>>

Scheduler ==
    \/ Register \/ StartLoad \/ Start \/ MergeSaved \/ MergeRaises
    \/ TickSaves \/ TickLoad \/ TickDue \/ TickEnds \/ TickJobEnds
    \/ \E j \in Jobs : TickRunsJob(j)
Runs ==
    \/ \E m \in 1..MaxManual : ManualEnds(m)
    \/ ManualReloads \/ ManualStarts \/ Returns
    \/ \E t \in 1..MaxTime : Edit(t)

Next ==
    \/ Scheduler \/ Runs
    \/ \E j \in Jobs : \/ ManualLoad(j) \/ ManualSaves(j) \/ TurnEnds(j)
                       \/ ExternalRemove(j)
                       \/ \E op \in Edits : Calls(op, j)
                       \/ \E t \in 1..MaxTime : ExternalAdd(j, t)
    \/ Calls("read", NoJob)
    \/ Tick \/ Crash

Spec == Init /\ [][Next]_vars

(***************************************************************************)
(* asyncio goes on with every task that is ready, a job ends by its        *)
(* timeout at the latest, a stopped gateway is started again, and time     *)
(* passes.  No call, error or crash is required.                           *)
(***************************************************************************)
FairSpec == Spec /\ WF_vars(Scheduler) /\ WF_vars(Runs) /\ WF_vars(Tick)

--------------------------------------------------------------------------------
\* Every variable keeps its type: no computed time runs past the last instant and a
\* period, no count of turns goes below zero, and only a running service is dirty.
TypeOK ==
    /\ now \in 1..MaxTime
    /\ disk \in Store /\ mem \in Store
    /\ log \in Seq(Action)
    /\ up \in {"down", "registering", "running"} /\ dirty \in BOOLEAN
    /\ timer \in Timer /\ call \in Call
    /\ manual \in Seq(Jobs)
    /\ turn \in [Jobs -> Nat]
    /\ fired \subseteq Jobs \X (0..MaxTime)
    /\ {accepted, withdrawn, revoked, open} \subseteq SUBSET Jobs
    /\ faults \in 0..MaxFaults /\ saveErrors \in 0..MaxSaveErrors /\ calls \in 0..MaxCalls
    /\ dirty => up = "running"

\* The timer task of a running service is armed or inside a tick, or a manual
\* run is under way that will arm it: no order of ticks, manual runs, edits and
\* failed saves leaves a scheduler that never wakes again (_arm_timer does
\* nothing while a job executes, so whoever ends last has to do it).
SchedulerAlive ==
    up = "running" => timer.pc # "none" \/ manual # <<>>

\* The timer never runs the same occurrence of a job twice: not after a failed
\* save, a reload in the middle, an overlapping manual run or a restart from an
\* older jobs.json (_store_dirty, _active_executions, _recompute_next_runs).
OccurrenceRunsOnce ==
    [][\A j \in Jobs : timer.job # j /\ timer'.job = j => <<j, mem[j].next>> \notin fired]_vars

\* A job that was disabled or removed through the gateway is not started by the
\* timer afterwards, also when it was already in the list of a running tick,
\* or when the gateway has been restarted meanwhile.
RevokedStaysQuiet ==
    [][\A j \in Jobs : timer.job # j /\ timer'.job = j => j \notin revoked]_vars

\* The store as a reader of both files would find it, or as the gateway has it
View == Merge(IF up = "down" THEN disk ELSE mem, log)

\* A job whose addition returned is in the store until it is removed or has run
\* to its end, and a removed job does not come back, however saves, merges of
\* action.jsonl and jobs under way interleave; only a crash (or a save that
\* raised) with the change in memory alone leaves it open.
ChangesSurvive ==
    \A j \in Jobs \ open :
        /\ j \in withdrawn => ~View[j].known
        /\ j \in accepted \ withdrawn =>
               View[j].known \/ (j \in DeleteAfterRun /\ \E t \in 0..MaxTime : <<j, t>> \in fired)

\* A due job of a running service is run, or stops being due by an edit: a tick
\* that failed to save, or found the store dirty, comes back to it.
DueJobRuns ==
    \A j \in Jobs : (up = "running" /\ Due(mem, j, now)) ~> ~(up = "running" /\ Due(mem, j, now))

================================================================================
