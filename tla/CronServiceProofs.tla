--------------------------- MODULE CronServiceProofs ---------------------------
(***************************************************************************)
(* The safety of the scheduler, for any set of jobs, any period and        *)
(* horizon, and any number of calls, manual runs, failed saves and         *)
(* crashes: the timer stays armed, runs no occurrence twice and no revoked *)
(* job at all, and no acknowledged addition or removal is undone.          *)
(*                                                                         *)
(* All but the first depend on where the memory of the gateway, jobs.json  *)
(* and action.jsonl may differ.  The invariant says that memory and        *)
(* jobs.json agree unless the store is dirty, a merge is not saved yet or  *)
(* a tick has run a job (Synced), and that a line of action.jsonl that     *)
(* adds a job is about a job the running gateway has never had (Known).    *)
(***************************************************************************)
EXTENDS CronService, SequenceTheorems, FiniteSetTheorems, WellFoundedInduction, TLAPS

\* A line of action.jsonl that adds the job
Adds(j) == \E i \in 1..Len(log) : log[i].job = j /\ log[i].op = "add"

\* The job is in the store s and enabled.
On(s, j) == s[j].known /\ s[j].enabled

\* The job was started, by the timer or by run_job.
HasFired(j) == \E x \in fired : x[1] = j

\* Where the tasks of the gateway can be together.
Phases ==
    /\ up # "running" =>
          /\ timer.pc = "none" /\ timer.job = NoJob /\ ~timer.ran
          /\ manual = <<>> /\ call.op \in {"none", "start"}
    /\ up = "down" => call.op = "none"
    /\ up = "running" => call.op # "start"
    /\ call.op \in {"none", "saved"} => ~call.merged
    /\ call.op = "none" => call = Idle
    /\ call.op \in Edits \cup {"run", "saved"} => call.job \in Jobs
    /\ call.op = "tick" => timer.pc = "asleep"
    /\ call.merged => manual = <<>> /\ timer.pc # "tick"
    /\ timer.job # NoJob => timer.ran
    /\ timer.ran => timer.pc = "tick"
    /\ InTick => call.op = "none"

\* jobs.json is the store in memory, where nothing says otherwise.
Synced == up # "down" /\ ~dirty /\ ~call.merged /\ ~timer.ran => disk = mem

\* A job that anything knows of was added; the running gateway does not have a job
\* that a line still adds.
Known ==
    /\ \A j \in Jobs :
          \/ mem[j].known \/ disk[j].known \/ Lines(log, j) # {}
          \/ j \in revoked \cup withdrawn \/ HasFired(j)
          => j \in accepted \cup open
    /\ \A i \in 1..Len(log) : log[i].op = "add" => log[i].rec.known
    /\ \A j \in Jobs : Adds(j) =>
          /\ up = "running" \/ call.op = "start" => ~mem[j].known
          /\ ~HasFired(j) /\ j \notin revoked
    /\ call.op = "add" => call.job \notin accepted \cup open

\* A revoked job is off, in memory and on disk.
Off == \A j \in revoked : ~On(mem, j) /\ ~On(disk, j)

\* The next occurrence of a job is a new one, except while the timer runs it.
NextIsNew ==
    /\ \A x \in fired : x[2] <= now
    /\ up = "running" =>
          \A j \in Jobs : On(mem, j) /\ mem[j].next # None /\ timer.job # j =>
              <<j, mem[j].next>> \notin fired

\* A job under way has fired.
UnderWay ==
    /\ timer.job # NoJob => HasFired(timer.job)
    /\ \A m \in 1..Len(manual) : HasFired(manual[m])

\* The inductive invariant.
IInv ==
    /\ TypeOK /\ Phases /\ SchedulerAlive
    /\ Synced /\ Known /\ Off /\ NextIsNew /\ UnderWay
    /\ ChangesSurvive

-----------------------------------------------------------------------------
(* The operators of the model.                                             *)

\* A record of its fields is a job.
LEMMA JobIs ==
    ASSUME NEW k \in BOOLEAN, NEW e \in BOOLEAN, NEW a \in 0..MaxTime, NEW n \in 0..MaxTime + Period
    PROVE  [known |-> k, enabled |-> e, at |-> a, next |-> n] \in Job
    BY Zenon DEF Job

\* The record of a job that is not in the store.
LEMMA MissingIs == Missing \in Job /\ ~Missing.known /\ ~Missing.enabled /\ Missing.next = None
<1> DEFINE f == FALSE
<1>1. Missing = [known |-> f, enabled |-> f, at |-> 0, next |-> 0]
    BY DEF Missing, None
<1>2. 0 \in 0..MaxTime /\ 0 \in 0..MaxTime + Period /\ f \in BOOLEAN
    BY CronAssumption
<1> HIDE DEF f
<1>3. Missing \in Job
    BY <1>1, <1>2, JobIs
<1> QED
    BY <1>3 DEF Missing

\* A job with another switch and another next time.
Switched(c, e, n) == [c EXCEPT !.enabled = e, !.next = n]

\* Only the switch and the next time change.
LEMMA SwitchedIs ==
    ASSUME NEW c \in Job, NEW e \in BOOLEAN, NEW n \in 0..MaxTime + Period
    PROVE  /\ Switched(c, e, n) \in Job
           /\ Switched(c, e, n).known = c.known
           /\ Switched(c, e, n).enabled = e
           /\ Switched(c, e, n).next = n
    BY DEF Job, Switched

\* The time a schedule yields is None or in the future.
LEMMA NextRunIs ==
    ASSUME NEW j \in Jobs, NEW a \in 0..MaxTime, NEW t \in 1..MaxTime
    PROVE  /\ ComputeNextRun(j, a, t) \in 0..MaxTime + Period
           /\ ComputeNextRun(j, a, t) # None => ComputeNextRun(j, a, t) > t
<1>1. MaxTime \in Nat /\ Period \in Nat /\ Period > 0 /\ t \in Nat /\ a \in Nat
    BY CronAssumption
<1>2. CASE j \in OneShot
    BY <1>1, <1>2 DEF ComputeNextRun, None
<1>3. CASE j \notin OneShot
    BY <1>1, <1>3 DEF ComputeNextRun, None
<1> QED
    BY <1>2, <1>3

\* The job of add_job is in the store, and its next run is in the future.
LEMMA NewJobIs ==
    ASSUME NEW j \in Jobs, NEW t \in 1..MaxTime, now \in 1..MaxTime
    PROVE  /\ NewJob(j, t) \in Job /\ NewJob(j, t).known
           /\ NewJob(j, t).next # None => NewJob(j, t).next > now
<1> DEFINE a == IF j \in OneShot THEN t ELSE 0
           n == ComputeNextRun(j, t, now)
           y == TRUE
<1>1. a \in 0..MaxTime /\ t \in 0..MaxTime
    BY CronAssumption
<1>2. n \in 0..MaxTime + Period /\ (n # None => n > now)
    BY <1>1, NextRunIs
<1>3. NewJob(j, t) = [known |-> y, enabled |-> y, at |-> a, next |-> n] /\ y
    BY DEF NewJob
<1>4. y \in BOOLEAN
    OBVIOUS
<1> HIDE DEF a, n, y
<1>5. NewJob(j, t) \in Job
    BY <1>1, <1>2, <1>3, <1>4, JobIs
<1>6. NewJob(j, t).known = y /\ NewJob(j, t).next = n
    BY <1>3
<1> QED
    BY <1>2, <1>3, <1>5, <1>6

\* How a step of the gateway may change a store: no job appears or is switched on, and
\* its next time is kept, cleared or moved past now.
Tame(s, r) ==
    \A k \in Jobs : /\ r[k].known => s[k].known
                    /\ On(r, k) => /\ On(s, k)
                                   /\ r[k].next = s[k].next \/ r[k].next = None \/ r[k].next > now

\* _execute_job after the await: only a job that is deleted after its run leaves the
\* store, and a job that stays on has its next run in the future.
LEMMA ExecutedIs ==
    ASSUME NEW s \in Store, NEW j \in Jobs, now \in 1..MaxTime
    PROVE  /\ Executed(s, j) \in Store /\ Tame(s, Executed(s, j))
           /\ \A k \in Jobs : s[k].known /\ ~Executed(s, j)[k].known => k = j /\ j \in DeleteAfterRun
           /\ On(Executed(s, j), j) /\ Executed(s, j)[j].next # None => Executed(s, j)[j].next > now
<1> DEFINE r == Executed(s, j)
           n == ComputeNextRun(j, s[j].at, now)
<1>1. s[j] \in Job /\ s[j].at \in 0..MaxTime
    BY DEF Store, Job
<1>2. n \in 0..MaxTime + Period /\ (n # None => n > now)
    BY <1>1, NextRunIs
<1>3. Missing \in Job /\ ~Missing.known
    BY MissingIs
<1>4. CASE ~s[j].known
    BY <1>4 DEF Executed, Tame, On
<1>5. CASE s[j].known /\ j \in DeleteAfterRun
  <2>1. r = [s EXCEPT ![j] = Missing]
      BY <1>5 DEF Executed
  <2>2. r \in Store /\ r[j] = Missing /\ \A k \in Jobs \ {j} : r[k] = s[k]
      BY <1>3, <2>1 DEF Store
  <2> QED
      BY <1>3, <1>5, <2>2 DEF Tame, On
<1>6. CASE s[j].known /\ j \notin DeleteAfterRun /\ j \in OneShot
  <2> DEFINE f == FALSE
             b == Switched(s[j], f, None)
  <2>1. r = [s EXCEPT ![j] = b] /\ f \in BOOLEAN /\ ~f
      BY <1>6 DEF Executed, Switched
  <2> HIDE DEF f
  <2>2. b \in Job /\ b.known = s[j].known /\ b.enabled = f
    <3>1. None \in 0..MaxTime + Period
        BY CronAssumption DEF None
    <3> QED
        BY <1>1, <2>1, <3>1, SwitchedIs
  <2> HIDE DEF b
  <2>3. r \in Store /\ r[j] = b /\ \A k \in Jobs \ {j} : r[k] = s[k]
      BY <2>1, <2>2 DEF Store
  <2> QED
      BY <1>6, <2>1, <2>2, <2>3 DEF Tame, On
<1>7. CASE s[j].known /\ j \notin OneShot
  <2> DEFINE b == [s[j] EXCEPT !.next = n]
  <2>1. r = [s EXCEPT ![j] = b]
      BY <1>7, CronAssumption DEF Executed
  <2>2. b \in Job /\ b.known = s[j].known /\ b.enabled = s[j].enabled /\ b.next = n
      BY <1>1, <1>2 DEF Job
  <2> HIDE DEF b, n
  <2>3. r \in Store /\ r[j] = b /\ \A k \in Jobs \ {j} : r[k] = s[k]
      BY <2>1, <2>2 DEF Store
  <2> QED
      BY <1>2, <1>7, <2>2, <2>3 DEF Tame, On
<1> QED
    BY <1>4, <1>5, <1>6, <1>7

\* _recompute_next_runs changes the next times only, to times in the future.
LEMMA RecomputedIs ==
    ASSUME NEW s \in Store, now \in 1..MaxTime
    PROVE  /\ RecomputeNextRuns(s, now) \in Store
           /\ \A k \in Jobs :
                /\ RecomputeNextRuns(s, now)[k].known = s[k].known
                /\ RecomputeNextRuns(s, now)[k].enabled = s[k].enabled
                /\ On(s, k) /\ RecomputeNextRuns(s, now)[k].next # None =>
                      RecomputeNextRuns(s, now)[k].next > now
<1> DEFINE r == RecomputeNextRuns(s, now)
<1>1. ASSUME NEW k \in Jobs
      PROVE  /\ r[k] \in Job /\ r[k].known = s[k].known /\ r[k].enabled = s[k].enabled
             /\ On(s, k) /\ r[k].next # None => r[k].next > now
  <2> DEFINE n == ComputeNextRun(k, s[k].at, now)
  <2>1. s[k] \in Job /\ s[k].at \in 0..MaxTime
      BY DEF Store, Job
  <2>2. n \in 0..MaxTime + Period /\ (n # None => n > now)
      BY <2>1, NextRunIs
  <2>3. r[k] = IF On(s, k) THEN [s[k] EXCEPT !.next = n] ELSE s[k]
      BY DEF RecomputeNextRuns, On
  <2> HIDE DEF n, r
  <2> QED
      BY <2>1, <2>2, <2>3 DEF Job
<1>2. r = [k \in Jobs |-> r[k]]
    BY DEF RecomputeNextRuns
<1> HIDE DEF r
<1>3. r \in Store
    BY <1>1, <1>2 DEF Store
<1> QED
    BY <1>1, <1>3 DEF r

\* add_job, remove_job, enable_job and update_job.
LEMMA EditedIs ==
    ASSUME NEW c \in Job, NEW op \in Edits, NEW j \in Jobs, NEW t \in 1..MaxTime,
           now \in 1..MaxTime, op = "add" \/ c.known
    PROVE  /\ Edited(c, op, j, t) \in Job
           /\ Edited(c, op, j, t).known <=> op # "remove"
           /\ op \in {"remove", "disable"} =>
                 ~(Edited(c, op, j, t).known /\ Edited(c, op, j, t).enabled)
           /\ Edited(c, op, j, t).enabled => c.enabled \/ op \in {"add", "enable"}
           /\ Edited(c, op, j, t).enabled /\ Edited(c, op, j, t).next # None =>
                 \/ Edited(c, op, j, t).next > now
                 \/ c.known /\ c.enabled /\ Edited(c, op, j, t).next = c.next
<1>1. c.at \in 0..MaxTime /\ t \in 0..MaxTime /\ None \in 0..MaxTime + Period
    BY CronAssumption DEF Job, None
<1>2. CASE op = "add"
    BY <1>2, NewJobIs DEF Edited
<1>3. CASE op = "remove"
    BY <1>3, MissingIs DEF Edited
<1>4. CASE op = "enable"
  <2> DEFINE y == TRUE
             n == ComputeNextRun(j, c.at, now)
  <2>1. Edited(c, op, j, t) = Switched(c, y, n) /\ y \in BOOLEAN
      BY <1>4 DEF Edited, Switched
  <2>2. n \in 0..MaxTime + Period /\ (n # None => n > now)
      BY <1>1, NextRunIs
  <2> HIDE DEF y, n
  <2> QED
      BY <1>4, <2>1, <2>2, SwitchedIs
<1>5. CASE op = "disable"
  <2> DEFINE f == FALSE
  <2>1. Edited(c, op, j, t) = Switched(c, f, None) /\ f \in BOOLEAN /\ ~f
      BY <1>5 DEF Edited, Switched
  <2> HIDE DEF f
  <2> QED
      BY <1>1, <1>5, <2>1, SwitchedIs
<1>6. CASE op = "reschedule"
  <2> DEFINE n == IF ~c.enabled THEN None
                  ELSE IF t = c.at THEN c.next ELSE ComputeNextRun(j, t, now)
  <2>1. Edited(c, op, j, t) = [c EXCEPT !.at = t, !.next = n]
      BY <1>6 DEF Edited, Job
  <2>2. ComputeNextRun(j, t, now) \in 0..MaxTime + Period
        /\ (ComputeNextRun(j, t, now) # None => ComputeNextRun(j, t, now) > now)
      BY <1>1, NextRunIs
  <2>3. c.next \in 0..MaxTime + Period
      BY DEF Job
  <2>4. /\ n \in 0..MaxTime + Period
        /\ c.enabled /\ n # None => n > now \/ n = c.next
      BY <1>1, <2>2, <2>3
  <2> HIDE DEF n
  <2>5. /\ Edited(c, op, j, t) \in Job /\ Edited(c, op, j, t).known = c.known
        /\ Edited(c, op, j, t).enabled = c.enabled /\ Edited(c, op, j, t).next = n
      BY <1>1, <2>1, <2>4 DEF Job
  <2> QED
      BY <1>6, <2>4, <2>5
<1> QED
    BY <1>2, <1>3, <1>4, <1>5, <1>6 DEF Edits

-----------------------------------------------------------------------------
(* Least and greatest numbers, and the wake time.                          *)

\* A set of numbers has its least one.
LEMMA MinIn ==
    ASSUME NEW S, S \subseteq Nat, S # {}
    PROVE  Min(S) \in S
<1> DEFINE R == OpToRel(<, Nat)
<1>1. PICK d \in S : \A e \in S : ~(<<e, d>> \in R)
    BY NatLessThanWellFounded, WFMin
<1>2. \A e \in Nat : e < d => <<e, d>> \in R
    BY <1>1 DEF OpToRel
<1> HIDE DEF R
<1>3. ASSUME NEW e \in S PROVE d <= e
  <2>1. ~(e < d)
      BY <1>1, <1>2
  <2> QED
      BY <1>1, <2>1
<1> QED
    BY <1>1, <1>3 DEF Min

\* A bounded one has its greatest.
LEMMA MaxIn ==
    ASSUME NEW b \in Nat, NEW S, S \subseteq 1..b, S # {}
    PROVE  Max(S) \in S /\ \A e \in S : e <= Max(S)
<1> DEFINE D == {b - e : e \in S}
           R == OpToRel(<, Nat)
<1>1. D \subseteq Nat /\ D # {}
  <2>1. \A e \in S : b - e \in Nat
      OBVIOUS
  <2>2. PICK e \in S : TRUE
      OBVIOUS
  <2>3. b - e \in D
      OBVIOUS
  <2> QED
      BY <2>1, <2>3
<1>2. PICK d \in D : \A e \in D : ~(<<e, d>> \in R)
    BY <1>1, NatLessThanWellFounded, WFMin
<1>3. \A e \in Nat : e < d => <<e, d>> \in R
    BY <1>1, <1>2 DEF OpToRel
<1> HIDE DEF R
<1>4. PICK m \in S : d = b - m
    BY <1>2
<1>5. ASSUME NEW e \in S PROVE m >= e
  <2>1. ~(b - e < d) /\ b - e \in Nat /\ d \in Nat
      BY <1>1, <1>2, <1>3
  <2> QED
      BY <1>4, <2>1
<1>6. Max(S) \in S /\ \A e \in S : Max(S) >= e
    BY <1>4, <1>5 DEF Max
<1> QED
    BY <1>6

\* _arm_timer sleeps until some instant.
LEMMA WakeIn ==
    ASSUME NEW s \in Store, now \in 1..MaxTime
    PROVE  WakeAt(s, now) \in Nat
<1> DEFINE times == {s[j].next : j \in {i \in Jobs : s[i].enabled /\ s[i].next # None}}
           W == {now + MaxSleep} \cup {IF n < now THEN now ELSE n : n \in times}
<1>1. times \subseteq Nat
    BY CronAssumption DEF Store, Job
<1> HIDE DEF times
<1>2. W \subseteq Nat /\ W # {}
    BY <1>1, CronAssumption
<1>3. Min(W) \in Nat /\ MaxTime \in Nat
    BY <1>2, MinIn, CronAssumption
<1>4. WakeAt(s, now) = IF Min(W) > MaxTime THEN MaxTime ELSE Min(W)
    BY DEF WakeAt, W, times
<1> HIDE DEF W
<1> QED
    BY <1>3, <1>4

\* A timer of its fields.
LEMMA TimerIs ==
    ASSUME NEW p \in {"none", "asleep", "tick"}, NEW w \in Nat, NEW d \in SUBSET Jobs,
           NEW j \in Jobs \cup {NoJob}, NEW x \in BOOLEAN
    PROVE  [pc |-> p, wake |-> w, due |-> d, job |-> j, ran |-> x] \in Timer
    BY Zenon DEF Timer

\* No timer task.
LEMMA NoTimerIs ==
    /\ NoTimer \in Timer /\ NoTimer.pc = "none" /\ NoTimer.job = NoJob /\ ~NoTimer.ran
<1> DEFINE f == FALSE
           p == "none"
           e == {}
           n == NoJob
           z == 0
<1>1. NoTimer = [pc |-> p, wake |-> z, due |-> e, job |-> n, ran |-> f]
    BY DEF NoTimer
<1>2. p \in {"none", "asleep", "tick"} /\ f \in BOOLEAN /\ ~f /\ e \in SUBSET Jobs
      /\ n \in Jobs \cup {NoJob} /\ n = NoJob /\ p = "none" /\ z \in Nat
    OBVIOUS
<1> HIDE DEF f, p, e, n, z
<1>3. NoTimer \in Timer
    BY <1>1, <1>2, TimerIs
<1>4. NoTimer.pc = p /\ NoTimer.job = n /\ NoTimer.ran = f
    BY <1>1
<1> QED
    BY <1>2, <1>3, <1>4

\* A timer task that sleeps runs no job.
LEMMA AsleepIs ==
    ASSUME NEW w \in Nat
    PROVE  /\ Asleep(w) \in Timer /\ Asleep(w).pc = "asleep"
           /\ Asleep(w).job = NoJob /\ ~Asleep(w).ran
<1>1. Asleep(w) = [NoTimer EXCEPT !.pc = "asleep", !.wake = w]
    BY DEF Asleep
<1>2. NoTimer \in Timer /\ NoTimer.job = NoJob /\ ~NoTimer.ran
    BY NoTimerIs
<1> QED
    BY <1>1, <1>2 DEF Timer

\* The timer that _arm_timer leaves: the old one while a job executes.
LEMMA ArmedIs ==
    ASSUME NEW s \in Store, now \in 1..MaxTime, NEW t \in Timer, NEW busy \in BOOLEAN
    PROVE  /\ Armed(s, t, busy) \in Timer
           /\ busy => Armed(s, t, busy) = t
           /\ ~busy => /\ Armed(s, t, busy).pc = "asleep" /\ Armed(s, t, busy).job = NoJob
                       /\ ~Armed(s, t, busy).ran
    BY WakeIn, AsleepIs DEF Armed

-----------------------------------------------------------------------------
(* _merge_action.                                                          *)

\* A job without a line stays as it is.
LEMMA MergeKeeps ==
    ASSUME NEW s, NEW l, NEW j \in Jobs, Lines(l, j) = {}
    PROVE  Merge(s, l)[j] = s[j]
    BY DEF Merge

\* Any other is what one of its lines says, whatever the store says.
LEMMA MergeDecides ==
    ASSUME NEW l \in Seq(Action), NEW j \in Jobs, Lines(l, j) # {}
    PROVE  \E i \in 1..Len(l) : l[i].job = j /\ \A s : Merge(s, l)[j] = Decided(l[i])
<1> DEFINE i == Max(Lines(l, j))
<1>1. Len(l) \in Nat /\ Lines(l, j) \subseteq 1..Len(l)
    BY LenProperties DEF Lines
<1>2. i \in Lines(l, j)
    BY <1>1, MaxIn
<1>3. i \in 1..Len(l) /\ l[i].job = j
    BY <1>2 DEF Lines
<1>4. \A s : Merge(s, l)[j] = Decided(l[i])
    BY DEF Merge
<1> HIDE DEF i
<1> QED
    BY <1>3, <1>4

\* What a line decides: its job is known if and only if it adds it.
LEMMA DecidedIs ==
    ASSUME NEW a \in Action, a.op = "add" => a.rec.known
    PROVE  /\ Decided(a) \in Job /\ (Decided(a).known <=> a.op = "add")
           /\ a.op = "add" => Decided(a) = a.rec
<1>1. a.rec \in Job /\ a.op \in {"add", "del"}
    BY DEF Action
<1> QED
    BY <1>1, MissingIs DEF Decided

\* A merge of a store is a store.
LEMMA MergeIn ==
    ASSUME NEW s \in Store, NEW l \in Seq(Action),
           \A i \in 1..Len(l) : l[i].op = "add" => l[i].rec.known
    PROVE  Merge(s, l) \in Store
<1>1. ASSUME NEW j \in Jobs PROVE Merge(s, l)[j] \in Job
  <2>1. CASE Lines(l, j) = {}
      BY <2>1, MergeKeeps DEF Store
  <2>2. CASE Lines(l, j) # {}
    <3>1. PICK i \in 1..Len(l) : Merge(s, l)[j] = Decided(l[i])
        BY <2>2, MergeDecides
    <3>2. l[i] \in Action
        OBVIOUS
    <3> QED
        BY <3>1, <3>2, DecidedIs
  <2> QED
      BY <2>1, <2>2
<1> DEFINE m == Merge(s, l)
<1>2. m = [j \in Jobs |-> m[j]]
    BY DEF Merge
<1> HIDE DEF m
<1>3. \A j \in Jobs : m[j] \in Job
    BY <1>1 DEF m
<1>4. m \in Store
    BY <1>2, <1>3 DEF Store
<1> QED
    BY <1>4 DEF m

\* An empty log changes nothing.
LEMMA MergeEmpty ==
    ASSUME NEW s \in Store
    PROVE  Merge(s, <<>>) = s /\ \A j : Lines(<<>>, j) = {}
<1>1. \A j : Lines(<<>>, j) = {}
    BY DEF Lines
<1>2. Merge(s, <<>>) = [j \in Jobs |-> s[j]]
    BY <1>1 DEF Merge
<1> QED
    BY <1>1, <1>2 DEF Store

\* A line that is appended decides about its job, and about no other.
LEMMA MergeAppend ==
    ASSUME NEW s, NEW l \in Seq(Action), NEW a \in Action
    PROVE  /\ Merge(s, Append(l, a))[a.job] = Decided(a)
           /\ \A j \in Jobs \ {a.job} : Merge(s, Append(l, a))[j] = Merge(s, l)[j]
<1> DEFINE m == Append(l, a)
           b == Len(l) + 1
<1>1. /\ Len(l) \in Nat /\ Len(m) = b /\ m[b] = a
      /\ \A i \in 1..Len(l) : m[i] = l[i]
    BY AppendProperties, LenProperties
<1> HIDE DEF m
<1>2. \A i \in 1..b : i \in 1..Len(l) \/ i = b
    BY <1>1
<1>3. a.job \in Jobs
    BY DEF Action
<1>4. Max(Lines(m, a.job)) = b /\ Lines(m, a.job) # {}
  <2>1. Lines(m, a.job) \subseteq 1..b /\ b \in Lines(m, a.job) /\ b \in Nat
      BY <1>1 DEF Lines
  <2>2. Max(Lines(m, a.job)) \in 1..b /\ b <= Max(Lines(m, a.job))
      BY <2>1, MaxIn
  <2> QED
      BY <2>1, <2>2
<1>5. Merge(s, m)[a.job] = Decided(a)
    BY <1>1, <1>3, <1>4 DEF Merge
<1>6. ASSUME NEW j \in Jobs \ {a.job} PROVE Merge(s, m)[j] = Merge(s, l)[j]
  <2>1. Lines(m, j) = Lines(l, j)
      BY <1>1, <1>2 DEF Lines
  <2>2. CASE Lines(l, j) = {}
      BY <2>1, <2>2, MergeKeeps
  <2>3. CASE Lines(l, j) # {}
    <3>1. Max(Lines(l, j)) \in 1..Len(l)
        BY <1>1, <2>3, MaxIn DEF Lines
    <3> QED
        BY <1>1, <2>1, <2>3, <3>1 DEF Merge
  <2> QED
      BY <2>2, <2>3
<1> QED
    BY <1>5, <1>6 DEF m

\* Merging the same lines again changes nothing.
LEMMA MergeAgain ==
    ASSUME NEW s, NEW l \in Seq(Action), NEW j \in Jobs
    PROVE  Merge(Merge(s, l), l)[j] = Merge(s, l)[j]
<1>1. CASE Lines(l, j) = {}
    BY <1>1, MergeKeeps
<1>2. CASE Lines(l, j) # {}
    BY <1>2, MergeDecides
<1> QED
    BY <1>1, <1>2

-----------------------------------------------------------------------------
(* Steps that several actions share.                                       *)

\* _save_store, whether it returns or raises.
LEMMA SavedIs ==
    ASSUME TypeOK, NEW s \in Store, SaveOK(s) \/ SaveRaises(s)
    PROVE  /\ disk' = disk \/ disk' = s
           /\ disk' \in Store /\ dirty' \in BOOLEAN /\ (~dirty' => disk' = s)
           /\ saveErrors' \in 0..MaxSaveErrors
<1>1. CASE SaveOK(s)
    BY <1>1 DEF SaveOK, TypeOK
<1>2. CASE SaveRaises(s)
  <2>1. saveErrors' = saveErrors + 1 /\ saveErrors < MaxSaveErrors /\ saveErrors \in 0..MaxSaveErrors
        /\ disk' \in {disk, s} /\ dirty' = TRUE /\ disk \in Store
      BY <1>2 DEF SaveRaises, TypeOK
  <2>2. saveErrors' \in 0..MaxSaveErrors
      BY <2>1, CronAssumption
  <2> QED
      BY <2>1, <2>2
<1> QED
    BY <1>1, <1>2

\* A record of its fields is a call.
LEMMA CallIs ==
    ASSUME NEW o \in Edits \cup {"none", "start", "tick", "run", "saved", "read"},
           NEW j \in Jobs \cup {NoJob}, NEW b \in BOOLEAN
    PROVE  [op |-> o, job |-> j, merged |-> b] \in Call
    BY Zenon DEF Call

\* No call in progress.
LEMMA IdleIs == Idle \in Call /\ Idle.op = "none" /\ ~Idle.merged
<1> DEFINE f == FALSE
           o == "none"
           n == NoJob
<1>1. Idle = [op |-> o, job |-> n, merged |-> f]
    BY DEF Idle
<1>2. f \in BOOLEAN /\ ~f /\ n \in Jobs \cup {NoJob} /\ o = "none"
      /\ o \in Edits \cup {"none", "start", "tick", "run", "saved", "read"}
    OBVIOUS
<1> HIDE DEF f, o, n
<1> QED
    BY <1>1, <1>2, CallIs

\* What has fired, in the words of ChangesSurvive.
LEMMA FiredAt ==
    ASSUME TypeOK, NEW j \in Jobs, HasFired(j)
    PROVE  \E t \in 0..MaxTime : <<j, t>> \in fired
<1>1. PICK x \in fired : x[1] = j
    BY DEF HasFired
<1>2. x \in Jobs \X (0..MaxTime)
    BY DEF TypeOK
<1>3. x[2] \in 0..MaxTime /\ x = <<x[1], x[2]>>
    BY <1>2
<1> QED
    BY <1>1, <1>3

\* A merge of the log with a tamer store.
LEMMA MergedKnown ==
    ASSUME TypeOK, NEW s, NEW r, NEW j \in Jobs
    PROVE  \/ Merge(s, log)[j] = s[j] /\ Merge(r, log)[j] = r[j]
           \/ Merge(s, log)[j] = Merge(r, log)[j]
<1>1. log \in Seq(Action)
    BY DEF TypeOK
<1>2. CASE Lines(log, j) = {}
    BY <1>2, MergeKeeps
<1>3. CASE Lines(log, j) # {}
    BY <1>1, <1>3, MergeDecides
<1> QED
    BY <1>2, <1>3

\* The store of the gateway changes tamely, or not at all, and may be saved.
LEMMA StoreStep ==
    ASSUME IInv, Tame(mem, mem'),
           disk' = disk \/ (up # "down" /\ disk' = mem'),
           up = "down" => mem' = mem,
           up' = up \/ (call.op = "start" /\ up' = "running"),
           call'.op = "add" => call.op = "add" /\ call'.job = call.job,
           call'.op = "start" => call.op = "start",
           UNCHANGED <<log, accepted, withdrawn, revoked, open, fired>>,
           \A k \in Jobs : mem[k].known /\ ~mem'[k].known => k \in DeleteAfterRun /\ HasFired(k)
    PROVE  Known' /\ Off' /\ ChangesSurvive'
<1>1. \A k \in Jobs : /\ mem'[k].known => mem[k].known
                      /\ On(mem', k) => On(mem, k)
    BY DEF Tame
<1>2. \A k : (HasFired(k)' <=> HasFired(k)) /\ (Adds(k)' <=> Adds(k))
    BY DEF HasFired, Adds
<1>3. \A k \in Jobs : disk'[k].known => disk[k].known \/ mem[k].known
    BY <1>1
<1>4. Known'
    BY <1>1, <1>2, <1>3 DEF IInv, Known
<1>5. Off'
  <2>1. \A k \in Jobs : On(disk', k) => On(disk, k) \/ On(mem, k)
      BY <1>1 DEF On
  <2>2. revoked \subseteq Jobs
      BY DEF IInv, TypeOK
  <2> QED
      BY <1>1, <2>1, <2>2 DEF IInv, Off
<1>6. ChangesSurvive'
  <2>1. SUFFICES ASSUME NEW j \in Jobs \ open
                 PROVE  /\ j \in withdrawn => ~View'[j].known
                        /\ j \in accepted \ withdrawn =>
                             \/ View'[j].known
                             \/ j \in DeleteAfterRun /\ \E t \in 0..MaxTime : <<j, t>> \in fired
      BY DEF ChangesSurvive
  <2>2. CASE up = "down"
    <3>1. up' = "down" \/ call.op = "start"
        BY <2>2
    <3>2. call.op # "start"
        BY <2>2 DEF IInv, Phases
    <3>3. View' = View
        BY <2>2, <3>1, <3>2 DEF View
    <3> QED
        BY <3>3 DEF IInv, ChangesSurvive
  <2>3. CASE up # "down"
    <3>1. View = Merge(mem, log) /\ View' = Merge(mem', log)
        BY <2>3 DEF View
    <3>2. \/ View[j] = mem[j] /\ View'[j] = mem'[j]
          \/ View[j] = View'[j]
        BY <3>1, MergedKnown DEF IInv
    <3>3. View'[j].known => View[j].known
        BY <1>1, <3>2
    <3>4. View[j].known /\ ~View'[j].known =>
             j \in DeleteAfterRun /\ \E t \in 0..MaxTime : <<j, t>> \in fired
        BY <3>2, FiredAt DEF IInv
    <3> QED
        BY <3>3, <3>4 DEF IInv, ChangesSurvive
  <2> QED
      BY <2>2, <2>3
<1> QED
    BY <1>4, <1>5, <1>6

\* A job starts to run.
LEMMA FiredStep ==
    ASSUME IInv, NEW j \in Jobs, NEW t \in 0..MaxTime,
           up = "running", mem[j].known, fired' = fired \cup {<<j, t>>},
           call'.op = "add" => call.op = "add" /\ call'.job = call.job,
           call'.op = "start" => call.op = "start",
           UNCHANGED <<disk, mem, log, up, accepted, withdrawn, revoked, open>>
    PROVE  Known' /\ Off' /\ ChangesSurvive'
<1>1. \A k : (Adds(k)' <=> Adds(k)) /\ (HasFired(k)' <=> HasFired(k) \/ k = j)
  <2>1. \A k : Adds(k)' <=> Adds(k)
      BY DEF Adds
  <2>2. <<j, t>>[1] = j
      OBVIOUS
  <2>3. \A k : HasFired(k)' <=> (\E x \in fired : x[1] = k) \/ <<j, t>>[1] = k
      BY Zenon DEF HasFired
  <2> QED
      BY <2>1, <2>2, <2>3 DEF HasFired
<1>2. ~Adds(j) /\ j \in accepted \cup open
    BY DEF IInv, Known
<1>3. Known'
    BY <1>1, <1>2 DEF IInv, Known
<1>4. Off'
    BY DEF IInv, Off
<1>5. View' = View
    BY DEF View
<1>6. ChangesSurvive'
    BY <1>5 DEF IInv, ChangesSurvive
<1> QED
    BY <1>3, <1>4, <1>6

\* _load_store: the store is replaced by jobs.json with the log merged, and the log
\* emptied, unless the store is dirty or a job executes.
LEMMA ReloadStep ==
    ASSUME IInv, up # "down", call.op \in {"none", "saved"}, ~InTick,
           mem' = (IF Reloads THEN Merge(disk, log) ELSE mem),
           log' = (IF Reloads /\ log # <<>> THEN <<>> ELSE log),
           NEW o \in Edits \cup {"start", "tick", "run", "read"}, NEW j \in Jobs \cup {NoJob},
           call' = [op |-> o, job |-> j, merged |-> (Reloads /\ log # <<>>)],
           o = "start" <=> up = "registering",
           o = "add" => j \notin accepted \cup open,
           o \in Edits \cup {"run"} => j \in Jobs,
           o = "tick" => timer.pc = "asleep",
           UNCHANGED <<now, disk, dirty, up, timer, manual, history>>
    PROVE  /\ mem' \in Store /\ log' \in Seq(Action) /\ call' \in Call
           /\ Phases' /\ SchedulerAlive' /\ Synced' /\ Known' /\ Off'
           /\ NextIsNew' /\ UnderWay' /\ ChangesSurvive'
<1> DEFINE b == Reloads /\ log # <<>>
<1>1. /\ UNCHANGED <<fired, accepted, withdrawn, revoked, open>>
      /\ mem \in Store /\ disk \in Store /\ log \in Seq(Action) /\ timer \in Timer /\ manual \in Seq(Jobs)
      /\ ~call.merged
    BY DEF history, IInv, TypeOK, Phases
<1>2. Reloads => disk = mem /\ ~timer.ran /\ timer.pc # "tick" /\ manual = <<>> /\ ~dirty
  <2>1. Reloads => timer.pc # "tick" /\ Len(manual) = 0 /\ ~dirty
    <3>1. Len(manual) \in Nat
        BY <1>1, LenProperties
    <3> QED
        BY <3>1 DEF Reloads, Active
  <2>2. Len(manual) = 0 => manual = <<>>
      BY <1>1, EmptySeq
  <2> QED
      BY <1>1, <2>1, <2>2 DEF IInv, Phases, Synced
<1>3. b \in BOOLEAN /\ call' = [op |-> o, job |-> j, merged |-> b]
    BY DEF Reloads
<1>4. up = "registering" => Reloads
  <2>1. up = "registering" => ~dirty /\ manual = <<>> /\ timer.pc = "none"
      BY DEF IInv, Phases, TypeOK
  <2> QED
      BY <2>1 DEF Reloads, Active
<1>5. ~b => mem' = mem /\ log' = log
    BY <1>1, <1>2, MergeEmpty
<1>6. b => mem' = Merge(mem, log) /\ log' = <<>>
    BY <1>2
<1>7. Reloads /\ log # <<>> <=> b
    OBVIOUS
<1> HIDE DEF b
<1>8. call'.op = o /\ call'.job = j /\ call'.merged = b /\ call' \in Call
  <2>1. [op |-> o, job |-> j, merged |-> b] \in Call
      BY <1>3, CallIs
  <2> QED
      BY <1>3, <2>1
<1>9. mem' \in Store /\ log' \in Seq(Action)
  <2>1. \A i \in 1..Len(log) : log[i].op = "add" => log[i].rec.known
      BY DEF IInv, Known
  <2> QED
      BY <1>1, <1>5, <1>6, <2>1, MergeIn
<1>10. ASSUME NEW k \in Jobs
       PROVE  \/ mem'[k] = mem[k]
              \/ b /\ ~mem'[k].known
              \/ b /\ Adds(k) /\ Lines(log, k) # {}
  <2>1. CASE ~b
      BY <1>5, <2>1
  <2>2. CASE b /\ Lines(log, k) = {}
      BY <1>6, <2>2, MergeKeeps
  <2>3. CASE b /\ Lines(log, k) # {}
    <3>1. PICK i \in 1..Len(log) : log[i].job = k /\ mem'[k] = Decided(log[i])
        BY <1>1, <1>6, <2>3, MergeDecides
    <3>2. log[i] \in Action /\ (log[i].op = "add" => log[i].rec.known)
        BY <1>1 DEF IInv, Known
    <3>3. mem'[k].known <=> log[i].op = "add"
        BY <3>1, <3>2, DecidedIs
    <3> QED
        BY <2>3, <3>1, <3>3 DEF Adds
  <2> QED
      BY <2>1, <2>2, <2>3
<1>11. /\ b => \A k : ~Adds(k)' /\ Lines(log', k) = {}
       /\ ~b => \A k : (Adds(k)' <=> Adds(k)) /\ Lines(log', k) = Lines(log, k)
       /\ \A k : HasFired(k)' <=> HasFired(k)
  <2>1. b => \A k : ~Adds(k)' /\ Lines(log', k) = {}
      BY <1>6 DEF Adds, Lines
  <2>2. ~b => \A k : (Adds(k)' <=> Adds(k)) /\ Lines(log', k) = Lines(log, k)
      BY <1>5 DEF Adds, Lines
  <2>3. \A k : HasFired(k)' <=> HasFired(k)
      BY <1>1 DEF HasFired
  <2> QED
      BY <2>1, <2>2, <2>3
<1>12. Phases'
  <2>1. ~InTick'
      BY DEF InTick
  <2>2. up = "running" \/ up = "registering"
      BY DEF IInv, TypeOK
  <2> QED
      BY <1>2, <1>7, <1>8, <2>1, <2>2 DEF IInv, Phases, Edits
<1>13. SchedulerAlive'
    BY DEF IInv, SchedulerAlive
<1>14. Synced'
    BY <1>1, <1>5, <1>8 DEF IInv, Synced
<1>15. Known'
  <2>1. ASSUME NEW k \in Jobs
        PROVE  \/ mem'[k].known \/ disk'[k].known \/ Lines(log', k) # {}
               \/ k \in revoked' \cup withdrawn' \/ HasFired(k)'
               => k \in accepted' \cup open'
      BY <1>1, <1>10, <1>11 DEF IInv, Known
  <2>2. \A i \in 1..Len(log') : log'[i].op = "add" => log'[i].rec.known
      BY <1>5, <1>6 DEF IInv, Known
  <2>3. ASSUME NEW k \in Jobs, Adds(k)'
        PROVE  /\ up' = "running" \/ call'.op = "start" => ~mem'[k].known
               /\ ~HasFired(k)' /\ k \notin revoked'
    <3>1. ~b /\ Adds(k)
        BY <1>11, <2>3
    <3>2. log # <<>>
        BY <3>1 DEF Adds
    <3>3. up # "registering"
        BY <1>4, <1>7, <3>1, <3>2
    <3> QED
        BY <1>1, <1>5, <1>8, <1>11, <3>1, <3>3 DEF IInv, Known, TypeOK
  <2>4. call'.op = "add" => call'.job \notin accepted' \cup open'
      BY <1>1, <1>8
  <2> QED
      BY <2>1, <2>2, <2>3, <2>4 DEF Known
<1>16. Off'
  <2>1. \A k \in revoked : k \in Jobs /\ ~Adds(k)
      BY DEF IInv, TypeOK, Known
  <2>2. \A k \in revoked : ~On(mem', k)
      BY <1>10, <2>1 DEF IInv, Off, On
  <2> QED
      BY <1>1, <2>2 DEF IInv, Off
<1>17. NextIsNew'
  <2>1. \A k \in Jobs : Adds(k) => \A n : <<k, n>> \notin fired
    <3>1. \A k \in Jobs : Adds(k) => ~HasFired(k)
        BY DEF IInv, Known
    <3>2. \A k, n : <<k, n>>[1] = k
        OBVIOUS
    <3> QED
        BY <3>1, <3>2 DEF HasFired
  <2>2. ASSUME up' = "running", NEW k \in Jobs, On(mem', k), mem'[k].next # None, timer'.job # k
        PROVE  <<k, mem'[k].next>> \notin fired
      BY <1>10, <2>1, <2>2 DEF IInv, NextIsNew, On
  <2> QED
      BY <1>1, <2>2 DEF IInv, NextIsNew
<1>18. UnderWay'
    BY <1>11 DEF IInv, UnderWay
<1>19. ChangesSurvive'
  <2>1. View = Merge(mem, log) /\ View' = Merge(mem', log')
      BY DEF View
  <2>2. View' = View
      BY <1>1, <1>5, <1>6, <1>9, <2>1, MergeEmpty
  <2> QED
      BY <1>1, <2>2 DEF IInv, ChangesSurvive
<1> QED
    BY <1>8, <1>9, <1>12, <1>13, <1>14, <1>15, <1>16, <1>17, <1>18, <1>19

\* A store that does not change changes tamely.
LEMMA TameSelf == ASSUME NEW s PROVE Tame(s, s)
    BY DEF Tame

\* The next occurrence stays new when the store changes tamely and no job starts.
LEMMA NextStep ==
    ASSUME IInv, UNCHANGED <<fired, up>>, now' \in Nat, now <= now', Tame(mem, mem'), mem' \in Store,
           \A k \in Jobs : timer.job = k /\ timer'.job # k /\ On(mem', k) /\ mem'[k].next # None
                              => mem'[k].next > now
    PROVE  NextIsNew'
<1>1. \A x \in fired : x[2] <= now /\ x[2] \in Nat /\ now \in Nat
    BY CronAssumption DEF IInv, NextIsNew, TypeOK
<1>2. \A x \in fired : x[2] <= now'
    BY <1>1
<1>3. ASSUME NEW k \in Jobs, NEW n \in Nat, n > now PROVE <<k, n>> \notin fired
  <2>1. <<k, n>>[2] = n
      OBVIOUS
  <2> QED
      BY <1>1, <1>3, <2>1
<1>4. ASSUME up = "running", NEW k \in Jobs, On(mem', k), mem'[k].next # None, timer'.job # k
      PROVE  <<k, mem'[k].next>> \notin fired
  <2>1. mem'[k].next \in Nat
      BY CronAssumption DEF Store, Job
  <2>2. CASE mem'[k].next > now
      BY <1>3, <2>1, <2>2
  <2>3. CASE ~(mem'[k].next > now)
    <3>1. On(mem, k) /\ mem'[k].next = mem[k].next
        BY <1>4, <2>3 DEF Tame
    <3>2. timer.job # k
        BY <1>4, <2>3
    <3> QED
        BY <1>4, <3>1, <3>2 DEF IInv, NextIsNew
  <2> QED
      BY <2>2, <2>3
<1> QED
    BY <1>2, <1>4 DEF NextIsNew

\* A job under way keeps having fired.
LEMMA UnderWayStep ==
    ASSUME IInv, fired \subseteq fired', timer'.job = NoJob \/ timer'.job = timer.job, manual' = manual
    PROVE  UnderWay'
<1>1. \A k : HasFired(k) => HasFired(k)'
    BY DEF HasFired
<1> QED
    BY <1>1 DEF IInv, UnderWay

\* Neither changes when the store and the jobs under way do not.
LEMMA SameJobs ==
    ASSUME IInv, UNCHANGED <<fired, up, mem, manual>>, timer'.job = timer.job,
           now' = now \/ now' = now + 1
    PROVE  NextIsNew' /\ UnderWay'
<1>1. now \in Nat /\ now' \in Nat /\ now <= now' /\ mem' \in Store
    BY CronAssumption DEF IInv, TypeOK
<1>2. Tame(mem, mem')
    BY TameSelf
<1>3. NextIsNew'
    BY <1>1, <1>2, NextStep
<1> QED
    BY <1>3, UnderWayStep

-----------------------------------------------------------------------------
(* The actions.                                                            *)

\* The save after a merge.
LEMMA MergeSavedOK == ASSUME IInv, MergeSaved PROVE IInv'
<1>1. /\ UNCHANGED <<now, log, mem, up, timer, manual, turn, history, faults, calls>>
      /\ UNCHANGED <<fired, accepted, withdrawn, revoked, open, saveErrors>>
      /\ disk' = mem /\ dirty' = FALSE /\ up # "down" /\ call.merged
    BY DEF MergeSaved, SaveOK, history, IInv, Phases
<1>2. /\ call' \in Call /\ call'.op = call.op /\ call'.job = call.job /\ ~call'.merged
      /\ call.op # "none"
    BY DEF MergeSaved, IInv, TypeOK, Call, Phases
<1>3. TypeOK'
    BY <1>1, <1>2 DEF IInv, TypeOK
<1>4. Phases' /\ SchedulerAlive'
    BY <1>1, <1>2 DEF IInv, Phases, SchedulerAlive, InTick
<1>5. Synced'
    BY <1>1 DEF Synced
<1>6. Known' /\ Off' /\ ChangesSurvive'
    BY <1>1, <1>2, TameSelf, StoreStep
<1>7. NextIsNew' /\ UnderWay'
    BY <1>1, SameJobs
<1> QED
    BY <1>3, <1>4, <1>5, <1>6, <1>7 DEF IInv

\* It raises.
LEMMA MergeRaisesOK == ASSUME IInv, MergeRaises PROVE IInv'
<1>1. /\ UNCHANGED <<now, log, mem, up, manual, turn, history, faults, calls>>
      /\ UNCHANGED <<fired, accepted, withdrawn, revoked, open>>
      /\ call' = Idle /\ dirty' = TRUE /\ up = "running" /\ call.merged
      /\ manual = <<>> /\ timer.pc # "tick" /\ timer.job = NoJob
    BY DEF MergeRaises, SaveRaises, history, IInv, TypeOK, Phases
<1>2. /\ disk' = disk \/ disk' = mem
      /\ disk' \in Store /\ saveErrors' \in 0..MaxSaveErrors
    BY SavedIs DEF MergeRaises, IInv, TypeOK
<1>3. call' \in Call /\ call'.op = "none" /\ ~call'.merged
    BY <1>1, IdleIs
<1>4. /\ timer' \in Timer /\ timer'.job = NoJob /\ ~timer'.ran
      /\ timer'.pc # "tick" /\ (timer'.pc = timer.pc \/ timer'.pc = "asleep")
  <2>1. WakeAt(mem, now) \in Nat
      BY WakeIn DEF IInv, TypeOK
  <2>2. timer' = timer \/ timer' = Asleep(WakeAt(mem, now))
      BY DEF MergeRaises
  <2> QED
      BY <1>1, <2>1, <2>2, AsleepIs DEF IInv, TypeOK, Phases
<1>5. TypeOK'
    BY <1>1, <1>2, <1>3, <1>4 DEF IInv, TypeOK
<1>6. Phases' /\ SchedulerAlive'
    BY <1>1, <1>3, <1>4 DEF IInv, Phases, SchedulerAlive, InTick, Edits
<1>7. Synced'
    BY <1>1 DEF Synced
<1>8. Known' /\ Off' /\ ChangesSurvive'
    BY <1>1, <1>2, <1>3, TameSelf, StoreStep
<1>9. NextIsNew' /\ UnderWay'
    BY <1>1, <1>4, SameJobs
<1> QED
    BY <1>5, <1>6, <1>7, <1>8, <1>9 DEF IInv

\* register_system_job and remove_system_job.
LEMMA RegisterOK == ASSUME IInv, Register PROVE IInv'
<1>1. /\ UNCHANGED <<now, log, timer, manual, call, turn, history, faults, calls>>
      /\ UNCHANGED <<fired, accepted, withdrawn, revoked, open, saveErrors>>
      /\ up = "down" /\ up' = "registering" /\ dirty' = FALSE
      /\ mem' = Merge(disk, log) /\ disk' = Merge(disk, log)
    BY DEF Register, SaveOK, history
<1>2. call.op = "none" /\ ~call.merged
    BY <1>1 DEF IInv, Phases
<1>3. mem' \in Store /\ disk' \in Store /\ disk \in Store /\ log \in Seq(Action)
    BY <1>1, MergeIn DEF IInv, TypeOK, Known
<1>4. TypeOK'
    BY <1>1, <1>3 DEF IInv, TypeOK
<1>5. Phases' /\ SchedulerAlive'
    BY <1>1, <1>2 DEF IInv, Phases, SchedulerAlive, InTick
<1>6. Synced'
    BY <1>1 DEF Synced
<1>7. ASSUME NEW k \in Jobs
      PROVE  \/ mem'[k] = disk[k] \/ ~mem'[k].known
             \/ Adds(k) /\ Lines(log, k) # {}
  <2>1. CASE Lines(log, k) = {}
      BY <1>1, <2>1, MergeKeeps
  <2>2. CASE Lines(log, k) # {}
    <3>1. PICK i \in 1..Len(log) : log[i].job = k /\ mem'[k] = Decided(log[i])
        BY <1>1, <1>3, <2>2, MergeDecides
    <3>2. log[i] \in Action /\ (log[i].op = "add" => log[i].rec.known)
        BY <1>3 DEF IInv, Known
    <3>3. mem'[k].known <=> log[i].op = "add"
        BY <3>1, <3>2, DecidedIs
    <3> QED
        BY <2>2, <3>1, <3>3 DEF Adds
  <2> QED
      BY <2>1, <2>2
<1>8. \A k : (Adds(k)' <=> Adds(k)) /\ (HasFired(k)' <=> HasFired(k))
    BY <1>1 DEF Adds, HasFired
<1>9. Known'
    BY <1>1, <1>2, <1>7, <1>8 DEF IInv, Known
<1>10. Off'
    BY <1>1, <1>7 DEF IInv, Off, On, Known, TypeOK
<1>11. NextIsNew' /\ UnderWay'
    BY <1>1, <1>8 DEF IInv, NextIsNew, UnderWay
<1>12. ChangesSurvive'
  <2>1. View = Merge(disk, log) /\ View' = Merge(Merge(disk, log), log)
      BY <1>1 DEF View
  <2>2. \A j \in Jobs : View'[j] = View[j]
      BY <1>3, <2>1, MergeAgain
  <2> QED
      BY <1>1, <2>2 DEF IInv, ChangesSurvive
<1> QED
    BY <1>4, <1>5, <1>6, <1>9, <1>10, <1>11, <1>12 DEF IInv

\* start loads the store.
LEMMA StartLoadOK == ASSUME IInv, StartLoad PROVE IInv'
<1>1. /\ UNCHANGED <<now, up, timer, manual, turn, history, faults, saveErrors, calls, disk, dirty>>
      /\ up = "registering" /\ call.op = "none" /\ ~InTick
    BY IdleIs DEF StartLoad, Enter, LoopFree, InTick
<1>2. /\ mem' \in Store /\ log' \in Seq(Action) /\ call' \in Call
      /\ Phases' /\ SchedulerAlive' /\ Synced' /\ Known' /\ Off'
      /\ NextIsNew' /\ UnderWay' /\ ChangesSurvive'
  <2> DEFINE o == "start"
             j == NoJob
  <2>1. /\ mem' = IF Reloads THEN Merge(disk, log) ELSE mem
        /\ log' = IF Reloads /\ log # <<>> THEN <<>> ELSE log
        /\ call' = [op |-> o, job |-> j, merged |-> (Reloads /\ log # <<>>)]
      BY DEF StartLoad, Enter
  <2>2. o \in Edits \cup {"start", "tick", "run", "read"} /\ j \in Jobs \cup {NoJob} /\ o = "start"
        /\ o \notin Edits
      BY DEF Edits
  <2> HIDE DEF o, j
  <2> QED
      BY <1>1, <2>1, <2>2, ReloadStep
<1>3. TypeOK'
    BY <1>1, <1>2 DEF IInv, TypeOK, history
<1> QED
    BY <1>2, <1>3 DEF IInv

\* start recomputes, saves and arms.
LEMMA StartOK == ASSUME IInv, Start PROVE IInv'
<1>1. /\ UNCHANGED <<now, log, manual, turn, history, faults, calls, saveErrors>>
      /\ UNCHANGED <<fired, accepted, withdrawn, revoked, open>>
      /\ call.op = "start" /\ up = "registering" /\ up' = "running" /\ call' = Idle /\ dirty' = FALSE
      /\ mem' = RecomputeNextRuns(mem, now) /\ disk' = mem' /\ timer' = Asleep(WakeAt(mem', now))
    BY DEF Start, SaveOK, history, IInv, TypeOK, Phases
<1>2. mem \in Store /\ now \in 1..MaxTime /\ mem' \in Store
    BY <1>1, RecomputedIs DEF IInv, TypeOK
<1>3. \A k \in Jobs : /\ mem'[k].known = mem[k].known /\ mem'[k].enabled = mem[k].enabled
                      /\ On(mem, k) /\ mem'[k].next # None => mem'[k].next > now
    BY <1>1, <1>2, RecomputedIs
<1>4. /\ timer' \in Timer /\ timer'.pc = "asleep" /\ timer'.job = NoJob /\ ~timer'.ran
      /\ call' \in Call /\ call'.op = "none" /\ ~call'.merged
  <2>1. WakeAt(mem', now) \in Nat
      BY <1>2, WakeIn
  <2> QED
      BY <1>1, <2>1, AsleepIs, IdleIs
<1>5. TypeOK'
    BY <1>1, <1>2, <1>4 DEF IInv, TypeOK
<1>6. Phases' /\ SchedulerAlive'
    BY <1>1, <1>4 DEF Phases, SchedulerAlive, InTick, Edits
<1>7. Synced'
    BY <1>1 DEF Synced
<1>8. Known' /\ Off' /\ ChangesSurvive'
  <2>1. Tame(mem, mem')
      BY <1>3 DEF Tame, On
  <2> QED
      BY <1>1, <1>3, <1>4, <2>1, StoreStep
<1>9. NextIsNew'
  <2>1. \A x \in fired : x[2] <= now /\ x[2] \in Nat /\ now \in Nat
      BY CronAssumption DEF IInv, NextIsNew, TypeOK
  <2>2. ASSUME NEW k \in Jobs, On(mem', k), mem'[k].next # None
        PROVE  <<k, mem'[k].next>> \notin fired
    <3>1. mem'[k].next > now /\ mem'[k].next \in Nat
        BY <1>2, <1>3, <2>2, CronAssumption DEF On, Store, Job
    <3>2. <<k, mem'[k].next>>[2] = mem'[k].next
        OBVIOUS
    <3> QED
        BY <2>1, <3>1, <3>2
  <2> QED
      BY <1>1, <2>1, <2>2 DEF NextIsNew
<1>10. UnderWay'
    BY <1>1, <1>4, UnderWayStep
<1> QED
    BY <1>5, <1>6, <1>7, <1>8, <1>9, <1>10 DEF IInv

\* A tick that finds the store dirty saves it.
LEMMA TickSavesOK == ASSUME IInv, TickSaves PROVE IInv'
<1>1. /\ UNCHANGED <<now, log, mem, up, manual, call, turn, history, faults, calls>>
      /\ UNCHANGED <<fired, accepted, withdrawn, revoked, open>>
      /\ up = "running" /\ timer.pc = "asleep" /\ call = Idle
    BY DEF TickSaves, Wakes, history
<1>2. mem \in Store /\ now \in 1..MaxTime /\ call.op = "none" /\ ~call.merged /\ timer.job = NoJob
    BY <1>1, IdleIs DEF IInv, TypeOK, Phases
<1>3. /\ disk' = disk \/ disk' = mem
      /\ disk' \in Store /\ dirty' \in BOOLEAN /\ (~dirty' => disk' = mem)
      /\ saveErrors' \in 0..MaxSaveErrors
    BY <1>2, SavedIs DEF TickSaves, IInv
<1>4. /\ timer' \in Timer /\ timer'.job = NoJob /\ ~timer'.ran
      /\ timer'.pc = IF manual # <<>> THEN "none" ELSE "asleep"
    BY <1>2, NoTimerIs, ArmedIs DEF TickSaves
<1>5. TypeOK'
    BY <1>1, <1>3, <1>4 DEF IInv, TypeOK
<1>6. Phases' /\ SchedulerAlive'
    BY <1>1, <1>2, <1>4 DEF IInv, Phases, SchedulerAlive, InTick
<1>7. Synced'
    BY <1>1, <1>3 DEF Synced
<1>8. Known' /\ Off' /\ ChangesSurvive'
    BY <1>1, <1>3, TameSelf, StoreStep
<1>9. NextIsNew' /\ UnderWay'
    BY <1>1, <1>2, <1>4, SameJobs
<1> QED
    BY <1>5, <1>6, <1>7, <1>8, <1>9 DEF IInv

\* A tick loads the store.
LEMMA TickLoadOK == ASSUME IInv, TickLoad PROVE IInv'
<1>1. /\ UNCHANGED <<now, up, timer, manual, turn, history, faults, saveErrors, calls, disk, dirty>>
      /\ up = "running" /\ timer.pc = "asleep" /\ call.op = "none" /\ ~InTick
    BY IdleIs DEF TickLoad, Wakes, Enter, LoopFree, InTick
<1>2. /\ mem' \in Store /\ log' \in Seq(Action) /\ call' \in Call
      /\ Phases' /\ SchedulerAlive' /\ Synced' /\ Known' /\ Off'
      /\ NextIsNew' /\ UnderWay' /\ ChangesSurvive'
  <2> DEFINE o == "tick"
             j == NoJob
  <2>1. /\ mem' = IF Reloads THEN Merge(disk, log) ELSE mem
        /\ log' = IF Reloads /\ log # <<>> THEN <<>> ELSE log
        /\ call' = [op |-> o, job |-> j, merged |-> (Reloads /\ log # <<>>)]
      BY DEF TickLoad, Enter
  <2>2. o \in Edits \cup {"start", "tick", "run", "read"} /\ j \in Jobs \cup {NoJob} /\ o = "tick"
        /\ o \notin Edits
      BY DEF Edits
  <2> HIDE DEF o, j
  <2> QED
      BY <1>1, <2>1, <2>2, ReloadStep
<1>3. TypeOK'
    BY <1>1, <1>2 DEF IInv, TypeOK, history
<1> QED
    BY <1>2, <1>3 DEF IInv

\* A tick collects the due jobs.
LEMMA TickDueOK == ASSUME IInv, TickDue PROVE IInv'
<1>1. /\ UNCHANGED <<now, disk, log, mem, dirty, up, manual, turn, history, faults, saveErrors, calls>>
      /\ UNCHANGED <<fired, accepted, withdrawn, revoked, open>>
      /\ call.op = "tick" /\ ~call.merged /\ call' = Idle
      /\ up = "running" /\ timer.job = NoJob /\ ~timer.ran
    BY DEF TickDue, store, history, IInv, TypeOK, Phases
<1>2. /\ timer' \in Timer /\ timer'.pc = "tick" /\ timer'.job = NoJob /\ ~timer'.ran
  <2> DEFINE D == {j \in Jobs : Due(mem, j, now)}
  <2>1. timer' = [NoTimer EXCEPT !.pc = "tick", !.due = D] /\ D \in SUBSET Jobs
      BY DEF TickDue
  <2> HIDE DEF D
  <2> QED
      BY <2>1, NoTimerIs DEF Timer
<1>3. call' \in Call /\ call'.op = "none" /\ ~call'.merged
    BY <1>1, IdleIs
<1>4. TypeOK'
    BY <1>1, <1>2, <1>3 DEF IInv, TypeOK
<1>5. Phases' /\ SchedulerAlive'
    BY <1>1, <1>2, <1>3 DEF IInv, Phases, SchedulerAlive, InTick, Edits
<1>6. Synced'
    BY <1>1, <1>2 DEF IInv, Synced
<1>7. Known' /\ Off' /\ ChangesSurvive'
    BY <1>1, <1>3, TameSelf, StoreStep
<1>8. NextIsNew' /\ UnderWay'
    BY <1>1, <1>2, SameJobs
<1> QED
    BY <1>4, <1>5, <1>6, <1>7, <1>8 DEF IInv

\* A tick passes over a job of its list that is not due any more.
LEMMA TickSkipsOK == ASSUME IInv, NEW j \in Jobs, TickRunsJob(j), ~StillDue(j) PROVE IInv'
<1>1. /\ UNCHANGED <<now, disk, log, mem, dirty, up, manual, call, turn, faults, saveErrors, calls>>
      /\ UNCHANGED <<fired, accepted, withdrawn, revoked, open>>
      /\ timer.pc = "tick" /\ timer.job = NoJob /\ timer' = [timer EXCEPT !.due = @ \ {j}]
    BY DEF TickRunsJob, InTick, store
<1>2. /\ timer' \in Timer /\ timer'.pc = timer.pc /\ timer'.job = timer.job
      /\ timer'.ran = timer.ran
    BY <1>1 DEF IInv, TypeOK, Timer
<1>3. TypeOK'
    BY <1>1, <1>2 DEF IInv, TypeOK
<1>4. Phases' /\ SchedulerAlive'
    BY <1>1, <1>2 DEF IInv, Phases, SchedulerAlive, InTick
<1>5. Synced'
    BY <1>1, <1>2 DEF IInv, Synced
<1>6. Known' /\ Off' /\ ChangesSurvive'
    BY <1>1, TameSelf, StoreStep
<1>7. NextIsNew' /\ UnderWay'
    BY <1>1, <1>2, SameJobs
<1> QED
    BY <1>3, <1>4, <1>5, <1>6, <1>7 DEF IInv

\* A tick starts a due job.
LEMMA TickRunsOK == ASSUME IInv, NEW j \in Jobs, TickRunsJob(j), StillDue(j) PROVE IInv'
<1>1. /\ UNCHANGED <<now, disk, log, mem, dirty, up, manual, call, faults, saveErrors, calls>>
      /\ UNCHANGED <<accepted, withdrawn, revoked, open>>
      /\ timer.pc = "tick" /\ timer.job = NoJob /\ up = "running" /\ call.op = "none"
      /\ timer' = [timer EXCEPT !.due = @ \ {j}, !.job = j, !.ran = TRUE]
      /\ fired' = fired \cup {<<j, mem[j].next>>}
      /\ turn' = [turn EXCEPT ![j] = @ + 1]
    BY DEF TickRunsJob, InTick, store, IInv, TypeOK, Phases
<1>2. On(mem, j) /\ mem[j].next # None /\ now >= mem[j].next
    BY DEF StillDue, Due, On
<1>3. mem[j].next \in 0..MaxTime /\ mem[j].next <= now
  <2>1. mem[j].next \in 0..MaxTime + Period /\ now \in 1..MaxTime
      BY DEF IInv, TypeOK, Store, Job
  <2> QED
      BY <1>2, <2>1, CronAssumption
<1>4. timer' \in Timer /\ timer'.pc = "tick" /\ timer'.job = j /\ timer'.ran
  <2> DEFINE y == TRUE
  <2>1. timer' = [timer EXCEPT !.due = @ \ {j}, !.job = j, !.ran = y] /\ y \in BOOLEAN /\ y
      BY <1>1
  <2> HIDE DEF y
  <2>2. timer' \in Timer /\ timer'.pc = timer.pc /\ timer'.job = j /\ timer'.ran = y
      BY <2>1 DEF IInv, TypeOK, Timer
  <2> QED
      BY <1>1, <2>1, <2>2
<1>5. turn' \in [Jobs -> Nat] /\ fired' \subseteq Jobs \X (0..MaxTime)
    BY <1>1, <1>3 DEF IInv, TypeOK
<1>6. TypeOK'
    BY <1>1, <1>4, <1>5 DEF IInv, TypeOK
<1>7. Phases' /\ SchedulerAlive'
    BY <1>1, <1>4 DEF IInv, Phases, SchedulerAlive, InTick
<1>8. Synced'
    BY <1>4 DEF Synced
<1>9. Known' /\ Off' /\ ChangesSurvive'
    BY <1>1, <1>2, <1>3, FiredStep DEF On
<1>10. NextIsNew'
  <2>1. \A x \in fired' : x[2] <= now
      BY <1>1, <1>3 DEF IInv, NextIsNew
  <2>2. ASSUME NEW k \in Jobs, On(mem, k), mem[k].next # None, k # j
        PROVE  <<k, mem[k].next>> \notin fired'
    <3>1. <<k, mem[k].next>> # <<j, mem[j].next>>
        BY <2>2
    <3>2. timer.job # k
        BY <1>1, CronAssumption
    <3> QED
        BY <1>1, <2>2, <3>1, <3>2 DEF IInv, NextIsNew
  <2> QED
      BY <1>1, <1>4, <2>1, <2>2 DEF NextIsNew
<1>11. UnderWay'
  <2>1. \A k : HasFired(k) => HasFired(k)'
      BY <1>1 DEF HasFired
  <2>2. HasFired(j)'
    <3>1. <<j, mem[j].next>>[1] = j
        OBVIOUS
    <3> QED
        BY <1>1, <3>1 DEF HasFired
  <2> QED
      BY <1>1, <1>4, <2>1, <2>2 DEF IInv, UnderWay
<1> QED
    BY <1>6, <1>7, <1>8, <1>9, <1>10, <1>11 DEF IInv

\* A tick ends.
LEMMA TickEndsOK == ASSUME IInv, TickEnds PROVE IInv'
<1>1. /\ UNCHANGED <<now, log, mem, up, manual, call, turn, history, faults, calls>>
      /\ UNCHANGED <<fired, accepted, withdrawn, revoked, open>>
      /\ timer.pc = "tick" /\ timer.job = NoJob /\ up = "running" /\ call.op = "none" /\ ~call.merged
    BY DEF TickEnds, InTick, history, IInv, TypeOK, Phases
<1>2. mem \in Store /\ now \in 1..MaxTime
    BY DEF IInv, TypeOK
<1>3. /\ disk' = disk \/ disk' = mem
      /\ disk' \in Store /\ dirty' \in BOOLEAN /\ (~dirty' => disk' = mem)
      /\ saveErrors' \in 0..MaxSaveErrors
  <2>1. CASE timer.ran
      BY <1>2, <2>1, SavedIs DEF TickEnds, IInv
  <2>2. CASE ~timer.ran
    <3>1. UNCHANGED <<disk, dirty, saveErrors>>
        BY <2>2 DEF TickEnds
    <3> QED
        BY <1>1, <2>2, <3>1 DEF IInv, TypeOK, Synced
  <2> QED
      BY <2>1, <2>2
<1>4. /\ timer' \in Timer /\ timer'.job = NoJob /\ ~timer'.ran
      /\ timer'.pc = IF manual # <<>> THEN "none" ELSE "asleep"
    BY <1>2, NoTimerIs, ArmedIs DEF TickEnds
<1>5. TypeOK'
    BY <1>1, <1>3, <1>4 DEF IInv, TypeOK
<1>6. Phases' /\ SchedulerAlive'
    BY <1>1, <1>4 DEF IInv, Phases, SchedulerAlive, InTick
<1>7. Synced'
    BY <1>1, <1>3 DEF Synced
<1>8. Known' /\ Off' /\ ChangesSurvive'
    BY <1>1, <1>3, TameSelf, StoreStep
<1>9. NextIsNew' /\ UnderWay'
    BY <1>1, <1>4, SameJobs
<1> QED
    BY <1>5, <1>6, <1>7, <1>8, <1>9 DEF IInv

\* The turns of a job stay counted when its await ends.
LEMMA AnsweredIs ==
    ASSUME TypeOK, NEW j \in Jobs, JobAnswered(j, turn)
    PROVE  turn' \in [Jobs -> Nat]
<1>1. CASE turn' = turn
    BY <1>1 DEF TypeOK
<1>2. CASE turn[j] > 0 /\ turn' = [turn EXCEPT ![j] = @ - 1]
  <2>1. turn[j] - 1 \in Nat
      BY <1>2 DEF TypeOK
  <2> QED
      BY <1>2, <2>1 DEF TypeOK
<1> QED
    BY <1>1, <1>2 DEF JobAnswered

\* The job of a tick ends.
LEMMA TickJobEndsOK == ASSUME IInv, TickJobEnds PROVE IInv'
<1> DEFINE j == timer.job
<1>1. /\ UNCHANGED <<now, disk, log, dirty, up, manual, call, history, faults, saveErrors, calls>>
      /\ UNCHANGED <<fired, accepted, withdrawn, revoked, open>>
      /\ timer.pc = "tick" /\ j # NoJob /\ call.op = "none" /\ timer.ran /\ up = "running"
      /\ timer' = [timer EXCEPT !.job = NoJob] /\ mem' = Executed(mem, j)
      /\ j \in Jobs /\ ~call.merged
    BY IdleIs DEF TickJobEnds, history, IInv, TypeOK, Timer, Phases
<1>2. mem \in Store /\ now \in 1..MaxTime /\ turn' \in [Jobs -> Nat]
    BY <1>1, AnsweredIs DEF IInv, TypeOK, TickJobEnds
<1>3. /\ mem' \in Store /\ Tame(mem, mem')
      /\ \A k \in Jobs : mem[k].known /\ ~mem'[k].known => k = j /\ j \in DeleteAfterRun
      /\ On(mem', j) /\ mem'[j].next # None => mem'[j].next > now
    BY <1>1, <1>2, ExecutedIs
<1>4. timer' \in Timer /\ timer'.pc = "tick" /\ timer'.job = NoJob /\ timer'.ran
    BY <1>1 DEF IInv, TypeOK, Timer
<1>5. TypeOK'
    BY <1>1, <1>2, <1>3, <1>4 DEF IInv, TypeOK
<1>6. Phases' /\ SchedulerAlive'
    BY <1>1, <1>4 DEF IInv, Phases, SchedulerAlive, InTick
<1>7. Synced'
    BY <1>4 DEF Synced
<1>8. Known' /\ Off' /\ ChangesSurvive'
  <2>1. HasFired(j)
      BY <1>1 DEF IInv, UnderWay
  <2> QED
      BY <1>1, <1>3, <2>1, StoreStep
<1>9. NextIsNew'
  <2>1. now \in Nat
      BY <1>2, CronAssumption
  <2> QED
      BY <1>1, <1>3, <2>1, NextStep
<1>10. UnderWay'
    BY <1>1, <1>4, UnderWayStep
<1> QED
    BY <1>5, <1>6, <1>7, <1>8, <1>9, <1>10 DEF IInv

\* A turn ends in its session.
LEMMA TurnEndsOK == ASSUME IInv, NEW j \in Jobs, TurnEnds(j) PROVE IInv'
<1>1. /\ UNCHANGED <<now, disk, log, mem, dirty, up, timer, manual, call, history, faults,
                     saveErrors, calls>>
      /\ UNCHANGED <<fired, accepted, withdrawn, revoked, open>>
      /\ turn' = [turn EXCEPT ![j] = @ - 1]
    BY DEF TurnEnds, store, history
<1>2. turn[j] - 1 \in Nat
  <2> DEFINE M == {m \in 1..Len(manual) : manual[m] = j}
  <2>1. Len(manual) \in Nat
      BY LenProperties DEF IInv, TypeOK
  <2>2. Cardinality(M) \in Nat
    <3>1. IsFiniteSet(1..Len(manual))
        BY <2>1, FS_Interval
    <3>2. M \subseteq 1..Len(manual)
        OBVIOUS
    <3> HIDE DEF M
    <3>3. IsFiniteSet(M)
        BY <3>1, <3>2, FS_Subset
    <3> QED
        BY <3>3, FS_CardinalityType
  <2>3. turn[j] > Cardinality(M) + (IF timer.job = j THEN 1 ELSE 0)
      BY DEF TurnEnds
  <2> HIDE DEF M
  <2> QED
      BY <2>2, <2>3 DEF IInv, TypeOK
<1>3. TypeOK'
    BY <1>1, <1>2 DEF IInv, TypeOK
<1>4. Phases' /\ SchedulerAlive' /\ Synced'
    BY <1>1 DEF IInv, Phases, SchedulerAlive, Synced, InTick
<1>5. Known' /\ Off' /\ ChangesSurvive'
    BY <1>1, TameSelf, StoreStep
<1>6. NextIsNew' /\ UnderWay'
    BY <1>1, SameJobs
<1> QED
    BY <1>3, <1>4, <1>5, <1>6 DEF IInv

\* run_job loads the store.
LEMMA ManualLoadOK == ASSUME IInv, NEW i \in Jobs, ManualLoad(i) PROVE IInv'
<1>1. /\ UNCHANGED <<now, up, timer, manual, turn, history, faults, saveErrors, disk, dirty>>
      /\ up = "running" /\ call.op = "none" /\ ~InTick
      /\ calls' = calls + 1 /\ calls < MaxCalls
    BY IdleIs DEF ManualLoad, Enter, LoopFree, InTick
<1>2. /\ mem' \in Store /\ log' \in Seq(Action) /\ call' \in Call
      /\ Phases' /\ SchedulerAlive' /\ Synced' /\ Known' /\ Off'
      /\ NextIsNew' /\ UnderWay' /\ ChangesSurvive'
  <2> DEFINE o == "run"
  <2>1. /\ mem' = IF Reloads THEN Merge(disk, log) ELSE mem
        /\ log' = IF Reloads /\ log # <<>> THEN <<>> ELSE log
        /\ call' = [op |-> o, job |-> i, merged |-> (Reloads /\ log # <<>>)]
      BY DEF ManualLoad, Enter
  <2>2. o \in Edits \cup {"start", "tick", "run", "read"} /\ i \in Jobs \cup {NoJob} /\ o = "run"
        /\ o \notin Edits
      BY DEF Edits
  <2> HIDE DEF o
  <2> QED
      BY <1>1, <2>1, <2>2, ReloadStep
<1>3. calls' \in 0..MaxCalls
    BY <1>1, CronAssumption DEF IInv, TypeOK
<1>4. TypeOK'
    BY <1>1, <1>2, <1>3 DEF IInv, TypeOK, history
<1> QED
    BY <1>2, <1>4 DEF IInv

\* An edit or a read loads the store.
LEMMA CallsOK ==
    ASSUME IInv, NEW o \in Edits \cup {"read"}, NEW i \in Jobs \cup {NoJob},
           o \in Edits => i \in Jobs, Calls(o, i)
    PROVE  IInv'
<1>1. /\ UNCHANGED <<now, up, timer, manual, turn, history, faults, saveErrors, disk, dirty>>
      /\ up = "running" /\ call.op = "none" /\ ~InTick
      /\ calls' = calls + 1 /\ calls < MaxCalls
      /\ o = "add" => i \notin accepted \cup open
    BY IdleIs DEF Calls, Fresh, Enter, LoopFree, InTick
<1>2. /\ mem' \in Store /\ log' \in Seq(Action) /\ call' \in Call
      /\ Phases' /\ SchedulerAlive' /\ Synced' /\ Known' /\ Off'
      /\ NextIsNew' /\ UnderWay' /\ ChangesSurvive'
  <2>1. /\ mem' = IF Reloads THEN Merge(disk, log) ELSE mem
        /\ log' = IF Reloads /\ log # <<>> THEN <<>> ELSE log
        /\ call' = [op |-> o, job |-> i, merged |-> (Reloads /\ log # <<>>)]
      BY DEF Calls, Enter
  <2>2. o \in Edits \cup {"start", "tick", "run", "read"}
        /\ o # "tick" /\ o # "start" /\ o # "run"
      BY DEF Edits
  <2> QED
      BY <1>1, <2>1, <2>2, ReloadStep
<1>3. calls' \in 0..MaxCalls
    BY <1>1, CronAssumption DEF IInv, TypeOK
<1>4. TypeOK'
    BY <1>1, <1>2, <1>3 DEF IInv, TypeOK, history
<1> QED
    BY <1>2, <1>4 DEF IInv

\* run_job loads the store after it saved it.
LEMMA ManualReloadsOK == ASSUME IInv, ManualReloads PROVE IInv'
<1>1. /\ UNCHANGED <<now, up, timer, manual, turn, history, faults, saveErrors, disk, dirty, calls>>
      /\ call.op = "saved" /\ up = "running" /\ ~InTick /\ call.job \in Jobs
    BY DEF ManualReloads, IInv, TypeOK, Phases
<1>2. /\ mem' \in Store /\ log' \in Seq(Action) /\ call' \in Call
      /\ Phases' /\ SchedulerAlive' /\ Synced' /\ Known' /\ Off'
      /\ NextIsNew' /\ UnderWay' /\ ChangesSurvive'
  <2> DEFINE o == "run"
             j == call.job
             b == Reloads /\ log # <<>>
  <2>1. /\ mem' = IF Reloads THEN Merge(disk, log) ELSE mem
        /\ log' = IF Reloads /\ log # <<>> THEN <<>> ELSE log
        /\ call' = [call EXCEPT !.op = o, !.merged = b]
      BY DEF ManualReloads
  <2>2. o \in Edits \cup {"start", "tick", "run", "read"} /\ j \in Jobs \cup {NoJob} /\ o = "run"
        /\ o \notin Edits /\ j \in Jobs /\ call \in Call
      BY <1>1 DEF Edits, IInv, TypeOK
  <2> HIDE DEF o, b
  <2>3. call' = [op |-> o, job |-> j, merged |-> b]
      BY <2>1, <2>2 DEF Call
  <2>4. call' = [op |-> o, job |-> j, merged |-> (Reloads /\ log # <<>>)]
      BY <2>3 DEF b
  <2> HIDE DEF j
  <2> QED
      BY <1>1, <2>1, <2>2, <2>4, ReloadStep
<1>3. TypeOK'
    BY <1>1, <1>2 DEF IInv, TypeOK, history
<1> QED
    BY <1>2, <1>3 DEF IInv

\* Whether a job executes.
LEMMA ActiveIs ==
    ASSUME TypeOK
    PROVE  Active # 0 <=> manual # <<>> \/ timer.pc = "tick"
<1>1. Len(manual) \in Nat /\ (manual = <<>> <=> Len(manual) = 0)
    BY LenProperties, EmptySeq DEF TypeOK
<1> QED
    BY <1>1 DEF Active

\* run_job saves a dirty store first, or is refused.
LEMMA ManualSavesOK == ASSUME IInv, NEW j \in Jobs, ManualSaves(j) PROVE IInv'
<1>1. /\ UNCHANGED <<now, log, mem, up, manual, turn, history, faults>>
      /\ UNCHANGED <<fired, accepted, withdrawn, revoked, open>>
      /\ up = "running" /\ call.op = "none" /\ ~InTick /\ ~call.merged
      /\ calls' = calls + 1 /\ calls < MaxCalls
    BY IdleIs DEF ManualSaves, LoopFree, InTick, history
<1>2. mem \in Store /\ now \in 1..MaxTime /\ timer \in Timer /\ calls' \in 0..MaxCalls
    BY <1>1, CronAssumption DEF IInv, TypeOK
<1>3. /\ disk' = disk \/ disk' = mem
      /\ disk' \in Store /\ dirty' \in BOOLEAN /\ (~dirty' => disk' = mem)
      /\ saveErrors' \in 0..MaxSaveErrors
    BY <1>2, SavedIs DEF ManualSaves, IInv
<1>4. /\ call' \in Call /\ call'.op \in {"none", "saved"} /\ ~call'.merged
      /\ call'.op = "saved" => call'.job = j
      /\ call'.op = "none" => call' = Idle
  <2>1. CASE call' = call
      BY <1>1, <2>1 DEF IInv, TypeOK, Phases
  <2>2. CASE call' = [op |-> "saved", job |-> j, merged |-> FALSE]
    <3> DEFINE o == "saved"
               f == FALSE
    <3>1. /\ o \in Edits \cup {"none", "start", "tick", "run", "saved", "read"}
          /\ f \in BOOLEAN /\ ~f /\ call' = [op |-> o, job |-> j, merged |-> f] /\ o = "saved"
        BY <2>2
    <3> HIDE DEF o, f
    <3> QED
        BY <3>1, CallIs
  <2> QED
      BY <2>1, <2>2 DEF ManualSaves
<1>5. /\ timer' \in Timer /\ timer'.job = timer.job /\ timer'.ran = timer.ran
      /\ timer'.pc = timer.pc \/ timer'.pc = "asleep"
      /\ timer.pc = "tick" => timer' = timer
  <2>1. CASE timer' = timer
      BY <1>2, <2>1
  <2>2. CASE timer' = Armed(mem, timer, Active # 0) /\ Active # 0
      BY <1>2, <2>2, ArmedIs
  <2>3. CASE timer' = Armed(mem, timer, Active # 0) /\ Active = 0
    <3>1. timer.pc # "tick"
        BY <2>3, ActiveIs DEF IInv
    <3>2. timer.job = NoJob /\ ~timer.ran /\ timer.ran \in BOOLEAN
        BY <1>2, <3>1 DEF IInv, Phases, Timer
    <3>3. timer' \in Timer /\ timer'.pc = "asleep" /\ timer'.job = NoJob /\ ~timer'.ran
        BY <1>2, <2>3, ArmedIs
    <3>4. timer'.ran \in BOOLEAN
        BY <3>3 DEF Timer
    <3> QED
        BY <3>1, <3>2, <3>3, <3>4
  <2> QED
      BY <2>1, <2>2, <2>3 DEF ManualSaves
<1>6. TypeOK'
    BY <1>1, <1>2, <1>3, <1>4, <1>5 DEF IInv, TypeOK
<1>7. Phases' /\ SchedulerAlive'
  <2>1. ~InTick'
      BY <1>1, <1>5 DEF InTick
  <2> QED
      BY <1>1, <1>4, <1>5, <2>1 DEF IInv, Phases, SchedulerAlive, Edits
<1>8. Synced'
    BY <1>1, <1>3, <1>5 DEF Synced
<1>9. Known' /\ Off' /\ ChangesSurvive'
    BY <1>1, <1>3, <1>4, TameSelf, StoreStep
<1>10. NextIsNew' /\ UnderWay'
    BY <1>1, <1>5, SameJobs
<1> QED
    BY <1>6, <1>7, <1>8, <1>9, <1>10 DEF IInv

\* run_job runs the job.
LEMMA ManualRunsOK ==
    ASSUME IInv, ManualStarts, NEW j, j = call.job, mem[j].known /\ mem[j].enabled
    PROVE  IInv'
<1>1. /\ UNCHANGED <<now, disk, log, mem, dirty, up, timer, faults, saveErrors, calls>>
      /\ UNCHANGED <<accepted, withdrawn, revoked, open>>
      /\ call.op = "run" /\ ~call.merged /\ call' = Idle /\ up = "running" /\ j \in Jobs
      /\ manual' = Append(manual, j)
      /\ turn' = [turn EXCEPT ![j] = @ + 1] /\ fired' = fired \cup {<<j, None>>}
    BY DEF ManualStarts, store, IInv, TypeOK, Phases
<1>2. /\ manual \in Seq(Jobs) /\ manual' \in Seq(Jobs) /\ manual' # <<>>
      /\ \A m \in 1..Len(manual') : manual'[m] = j \/ \E k \in 1..Len(manual) : manual'[m] = manual[k]
  <2>1. manual \in Seq(Jobs)
      BY DEF IInv, TypeOK
  <2>2. /\ manual' \in Seq(Jobs) /\ Len(manual') = Len(manual) + 1 /\ Len(manual) \in Nat
        /\ \A k \in 1..Len(manual) : manual'[k] = manual[k]
        /\ manual'[Len(manual) + 1] = j
      BY <1>1, <2>1, AppendProperties, LenProperties
  <2>3. manual' # <<>>
      BY <2>2
  <2>4. \A m \in 1..Len(manual') : m \in 1..Len(manual) \/ m = Len(manual) + 1
      BY <2>2
  <2> QED
      BY <2>1, <2>2, <2>3, <2>4
<1>3. None \in 0..MaxTime
    BY CronAssumption DEF None
<1>4. call' \in Call /\ call'.op = "none" /\ ~call'.merged
    BY <1>1, IdleIs
<1>5. turn' \in [Jobs -> Nat] /\ fired' \subseteq Jobs \X (0..MaxTime)
    BY <1>1, <1>3 DEF IInv, TypeOK
<1>6. TypeOK'
    BY <1>1, <1>2, <1>4, <1>5 DEF IInv, TypeOK
<1>7. Phases' /\ SchedulerAlive'
    BY <1>1, <1>2, <1>4 DEF IInv, Phases, SchedulerAlive, InTick, Edits
<1>8. Synced'
    BY <1>1 DEF IInv, Synced
<1>9. Known' /\ Off' /\ ChangesSurvive'
    BY <1>1, <1>3, <1>4, FiredStep
<1>10. NextIsNew'
  <2>1. \A x \in fired' : x[2] <= now
    <3>1. <<j, None>>[2] = 0 /\ 0 <= now
        BY CronAssumption DEF None, IInv, TypeOK
    <3> QED
        BY <1>1, <3>1 DEF IInv, NextIsNew
  <2>2. \A k \in Jobs : mem[k].next # None => <<k, mem[k].next>> # <<j, None>>
      OBVIOUS
  <2> QED
      BY <1>1, <2>1, <2>2 DEF IInv, NextIsNew
<1>11. UnderWay'
  <2>1. \A k : HasFired(k) => HasFired(k)'
      BY <1>1 DEF HasFired
  <2>2. HasFired(j)'
    <3>1. <<j, None>>[1] = j
        OBVIOUS
    <3> QED
        BY <1>1, <3>1 DEF HasFired
  <2> QED
      BY <1>1, <1>2, <2>1, <2>2 DEF IInv, UnderWay
<1> QED
    BY <1>6, <1>7, <1>8, <1>9, <1>10, <1>11 DEF IInv

\* run_job finds no enabled job.
LEMMA ManualRefusedOK ==
    ASSUME IInv, ManualStarts, ~(mem[call.job].known /\ mem[call.job].enabled)
    PROVE  IInv'
<1>1. /\ UNCHANGED <<now, disk, log, mem, dirty, up, manual, turn, faults, saveErrors, calls>>
      /\ UNCHANGED <<fired, accepted, withdrawn, revoked, open>>
      /\ call.op = "run" /\ ~call.merged /\ call' = Idle /\ up = "running"
      /\ timer' = Armed(mem, timer, Active # 0)
    BY DEF ManualStarts, store, IInv, TypeOK, Phases
<1>2. call' \in Call /\ call'.op = "none" /\ ~call'.merged
    BY <1>1, IdleIs
<1>3. /\ mem \in Store /\ now \in 1..MaxTime /\ timer \in Timer
      /\ timer.pc = "tick" => timer.job # NoJob
    BY <1>1 DEF IInv, TypeOK, Phases, InTick
<1>4. /\ timer' \in Timer /\ timer'.job = timer.job
      /\ timer'.ran <=> timer.ran
      /\ timer'.pc = timer.pc \/ timer'.pc = "asleep"
      /\ timer.pc = "tick" => timer' = timer
  <2>1. CASE Active # 0
      BY <1>1, <1>3, <2>1, ArmedIs
  <2>2. CASE Active = 0
    <3>1. timer.pc # "tick"
        BY <2>2, ActiveIs DEF IInv
    <3>2. timer.job = NoJob /\ ~timer.ran
        BY <3>1 DEF IInv, Phases
    <3>3. timer' \in Timer /\ timer'.pc = "asleep" /\ timer'.job = NoJob /\ ~timer'.ran
        BY <1>1, <1>3, <2>2, ArmedIs
    <3> QED
        BY <3>1, <3>2, <3>3
  <2> QED
      BY <2>1, <2>2
<1>5. TypeOK'
    BY <1>1, <1>2, <1>4 DEF IInv, TypeOK
<1>6. Phases' /\ SchedulerAlive'
    BY <1>1, <1>2, <1>3, <1>4 DEF IInv, Phases, SchedulerAlive, InTick, Edits
<1>7. Synced'
    BY <1>1, <1>4 DEF IInv, Synced
<1>8. Known' /\ Off' /\ ChangesSurvive'
    BY <1>1, <1>2, TameSelf, StoreStep
<1>9. NextIsNew' /\ UnderWay'
    BY <1>1, <1>4, SameJobs
<1> QED
    BY <1>5, <1>6, <1>7, <1>8, <1>9 DEF IInv

\* What is left when one element of a sequence is removed.
LEMMA RemovedIs ==
    ASSUME NEW S, NEW s \in Seq(S), NEW i \in 1..Len(s)
    PROVE  /\ RemoveAt(s, i) \in Seq(S)
           /\ \A m \in 1..Len(RemoveAt(s, i)) : \E k \in 1..Len(s) : RemoveAt(s, i)[m] = s[k]
<1> DEFINE T == {s[k] : k \in 1..Len(s)}
           x == SubSeq(s, 1, i - 1)
           y == SubSeq(s, i + 1, Len(s))
<1>1. Len(s) \in Nat /\ i \in 1..Len(s) /\ T \subseteq S
    BY LenProperties
<1>2. s \in Seq(T)
  <2>1. \A k \in 1..Len(s) : s[k] \in T
      OBVIOUS
  <2> HIDE DEF T
  <2> QED
      BY <2>1, SeqDef, LenProperties
<1>3. x \in Seq(T) /\ y \in Seq(T)
  <2> HIDE DEF T
  <2>1. x \in Seq(T)
      BY <1>1, <1>2, SubSeqProperties
  <2>2. y \in Seq(T)
      BY <1>1, <1>2, SubSeqProperties
  <2> QED
      BY <2>1, <2>2
<1>4. RemoveAt(s, i) = x \o y
    BY DEF RemoveAt
<1> DEFINE z == RemoveAt(s, i)
<1> HIDE DEF x, y
<1>5. z \in Seq(T)
  <2> HIDE DEF T
  <2> QED
      BY <1>3, <1>4, ConcatProperties
<1>6. z \in Seq(S) /\ \A m \in 1..Len(z) : z[m] \in T
  <2> HIDE DEF T, z
  <2>1. \A m \in 1..Len(z) : z[m] \in T
      BY <1>5, ElementOfSeq
  <2> QED
      BY <1>1, <1>5, <2>1, SeqDef, LenProperties
<1> QED
    BY <1>6

\* A manual run ends.
LEMMA ManualEndsOK ==
    ASSUME IInv, NEW m, ManualEnds(m), NEW j, j = manual[m]
    PROVE  IInv'
<1> DEFINE busy == timer.pc = "tick" \/ manual' # <<>>
<1>1. /\ UNCHANGED <<now, log, up, call, history, faults, calls>>
      /\ UNCHANGED <<fired, accepted, withdrawn, revoked, open>>
      /\ m \in 1..Len(manual) /\ call.op = "none" /\ ~call.merged /\ ~InTick
      /\ mem' = Executed(mem, j) /\ manual' = RemoveAt(manual, m)
      /\ timer' = Armed(mem', timer, busy)
    BY IdleIs DEF ManualEnds, LoopFree, InTick, RearmAfterRun, history
<1>2. /\ mem \in Store /\ now \in 1..MaxTime /\ timer \in Timer /\ manual \in Seq(Jobs)
      /\ busy \in BOOLEAN
    BY DEF IInv, TypeOK
<1>3. /\ j \in Jobs /\ HasFired(j) /\ up = "running"
  <2>1. manual # <<>>
      BY <1>1
  <2> QED
      BY <1>1, <1>2, <2>1 DEF IInv, Phases, UnderWay
<1>4. /\ mem' \in Store /\ Tame(mem, mem')
      /\ \A k \in Jobs : mem[k].known /\ ~mem'[k].known => k = j /\ j \in DeleteAfterRun
    BY <1>1, <1>2, <1>3, ExecutedIs
<1>5. /\ disk' = disk \/ disk' = mem'
      /\ disk' \in Store /\ dirty' \in BOOLEAN /\ (~dirty' => disk' = mem')
      /\ saveErrors' \in 0..MaxSaveErrors
  <2>1. SaveOK(mem') \/ SaveRaises(mem')
      BY <1>1 DEF ManualEnds
  <2> QED
      BY <1>4, <2>1, SavedIs DEF IInv
<1>6. turn' \in [Jobs -> Nat]
  <2>1. JobAnswered(j, turn)
      BY DEF ManualEnds
  <2> QED
      BY <1>3, <2>1, AnsweredIs DEF IInv
<1>7. /\ manual' \in Seq(Jobs)
      /\ \A i \in 1..Len(manual') : \E k \in 1..Len(manual) : manual'[i] = manual[k]
    BY <1>1, <1>2, RemovedIs
<1>8. /\ timer' \in Timer /\ timer'.job = timer.job /\ (timer'.ran <=> timer.ran)
      /\ timer.pc = "tick" => timer' = timer
      /\ timer.pc # "tick" => timer'.pc # "tick"
      /\ timer'.pc = "none" => manual' # <<>>
  <2>1. CASE busy
    <3>1. timer' = timer
        BY <1>1, <1>2, <1>4, <2>1, ArmedIs
    <3>2. timer.pc = "none" => manual' # <<>>
        BY <2>1
    <3> QED
        BY <1>2, <3>1, <3>2
  <2>2. CASE ~busy
    <3>1. timer.pc # "tick"
        BY <2>2
    <3>2. timer.job = NoJob /\ ~timer.ran
        BY <3>1 DEF IInv, Phases
    <3> HIDE DEF busy
    <3>3. timer' \in Timer /\ timer'.pc = "asleep" /\ timer'.job = NoJob /\ ~timer'.ran
        BY <1>1, <1>2, <1>4, <2>2, ArmedIs
    <3> QED
        BY <3>1, <3>2, <3>3
  <2> QED
      BY <2>1, <2>2
<1> HIDE DEF busy
<1>9. TypeOK'
    BY <1>1, <1>3, <1>4, <1>5, <1>6, <1>7, <1>8 DEF IInv, TypeOK
<1>10. Phases' /\ SchedulerAlive'
  <2>1. ~InTick'
      BY <1>1, <1>8 DEF InTick
  <2> QED
      BY <1>1, <1>3, <1>8, <2>1 DEF IInv, Phases, SchedulerAlive, Edits
<1>11. Synced'
    BY <1>5 DEF Synced
<1>12. Known' /\ Off' /\ ChangesSurvive'
    BY <1>1, <1>3, <1>4, <1>5, StoreStep
<1>13. NextIsNew'
  <2>1. now \in Nat
      BY <1>2, CronAssumption
  <2> QED
      BY <1>1, <1>4, <1>8, <2>1, NextStep
<1>14. UnderWay'
  <2>1. \A k : HasFired(k)' <=> HasFired(k)
      BY <1>1 DEF HasFired
  <2> QED
      BY <1>7, <1>8, <2>1 DEF IInv, UnderWay
<1> QED
    BY <1>9, <1>10, <1>11, <1>12, <1>13, <1>14 DEF IInv

\* The timer after an edit: re-armed unless a job executes.
LEMMA RearmedIs ==
    ASSUME IInv, ~InTick, NEW s \in Store,
           timer' = timer \/ timer' = Armed(s, timer, Active # 0)
    PROVE  /\ timer' \in Timer /\ timer'.job = timer.job /\ (timer'.ran <=> timer.ran)
           /\ timer'.pc = timer.pc \/ timer'.pc = "asleep"
           /\ timer.pc = "tick" => timer' = timer
<1>1. now \in 1..MaxTime /\ timer \in Timer
    BY DEF IInv, TypeOK
<1>2. CASE timer' = timer
    BY <1>1, <1>2
<1>3. CASE timer' = Armed(s, timer, Active # 0) /\ Active # 0
    BY <1>1, <1>3, ArmedIs
<1>4. CASE timer' = Armed(s, timer, Active # 0) /\ Active = 0
  <2>1. timer.pc # "tick"
      BY <1>4, ActiveIs DEF IInv
  <2>2. timer.job = NoJob /\ ~timer.ran
      BY <2>1 DEF IInv, Phases
  <2>3. timer' \in Timer /\ timer'.pc = "asleep" /\ timer'.job = NoJob /\ ~timer'.ran
      BY <1>1, <1>4, ArmedIs
  <2> QED
      BY <2>1, <2>2, <2>3
<1> QED
    BY <1>2, <1>3, <1>4

\* add_job, remove_job, enable_job and update_job, whether their save returns or raises.
LEMMA EditOK ==
    ASSUME IInv, NEW t \in 1..MaxTime, Edit(t), NEW j, j = call.job, NEW o, o = call.op
    PROVE  IInv'
<1> DEFINE c == mem[j]
           d == Edited(c, o, j, t)
<1>1. /\ UNCHANGED <<now, log, up, manual, turn, faults, calls, fired>>
      /\ o \in Edits /\ ~call.merged /\ call' = Idle /\ j \in Jobs /\ up = "running" /\ ~InTick
      /\ o = "add" \/ c.known
      /\ mem' = [mem EXCEPT ![j] = d]
    BY DEF Edit, Promised, IInv, TypeOK, Phases, Edits
<1>2. PICK returned \in BOOLEAN :
         /\ IF returned THEN SaveOK(mem') ELSE SaveRaises(mem')
         /\ timer' = timer \/ timer' = Armed(mem', timer, Active # 0)
         /\ Promised(o, j, returned)
  <2>1. CASE SaveOK(mem') /\ timer' = Armed(mem', timer, Active # 0) /\ Promised(o, j, TRUE)
    <3> DEFINE y == TRUE
    <3>1. y \in BOOLEAN /\ y /\ Promised(o, j, y)
        BY <2>1
    <3> HIDE DEF y
    <3> QED
        BY <2>1, <3>1
  <2>2. CASE SaveRaises(mem') /\ timer' = timer /\ Promised(o, j, FALSE)
    <3> DEFINE y == FALSE
    <3>1. y \in BOOLEAN /\ ~y /\ Promised(o, j, y)
        BY <2>2
    <3> HIDE DEF y
    <3> QED
        BY <2>2, <3>1
  <2> QED
      BY <1>1, <2>1, <2>2 DEF Edit
<1>3. /\ mem \in Store /\ now \in 1..MaxTime /\ now \in Nat /\ c \in Job
    BY <1>1, CronAssumption DEF IInv, TypeOK, Store
<1>4. /\ d \in Job /\ (d.known <=> o # "remove")
      /\ o \in {"remove", "disable"} => ~(d.known /\ d.enabled)
      /\ d.enabled => c.enabled \/ o \in {"add", "enable"}
      /\ d.enabled /\ d.next # None => d.next > now \/ (c.known /\ c.enabled /\ d.next = c.next)
    BY <1>1, <1>3, EditedIs
<1> HIDE DEF d
<1>5. mem' \in Store /\ mem'[j] = d /\ \A k \in Jobs \ {j} : mem'[k] = mem[k]
    BY <1>1, <1>3, <1>4 DEF Store
<1>6. /\ disk' = disk \/ disk' = mem'
      /\ returned => disk' = mem'
      /\ disk' \in Store /\ dirty' \in BOOLEAN /\ (~dirty' => disk' = mem')
      /\ saveErrors' \in 0..MaxSaveErrors
  <2>1. returned => disk' = mem'
      BY <1>2 DEF SaveOK
  <2> QED
      BY <1>2, <1>5, <2>1, SavedIs DEF IInv
<1>7. /\ timer' \in Timer /\ timer'.job = timer.job /\ (timer'.ran <=> timer.ran)
      /\ timer'.pc = timer.pc \/ timer'.pc = "asleep"
      /\ timer.pc = "tick" => timer' = timer
    BY <1>1, <1>2, <1>5, RearmedIs
<1>8. /\ accepted' = IF returned /\ o = "add" THEN accepted \cup {j} ELSE accepted
      /\ withdrawn' = IF returned /\ o = "remove" THEN withdrawn \cup {j} ELSE withdrawn
      /\ revoked' = IF o = "enable" THEN revoked \ {j}
                    ELSE IF returned /\ o \in {"remove", "disable"} THEN revoked \cup {j}
                    ELSE revoked
      /\ open' = IF ~returned /\ o \in {"add", "remove"} THEN open \cup {j} ELSE open
    BY <1>2 DEF Promised
<1>9. {accepted', withdrawn', revoked', open'} \subseteq SUBSET Jobs
    BY <1>1, <1>8 DEF IInv, TypeOK
<1>10. call' \in Call /\ call'.op = "none" /\ ~call'.merged
    BY <1>1, IdleIs
<1>11. TypeOK'
    BY <1>1, <1>5, <1>6, <1>7, <1>9, <1>10 DEF IInv, TypeOK
<1>12. Phases' /\ SchedulerAlive'
  <2>1. ~InTick'
      BY <1>1, <1>7 DEF InTick
  <2> QED
      BY <1>1, <1>7, <1>10, <2>1 DEF IInv, Phases, SchedulerAlive, Edits
<1>13. Synced'
    BY <1>6 DEF Synced
<1>14. /\ \A k : (HasFired(k)' <=> HasFired(k)) /\ (Adds(k)' <=> Adds(k))
       /\ ~Adds(j)
       /\ o = "add" => /\ j \notin accepted \cup open \cup withdrawn \cup revoked
                       /\ Lines(log, j) = {} /\ ~disk[j].known
       /\ o # "add" => j \in accepted \cup open
  <2>1. \A k : (HasFired(k)' <=> HasFired(k)) /\ (Adds(k)' <=> Adds(k))
      BY <1>1 DEF HasFired, Adds
  <2>2. o = "add" => /\ j \notin accepted \cup open \cup withdrawn \cup revoked
                     /\ Lines(log, j) = {} /\ ~disk[j].known
      BY <1>1 DEF IInv, Known
  <2>3. Lines(log, j) = {} => ~Adds(j)
      BY DEF Adds, Lines
  <2>4. o # "add" => j \in accepted \cup open /\ ~Adds(j)
      BY <1>1 DEF IInv, Known
  <2> QED
      BY <2>1, <2>2, <2>3, <2>4
<1>15. Known'
  <2>1. ASSUME NEW k \in Jobs
        PROVE  \/ mem'[k].known \/ disk'[k].known \/ Lines(log', k) # {}
               \/ k \in revoked' \cup withdrawn' \/ HasFired(k)'
               => k \in accepted' \cup open'
    <3>1. CASE k = j
      <4>1. j \in accepted' \cup open'
          BY <1>8, <1>14
      <4> QED
          BY <3>1, <4>1
    <3>2. CASE k # j
      <4>1. mem'[k].known \/ disk'[k].known => mem[k].known \/ disk[k].known
          BY <1>5, <1>6, <3>2
      <4>2. /\ k \in revoked' => k \in revoked
            /\ k \in withdrawn' => k \in withdrawn
            /\ k \in accepted \cup open => k \in accepted' \cup open'
          BY <1>8, <3>2
      <4>3. Lines(log', k) = Lines(log, k)
          BY <1>1
      <4> QED
          BY <1>14, <4>1, <4>2, <4>3 DEF IInv, Known
    <3> QED
        BY <3>1, <3>2
  <2>2. ASSUME NEW k \in Jobs, Adds(k)'
        PROVE  ~mem'[k].known /\ ~HasFired(k)' /\ k \notin revoked'
    <3>1. Adds(k) /\ k # j
        BY <1>14, <2>2
    <3> QED
        BY <1>1, <1>5, <1>8, <1>14, <3>1 DEF IInv, Known
  <2> QED
      BY <1>1, <1>10, <2>1, <2>2 DEF IInv, Known
<1>16. Off'
  <2>1. ASSUME NEW k \in revoked' PROVE ~On(mem', k) /\ ~On(disk', k)
    <3>1. CASE k # j
      <4>1. k \in revoked /\ k \in Jobs
          BY <1>8, <1>9, <3>1
      <4> QED
          BY <1>5, <1>6, <3>1, <4>1 DEF IInv, Off, On
    <3>2. CASE k = j
      <4>1. j \in revoked => ~(c.known /\ c.enabled) /\ ~On(disk, j)
          BY DEF IInv, Off, On
      <4>2. CASE o \in {"remove", "disable"}
        <5>1. ~On(mem', j)
            BY <1>4, <1>5, <4>2 DEF On
        <5>2. returned => disk' = mem'
            BY <1>6
        <5>3. ~returned => j \in revoked
            BY <1>8, <3>2, <4>2
        <5> QED
            BY <1>6, <3>2, <4>1, <5>1, <5>2, <5>3 DEF On
      <4>3. CASE o = "reschedule"
        <5>1. j \in revoked /\ c.known
            BY <1>1, <1>8, <3>2, <4>3
        <5>2. ~d.enabled
            BY <1>4, <4>1, <4>3, <5>1
        <5> QED
            BY <1>5, <1>6, <3>2, <4>1, <5>1, <5>2 DEF On
      <4>4. o # "add" /\ o # "enable"
          BY <1>8, <1>14, <3>2
      <4> QED
          BY <1>1, <4>2, <4>3, <4>4 DEF Edits
    <3> QED
        BY <3>1, <3>2
  <2> QED
      BY <2>1 DEF Off
<1>17. NextIsNew'
  <2>1. \A x \in fired : x[2] <= now /\ x[2] \in Nat
      BY CronAssumption DEF IInv, NextIsNew, TypeOK
  <2>2. d.next \in Nat
      BY <1>4, CronAssumption DEF Job
  <2>3. d.next > now => <<j, d.next>> \notin fired
    <3>1. <<j, d.next>>[2] = d.next
        OBVIOUS
    <3> QED
        BY <1>3, <2>1, <2>2, <3>1
  <2>4. ASSUME NEW k \in Jobs, On(mem', k), mem'[k].next # None, timer'.job # k
        PROVE  <<k, mem'[k].next>> \notin fired
    <3>1. CASE k # j
        BY <1>1, <1>5, <1>7, <2>4, <3>1 DEF IInv, NextIsNew, On
    <3>2. CASE k = j
      <4>1. d.next > now \/ (On(mem, j) /\ d.next = mem[j].next)
          BY <1>4, <1>5, <2>4, <3>2 DEF On
      <4> QED
          BY <1>1, <1>5, <1>7, <2>3, <2>4, <3>2, <4>1 DEF IInv, NextIsNew
    <3> QED
        BY <3>1, <3>2
  <2> QED
      BY <1>1, <2>1, <2>4 DEF NextIsNew
<1>18. UnderWay'
    BY <1>1, <1>7, UnderWayStep
<1>19. ChangesSurvive'
  <2>1. View = Merge(mem, log) /\ View' = Merge(mem', log)
      BY <1>1 DEF View
  <2>2. SUFFICES ASSUME NEW k \in Jobs \ open'
                 PROVE  /\ k \in withdrawn' => ~View'[k].known
                        /\ k \in accepted' \ withdrawn' =>
                             \/ View'[k].known
                             \/ k \in DeleteAfterRun /\ \E n \in 0..MaxTime : <<k, n>> \in fired
      BY <1>1 DEF ChangesSurvive
  <2>3. \/ View[k] = mem[k] /\ View'[k] = mem'[k]
        \/ View[k] = View'[k]
      BY <2>1, MergedKnown DEF IInv
  <2>4. CASE k # j
    <3>1. View'[k] = View[k]
        BY <1>5, <2>3, <2>4
    <3>2. /\ k \in withdrawn' <=> k \in withdrawn
          /\ k \in accepted' <=> k \in accepted
          /\ k \notin open
        BY <1>8, <2>4
    <3> QED
        BY <3>1, <3>2 DEF IInv, ChangesSurvive
  <2>5. CASE k = j /\ o = "add"
    <3>1. View'[j] = d /\ d.known
      <4>1. \A s : Merge(s, log)[j] = s[j]
          BY <1>14, <2>2, <2>5, MergeKeeps
      <4> QED
          BY <1>4, <1>5, <2>1, <2>5, <4>1
    <3>2. j \notin withdrawn'
        BY <1>8, <1>14, <2>5
    <3> QED
        BY <2>5, <3>1, <3>2
  <2>6. CASE k = j /\ o = "remove"
    <3>1. j \in withdrawn'
        BY <1>8, <2>2, <2>6
    <3>2. ~View'[j].known
      <4>1. CASE Lines(log, j) = {}
        <5>1. \A s : Merge(s, log)[j] = s[j]
            BY <2>2, <2>6, <4>1, MergeKeeps
        <5> QED
            BY <1>4, <1>5, <2>1, <2>6, <5>1
      <4>2. CASE Lines(log, j) # {}
        <5>1. log \in Seq(Action)
            BY DEF IInv, TypeOK
        <5>2. PICK i \in 1..Len(log) : log[i].job = j /\ \A s : Merge(s, log)[j] = Decided(log[i])
            BY <1>1, <4>2, <5>1, MergeDecides
        <5>4. View'[j] = Decided(log[i])
            BY <2>1, <5>2
        <5>3. log[i].op # "add" /\ log[i] \in Action
            BY <1>14, <5>1, <5>2 DEF Adds
        <5> QED
            BY <5>3, <5>4, DecidedIs
      <4> QED
          BY <4>1, <4>2
    <3> QED
        BY <2>6, <3>1, <3>2
  <2>7. CASE k = j /\ o \notin {"add", "remove"}
    <3>1. c.known /\ mem'[j].known
        BY <1>1, <1>4, <1>5, <2>7
    <3>2. View'[j].known <=> View[j].known
        BY <2>3, <2>7, <3>1
    <3>3. UNCHANGED <<accepted, withdrawn, open>>
        BY <1>8, <2>7
    <3> QED
        BY <2>7, <3>2, <3>3 DEF IInv, ChangesSurvive
  <2> QED
      BY <2>4, <2>5, <2>6, <2>7
<1> QED
    BY <1>11, <1>12, <1>13, <1>15, <1>16, <1>17, <1>18, <1>19 DEF IInv

\* A read returns, or an edit finds no job.
LEMMA ReturnsOK == ASSUME IInv, Returns PROVE IInv'
<1>1. /\ UNCHANGED <<now, disk, log, mem, dirty, up, timer, manual, turn, history, faults,
                     saveErrors, calls>>
      /\ UNCHANGED <<fired, accepted, withdrawn, revoked, open>>
      /\ ~call.merged /\ call' = Idle /\ call.op \in Edits \cup {"read"}
    BY DEF Returns, store, history
<1>2. call' \in Call /\ call'.op = "none" /\ ~call'.merged
    BY <1>1, IdleIs
<1>3. TypeOK'
    BY <1>1, <1>2 DEF IInv, TypeOK
<1>4. Phases' /\ SchedulerAlive' /\ Synced'
    BY <1>1, <1>2 DEF IInv, Phases, SchedulerAlive, Synced, InTick, Edits
<1>5. Known' /\ Off' /\ ChangesSurvive'
    BY <1>1, <1>2, TameSelf, StoreStep
<1>6. NextIsNew' /\ UnderWay'
    BY <1>1, SameJobs
<1> QED
    BY <1>3, <1>4, <1>5, <1>6 DEF IInv

\* A line appended to action.jsonl by another process.
LEMMA AppendedIs ==
    ASSUME IInv, NEW a \in Action, log' = Append(log, a)
    PROVE  /\ log' \in Seq(Action)
           /\ \A i \in 1..Len(log') : log'[i] = a \/ \E m \in 1..Len(log) : log'[i] = log[m]
           /\ \A k : Lines(log', k) # {} => Lines(log, k) # {} \/ k = a.job
           /\ \A k : Adds(k)' => Adds(k) \/ (k = a.job /\ a.op = "add")
<1>1. log \in Seq(Action)
    BY DEF IInv, TypeOK
<1>2. /\ log' \in Seq(Action) /\ Len(log') = Len(log) + 1 /\ Len(log) \in Nat
      /\ \A i \in 1..Len(log) : log'[i] = log[i]
      /\ log'[Len(log) + 1] = a
    BY <1>1, AppendProperties, LenProperties
<1>3. \A i \in 1..Len(log') : i \in 1..Len(log) \/ i = Len(log) + 1
    BY <1>2
<1>4. \A i \in 1..Len(log') : log'[i] = a \/ \E m \in 1..Len(log) : log'[i] = log[m]
    BY <1>2, <1>3
<1>5. \A k : Lines(log', k) # {} => Lines(log, k) # {} \/ k = a.job
    BY <1>4 DEF Lines
<1>6. \A k : Adds(k)' => Adds(k) \/ (k = a.job /\ a.op = "add")
    BY <1>4 DEF Adds
<1> QED
    BY <1>2, <1>4, <1>5, <1>6

\* What an appended line leaves as it is.
LEMMA AppendStep ==
    ASSUME IInv, NEW a \in Action, log' = Append(log, a), calls < MaxCalls, calls' = calls + 1,
           UNCHANGED <<now, disk, mem, dirty, up, timer, manual, call, turn, fired, revoked,
                       open, faults, saveErrors>>,
           accepted' \subseteq Jobs, withdrawn' \subseteq Jobs
    PROVE  /\ TypeOK' /\ Phases' /\ SchedulerAlive' /\ Synced' /\ Off' /\ NextIsNew' /\ UnderWay'
           /\ View'[a.job] = Decided(a)
           /\ \A k \in Jobs \ {a.job} : View'[k] = View[k]
<1>1. calls' \in 0..MaxCalls
    BY CronAssumption DEF IInv, TypeOK
<1>2. TypeOK'
    BY <1>1, AppendedIs DEF IInv, TypeOK
<1>3. Phases' /\ SchedulerAlive' /\ Synced' /\ Off'
    BY DEF IInv, Phases, SchedulerAlive, Synced, Off, InTick
<1>4. NextIsNew' /\ UnderWay'
    BY SameJobs
<1> DEFINE s == IF up = "down" THEN disk ELSE mem
<1>5. View = Merge(s, log) /\ View' = Merge(s, Append(log, a))
    BY DEF View
<1>6. log \in Seq(Action)
    BY DEF IInv, TypeOK
<1> HIDE DEF s
<1>7. View'[a.job] = Decided(a) /\ \A k \in Jobs \ {a.job} : View'[k] = View[k]
    BY <1>5, <1>6, MergeAppend
<1> QED
    BY <1>2, <1>3, <1>4, <1>7

\* A record of its fields is a line of action.jsonl.
LEMMA ActionIs ==
    ASSUME NEW o \in {"add", "del"}, NEW j \in Jobs, NEW r \in Job
    PROVE  [op |-> o, job |-> j, rec |-> r] \in Action
    BY Zenon DEF Action

\* Another process adds a job.
LEMMA ExternalAddOK ==
    ASSUME IInv, NEW j \in Jobs, NEW t \in 1..MaxTime, ExternalAdd(j, t) PROVE IInv'
<1>1. /\ UNCHANGED <<now, disk, mem, dirty, up, timer, manual, call, turn, fired, revoked,
                     open, faults, saveErrors, withdrawn>>
      /\ j \notin accepted \cup open /\ ~(call.op = "add" /\ call.job = j)
      /\ calls < MaxCalls /\ calls' = calls + 1 /\ accepted' = accepted \cup {j}
    BY DEF ExternalAdd, Fresh, AppendAction
<1>2. PICK a \in Action : a.op = "add" /\ a.job = j /\ a.rec.known /\ log' = Append(log, a)
  <2> DEFINE o == "add"
             r == NewJob(j, t)
             a == [op |-> o, job |-> j, rec |-> r]
  <2>1. log' = Append(log, a) /\ o = "add" /\ o \in {"add", "del"}
      BY DEF ExternalAdd, AppendAction
  <2>2. r \in Job /\ r.known
      BY NewJobIs DEF IInv, TypeOK
  <2> HIDE DEF o, r
  <2>3. a \in Action /\ a.op = o /\ a.job = j /\ a.rec = r
      BY <2>1, <2>2, ActionIs
  <2> HIDE DEF a
  <2> QED
      BY <2>1, <2>2, <2>3
<1>3. accepted' \subseteq Jobs /\ withdrawn' \subseteq Jobs
    BY <1>1 DEF IInv, TypeOK
<1>4. /\ TypeOK' /\ Phases' /\ SchedulerAlive' /\ Synced' /\ Off' /\ NextIsNew' /\ UnderWay'
      /\ View'[j] = Decided(a)
      /\ \A k \in Jobs \ {j} : View'[k] = View[k]
    BY <1>1, <1>2, <1>3, AppendStep
<1>5. ~mem[j].known /\ ~HasFired(j) /\ j \notin revoked \cup withdrawn
    BY <1>1 DEF IInv, Known
<1>6. Known'
  <2>1. \A k : HasFired(k)' <=> HasFired(k)
      BY <1>1 DEF HasFired
  <2>2. /\ \A i \in 1..Len(log') : log'[i] = a \/ \E m \in 1..Len(log) : log'[i] = log[m]
        /\ \A k : Lines(log', k) # {} => Lines(log, k) # {} \/ k = j
        /\ \A k : Adds(k)' => Adds(k) \/ k = j
      BY <1>2, AppendedIs
  <2>3. \A k \in Jobs :
          \/ mem'[k].known \/ disk'[k].known \/ Lines(log', k) # {}
          \/ k \in revoked' \cup withdrawn' \/ HasFired(k)'
          => k \in accepted' \cup open'
      BY <1>1, <2>1, <2>2 DEF IInv, Known
  <2>4. \A i \in 1..Len(log') : log'[i].op = "add" => log'[i].rec.known
      BY <1>2, <2>2 DEF IInv, Known
  <2>5. \A k \in Jobs : Adds(k)' =>
          /\ up' = "running" \/ call'.op = "start" => ~mem'[k].known
          /\ ~HasFired(k)' /\ k \notin revoked'
      BY <1>1, <1>5, <2>1, <2>2 DEF IInv, Known
  <2>6. call'.op = "add" => call'.job \notin accepted' \cup open'
      BY <1>1 DEF IInv, Known
  <2> QED
      BY <2>3, <2>4, <2>5, <2>6 DEF Known
<1>7. ChangesSurvive'
  <2>1. View'[j].known
      BY <1>2, <1>4, DecidedIs
  <2> QED
      BY <1>1, <1>4, <1>5, <2>1 DEF IInv, ChangesSurvive
<1> QED
    BY <1>4, <1>6, <1>7 DEF IInv

\* Another process removes a job.
LEMMA ExternalRemoveOK == ASSUME IInv, NEW j \in Jobs, ExternalRemove(j) PROVE IInv'
<1>1. /\ UNCHANGED <<now, disk, mem, dirty, up, timer, manual, call, turn, fired, revoked,
                     open, faults, saveErrors, accepted>>
      /\ Merge(disk, log)[j].known
      /\ calls < MaxCalls /\ calls' = calls + 1 /\ withdrawn' = withdrawn \cup {j}
    BY DEF ExternalRemove, AppendAction
<1>2. PICK a \in Action : a.op = "del" /\ a.job = j /\ log' = Append(log, a)
  <2> DEFINE o == "del"
             a == [op |-> o, job |-> j, rec |-> Missing]
  <2>1. log' = Append(log, a) /\ o = "del" /\ o \in {"add", "del"} /\ Missing \in Job
      BY MissingIs DEF ExternalRemove, AppendAction
  <2> HIDE DEF o
  <2>2. a \in Action /\ a.op = o /\ a.job = j
      BY <2>1, ActionIs
  <2> HIDE DEF a
  <2> QED
      BY <2>1, <2>2
<1>3. accepted' \subseteq Jobs /\ withdrawn' \subseteq Jobs
    BY <1>1 DEF IInv, TypeOK
<1>4. /\ TypeOK' /\ Phases' /\ SchedulerAlive' /\ Synced' /\ Off' /\ NextIsNew' /\ UnderWay'
      /\ View'[j] = Decided(a)
      /\ \A k \in Jobs \ {j} : View'[k] = View[k]
    BY <1>1, <1>2, <1>3, AppendStep
<1>5. j \in accepted \cup open
  <2>1. disk[j].known \/ Lines(log, j) # {}
      BY <1>1, MergeKeeps
  <2> QED
      BY <2>1 DEF IInv, Known
<1>6. Known'
  <2>1. \A k : HasFired(k)' <=> HasFired(k)
      BY <1>1 DEF HasFired
  <2>2. /\ \A i \in 1..Len(log') : log'[i] = a \/ \E m \in 1..Len(log) : log'[i] = log[m]
        /\ \A k : Lines(log', k) # {} => Lines(log, k) # {} \/ k = j
        /\ \A k : Adds(k)' => Adds(k)
      BY <1>2, AppendedIs
  <2>3. \A k \in Jobs :
          \/ mem'[k].known \/ disk'[k].known \/ Lines(log', k) # {}
          \/ k \in revoked' \cup withdrawn' \/ HasFired(k)'
          => k \in accepted' \cup open'
      BY <1>1, <1>5, <2>1, <2>2 DEF IInv, Known
  <2>4. \A i \in 1..Len(log') : log'[i].op = "add" => log'[i].rec.known
      BY <1>2, <2>2 DEF IInv, Known
  <2>5. \A k \in Jobs : Adds(k)' =>
          /\ up' = "running" \/ call'.op = "start" => ~mem'[k].known
          /\ ~HasFired(k)' /\ k \notin revoked'
      BY <1>1, <2>1, <2>2 DEF IInv, Known
  <2>6. call'.op = "add" => call'.job \notin accepted' \cup open'
      BY <1>1 DEF IInv, Known
  <2> QED
      BY <2>3, <2>4, <2>5, <2>6 DEF Known
<1>7. ChangesSurvive'
  <2>1. ~View'[j].known
      BY <1>2, <1>4, DecidedIs
  <2> QED
      BY <1>1, <1>4, <2>1 DEF IInv, ChangesSurvive
<1> QED
    BY <1>4, <1>6, <1>7 DEF IInv

\* Time passes.
LEMMA TickOK == ASSUME IInv, Tick PROVE IInv'
<1>1. /\ UNCHANGED <<disk, log, mem, dirty, up, timer, manual, call, turn, history, faults,
                     saveErrors, calls>>
      /\ UNCHANGED <<fired, accepted, withdrawn, revoked, open>>
      /\ now < MaxTime /\ now' = now + 1
    BY DEF Tick, store, history
<1>2. now' \in 1..MaxTime
    BY <1>1, CronAssumption DEF IInv, TypeOK
<1>3. TypeOK'
    BY <1>1, <1>2 DEF IInv, TypeOK
<1>4. Phases' /\ SchedulerAlive' /\ Synced'
    BY <1>1 DEF IInv, Phases, SchedulerAlive, Synced, InTick
<1>5. Known' /\ Off' /\ ChangesSurvive'
    BY <1>1, TameSelf, StoreStep
<1>6. NextIsNew' /\ UnderWay'
    BY <1>1, SameJobs
<1> QED
    BY <1>3, <1>4, <1>5, <1>6 DEF IInv

\* The gateway dies: jobs.json and action.jsonl are what is left.
LEMMA CrashOK == ASSUME IInv, Crash PROVE IInv'
<1> DEFINE lost == {j \in Jobs : Merge(disk, log)[j].known # Merge(mem, log)[j].known}
<1>1. /\ UNCHANGED <<now, disk, log, fired, accepted, withdrawn, revoked, saveErrors, calls>>
      /\ up # "down" /\ faults < MaxFaults /\ faults' = faults + 1
      /\ up' = "down" /\ timer' = NoTimer /\ call' = Idle /\ dirty' = FALSE /\ manual' = <<>>
      /\ turn' = [j \in Jobs |-> 0] /\ open' = open \cup lost
      /\ mem' = [j \in Jobs |-> Missing]
    BY DEF Crash
<1>2. /\ mem' \in Store
      /\ \A k \in Jobs : ~mem'[k].known
    BY <1>1, MissingIs DEF Store
<1>3. faults' \in 0..MaxFaults
    BY <1>1, CronAssumption DEF IInv, TypeOK
<1>4. call' \in Call /\ call'.op = "none" /\ ~call'.merged
    BY <1>1, IdleIs
<1>5. timer' \in Timer /\ timer'.pc = "none" /\ timer'.job = NoJob /\ ~timer'.ran
    BY <1>1, NoTimerIs
<1>6. manual' \in Seq(Jobs) /\ Len(manual') = 0 /\ turn' \in [Jobs -> Nat]
    BY <1>1
<1>7. TypeOK'
    BY <1>1, <1>2, <1>3, <1>4, <1>5, <1>6 DEF IInv, TypeOK
<1>8. Phases' /\ SchedulerAlive' /\ Synced'
    BY <1>1, <1>4, <1>5 DEF Phases, SchedulerAlive, Synced, InTick, Edits
<1>9. \A k : (HasFired(k)' <=> HasFired(k)) /\ (Adds(k)' <=> Adds(k))
    BY <1>1 DEF HasFired, Adds
<1>10. Known'
  <2>1. open \subseteq open' /\ UNCHANGED <<disk, log, accepted, withdrawn, revoked>>
        /\ up' = "down"
      BY <1>1
  <2> QED
      BY <1>2, <1>4, <1>9, <2>1 DEF IInv, Known
<1>11. Off'
  <2>1. revoked \subseteq Jobs
      BY DEF IInv, TypeOK
  <2> QED
      BY <1>1, <1>2, <2>1 DEF IInv, Off, On
<1>12. NextIsNew'
    BY <1>1 DEF IInv, NextIsNew
<1>13. UnderWay'
    BY <1>5, <1>6 DEF UnderWay
<1>14. ChangesSurvive'
  <2>1. View = Merge(mem, log) /\ View' = Merge(disk, log)
      BY <1>1 DEF View
  <2>2. ASSUME NEW k \in Jobs \ open'
        PROVE  k \notin open /\ View'[k].known = View[k].known
      BY <1>1, <2>1
  <2> QED
      BY <1>1, <2>2 DEF IInv, ChangesSurvive
<1> QED
    BY <1>7, <1>8, <1>10, <1>11, <1>12, <1>13, <1>14 DEF IInv

-----------------------------------------------------------------------------
(* The invariant and the theorems.                                         *)

\* The invariant holds before the first start of the gateway.
LEMMA InitIInv == ASSUME Init PROVE IInv
<1>1. /\ now = 1 /\ disk = [j \in Jobs |-> Missing] /\ log = <<>>
      /\ mem = [j \in Jobs |-> Missing] /\ dirty = FALSE
      /\ up = "down" /\ timer = NoTimer /\ call = Idle /\ manual = <<>>
      /\ turn = [j \in Jobs |-> 0]
      /\ fired = {} /\ accepted = {} /\ withdrawn = {} /\ revoked = {} /\ open = {}
      /\ faults = 0 /\ saveErrors = 0 /\ calls = 0
    BY DEF Init
<1>2. mem \in Store /\ disk \in Store /\ \A k \in Jobs : ~mem[k].known /\ ~disk[k].known
    BY <1>1, MissingIs DEF Store
<1>3. call \in Call /\ call.op = "none" /\ ~call.merged
    BY <1>1, IdleIs
<1>4. timer \in Timer /\ timer.pc = "none" /\ timer.job = NoJob /\ ~timer.ran
    BY <1>1, NoTimerIs
<1>5. /\ now \in 1..MaxTime /\ log \in Seq(Action) /\ manual \in Seq(Jobs) /\ Len(manual) = 0
      /\ Len(log) = 0 /\ turn \in [Jobs -> Nat] /\ fired \subseteq Jobs \X (0..MaxTime)
      /\ faults \in 0..MaxFaults /\ saveErrors \in 0..MaxSaveErrors /\ calls \in 0..MaxCalls
    BY <1>1, CronAssumption
<1>6. TypeOK
    BY <1>1, <1>2, <1>3, <1>4, <1>5 DEF TypeOK
<1>7. Phases /\ SchedulerAlive /\ Synced
    BY <1>1, <1>3, <1>4 DEF Phases, SchedulerAlive, Synced, InTick, Edits
<1>8. Known
  <2>1. \A k : ~Adds(k) /\ Lines(log, k) = {} /\ ~HasFired(k)
      BY <1>1, <1>5 DEF Adds, Lines, HasFired
  <2> QED
      BY <1>1, <1>2, <1>3, <1>5, <2>1 DEF Known
<1>9. Off /\ NextIsNew /\ UnderWay /\ ChangesSurvive
    BY <1>1, <1>4, <1>5 DEF Off, NextIsNew, UnderWay, ChangesSurvive
<1> QED
    BY <1>6, <1>7, <1>8, <1>9 DEF IInv

\* Every step keeps the invariant.
LEMMA NextIInv == ASSUME IInv, [Next]_vars PROVE IInv'
<1>1. CASE Scheduler
  <2>1. CASE \E j \in Jobs : TickRunsJob(j)
      BY <2>1, TickRunsOK, TickSkipsOK
  <2> QED
      BY <1>1, <2>1, RegisterOK, StartLoadOK, StartOK, MergeSavedOK, MergeRaisesOK, TickSavesOK,
         TickLoadOK, TickDueOK, TickEndsOK, TickJobEndsOK DEF Scheduler
<1>2. CASE Runs
  <2>1. CASE \E m \in 1..MaxManual : ManualEnds(m)
      BY <2>1, ManualEndsOK
  <2>2. CASE ManualStarts
      BY <2>2, ManualRunsOK, ManualRefusedOK
  <2>3. CASE \E t \in 1..MaxTime : Edit(t)
      BY <2>3, EditOK
  <2> QED
      BY <1>2, <2>1, <2>2, <2>3, ManualReloadsOK, ReturnsOK DEF Runs
<1>3. ASSUME NEW j \in Jobs, \/ ManualLoad(j) \/ ManualSaves(j) \/ TurnEnds(j) \/ ExternalRemove(j)
      PROVE  IInv'
    BY <1>3, ManualLoadOK, ManualSavesOK, TurnEndsOK, ExternalRemoveOK
<1>4. ASSUME NEW j \in Jobs, NEW op \in Edits, Calls(op, j) PROVE IInv'
    BY <1>4, CallsOK
<1>5. ASSUME NEW j \in Jobs, NEW t \in 1..MaxTime, ExternalAdd(j, t) PROVE IInv'
    BY <1>5, ExternalAddOK
<1>6. CASE Calls("read", NoJob)
  <2> DEFINE o == "read"
             n == NoJob
  <2>1. o \in Edits \cup {"read"} /\ n \in Jobs \cup {NoJob} /\ o \notin Edits /\ Calls(o, n)
      BY <1>6 DEF Edits
  <2> HIDE DEF o, n
  <2> QED
      BY <2>1, CallsOK
<1>7. CASE UNCHANGED vars
  <2>1. /\ UNCHANGED <<now, disk, log, mem, dirty, up, timer, manual, call, turn, faults,
                       saveErrors, calls>>
        /\ UNCHANGED <<fired, accepted, withdrawn, revoked, open>>
      BY <1>7 DEF vars, store, history
  <2>2. TypeOK' /\ Phases' /\ SchedulerAlive' /\ Synced'
      BY <2>1 DEF IInv, TypeOK, Phases, SchedulerAlive, Synced, InTick
  <2>3. Known' /\ Off' /\ ChangesSurvive'
      BY <2>1, TameSelf, StoreStep
  <2>4. NextIsNew' /\ UnderWay'
      BY <2>1, SameJobs
  <2> QED
      BY <2>2, <2>3, <2>4 DEF IInv
<1> QED
    BY <1>1, <1>2, <1>3, <1>4, <1>5, <1>6, <1>7, TickOK, CrashOK DEF Next

\* The invariant holds in every reachable state.
LEMMA Inductive == Spec => []IInv
<1>1. Init => IInv
    BY InitIInv
<1>2. IInv /\ [Next]_vars => IInv'
    BY NextIInv
<1> QED
    BY <1>1, <1>2, PTL DEF Spec

\* The job of the timer changes to another only in a tick that still finds it due.
LEMMA OnlyDueRuns ==
    ASSUME Next, NEW j \in Jobs, timer.job # j, timer'.job = j
    PROVE  InTick /\ StillDue(j) /\ j \in timer.due
<1>1. j # NoJob
    BY CronAssumption
<1>2. \A w : Asleep(w).job = NoJob
    BY DEF Asleep, NoTimer
<1>3. \A s, b : Armed(s, timer, b).job \in {timer.job, NoJob} /\ Armed(s, NoTimer, b).job = NoJob
    BY <1>2 DEF Armed, NoTimer
<1>4. ASSUME timer'.job \in {timer.job, NoJob} PROVE FALSE
    BY <1>1, <1>4
<1>5. CASE \E k \in Jobs : TickRunsJob(k)
  <2>1. PICK k \in Jobs : TickRunsJob(k)
      BY <1>5
  <2>2. timer.job = NoJob /\ InTick
      BY <2>1 DEF TickRunsJob, InTick
  <2>3. CASE StillDue(k)
    <3>1. timer' = [timer EXCEPT !.due = @ \ {k}, !.job = k, !.ran = TRUE] /\ k \in timer.due
        BY <2>1, <2>3 DEF TickRunsJob
    <3>2. timer'.job \in {k, timer.job}
        BY <3>1
    <3> QED
        BY <2>2, <2>3, <3>1, <3>2
  <2>4. CASE ~StillDue(k)
    <3>1. timer' = [timer EXCEPT !.due = @ \ {k}]
        BY <2>1, <2>4 DEF TickRunsJob
    <3> QED
        BY <1>4, <3>1
  <2> QED
      BY <2>3, <2>4
<1>6. CASE Scheduler /\ ~\E k \in Jobs : TickRunsJob(k)
  <2>1. CASE TickDue
    <3>1. timer' = [NoTimer EXCEPT !.pc = "tick", !.due = {i \in Jobs : Due(mem, i, now)}]
        BY <2>1 DEF TickDue
    <3>2. timer'.job = NoJob
        BY <3>1 DEF NoTimer
    <3> QED
        BY <1>4, <3>2
  <2>2. CASE TickJobEnds
    <3>1. timer' = [timer EXCEPT !.job = NoJob]
        BY <2>2 DEF TickJobEnds
    <3>2. timer'.job \in {timer.job, NoJob}
        BY <3>1
    <3> QED
        BY <1>4, <3>2
  <2>3. CASE Register \/ StartLoad \/ MergeSaved \/ TickLoad
    <3>1. timer' = timer
        BY <2>3 DEF Register, StartLoad, MergeSaved, TickLoad
    <3> QED
        BY <1>4, <3>1
  <2>4. CASE Start \/ MergeRaises \/ TickSaves \/ TickEnds
    <3>1. timer'.job \in {timer.job, NoJob}
        BY <1>2, <1>3, <2>4 DEF Start, MergeRaises, TickSaves, TickEnds
    <3> QED
        BY <1>4, <3>1
  <2> QED
      BY <1>6, <2>1, <2>2, <2>3, <2>4 DEF Scheduler
<1>7. CASE Runs
  <2>1. timer'.job \in {timer.job, NoJob}
      BY <1>3, <1>7 DEF Runs, ManualEnds, RearmAfterRun, ManualReloads, ManualStarts, Returns, Edit
  <2> QED
      BY <1>4, <2>1
<1>8. CASE \E k \in Jobs : \/ ManualLoad(k) \/ ManualSaves(k) \/ TurnEnds(k) \/ ExternalRemove(k)
                           \/ \E op \in Edits : Calls(op, k)
                           \/ \E t \in 1..MaxTime : ExternalAdd(k, t)
  <2>1. timer'.job \in {timer.job, NoJob}
      BY <1>3, <1>8 DEF ManualLoad, ManualSaves, TurnEnds, ExternalRemove, Calls, ExternalAdd,
                        AppendAction
  <2> QED
      BY <1>4, <2>1
<1>9. CASE Calls("read", NoJob) \/ Tick \/ Crash
  <2>1. timer'.job \in {timer.job, NoJob}
      BY <1>9 DEF Calls, Tick, Crash, NoTimer
  <2> QED
      BY <1>4, <2>1
<1> QED
    BY <1>5, <1>6, <1>7, <1>8, <1>9 DEF Next

\* For every instance the state of the scheduler keeps its type: no time, counter or
\* turn of it leaves its range, and only a running service has unsaved state.
THEOREM CronTypes == Spec => []TypeOK
<1>1. IInv => TypeOK
    BY DEF IInv
<1> QED
    BY <1>1, Inductive, PTL

\* A running service always has an armed timer, a tick or a manual run that will arm it:
\* no interleaving of ticks, manual runs, edits and failed saves loses the wake-up.
THEOREM SchedulerStaysAlive == Spec => []SchedulerAlive
<1>1. IInv => SchedulerAlive
    BY DEF IInv
<1> QED
    BY <1>1, Inductive, PTL

\* No acknowledged addition or removal of a job is undone by saves, merges of
\* action.jsonl, reloads, manual runs or crashes, except where a fault left it open.
THEOREM AcknowledgedChangesSurvive == Spec => []ChangesSurvive
<1>1. IInv => ChangesSurvive
    BY DEF IInv
<1> QED
    BY <1>1, Inductive, PTL

\* The timer runs no occurrence of a job twice, whatever was saved, reloaded or lost
\* between the two.
THEOREM OccurrencesRunOnce == Spec => OccurrenceRunsOnce
<1> DEFINE A == \A j \in Jobs : timer.job # j /\ timer'.job = j => <<j, mem[j].next>> \notin fired
<1>1. IInv /\ [Next]_vars => [A]_vars
  <2>1. SUFFICES ASSUME IInv, Next, NEW j \in Jobs, timer.job # j, timer'.job = j
                 PROVE  <<j, mem[j].next>> \notin fired
      OBVIOUS
  <2>2. InTick /\ StillDue(j)
      BY <2>1, OnlyDueRuns
  <2>3. On(mem, j) /\ mem[j].next # None /\ up = "running"
      BY <2>1, <2>2 DEF IInv, Phases, InTick, StillDue, Due, On
  <2> QED
      BY <2>1, <2>3 DEF IInv, NextIsNew
<1> QED
    BY <1>1, Inductive, PTL DEF Spec, OccurrenceRunsOnce

\* A job that was disabled or removed through the gateway is not started by the timer
\* until it is enabled again, also from the list of a running tick or after a restart.
THEOREM RevokedJobsStayQuiet == Spec => RevokedStaysQuiet
<1> DEFINE A == \A j \in Jobs : timer.job # j /\ timer'.job = j => j \notin revoked
<1>1. IInv /\ [Next]_vars => [A]_vars
  <2>1. SUFFICES ASSUME IInv, Next, NEW j \in Jobs, timer.job # j, timer'.job = j
                 PROVE  j \notin revoked
      OBVIOUS
  <2>2. StillDue(j)
      BY <2>1, OnlyDueRuns
  <2> QED
      BY <2>1, <2>2 DEF IInv, Off, StillDue, Due, On
<1> QED
    BY <1>1, Inductive, PTL DEF Spec, RevokedStaysQuiet

================================================================================
