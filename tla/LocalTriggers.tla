---------------------------- MODULE LocalTriggers ----------------------------
(***************************************************************************)
(* The durable queue of local triggers: LocalTriggerStore (a directory of  *)
(* delivery files moved between inbox, processing and failed), the gateway *)
(* loop run_local_trigger_queue that claims deliveries and submits them as *)
(* session turns, and the commands that create, disable and delete         *)
(* triggers and enqueue messages from other processes.                     *)
(*                                                                         *)
(* Each write, move or removal of a file by the gateway is one step, so    *)
(* that it can be killed between any two.  The file lock of the store      *)
(* keeps the commands out while the gateway is inside recover, claim or    *)
(* retry; it is free between the store calls of one delivery.              *)
(***************************************************************************)
EXTENDS Naturals, Sequences, FiniteSets

CONSTANTS
    Triggers,             \* trigger ids
    MaxDeliveries,        \* bound: messages enqueued
    BatchSize,            \* batch_size of run_local_trigger_queue
    MaxDeliveryAttempts,  \* _MAX_DELIVERY_ATTEMPTS
    MaxStops,             \* bound: crashes and shutdowns of the gateway
    MaxStoreErrors,       \* bound: store calls that raise
    NoFile                \* no file of this delivery in a directory

\* Deliveries in the order of their file names (creation time, then id).
Deliveries == 1..MaxDeliveries

NoOwner == "none"

ASSUME TriggersAssumption ==
    /\ NoOwner \notin Triggers
    /\ MaxDeliveries \in Nat
    /\ BatchSize \in Nat \ {0}
    /\ MaxDeliveryAttempts \in Nat \ {0}
    /\ MaxStops \in Nat
    /\ MaxStoreErrors \in Nat
    /\ NoFile \notin Nat

VARIABLES
    trigger,      \* trigger[t]: "none", "enabled", "disabled" or "deleted"
    owner,        \* owner[d]: the trigger of delivery d, once enqueued
    inbox,        \* inbox[d]: the attempts stored in d's file there, or NoFile
    processing,   \* the same for the other two directories
    failed,
    outcome,      \* outcome[d]: last entry for d in its trigger's run_history
    run,          \* run[d]: status of the audit record of d
    gateway,      \* the gateway loop: pc, its batch, and the turn it waits for
    turns,        \* history: turns the agent started for d
    lateTurns,    \* history: of these, after the trigger was deleted
    stops,        \* crashes and shutdowns so far
    storeErrors   \* store calls that raised so far

vars == <<trigger, owner, inbox, processing, failed, outcome, run, gateway, turns,
          lateTurns, stops, storeErrors>>

files == <<inbox, processing, failed>>
records == <<outcome, run>>
history == <<turns, lateTurns>>
faults == <<stops, storeErrors>>

Enqueued == {d \in Deliveries : owner[d] # NoOwner}
In(directory) == {d \in Deliveries : directory[d] # NoFile}
First(S) == CHOOSE d \in S : \A e \in S : d <= e

\* pc "down" is a gateway that is not running.  cause says how the delivery at hand
\* ended: "ok", "error", or retried after an "exception" or because "cancelled".
\* turn is "none", "queued" or "running".
Down == [pc |-> "down", batch |-> <<>>, cause |-> "none", turn |-> "none"]

At(label) == gateway.pc = label
Goto(label) == gateway' = [gateway EXCEPT !.pc = label]
GotoFor(label, cause) ==
    gateway' = [gateway EXCEPT !.pc = label, !.cause = cause, !.turn = "none"]

\* The gateway is inside a store call that holds the file lock over several files.
LockHeld == gateway.pc \in {"recover", "recover_unlink", "claim", "retry_unlink"}

Current == Head(gateway.batch)
CurrentTrigger == owner[Current.id]

Init ==
    /\ trigger = [t \in Triggers |-> "none"]
    /\ owner = [d \in Deliveries |-> NoOwner]
    /\ inbox = [d \in Deliveries |-> NoFile]
    /\ processing = [d \in Deliveries |-> NoFile]
    /\ failed = [d \in Deliveries |-> NoFile]
    /\ outcome = [d \in Deliveries |-> "none"]
    /\ run = [d \in Deliveries |-> "none"]
    /\ gateway = Down
    /\ turns = [d \in Deliveries |-> 0]
    /\ lateTurns = [d \in Deliveries |-> 0]
    /\ stops = 0
    /\ storeErrors = 0

-----------------------------------------------------------------------------
(* Commands of other processes (nanobot trigger, the WebUI), one lock each. *)

\* create
Create(t) ==
    /\ ~LockHeld
    /\ trigger[t] = "none"
    /\ trigger' = [trigger EXCEPT ![t] = "enabled"]
    /\ UNCHANGED <<owner, files, records, gateway, history, faults>>

\* enable
Enable(t, enabled) ==
    /\ ~LockHeld
    /\ trigger[t] \in {"enabled", "disabled"}
    /\ trigger' = [trigger EXCEPT ![t] = IF enabled THEN "enabled" ELSE "disabled"]
    /\ UNCHANGED <<owner, files, records, gateway, history, faults>>

\* delete: the trigger with its run_history, then its delivery files in the three
\* directories.  The removal of a file that fails is logged and skipped: left.
Delete(t, left) ==
    LET Gone(d) == owner[d] = t /\ d \notin left
        Keep(directory) ==
          [d \in Deliveries |-> IF Gone(d) THEN NoFile ELSE directory[d]]
    IN  /\ ~LockHeld
        /\ trigger[t] \in {"enabled", "disabled"}
        /\ trigger' = [trigger EXCEPT ![t] = "deleted"]
        /\ outcome' = [d \in Deliveries |-> IF owner[d] = t THEN "none" ELSE outcome[d]]
        /\ inbox' = Keep(inbox)
        /\ processing' = Keep(processing)
        /\ failed' = Keep(failed)
        /\ UNCHANGED <<owner, run, gateway, history, faults>>

\* enqueue: the delivery file and its audit record; a failure removes both again.
Enqueue(t) ==
    /\ ~LockHeld
    /\ trigger[t] = "enabled"
    /\ Enqueued # Deliveries
    /\ LET d == First(Deliveries \ Enqueued)
       IN  /\ owner' = [owner EXCEPT ![d] = t]
           /\ inbox' = [inbox EXCEPT ![d] = 0]
           /\ run' = [run EXCEPT ![d] = "queued"]
    /\ UNCHANGED <<trigger, processing, failed, outcome, gateway, history, faults>>

-----------------------------------------------------------------------------
(* _retry_delivery_unlocked: the copy is written first, then the file in   *)
(* processing is removed.                                                  *)

\* Mutant: the limit is compared with the attempts before the one just made.
RetriesLeftOffByOne(attempts) == attempts < MaxDeliveryAttempts

RetriesLeft(attempts) == attempts + 1 < MaxDeliveryAttempts

\* Mutant: at the limit the delivery is dropped instead of kept in failed.
WriteRetryCopyDropped(d, attempts) ==
    /\ inbox' = IF RetriesLeft(attempts) THEN [inbox EXCEPT ![d] = attempts + 1] ELSE inbox
    /\ UNCHANGED failed

WriteRetryCopy(d, attempts) ==
    IF RetriesLeft(attempts)
    THEN inbox' = [inbox EXCEPT ![d] = attempts + 1] /\ UNCHANGED failed
    ELSE failed' = [failed EXCEPT ![d] = attempts + 1] /\ UNCHANGED inbox

Unlink(d) == processing' = [processing EXCEPT ![d] = NoFile]

-----------------------------------------------------------------------------
(* The gateway loop, run_local_trigger_queue.                              *)

\* Mutant: the loop begins to poll without recovering.
StartPolling ==
    /\ At("down")
    /\ Goto("poll")
    /\ UNCHANGED <<trigger, owner, files, records, history, faults>>

\* The gateway starts; recovery comes before the first claim.
Start ==
    /\ At("down")
    /\ Goto(IF In(processing) = {} THEN "poll" ELSE "recover")
    /\ UNCHANGED <<trigger, owner, files, records, history, faults>>

\* recover_processing_deliveries, one file: written back ...
RecoverWrite ==
    LET d == First(In(processing))
    IN  /\ At("recover")
        /\ WriteRetryCopy(d, processing[d])
        /\ Goto("recover_unlink")
        /\ UNCHANGED <<trigger, owner, processing, records, history, faults>>

\* ... and removed from processing.
RecoverUnlink ==
    LET d == First(In(processing))
    IN  /\ At("recover_unlink")
        /\ Unlink(d)
        /\ Goto(IF In(processing) = {d} THEN "poll" ELSE "recover")
        /\ UNCHANGED <<trigger, owner, inbox, failed, records, history, faults>>

\* claim_deliveries, one file: os.replace from inbox to processing, oldest first,
\* at most BatchSize of them.
Claim ==
    LET d == First(In(inbox))
        batch == Append(gateway.batch, [id |-> d, attempts |-> inbox[d]])
    IN  /\ gateway.pc \in {"poll", "claim"}
        /\ In(inbox) # {}
        /\ processing' = [processing EXCEPT ![d] = inbox[d]]
        /\ inbox' = [inbox EXCEPT ![d] = NoFile]
        /\ gateway' = [gateway EXCEPT
                         !.batch = batch,
                         !.pc = IF Len(batch) = BatchSize \/ In(inbox) = {d}
                                THEN "check" ELSE "claim"]
        /\ UNCHANGED <<trigger, owner, failed, records, history, faults>>

\* Mutant: only a disabled trigger refuses its deliveries.
AcceptsDeleted(t, channelEnabled) == trigger[t] # "disabled" /\ channelEnabled

\* _deliver_delivery goes on only for a trigger that exists and is enabled, and whose
\* channel is enabled.
Accepts(t, channelEnabled) == trigger[t] = "enabled" /\ channelEnabled

\* ... anything else ends the delivery (_TerminalDeliveryError).
Check(channelEnabled) ==
    /\ At("check")
    /\ IF Accepts(CurrentTrigger, channelEnabled)
       THEN Goto("submit") ELSE GotoFor("record", "error")
    /\ UNCHANGED <<trigger, owner, files, records, history, faults>>

\* The audit record says processing, then the turn is submitted to the session.
Submit ==
    /\ At("submit")
    /\ run' = [run EXCEPT ![Current.id] = "processing"]
    /\ gateway' = [gateway EXCEPT !.pc = "wait", !.turn = "queued"]
    /\ UNCHANGED <<trigger, owner, files, outcome, history, faults>>

\* The agent starts the turn (at once, or when the session becomes idle).
TurnStarts ==
    /\ At("wait")
    /\ gateway.turn = "queued"
    /\ gateway' = [gateway EXCEPT !.turn = "running"]
    /\ turns' = [turns EXCEPT ![Current.id] = @ + 1]
    /\ lateTurns' = [lateTurns EXCEPT ![Current.id] =
                       IF trigger[CurrentTrigger] = "deleted" THEN @ + 1 ELSE @]
    /\ UNCHANGED <<trigger, owner, files, records, faults>>

\* Mutant: a failed turn is treated as an exception of the store.
TurnEndsRetried(result) ==
    /\ At("wait")
    /\ result = "error" \/ gateway.turn = "running"
    /\ IF result = "ok" THEN GotoFor("record", "ok") ELSE GotoFor("retry", "exception")
    /\ UNCHANGED <<trigger, owner, files, records, history, faults>>

\* The turn answers, or fails with AutomationTurnError; a queued turn fails too when
\* its session is stopped.
TurnEnds(result) ==
    /\ At("wait")
    /\ result = "error" \/ gateway.turn = "running"
    /\ GotoFor("record", result)
    /\ UNCHANGED <<trigger, owner, files, records, history, faults>>

\* On to the next delivery of the batch, or to the next poll.
NextDelivery ==
    gateway' = [gateway EXCEPT
                  !.batch = Tail(@), !.cause = "none",
                  !.pc = IF Len(gateway.batch) = 1 THEN "poll" ELSE "check"]

\* record_delivery: nothing to record once the trigger is deleted.  It comes before
\* the audit record, except after a retry.
Record ==
    /\ At("record")
    /\ outcome' = [outcome EXCEPT ![Current.id] =
                      IF trigger[CurrentTrigger] = "deleted" THEN @
                      ELSE IF gateway.cause = "ok" THEN "ok" ELSE "error"]
    /\ IF gateway.cause = "exception" THEN NextDelivery ELSE Goto("audit")
    /\ UNCHANGED <<trigger, owner, files, run, history, faults>>

AuditStatus ==
    CASE gateway.cause = "cancelled" -> "interrupted"
      [] gateway.cause = "exception" ->
            IF RetriesLeft(Current.attempts) THEN "retrying" ELSE "error"
      [] OTHER -> gateway.cause

\* _write_delivery_run_record: an audit record that cannot be written is only logged.
Audit(written) ==
    /\ At("audit")
    /\ written \/ storeErrors < MaxStoreErrors
    /\ run' = IF written THEN [run EXCEPT ![Current.id] = AuditStatus] ELSE run
    /\ storeErrors' = IF written THEN storeErrors ELSE storeErrors + 1
    /\ CASE gateway.cause = "cancelled" -> gateway' = Down
         [] gateway.cause = "exception" -> Goto("record")
         [] OTHER -> Goto("complete")
    /\ UNCHANGED <<trigger, owner, files, outcome, history, stops>>

\* complete_delivery
Complete ==
    /\ At("complete")
    /\ Unlink(Current.id)
    /\ NextDelivery
    /\ UNCHANGED <<trigger, owner, inbox, failed, records, history, faults>>

\* A store call of the try block raises: before the turn, or after it, when the
\* outcome is recorded or the file removed.  The delivery is retried.
StoreError ==
    /\ \/ gateway.pc \in {"check", "submit"}
       \/ gateway.pc \in {"record", "complete"} /\ gateway.cause = "ok"
    /\ storeErrors < MaxStoreErrors
    /\ storeErrors' = storeErrors + 1
    /\ GotoFor("retry", "exception")
    /\ UNCHANGED <<trigger, owner, files, records, history, stops>>

\* A shutdown cancels the loop: the delivery whose turn it waits for is retried, and
\* the rest of the batch stays in processing.  Elsewhere there is nothing to await,
\* except the pause between polls.
Shutdown ==
    /\ gateway.pc \in {"wait", "poll"}
    /\ stops < MaxStops
    /\ stops' = stops + 1
    /\ IF At("poll") THEN gateway' = Down ELSE GotoFor("retry", "cancelled")
    /\ UNCHANGED <<trigger, owner, files, records, history, storeErrors>>

\* retry_delivery: the copy, from the object in memory ...
RetryWrite ==
    /\ At("retry")
    /\ WriteRetryCopy(Current.id, Current.attempts)
    /\ Goto("retry_unlink")
    /\ UNCHANGED <<trigger, owner, processing, records, history, faults>>

\* ... and the removal of the file in processing.
RetryUnlink ==
    /\ At("retry_unlink")
    /\ Unlink(Current.id)
    /\ Goto("audit")
    /\ UNCHANGED <<trigger, owner, inbox, failed, records, history, faults>>

\* The gateway process is killed, or a store call of an error handler raises, which
\* ends the loop and with it the gateway.
Crash ==
    /\ ~At("down")
    /\ stops < MaxStops
    /\ stops' = stops + 1
    /\ gateway' = Down
    /\ UNCHANGED <<trigger, owner, files, records, history, storeErrors>>

GatewayStep ==
    \/ Start
    \/ RecoverWrite \/ RecoverUnlink
    \/ Claim
    \/ \E channelEnabled \in BOOLEAN : Check(channelEnabled)
    \/ Submit
    \/ TurnStarts
    \/ \E result \in {"ok", "error"} : TurnEnds(result)
    \/ Record
    \/ \E written \in BOOLEAN : Audit(written)
    \/ Complete
    \/ RetryWrite \/ RetryUnlink

Next ==
    \/ GatewayStep
    \/ StoreError \/ Shutdown \/ Crash
    \/ \E t \in Triggers :
          \/ Create(t)
          \/ \E enabled \in BOOLEAN : Enable(t, enabled)
          \/ \E left \in SUBSET Deliveries : Delete(t, left)
          \/ Enqueue(t)

Spec == Init /\ [][Next]_vars

\* The gateway is started again after a stop, its loop keeps running, and every turn
\* it waits for ends.
FairSpec == Spec /\ WF_vars(GatewayStep)

-----------------------------------------------------------------------------
(* Properties.                                                             *)

\* Every variable keeps its type; a stored attempt count never passes the limit of
\* _retry_delivery_unlocked, and only a delivery at the limit is in failed.
TypeOK ==
    /\ trigger \in [Triggers -> {"none", "enabled", "disabled", "deleted"}]
    /\ owner \in [Deliveries -> Triggers \cup {NoOwner}]
    /\ inbox \in [Deliveries -> 0..(MaxDeliveryAttempts - 1) \cup {NoFile}]
    /\ processing \in [Deliveries -> 0..(MaxDeliveryAttempts - 1) \cup {NoFile}]
    /\ failed \in [Deliveries -> {MaxDeliveryAttempts, NoFile}]
    /\ outcome \in [Deliveries -> {"none", "ok", "error"}]
    /\ run \in [Deliveries -> {"none", "queued", "processing", "ok", "error",
                               "retrying", "interrupted"}]
    /\ turns \in [Deliveries -> Nat]
    /\ lateTurns \in [Deliveries -> Nat]
    /\ stops \in 0..MaxStops
    /\ storeErrors \in 0..MaxStoreErrors

\* A message that enqueue accepted is never lost, whatever the order of claims,
\* retries, crashes and store errors: it has a file in one of the directories until
\* record_delivery has written its outcome into the trigger, or the trigger is
\* deleted.
NoDeliveryLost ==
    \A d \in Enqueued :
        \/ d \in In(inbox) \cup In(processing) \cup In(failed)
        \/ outcome[d] # "none"
        \/ trigger[owner[d]] = "deleted"

\* At-least-once, but not more often than something went wrong: without a stop of the
\* gateway or a store error a message is one turn.  _MAX_DELIVERY_ATTEMPTS bounds the
\* turns too, also when a crash leaves a copy in two directories: recovery comes before
\* the first claim and makes them one again.
RerunOnlyAfterFault ==
    \A d \in Deliveries :
        turns[d] <= MaxDeliveryAttempts /\ turns[d] <= 1 + stops + storeErrors

\* After delete returns, at most the one turn that was already past its check starts;
\* files that come back (a retry of a claimed delivery, a removal that failed) start
\* none.
DeletedTriggerStaysQuiet == \A d \in Deliveries : lateTurns[d] <= 1

\* Every accepted message leaves the queue for good: delivered, given up (failed) or
\* deleted with its trigger.
EveryDeliveryLeavesTheQueue ==
    \A d \in Deliveries :
        d \in Enqueued ~> [](inbox[d] = NoFile /\ processing[d] = NoFile)

=============================================================================
