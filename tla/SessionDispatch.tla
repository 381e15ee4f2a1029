--------------------------- MODULE SessionDispatch ---------------------------
(***************************************************************************)
(* AgentLoop's session workers.  Messages of one session go to one inbox   *)
(* (_pending_queues), served by a worker task; the turn it runs may inject *)
(* the messages that arrive meanwhile; turns of automations (cron, local   *)
(* triggers) wait in _deferred_automation_turns until the session is idle, *)
(* and whoever submitted one waits for its completion.  /stop and /new     *)
(* cancel the workers of a session.                                        *)
(*                                                                         *)
(* asyncio runs one task at a time: a step here is what a task does up to  *)
(* its next suspension.  The completion event of a cancelled /compact is   *)
(* awaited but no subscriber suspends, so _cancel_pending_messages is part *)
(* of its caller's step.                                                   *)
(***************************************************************************)
EXTENDS Naturals, Sequences, FiniteSets, SequencesExt

CONSTANTS
    Sessions,      \* session keys
    MaxMessages,   \* bound: messages and automation turns admitted
    Commands,      \* which of "stop" and "new" users send
    MaxCommands,   \* bound: commands dispatched inline
    Permits,       \* max_concurrent_requests
    Nobody         \* no worker, no message

\* Messages are numbered in the order they are admitted.  A worker and its inbox have
\* the number of the message they were created for.
Messages == 1..MaxMessages
Kinds == {"user", "compact", "auto"} \cup (Commands \cap {"new"})

ASSUME DispatchAssumption ==
    /\ MaxMessages \in Nat
    /\ Commands \subseteq {"stop", "new"}
    /\ MaxCommands \in Nat
    /\ Permits \in Nat \ {0}
    /\ Nobody \notin Nat

VARIABLES
    message,    \* message[m]: its kind and session, or Nobody before it is admitted
    inbox,      \* inbox[w]: the queue object of worker w
    admission,  \* admission[s]: the worker whose inbox is _pending_queues[s]
    deferred,   \* deferred[s]: _deferred_automation_turns
    worker,     \* worker[w]: pc, message in hand, snapshot being converted
    active,     \* active[s]: the tasks in _active_tasks
    cancelled,  \* tasks on which cancel() was called
    lock,       \* lock[s]: the holder of the session lock, then those waiting
    canceller,  \* canceller[c]: the call of _cancel_active_tasks c is in
    runLoop,    \* the command run() is busy with
    commands,   \* commands dispatched inline so far
    log,        \* history: messages a turn was started for or that were injected
    dropped,    \* history: messages removed without a turn
    completed   \* completed[m]: how the waiter of automation turn m was answered

vars == <<message, inbox, admission, deferred, worker, active, cancelled, lock,
          canceller, runLoop, commands, log, dropped, completed>>

RunLoop == 0                        \* the caller of an inline command
Callers == {RunLoop} \cup Messages  \* or the worker that runs /new as a turn

Idle == [pc |-> "none", current |-> Nobody, taken |-> <<>>]
NoCommand == [command |-> "none", session |-> Nobody]
NoCall == [session |-> Nobody, pending |-> Nobody, tasks |-> {}]

Admitted == {m \in Messages : message[m] # Nobody}
Kind(m) == message[m].kind
SessionOf(m) == message[m].session
Autos(S) == {m \in S : Kind(m) = "auto"}
At(w, label) == worker[w].pc = label
Ended(w) == At(w, "ended")

\* _can_inject_message: independent turns and commands are not injected.
Injectable(m) == Kind(m) = "user"

Init ==
    /\ message = [m \in Messages |-> Nobody]
    /\ inbox = [w \in Messages |-> <<>>]
    /\ admission = [s \in Sessions |-> Nobody]
    /\ deferred = [s \in Sessions |-> <<>>]
    /\ worker = [w \in Messages |-> Idle]
    /\ active = [s \in Sessions |-> {}]
    /\ cancelled = {}
    /\ lock = [s \in Sessions |-> <<>>]
    /\ canceller = [c \in Callers |-> NoCall]
    /\ runLoop = NoCommand
    /\ commands = 0
    /\ log = [s \in Sessions |-> <<>>]
    /\ dropped = {}
    /\ completed = [m \in Messages |-> "none"]

\* AutomationTurnCoordinator.complete, for every automation turn in S: the first
\* answer counts.
Complete(S, result) ==
    completed' = [m \in Messages |->
                    IF m \in Autos(S) /\ completed[m] = "none" THEN result ELSE completed[m]]

-----------------------------------------------------------------------------
(* Admission.                                                              *)

\* _enqueue_session_message
Enqueue(m, kind, s) ==
    LET w == admission[s]
    IN  /\ message' = [message EXCEPT ![m] = [kind |-> kind, session |-> s]]
        /\ CASE w # Nobody /\ kind = "auto" ->
                  /\ deferred' = [deferred EXCEPT ![s] = Append(@, m)]
                  /\ UNCHANGED <<inbox, admission, worker, active>>
             [] w # Nobody /\ kind # "auto" ->
                  /\ inbox' = [inbox EXCEPT ![w] = Append(@, m)]
                  /\ UNCHANGED <<deferred, admission, worker, active>>
             [] OTHER ->
                  /\ inbox' = [inbox EXCEPT ![m] = <<m>>]
                  /\ admission' = [admission EXCEPT ![s] = m]
                  /\ worker' = [worker EXCEPT ![m].pc = "ready"]
                  /\ active' = [active EXCEPT ![s] = @ \cup {m}]
                  /\ UNCHANGED deferred
        /\ UNCHANGED <<cancelled, lock, canceller, runLoop, commands, log, dropped,
                       completed>>

\* run: a message from the bus.  /new for an active session is dispatched inline.
Receive(m, kind, s) ==
    /\ runLoop = NoCommand
    /\ m = Cardinality(Admitted) + 1
    /\ kind = "new" => admission[s] = Nobody
    /\ Enqueue(m, kind, s)

\* AutomationTurnCoordinator.submit, from the task of the cron job or trigger queue.
Submit(m, s) ==
    /\ m = Cardinality(Admitted) + 1
    /\ Enqueue(m, "auto", s)

-----------------------------------------------------------------------------
(* The worker, _run_session_queue and _dispatch_one.                       *)

\* The worker ends; the callback _active_task_done untracks it.
End(w, s) ==
    /\ worker' = [worker EXCEPT ![w] = [Idle EXCEPT !.pc = "ended"]]
    /\ active' = [active EXCEPT ![s] = @ \ {w}]

\* The next message: the inbox first, then a deferred automation turn.  A worker whose
\* inbox is no longer the admitted one, or with nothing left, ends.
Take(w) ==
    LET s == SessionOf(w)
        Hold(m) == /\ worker' = [worker EXCEPT ![w] = [pc |-> "lock", current |-> m,
                                                       taken |-> <<>>]]
                   /\ lock' = [lock EXCEPT ![s] = Append(@, w)]
                   /\ UNCHANGED <<admission, active>>
    IN  /\ At(w, "next") \/ (At(w, "ready") /\ w \notin cancelled)
        /\ CASE admission[s] # w ->
                  /\ End(w, s)
                  /\ UNCHANGED <<admission, inbox, deferred, lock>>
             [] admission[s] = w /\ inbox[w] # <<>> ->
                  /\ Hold(Head(inbox[w]))
                  /\ inbox' = [inbox EXCEPT ![w] = Tail(@)]
                  /\ UNCHANGED deferred
             [] admission[s] = w /\ inbox[w] = <<>> /\ deferred[s] # <<>> ->
                  /\ Hold(Head(deferred[s]))
                  /\ deferred' = [deferred EXCEPT ![s] = Tail(@)]
                  /\ UNCHANGED inbox
             [] OTHER ->
                  /\ End(w, s)
                  /\ admission' = [admission EXCEPT ![s] = Nobody]
                  /\ UNCHANGED <<inbox, deferred, lock>>
        /\ UNCHANGED <<message, cancelled, canceller, runLoop, commands, log, dropped,
                       completed>>

\* A task cancelled before its first step never runs.
CancelledEarly(w) ==
    /\ At(w, "ready")
    /\ w \in cancelled
    /\ End(w, SessionOf(w))
    /\ UNCHANGED <<message, inbox, admission, deferred, cancelled, lock, canceller,
                   runLoop, commands, log, dropped, completed>>

InTurn == {w \in Messages : worker[w].pc \in {"turn", "drain", "new", "reset"}}

\* async with lock, gate
StartTurn(w) ==
    LET s == SessionOf(w)
    IN  /\ At(w, "lock")
        /\ Head(lock[s]) = w
        /\ Cardinality(InTurn) < Permits
        /\ worker' = [worker EXCEPT ![w].pc = "turn"]
        /\ log' = [log EXCEPT ![s] = Append(@, worker[w].current)]
        /\ UNCHANGED <<message, inbox, admission, deferred, active, cancelled, lock,
                       canceller, runLoop, commands, dropped, completed>>

\* _drain_pending takes a snapshot of the inbox; converting it may suspend.
Snapshot(w) ==
    /\ At(w, "turn")
    /\ Kind(worker[w].current) \in {"user", "auto"}
    /\ inbox[w] # <<>>
    /\ Injectable(Head(inbox[w]))
    /\ worker' = [worker EXCEPT ![w].pc = "drain", ![w].taken = inbox[w]]
    /\ inbox' = [inbox EXCEPT ![w] = <<>>]
    /\ UNCHANGED <<message, admission, deferred, active, cancelled, lock, canceller,
                   runLoop, commands, log, dropped, completed>>

\* Mutant: what is not consumed goes behind the messages that arrived meanwhile.
ReturnedBehind(w, consumed) ==
    inbox[w] \o SubSeq(worker[w].taken, consumed + 1, Len(worker[w].taken))

\* Mutant: the whole snapshot goes back, consumed or not.
ReturnedWhole(w, consumed) == worker[w].taken \o inbox[w]

\* The inbox once the unconsumed part of the snapshot is back in front.
Returned(w, consumed) ==
    SubSeq(worker[w].taken, consumed + 1, Len(worker[w].taken)) \o inbox[w]

\* The messages before the first one that cannot be injected.
InjectablePrefix(taken) ==
    Cardinality({i \in DOMAIN taken : \A j \in 1..i : Injectable(taken[j])})

\* The prefix is injected, or nothing of it when converting a message raises.
Inject(w, fails) ==
    LET taken == worker[w].taken
        consumed == IF fails THEN 0 ELSE InjectablePrefix(taken)
    IN  /\ At(w, "drain")
        /\ inbox' = [inbox EXCEPT ![w] = Returned(w, consumed)]
        /\ worker' = [worker EXCEPT ![w].pc = "turn", ![w].taken = <<>>]
        /\ log' = [log EXCEPT ![SessionOf(w)] = @ \o SubSeq(taken, 1, consumed)]
        /\ UNCHANGED <<message, admission, deferred, active, cancelled, lock, canceller,
                       runLoop, commands, dropped, completed>>

\* Mutant: the lock is not released by a turn that raises.
EndTurnKeepsLock(w, result) ==
    /\ worker[w].pc \in {"turn", "reset"}
    /\ At(w, "turn") => Kind(worker[w].current) # "new"
    /\ Complete({worker[w].current}, result)
    /\ worker' = [worker EXCEPT ![w] = [Idle EXCEPT !.pc = "next"]]
    /\ lock' = IF result = "ok" THEN [lock EXCEPT ![SessionOf(w)] = Tail(@)] ELSE lock
    /\ UNCHANGED <<message, inbox, admission, deferred, active, cancelled, canceller,
                   runLoop, commands, log, dropped>>

\* The turn answers or raises; the waiter of an automation turn learns of it.
EndTurn(w, result) ==
    /\ worker[w].pc \in {"turn", "reset"}
    /\ At(w, "turn") => Kind(worker[w].current) # "new"
    /\ Complete({worker[w].current}, result)
    /\ worker' = [worker EXCEPT ![w] = [Idle EXCEPT !.pc = "next"]]
    /\ lock' = [lock EXCEPT ![SessionOf(w)] = Tail(@)]
    /\ UNCHANGED <<message, inbox, admission, deferred, active, cancelled, canceller,
                   runLoop, commands, log, dropped>>

\* Mutant: deferred turns are forgotten.
QueuedInInbox(s, queue) == ToSet(queue)

\* What _cancel_pending_messages answers: everything queued or deferred for s.
Queued(s, queue) == ToSet(queue) \cup ToSet(deferred[s])

\* CancelledError in _dispatch_one: the snapshot is returned, the message in hand and
\* everything queued or deferred for the session is answered with an error
\* (_cancel_pending_messages), and the inbox is given up if it is still the admitted one.
Cancelled(w) ==
    LET s == SessionOf(w)
        current == worker[w].current
        queued == Queued(s, Returned(w, 0))
    IN  /\ w \in cancelled
        /\ worker[w].pc \in {"lock", "turn", "drain", "reset"}
        /\ Complete(queued \cup {current}, "error")
        /\ dropped' = dropped \cup queued \cup (IF At(w, "lock") THEN {current} ELSE {})
        /\ inbox' = [inbox EXCEPT ![w] = <<>>]
        /\ deferred' = [deferred EXCEPT ![s] = <<>>]
        /\ admission' = [admission EXCEPT ![s] = IF @ = w THEN Nobody ELSE @]
        /\ lock' = [lock EXCEPT ![s] = SelectSeq(@, LAMBDA v : v # w)]
        /\ End(w, s)
        /\ UNCHANGED <<message, cancelled, canceller, runLoop, commands, log>>

-----------------------------------------------------------------------------
(* Commands.  _cancel_active_tasks is called by run() for a command that   *)
(* is dispatched inline, or by the worker that runs /new as a turn.        *)

\* Tasks are untracked and cancelled; the caller will wait for them.  A worker that
\* cancels itself only swallows that cancellation.
BeginCancel(c, s) ==
    /\ canceller' = [canceller EXCEPT ![c] = [session |-> s, pending |-> admission[s],
                                             tasks |-> active[s]]]
    /\ cancelled' = cancelled \cup (active[s] \ {c})
    /\ active' = [active EXCEPT ![s] = {}]

\* Mutant: the cleanup is left to the workers.
ReclaimsNothing(c) == FALSE

\* A task cancelled before its first step has not cleaned up: its inbox, and only
\* that one, is reclaimed.
Reclaims(c) ==
    /\ canceller[c].tasks # {}
    /\ canceller[c].pending # Nobody
    /\ admission[canceller[c].session] = canceller[c].pending

\* The tasks have ended; _cancel_pending_messages answers what is left.
EndCancel(c) ==
    LET s == canceller[c].session
        w == admission[s]
        queued == Queued(s, inbox[w])
    IN  /\ s # Nobody
        /\ \A t \in canceller[c].tasks \ {c} : Ended(t)
        /\ IF Reclaims(c)
           THEN /\ admission' = [admission EXCEPT ![s] = Nobody]
                /\ Complete(queued, "error")
                /\ dropped' = dropped \cup queued
                /\ inbox' = [inbox EXCEPT ![w] = <<>>]
                /\ deferred' = [deferred EXCEPT ![s] = <<>>]
           ELSE UNCHANGED <<admission, completed, dropped, inbox, deferred>>
        /\ canceller' = [canceller EXCEPT ![c] = NoCall]

\* /new as a turn of its own session.
BeginNew(w) ==
    /\ At(w, "turn")
    /\ Kind(worker[w].current) = "new"
    /\ BeginCancel(w, SessionOf(w))
    /\ worker' = [worker EXCEPT ![w].pc = "new"]
    /\ UNCHANGED <<message, inbox, admission, deferred, lock, runLoop, commands, log,
                   dropped, completed>>

EndNew(w) ==
    /\ At(w, "new")
    /\ EndCancel(w)
    /\ worker' = [worker EXCEPT ![w].pc = "reset"]
    /\ UNCHANGED <<message, active, cancelled, lock, runLoop, commands, log>>

\* _dispatch_command_inline: /stop always, /new while the session is active.
Command(command, s) ==
    /\ runLoop = NoCommand
    /\ commands < MaxCommands
    /\ command = "new" => admission[s] # Nobody
    /\ commands' = commands + 1
    /\ BeginCancel(RunLoop, s)
    /\ runLoop' = [command |-> command, session |-> s]
    /\ UNCHANGED <<message, inbox, admission, deferred, worker, lock, log, dropped,
                   completed>>

CommandCancelled ==
    /\ EndCancel(RunLoop)
    /\ UNCHANGED <<message, worker, active, cancelled, lock, runLoop, commands, log>>

\* After the subagents and exec sessions of the session are gone too (both awaited),
\* cmd_stop empties whatever inbox the session has now.
EndCommand ==
    LET s == runLoop.session
        w == admission[s]
    IN  /\ runLoop # NoCommand
        /\ canceller[RunLoop] = NoCall
        /\ runLoop' = NoCommand
        /\ IF runLoop.command = "stop" /\ w # Nobody
           THEN /\ admission' = [admission EXCEPT ![s] = Nobody]
                /\ inbox' = [inbox EXCEPT ![w] = <<>>]
                /\ dropped' = dropped \cup ToSet(inbox[w])
           ELSE UNCHANGED <<admission, inbox, dropped>>
        /\ UNCHANGED <<message, deferred, worker, active, cancelled, lock, canceller,
                       commands, log, completed>>

-----------------------------------------------------------------------------

WorkerStep(w) ==
    \/ Take(w)
    \/ CancelledEarly(w)
    \/ Snapshot(w)
    \/ \E fails \in BOOLEAN : Inject(w, fails)
    \/ Cancelled(w)
    \/ BeginNew(w) \/ EndNew(w)

FinishTurn(w) == \E result \in {"ok", "error"} : EndTurn(w, result)

Next ==
    \/ \E m \in Messages, s \in Sessions :
          \/ \E kind \in Kinds \ {"auto"} : Receive(m, kind, s)
          \/ Submit(m, s)
    \/ \E w \in Messages : WorkerStep(w) \/ StartTurn(w) \/ FinishTurn(w)
    \/ \E command \in Commands, s \in Sessions : Command(command, s)
    \/ CommandCancelled
    \/ EndCommand

Spec == Init /\ [][Next]_vars

\* Tasks that can run do, and a turn does not go on for ever (max_iterations), however
\* often it looks at its inbox.
FairSpec ==
    /\ Spec
    /\ \A w \in Messages : /\ WF_vars(WorkerStep(w))
                            /\ WF_vars(StartTurn(w))
                            /\ SF_vars(FinishTurn(w))
    /\ WF_vars(CommandCancelled)
    /\ WF_vars(EndCommand)

-----------------------------------------------------------------------------
(* Properties.                                                             *)

\* Every variable keeps its type; the session lock is held by a worker in its turn or
\* about to begin it, and nobody is queued for it twice.
TypeOK ==
    /\ message \in [Messages -> [kind : Kinds, session : Sessions] \cup {Nobody}]
    /\ admission \in [Sessions -> Messages \cup {Nobody}]
    /\ cancelled \subseteq Messages
    /\ dropped \subseteq Messages
    /\ completed \in [Messages -> {"none", "ok", "error"}]
    /\ \A s \in Sessions :
          /\ active[s] \subseteq Messages
          /\ IsInjective(lock[s])
          /\ ToSet(lock[s]) = {w \in Admitted : SessionOf(w) = s /\
                                  worker[w].pc \in {"lock", "turn", "drain", "new", "reset"}}

Occurrences(m) ==
    LET In(seq) == Cardinality({i \in DOMAIN seq : seq[i] = m})
        s == SessionOf(m)
    IN  In(deferred[s]) + In(log[s])
          + Cardinality({w \in Messages : At(w, "lock") /\ worker[w].current = m})
          + (IF m \in dropped THEN 1 ELSE 0)
          + FoldFunction(LAMBDA seq, n : In(seq) + n, 0, inbox)
          + FoldFunction(LAMBDA v, n : In(v.taken) + n, 0, worker)

\* A message is neither lost nor handled twice, through snapshots that are returned,
\* cancelled turns and inboxes that change hands: it is queued or deferred once, or in
\* one turn, or was dropped by a command.
EachMessageOnce == \A m \in Admitted : Occurrences(m) = 1

\* The user's messages and commands of a session reach the agent in the order they
\* were admitted, injected or as turns, also when a failed conversion puts some back.
InputInOrder ==
    \A s \in Sessions :
        LET input == SelectSeq(log[s], LAMBDA m : Kind(m) # "auto")
        IN  \A i, j \in DOMAIN input : i < j => input[i] < input[j]

Handled(m) == m \in dropped \/ \E s \in Sessions : m \in ToSet(log[s])

\* Input is dropped only by a command; without one every message is handled.
EveryInputHandled == []<>(\A m \in Admitted : Handled(m))

\* Whoever submits an automation turn is answered: the turn ends, or its session is
\* stopped ("Complete queued independent turns after their session worker stops").
EverySubmitterAnswered == []<>(\A m \in Autos(Admitted) : completed[m] # "none")
=============================================================================
