------------------------------ MODULE TurnRecovery ------------------------------
(***************************************************************************)
(* Turns of one web UI session across restarts: the checkpoints of         *)
(* AgentRunner (agent/runner.py), the turn stages and the session worker   *)
(* of AgentLoop (agent/loop.py), and RecoveryCoordinator                   *)
(* (session/recovery.py), which offers an interrupted turn again.          *)
(*                                                                         *)
(* The gateway's store is SqliteSessionStore: a save replaces the whole    *)
(* session in one transaction and follows the change without an await, so  *)
(* `session` is both the cached object and the stored one.  What a crash   *)
(* takes away is everything else: the bus, the inbox and the running turn. *)
(***************************************************************************)
EXTENDS Integers, Sequences, FiniteSets, SequencesExt

CONSTANTS MaxMsgs,    \* bound on the user's messages
          MaxTools,   \* bound on tool calls
          MaxFaults,  \* bound on crashes and failed turns
          MaxStops,   \* bound on /stop
          MaxLate,    \* bound on clicks that reach the gateway late
          LateActions \* the actions among them

ASSUME RecoveryAssumption ==
    /\ {MaxMsgs, MaxTools, MaxFaults, MaxStops, MaxLate} \subseteq Nat
    /\ LateActions \subseteq {"continue", "dismiss"}

(***************************************************************************)
(* Rows of the history.  "cut" is the result restore_runtime_checkpoint    *)
(* makes up for a call that did not finish, "note" the assistant row that  *)
(* closes an interrupted request.                                          *)
(***************************************************************************)
Row(kind, id) == [kind |-> kind, id |-> id]
Users(s) == {s[i].id : i \in {j \in 1..Len(s) : s[j].kind = "user"}}

NoCheckpoint == [phase |-> "none", id |-> 0]
Open == {"resuming", "awaiting_user"}      \* recovery states that are unresolved

VARIABLES
    up,        \* "down", "up"
    session,   \* the session, see NewSession
    bus,       \* inbound messages: a user's number, or Continuation(id), a negative one
    inbox,     \* the queue of the session worker
    worker,    \* the session worker and its turn, see NoWorker
    late,      \* recovery actions clicked that have not arrived
    goal,      \* the session has an active sustained goal
    sent,      \* number of messages the user has sent
    tools,     \* number of tool calls the model has made
    effects,   \* history: tool calls that were executed
    latest,    \* history: the call the last checkpoint is about, if it was executed, or 0
    journaled, \* history: follow-ups that were journaled
    clicks,    \* history: Continue actions that were accepted
    resumed,   \* history: continuation turns that were started
    cut,       \* history: the last continuation was stopped by the user
    asked,     \* history: calls of ask_user that ended their turn
    torn,      \* history: a late dismissal restored the checkpoint of a running turn
    faults, stops

env == <<goal, sent, tools, effects, latest, journaled, clicks, resumed, cut, asked, torn,
         faults, stops>>
vars == <<up, session, bus, inbox, worker, late, env>>

NewSession == [
    msgs |-> <<>>,
    checkpoint |-> NoCheckpoint,   \* runtime_checkpoint
    pending |-> FALSE,             \* pending_user_turn
    journal |-> <<>>,              \* pending_user_followups
    status |-> "none", rid |-> 0, can |-> TRUE, count |-> 0]   \* webui_recovery

NoWorker == [pc |-> "none", msg |-> 0, rows |-> <<>>]

Continuation(rid) == -rid
IsContinuation(m) == m < 0

Init ==
    /\ up = "up" /\ session = NewSession /\ bus = <<>> /\ inbox = <<>>
    /\ worker = NoWorker /\ late = {} /\ goal \in BOOLEAN
    /\ sent = 0 /\ tools = 0 /\ effects = {} /\ latest = 0 /\ journaled = {}
    /\ clicks = 0 /\ resumed = 0 /\ cut = FALSE /\ asked = {} /\ torn = FALSE
    /\ faults = 0 /\ stops = 0

--------------------------------------------------------------------------------
(***************************************************************************)
(* Restoring.                                                              *)
(***************************************************************************)
\* A mutant of RestoredRows: calls without a result are left out
RestoredRowsCompleted(c) ==
    CASE c.phase = "awaiting_tools"  -> <<>>
      [] c.phase = "tools_completed" -> <<Row("call", c.id), Row("result", c.id)>>
      [] c.phase = "final_response"  -> <<Row("answer", c.id)>>

\* A mutant of RestoredRows: no result is made up for a call that did not finish
RestoredRowsOpen(c) ==
    CASE c.phase = "awaiting_tools"  -> <<Row("call", c.id)>>
      [] c.phase = "tools_completed" -> <<Row("call", c.id), Row("result", c.id)>>
      [] c.phase = "final_response"  -> <<Row("answer", c.id)>>

\* the rows of a checkpoint: only the last iteration of the turn is in it
RestoredRows(c) ==
    CASE c.phase = "awaiting_tools"  -> <<Row("call", c.id), Row("cut", c.id)>>
      [] c.phase = "tools_completed" -> <<Row("call", c.id), Row("result", c.id)>>
      [] c.phase = "final_response"  -> <<Row("answer", c.id)>>

\* restored rows that the history ends with already are not added again
Overlap(msgs, rows) ==
    Max({0} \cup {n \in 1..Len(rows) :
                     n <= Len(msgs) /\ \A i \in 1..n : msgs[Len(msgs) - n + i] = rows[i]})

\* restore_runtime_checkpoint
RestoreCheckpoint(s) ==
    IF s.checkpoint = NoCheckpoint THEN s
    ELSE LET rows == RestoredRows(s.checkpoint) IN
         [s EXCEPT !.msgs = @ \o SubSeq(rows, Overlap(@, rows) + 1, Len(rows)),
                   !.checkpoint = NoCheckpoint, !.pending = FALSE]

\* restore_pending_interruption
RestorePending(s) ==
    IF ~s.pending THEN s
    ELSE [s EXCEPT !.pending = FALSE,
                   !.msgs = IF @ # <<>> /\ Last(@).kind = "user"
                            THEN Append(@, Row("note", 0)) ELSE @]

\* append_recovery_interruption
AppendInterruption(s) ==
    IF s.msgs # <<>> /\ Last(s.msgs).kind \in {"cut", "note"} THEN s
    ELSE [s EXCEPT !.msgs = Append(@, Row("note", 0))]

\* _set_state
SetState(s, status, rid, can, count) ==
    [s EXCEPT !.status = status, !.rid = rid, !.can = can, !.count = count]
Resolve(s) == SetState(s, "recovered", s.rid, TRUE, 0)

\* admit, for a user's message: it supersedes an unresolved recovery
Supersede(s) ==
    IF s.status \notin Open THEN s
    ELSE LET r == RestoreCheckpoint(s) IN
         Resolve(IF r.pending THEN RestorePending(r) ELSE AppendInterruption(r))

\* admit, for a continuation
AdmitsContinuation(m) == session.status = "resuming" /\ m = Continuation(session.rid)

(***************************************************************************)
(* The worker is cancelled: a turn inside _process_message materialises    *)
(* its checkpoint; what waits in the inbox is dropped.                     *)
(***************************************************************************)
InTurn == worker.pc \in {"restored", "request", "tool", "ran", "final", "saved"}
Cancelled(s) == IF InTurn THEN RestoreCheckpoint(s) ELSE s

--------------------------------------------------------------------------------
(***************************************************************************)
(* AgentLoop.run: routing.                                                 *)
(***************************************************************************)
UserSends ==
    /\ up = "up" /\ sent < MaxMsgs
    /\ sent' = sent + 1
    /\ bus' = Append(bus, sent')
    /\ UNCHANGED <<up, session, inbox, worker, late, goal, tools, effects, latest, journaled,
                   clicks, resumed, cut, faults, stops, asked, torn>>

\* _enqueue_session_message: a worker is started, or a follow-up journaled
Enqueue(m, s, w, queue) ==
    IF w.pc = "none"
    THEN /\ session' = s /\ worker' = [w EXCEPT !.pc = "idle"] /\ inbox' = <<m>>
         /\ UNCHANGED journaled
    ELSE /\ worker' = w /\ inbox' = Append(queue, m)
         /\ IF IsContinuation(m)
            THEN session' = s /\ UNCHANGED journaled
            ELSE /\ session' = [s EXCEPT !.journal = IF Contains(@, m) THEN @ ELSE Append(@, m)]
                 /\ journaled' = journaled \cup {m}

Routes(m) == up = "up" /\ bus # <<>> /\ Head(bus) = m /\ bus' = Tail(bus)

RouteContinuation(m) ==
    /\ Routes(m) /\ IsContinuation(m)
    /\ IF worker.pc # "none" /\ ~AdmitsContinuation(m)
       THEN UNCHANGED <<session, inbox, worker, journaled>>
       ELSE Enqueue(m, session, worker, inbox)
    /\ UNCHANGED <<up, late, goal, sent, tools, effects, latest, clicks, resumed, cut, faults,
                   stops, asked, torn>>

\* The worker is running a continuation that the message supersedes
RunsContinuation == worker.pc \notin {"none", "idle"} /\ IsContinuation(worker.msg)

RouteMessage(m) ==
    /\ Routes(m) /\ ~IsContinuation(m)
    /\ IF worker.pc # "none" /\ session.status \in Open
       THEN IF RunsContinuation
            THEN Enqueue(m, Supersede(Cancelled(session)), NoWorker, <<>>)
            ELSE Enqueue(m, Supersede(session), worker, inbox)
       ELSE Enqueue(m, session, worker, inbox)
    /\ UNCHANGED <<up, late, goal, sent, tools, effects, latest, clicks, resumed, cut, faults,
                   stops, asked, torn>>

\* A mutant of Stop: what waits in the inbox is kept
StopKeepsInbox ==
    /\ up = "up" /\ worker.pc # "none" /\ stops < MaxStops
    /\ stops' = stops + 1
    /\ session' = Cancelled(session)
    /\ worker' = NoWorker /\ inbox' = inbox
    /\ cut' = (cut \/ RunsContinuation \/ \E i \in 1..Len(inbox) : IsContinuation(inbox[i]))
    /\ UNCHANGED <<up, bus, late, goal, sent, tools, effects, latest, journaled, clicks,
                   resumed, faults, asked, torn>>

\* /stop: _cancel_active_tasks
Stop ==
    /\ up = "up" /\ worker.pc # "none" /\ stops < MaxStops
    /\ stops' = stops + 1
    /\ session' = Cancelled(session)
    /\ worker' = NoWorker /\ inbox' = <<>>
    /\ cut' = (cut \/ RunsContinuation \/ \E i \in 1..Len(inbox) : IsContinuation(inbox[i]))
    /\ UNCHANGED <<up, bus, late, goal, sent, tools, effects, latest, journaled, clicks, resumed,
                   faults, asked, torn>>

--------------------------------------------------------------------------------
(***************************************************************************)
(* The worker: _run_session_queue, _dispatch_one and the turn stages.      *)
(***************************************************************************)
TakeMessage ==
    /\ worker.pc = "idle" /\ inbox # <<>>
    /\ inbox' = Tail(inbox)
    /\ LET m == Head(inbox) IN
       IF IsContinuation(m) /\ ~AdmitsContinuation(m)
       THEN UNCHANGED <<session, worker>>
       ELSE /\ worker' = [NoWorker EXCEPT !.pc = "locked", !.msg = m]
            /\ session' = IF IsContinuation(m) THEN session ELSE Supersede(session)
    /\ UNCHANGED <<up, bus, late, env>>

WorkerExits ==
    /\ worker.pc = "idle" /\ inbox = <<>>
    /\ worker' = NoWorker
    /\ UNCHANGED <<up, session, bus, inbox, late, env>>

\* the lock and the gate are taken.  A continuation, also one of a recovery, is
\* dropped unless the session has an active goal.
DropContinuation ==
    /\ worker.pc = "locked" /\ IsContinuation(worker.msg) /\ ~goal
    /\ worker' = [NoWorker EXCEPT !.pc = "idle"]
    /\ UNCHANGED <<up, session, bus, inbox, late, env>>

\* _restore_turn
RestoreTurn ==
    /\ worker.pc = "locked" /\ (IsContinuation(worker.msg) => goal)
    /\ session' = IF IsContinuation(worker.msg) THEN RestoreCheckpoint(session)
                  ELSE RestorePending(RestoreCheckpoint(session))
    /\ worker' = [worker EXCEPT !.pc = "restored"]
    /\ resumed' = IF IsContinuation(worker.msg) THEN resumed + 1 ELSE resumed
    /\ UNCHANGED <<up, bus, inbox, late, goal, sent, tools, effects, latest, journaled, clicks, cut,
                   faults, stops, asked, torn>>

\* acknowledge_pending_followups: the journal without the messages in S
Keep(kept, m, S) == IF m \in S THEN kept ELSE Append(kept, m)
Kept(journal, S) ==
    LET f[n \in 0..Len(journal)] == IF n = 0 THEN <<>> ELSE Keep(f[n - 1], journal[n], S) IN f
Without(journal, S) == Kept(journal, S)[Len(journal)]

\* _build_turn with _persist_user_message_early
BuildTurn ==
    /\ worker.pc = "restored"
    /\ worker' = [worker EXCEPT !.pc = "request"]
    /\ session' = IF IsContinuation(worker.msg) THEN session
                  ELSE [session EXCEPT !.msgs = Append(@, Row("user", worker.msg)),
                                       !.pending = TRUE,
                                       !.journal = Without(@, {worker.msg})]
    /\ UNCHANGED <<up, bus, inbox, late, env>>

(***************************************************************************)
(* AgentRunner.run.  Follow-ups in the inbox are injected as user rows     *)
(* after tool results, or instead of ending with an answer.                *)
(***************************************************************************)
Injectable == SubSeq(inbox, 1,
    IF \E i \in 1..Len(inbox) : IsContinuation(inbox[i])
    THEN Min({i \in 1..Len(inbox) : IsContinuation(inbox[i])}) - 1 ELSE Len(inbox))
Injected == [i \in 1..Len(Injectable) |-> Row("user", Injectable[i])]

Emit(checkpoint) == session' = [session EXCEPT !.checkpoint = checkpoint]

ModelCallsTool ==
    /\ worker.pc = "request" /\ tools < MaxTools
    /\ tools' = tools + 1
    /\ worker' = [worker EXCEPT !.pc = "tool", !.rows = Append(@, Row("call", tools'))]
    /\ Emit([phase |-> "awaiting_tools", id |-> tools'])
    /\ latest' = 0
    /\ UNCHANGED <<up, bus, inbox, late, goal, sent, effects, journaled, clicks, resumed,
                   cut, faults, stops, asked, torn>>

ToolRuns ==
    /\ worker.pc = "tool"
    /\ latest' = Last(worker.rows).id
    /\ effects' = effects \cup {latest'}
    /\ worker' = [worker EXCEPT !.pc = "ran"]
    /\ UNCHANGED <<up, session, bus, inbox, late, goal, sent, tools, journaled, clicks,
                   resumed, cut, faults, stops, asked, torn>>

ToolDone ==
    /\ worker.pc = "ran"
    /\ LET k == Last(worker.rows).id IN
       /\ Emit([phase |-> "tools_completed", id |-> k])
       /\ worker' = [worker EXCEPT !.pc = "request",
                                   !.rows = Append(@, Row("result", k)) \o Injected]
    /\ inbox' = SubSeq(inbox, Len(Injectable) + 1, Len(inbox))
    /\ UNCHANGED <<up, bus, late, env>>

(***************************************************************************)
(* The tool is ask_user: the question ends the turn, with no result for    *)
(* the call and the checkpoint still at "awaiting_tools".  It is the       *)
(* only fatal error a tool can have: _run_tool turns the others into       *)
(* results, so the branch for them (the rows, an error message, follow-ups *)
(* or the end of the turn) is never taken.                                 *)
(***************************************************************************)
AsksUser ==
    /\ worker.pc = "ran"
    /\ worker' = [worker EXCEPT !.pc = "final"]
    /\ asked' = asked \cup {Last(worker.rows).id}
    /\ UNCHANGED <<up, session, bus, inbox, late, goal, sent, tools, effects, latest, journaled,
                   clicks, resumed, cut, torn, faults, stops>>

ModelAnswers ==
    /\ worker.pc = "request"
    /\ Emit([phase |-> "final_response", id |-> worker.msg])
    /\ worker' = [worker EXCEPT !.pc = IF Injectable = <<>> THEN "final" ELSE "request",
                                !.rows = Append(@, Row("answer", worker.msg)) \o Injected]
    /\ inbox' = SubSeq(inbox, Len(Injectable) + 1, Len(inbox))
    /\ latest' = 0
    /\ UNCHANGED <<up, bus, late, goal, sent, tools, effects, journaled, clicks, resumed,
                   cut, faults, stops, asked, torn>>

\* The tool results _save_turn keeps: those of a call that has none yet
Declared(msgs, k) == \E i \in 1..Len(msgs) : msgs[i] = Row("call", k)
Fulfilled(msgs, k) == \E i \in 1..Len(msgs) : msgs[i].kind \in {"result", "cut"} /\ msgs[i].id = k
SaveRow(msgs, row) ==
    IF row.kind = "result" /\ (~Declared(msgs, row.id) \/ Fulfilled(msgs, row.id))
    THEN msgs ELSE Append(msgs, row)

\* _save_turn: the history after each of the rows of the turn
Saving(msgs, rows) ==
    LET f[n \in 0..Len(rows)] == IF n = 0 THEN msgs ELSE SaveRow(f[n - 1], rows[n]) IN f
Saved(msgs, rows) == Saving(msgs, rows)[Len(rows)]

\* A mutant of PersistTurn: injected follow-ups stay in the journal
PersistTurnKeepsJournal ==
    /\ worker.pc = "final"
    /\ session' = [session EXCEPT !.msgs = Saved(@, worker.rows),
                                  !.pending = FALSE, !.checkpoint = NoCheckpoint]
    /\ worker' = [worker EXCEPT !.pc = "saved"]
    /\ UNCHANGED <<up, bus, inbox, late, env>>

\* _persist_turn: one save for the rows, the journal and both markers
PersistTurn ==
    /\ worker.pc = "final"
    /\ session' = [session EXCEPT
           !.msgs = Saved(@, worker.rows),
           !.journal = Without(@, Users(worker.rows)),
           !.pending = FALSE, !.checkpoint = NoCheckpoint]
    /\ worker' = [worker EXCEPT !.pc = "saved"]
    /\ UNCHANGED <<up, bus, inbox, late, env>>

\* A mutant of Completed: only the message of the click resolves the recovery
CompletedNever(s) == s

\* the turn's completion is published: RecoveryCoordinator.turn_completed
Completed(s) == IF s.status = "resuming" THEN Resolve(s) ELSE s

CompleteTurn ==
    /\ worker.pc = "saved"
    /\ session' = Completed(session)
    /\ worker' = [NoWorker EXCEPT !.pc = "idle"]
    /\ UNCHANGED <<up, bus, inbox, late, env>>

\* the turn raises: it is completed as failed, and the checkpoint stays
TurnFails ==
    /\ worker.pc \in {"restored", "request", "tool", "ran"} /\ faults < MaxFaults
    /\ faults' = faults + 1
    /\ session' = Completed(session)
    /\ worker' = [NoWorker EXCEPT !.pc = "idle"]
    /\ UNCHANGED <<up, bus, inbox, late, goal, sent, tools, effects, latest, journaled, clicks,
                   resumed, cut, stops, asked, torn>>

--------------------------------------------------------------------------------
(***************************************************************************)
(* The gateway dies, or exits: preserve_inflight_turns_on_shutdown leaves  *)
(* the checkpoint as it is.                                                *)
(***************************************************************************)
Crash ==
    /\ up = "up" /\ faults < MaxFaults
    /\ faults' = faults + 1
    /\ up' = "down" /\ bus' = <<>> /\ inbox' = <<>> /\ worker' = NoWorker /\ late' = {}
    /\ UNCHANGED <<session, goal, sent, tools, effects, latest, journaled, clicks, resumed, cut,
                   stops, asked, torn>>

\* _has_saved_continuation_context
HasContext(msgs) ==
    LET users == {i \in 1..Len(msgs) : msgs[i].kind = "user"} IN
    /\ users # {} /\ Max(users) < Len(msgs)
    /\ \/ Last(msgs).kind \in {"result", "cut"}
       \/ \E i \in Max(users) + 1..Len(msgs) : msgs[i].kind \in {"cut", "note", "call"}

(***************************************************************************)
(* _recover_session; `unfinished` is whether the transcript of the web UI  *)
(* ends inside a turn.  The channel writes it when it delivers, so a crash *)
(* may leave it so after the turn, too.                                    *)
(***************************************************************************)
Recovered(s, rid, unfinished) ==
    IF ~s.pending /\ s.checkpoint = NoCheckpoint
    THEN IF s.status = "resuming"
         THEN IF Len(s.msgs) > s.count THEN Resolve(s)
              ELSE SetState(s, "awaiting_user", s.rid, TRUE, 0)
         ELSE IF unfinished
              THEN SetState(s, "awaiting_user", rid, HasContext(s.msgs), 0)
              ELSE s
    ELSE IF s.status = "awaiting_user" THEN s
    ELSE IF s.status = "resuming"
         THEN SetState(RestorePending(RestoreCheckpoint(s)), "awaiting_user", s.rid, TRUE, 0)
    ELSE IF s.checkpoint.phase = "final_response"
         THEN SetState(RestoreCheckpoint(s), "recovered", rid, TRUE, 0)
         ELSE SetState(RestoreCheckpoint(s), "awaiting_user", rid, TRUE, 0)

NeedsRecovery(s, unfinished) ==
    s.pending \/ s.checkpoint # NoCheckpoint \/ s.journal # <<>> \/ s.status \in Open
      \/ unfinished

\* A mutant of Restart: an interrupted continuation is queued again
RestartResumes(unfinished) ==
    /\ up = "down" /\ (unfinished => session.msgs # <<>>)
    /\ up' = "up"
    /\ IF NeedsRecovery(session, unfinished)
       THEN IF session.status = "resuming"
            THEN UNCHANGED session /\ bus' = <<Continuation(session.rid)>> \o session.journal
            ELSE /\ session' = Recovered(session, session.rid + 1, unfinished)
                 /\ bus' = session.journal
       ELSE UNCHANGED <<session, bus>>
    /\ UNCHANGED <<inbox, worker, late, env>>

\* scan, before any channel accepts input; then the follow-ups are queued again
Restart(unfinished) ==
    /\ up = "down" /\ (unfinished => session.msgs # <<>>)
    /\ up' = "up"
    /\ IF NeedsRecovery(session, unfinished)
       THEN /\ session' = Recovered(session, session.rid + 1, unfinished)
            /\ bus' = session.journal
       ELSE UNCHANGED <<session, bus>>
    /\ UNCHANGED <<inbox, worker, late, env>>

--------------------------------------------------------------------------------
(***************************************************************************)
(* handle_action.  The web UI offers both actions while the state it shows *)
(* is "awaiting_user"; a click may arrive late.                            *)
(***************************************************************************)
Continue(rid) ==
    /\ session.rid = rid
    /\ IF session.status = "awaiting_user" /\ session.can
       THEN /\ session' = SetState(session, "resuming", rid, TRUE, Len(session.msgs))
            /\ bus' = Append(bus, Continuation(rid))
            /\ clicks' = clicks + 1 /\ cut' = FALSE
       ELSE UNCHANGED <<session, bus, clicks, cut>>

Dismiss(rid) ==
    /\ session.rid = rid
    /\ session' = Resolve(RestorePending(RestoreCheckpoint(session)))
    /\ UNCHANGED <<bus, clicks, cut>>

\* a late action for another recovery is refused
Act(action, rid) ==
    IF session.rid # rid THEN UNCHANGED <<session, bus, clicks, cut>>
    ELSE IF action = "continue" THEN Continue(rid) ELSE Dismiss(rid)

ClickNow(action) ==
    /\ up = "up" /\ session.status = "awaiting_user"
    /\ Act(action, session.rid)
    /\ UNCHANGED <<up, inbox, worker, late, goal, sent, tools, effects, latest, journaled, resumed,
                   faults, stops, asked, torn>>

ClickLate(action) ==
    /\ up = "up" /\ session.status = "awaiting_user" /\ Cardinality(late) < MaxLate
    /\ action \in LateActions
    /\ late' = late \cup {<<action, session.rid>>}
    /\ UNCHANGED <<up, session, bus, inbox, worker, env>>

\* the dismissal is of a running turn whose last call is in the checkpoint
Tears(action, rid) ==
    /\ action = "dismiss" /\ session.rid = rid /\ InTurn
    /\ session.checkpoint.phase \in {"awaiting_tools", "tools_completed"}

ClickArrives(click) ==
    /\ up = "up" /\ click \in late
    /\ late' = late \ {click}
    /\ Act(click[1], click[2])
    /\ torn' = (torn \/ Tears(click[1], click[2]))
    /\ UNCHANGED <<up, inbox, worker, goal, sent, tools, effects, latest, journaled, resumed,
                   asked, faults, stops>>

Step ==
    \/ \E m \in 1..MaxMsgs : RouteMessage(m)
    \/ \E rid \in 1..MaxFaults : RouteContinuation(Continuation(rid))
    \/ TakeMessage \/ WorkerExits \/ DropContinuation \/ RestoreTurn \/ BuildTurn
    \/ ToolRuns \/ ToolDone \/ AsksUser \/ ModelAnswers
    \/ PersistTurn \/ CompleteTurn

Next ==
    \/ Step \/ ModelCallsTool \/ TurnFails
    \/ UserSends \/ Stop \/ Crash
    \/ \E unfinished \in BOOLEAN : Restart(unfinished)
    \/ \E action \in {"continue", "dismiss"} : ClickNow(action) \/ ClickLate(action)
    \/ \E click \in late : ClickArrives(click)

Spec == Init /\ [][Next]_vars

(***************************************************************************)
(* asyncio goes on with a task that is ready; model and tool calls have    *)
(* timeouts; a gateway that is down is started again.                      *)
(***************************************************************************)
FairSpec == Spec /\ WF_vars(Step) /\ WF_vars(\E unfinished \in BOOLEAN : Restart(unfinished))

--------------------------------------------------------------------------------
TypeOK ==
    /\ up \in {"up", "down"} /\ goal \in BOOLEAN
    /\ session.status \in {"none", "resuming", "awaiting_user", "recovered"}
    /\ session.rid \in 0..MaxFaults + 1
    /\ session.checkpoint.phase \in {"none", "awaiting_tools", "tools_completed",
                                     "final_response"}
    /\ worker.pc \in {"none", "idle", "locked", "restored", "request", "tool", "ran",
                      "final", "saved"}
    /\ worker.pc = "none" => inbox = <<>>

\* the transcript: the history, then the rows of the turn so far
Context == session.msgs \o worker.rows

\* The transcript behind every request is legal as it stands, before
\* prepare_for_model repairs what it finds wrong, whatever crash, stop or
\* supersession came before: a call is followed at once by its one result (or by
\* "interrupted before this tool finished"), there is no result without its call,
\* and no call twice: a checkpoint is materialised "exactly once"
\* (restore_runtime_checkpoint), and not in addition to the rows of its turn.
\* A question to the user that ended its turn has no result.  And all this is so
\* until a late dismissal restores the checkpoint of a turn that is still running
\* (handle_action does not look at the status): the call of that checkpoint is then
\* in the history and in the rows of the turn.
HistoryWellFormed ==
    worker.pc = "request" /\ ~torn =>
        \A i \in 1..Len(Context) :
            /\ Context[i].kind = "call" =>
                 /\ \/ /\ i < Len(Context) /\ Context[i + 1].id = Context[i].id
                       /\ Context[i + 1].kind \in {"result", "cut"}
                    \/ Context[i].id \in asked /\ ~Fulfilled(Context, Context[i].id)
                 /\ \A j \in 1..Len(Context) : Context[j] = Context[i] => j = i
            /\ Context[i].kind \in {"result", "cut"} =>
                 i > 1 /\ Context[i - 1] = Row("call", Context[i].id)

\* A tool call that was executed, with nothing checkpointed after it, is in the
\* context of every later request, also when the gateway died or the turn was
\* stopped or failed while the tool ran: the model can see that the side effect
\* may have happened.
LastCallVisible ==
    worker.pc = "request" /\ latest # 0 => Declared(Context, latest)

\* A journaled follow-up is in the journal until its row is in the history, and
\* then it is there once: no crash, injection, stop or requeueing loses or
\* doubles it.
FollowupsKept ==
    \A m \in journaled :
        /\ m \in Users(session.msgs) \/ Contains(session.journal, m)
        /\ Cardinality({i \in 1..Len(session.msgs) : session.msgs[i] = Row("user", m)}) <= 1
        /\ ~(m \in Users(session.msgs) /\ Contains(session.journal, m))

\* An interrupted turn runs again only when the user asked for it: one click,
\* one continuation, also when the continuation itself is interrupted.
ResumeNeedsClick == resumed <= clicks

\* A continuation the user asked for is resolved (completed, failed, superseded
\* or offered again) unless the user stopped it, if the session has a goal.
GoalContinuationResolved ==
    (session.status = "resuming" /\ goal) ~> (session.status # "resuming" \/ cut)

\* The same for every session.
ContinuationResolved ==
    session.status = "resuming" ~> (session.status # "resuming" \/ cut)

================================================================================
