--------------------------- MODULE OutboundDelivery ---------------------------
(***************************************************************************)
(* ChannelManager (channels/manager.py) and the outbound queue of the bus: *)
(* one channel whose runtime object may be replaced or removed while       *)
(* messages to its chats are on their way, with the lock on its bot token  *)
(* (channels/token_lock.py).  The dispatcher merges stream deltas, drops   *)
(* what the channel does not show and repeated replies, and starts a task  *)
(* per message; the tasks of one chat run in turn.                         *)
(***************************************************************************)
EXTENDS Naturals, Sequences, FiniteSets, SequencesExt

CONSTANTS
    Chats,
    Inputs,       \* the kinds of messages that are published, by chat
    PendingLimit, \* _OUTBOUND_PENDING_LIMIT
    Concurrency,  \* _OUTBOUND_CONCURRENCY
    MaxAttempts,  \* send_max_retries
    MaxSent,      \* bound: messages published
    MaxMixed,     \* bound: messages published in a behaviour with several changes
    MaxChanges    \* bound: changes of the channel

\* Changes are numbered as they are requested, and runtime objects of the channel by the
\* change that builds them: 1 is there at the start, change n builds object n + 1
Changes == 1..MaxChanges
Objects == 1..MaxChanges + 1
None == 0
Other == MaxChanges + 2    \* another instance with the same bot token

(***************************************************************************)
(* Messages are numbered as they are published.  "delta" and the messages  *)
(* that end a stream belong to a stream of a chat ("end" has text, "close" *)
(* has none); a "reply" carries the id of the message it answers, an       *)
(* "echo" the origin_message_id; "hidden" is a progress, reasoning or      *)
(* retry message the channel does not show.  `parts` are the messages a    *)
(* merged message stands for.                                              *)
(***************************************************************************)
Ends == {"end", "close"}
Kinds == {"delta", "reply", "echo", "hidden"} \cup Ends
ASSUME DeliveryAssumption ==
    /\ {PendingLimit, Concurrency, MaxAttempts} \subseteq Nat \ {0}
    /\ {MaxSent, MaxMixed, MaxChanges} \subseteq Nat
    /\ Inputs \subseteq Chats \X Kinds

NoMessage == [chat |-> None, kind |-> "none", stream |-> 0, content |-> 0, parts |-> <<>>]
NothingHeld == [msg |-> NoMessage, object |-> None]
NoCall == [pc |-> "idle", new |-> None, old |-> None, task |-> None, waits |-> {}]

VARIABLES
    bus,       \* bus.outbound
    pending,   \* the dispatcher's boundary messages
    held,      \* the message and object with which the dispatcher waits for a slot
    slots,     \* free _outbound_slots
    tasks,     \* _outbound_tasks
    tails,     \* _outbound_tails, by chat
    prints,    \* _origin_reply_fingerprints, by chat
    current,   \* the object in self.channels
    startTask, \* the object whose start task is in _channel_tasks
    starting,  \* objects whose start task has not run yet
    polling,   \* objects whose start() is running
    lock,      \* the holder of the token lock
    stopping,  \* the channel is in _stopping_channels
    call,      \* call[r]: how far change r is
    sent,      \* history: the messages that were published
    settled,   \* history: the messages that are delivered or dropped
    log,       \* history: what reached a chat, in order
    changes,   \* number of changes requested
    overlapped \* history: a change began before another had ended

queue == <<bus, pending, held, sent>>
outbox == <<slots, tasks, tails, settled>>
runtime == <<current, startTask, starting, polling, lock, stopping, call, changes,
             overlapped>>
vars == <<queue, outbox, prints, log, runtime>>

Init ==
    /\ bus = <<>> /\ pending = <<>> /\ sent = <<>>
    /\ held = NothingHeld
    /\ slots = PendingLimit /\ tasks = {} /\ tails = [c \in Chats |-> None]
    /\ settled = {} /\ prints = [c \in Chats |-> 0] /\ log = [c \in Chats |-> <<>>]
    /\ current = 1 /\ startTask = 1 /\ starting = {} /\ polling = {1} /\ changes = 0
    /\ lock = 1 /\ stopping = FALSE /\ call = [r \in Changes |-> NoCall]
    /\ overlapped = FALSE

-----------------------------------------------------------------------------
(***************************************************************************)
(* The agent publishes.  A stream of a chat ends before its next begins.   *)
(***************************************************************************)
Streams(chat) ==
    Cardinality({n \in 1..Len(sent) : sent[n].chat = chat /\ sent[n].kind \in Ends})
Replies(chat) == {0} \cup {n \in 1..Len(sent) : sent[n].chat = chat /\ sent[n].kind = "reply"}

\* The bound on messages after n changes
SentBound(n) == IF n > 1 THEN MaxMixed ELSE MaxSent

Publish(chat, kind, repeats) ==
    LET n == Len(sent) + 1
        msg == [chat |-> chat, kind |-> kind,
                stream |-> IF kind \in Ends \cup {"delta"} THEN Streams(chat) + 1 ELSE 0,
                content |-> CASE kind = "reply" -> n
                              [] kind = "echo"  -> IF repeats THEN Max(Replies(chat)) ELSE n
                              [] OTHER          -> 0,
                parts |-> <<n>>]
    IN  /\ n <= SentBound(changes)
        /\ repeats => kind = "echo" /\ Max(Replies(chat)) # 0
        /\ sent' = Append(sent, msg)
        /\ bus' = Append(bus, msg)
        /\ UNCHANGED <<pending, held, outbox, prints, log, runtime>>

-----------------------------------------------------------------------------
(***************************************************************************)
(* _dispatch_outbound_loop.                                                *)
(***************************************************************************)
SameStream(first, msg) ==
    msg.kind \in {"delta", "end"} /\ msg.chat = first.chat /\ msg.stream = first.stream

\* _coalesce_stream_deltas: how many of the messages behind a delta are merged
Mergeable(first, rest) ==
    LET Merges(n) ==
            /\ \A i \in 1..n : SameStream(first, rest[i])
            /\ \A i \in 1..n - 1 : rest[i].kind = "delta"
    IN  Max({n \in 0..Len(rest) : Merges(n)})

Merged(first, more) ==
    [first EXCEPT !.kind = Last(<<first>> \o more).kind,
                  !.parts = FoldLeft(LAMBDA parts, msg : parts \o msg.parts, @, more)]

\* _should_suppress_outbound: replies and echoes to one message of each chat
Suppressed(msg) == msg.kind = "echo" /\ prints[msg.chat] = msg.content
Remember(msg) ==
    prints' = IF msg.kind \in {"reply", "echo"}
              THEN [prints EXCEPT ![msg.chat] = msg.content] ELSE prints

NewTask(msg, object) ==
    [n |-> Head(msg.parts), msg |-> msg, object |-> object, previous |-> tails[msg.chat],
     pc |-> "wait", attempt |-> 1, cancelled |-> FALSE]

\* A mutant of Accepts: nobody looks at the channel again after the wait
AcceptsAny(object) == ~stopping

\* _queue_outbound with a slot: is the channel still the one the message is for?
Accepts(object) == ~stopping /\ current = object

\* A mutant of Schedule: the slot of a message that is dropped is not given back
ScheduleLeaks(msg, object) ==
    /\ slots' = slots - 1
    /\ IF Accepts(object)
       THEN /\ tasks' = tasks \cup {NewTask(msg, object)}
            /\ tails' = [tails EXCEPT ![msg.chat] = Head(msg.parts)]
            /\ UNCHANGED settled
       ELSE /\ settled' = settled \cup ToSet(msg.parts)
            /\ UNCHANGED <<tasks, tails>>

\* A message that is not accepted is dropped, and its slot released
Schedule(msg, object) ==
    IF Accepts(object)
    THEN /\ tasks' = tasks \cup {NewTask(msg, object)}
         /\ tails' = [tails EXCEPT ![msg.chat] = Head(msg.parts)]
         /\ slots' = slots - 1
         /\ UNCHANGED settled
    ELSE /\ settled' = settled \cup ToSet(msg.parts)
         /\ UNCHANGED <<tasks, tails, slots>>

\* One pass of the loop up to the wait for a slot.  A message that may not be merged
\* is taken from the bus all the same and comes next.
Dispatch ==
    /\ held = NothingHeld /\ pending \o bus # <<>>
    /\ LET first == Head(pending \o bus)
           rest == IF pending # <<>> THEN bus ELSE Tail(bus)
           n == IF first.kind = "delta" THEN Mergeable(first, rest) ELSE 0
           msg == Merged(first, SubSeq(rest, 1, n))
           taken == IF msg.kind = "delta" /\ n < Len(rest) THEN n + 1 ELSE n
       IN /\ pending' = SubSeq(rest, n + 1, taken)
          /\ bus' = SubSeq(rest, taken + 1, Len(rest))
          /\ IF msg.kind = "hidden" \/ current = None \/ Suppressed(msg)
             THEN /\ settled' = settled \cup ToSet(msg.parts)
                  /\ UNCHANGED <<held, slots, tasks, tails, prints>>
             ELSE /\ Remember(msg)
                  /\ IF slots > 0
                     THEN Schedule(msg, current) /\ UNCHANGED held
                     ELSE /\ held' = [msg |-> msg, object |-> current]
                          /\ UNCHANGED outbox
    /\ UNCHANGED <<sent, log, runtime>>

SlotAcquired ==
    /\ held # NothingHeld /\ slots > 0
    /\ Schedule(held.msg, held.object)
    /\ held' = NothingHeld
    /\ UNCHANGED <<bus, pending, sent, prints, log, runtime>>

-----------------------------------------------------------------------------
(***************************************************************************)
(* The tasks: send and _send_with_retry.  A send that raises may have      *)
(* reached the chat.                                                       *)
(***************************************************************************)
\* A mutant of MayStart: the tasks of a chat do not wait for each other
MayStartAtOnce(t) == Cardinality({u \in tasks : u.pc = "sending"}) < Concurrency

MayStart(t) ==
    /\ \A u \in tasks : u.n # t.previous
    /\ Cardinality({u \in tasks : u.pc = "sending"}) < Concurrency

Replace(t, u) == tasks' = (tasks \ {t}) \cup {u}

\* the task's end with its done callback
End(t) ==
    /\ tasks' = tasks \ {t}
    /\ tails' = [tails EXCEPT ![t.msg.chat] = IF @ = t.n THEN None ELSE @]
    /\ slots' = slots + 1
    /\ settled' = settled \cup ToSet(t.msg.parts)

Reaches(t, reached) ==
    log' = IF reached THEN [log EXCEPT ![t.msg.chat] = Append(@, t.msg.parts)] ELSE log

TaskStarts(t) ==
    /\ t.pc = "wait" /\ ~t.cancelled /\ MayStart(t)
    /\ Replace(t, [t EXCEPT !.pc = "sending"])
    /\ UNCHANGED <<queue, slots, tails, settled, prints, log, runtime>>

SendSucceeds(t) ==
    /\ t.pc = "sending" /\ ~t.cancelled
    /\ Reaches(t, TRUE)
    /\ End(t)
    /\ UNCHANGED <<queue, prints, runtime>>

SendFails(t, reached, retryable) ==
    /\ t.pc = "sending" /\ ~t.cancelled
    /\ Reaches(t, reached)
    /\ IF retryable /\ t.attempt < MaxAttempts
       THEN /\ Replace(t, [t EXCEPT !.attempt = @ + 1])
            /\ UNCHANGED <<slots, tails, settled>>
       ELSE End(t)
    /\ UNCHANGED <<queue, prints, runtime>>

TaskCancelled(t, reached) ==
    /\ t.cancelled /\ (reached => t.pc = "sending")
    /\ Reaches(t, reached)
    /\ End(t)
    /\ UNCHANGED <<queue, prints, runtime>>

-----------------------------------------------------------------------------
(***************************************************************************)
(* apply_channel_feature_action: "enable" builds an object and puts it in  *)
(* the place of the one there is, "disable" removes that.  Nothing keeps   *)
(* two requests apart.                                                     *)
(***************************************************************************)
ReleaseToken == lock' = IF lock = Other THEN lock ELSE None

BeginChange(r, enable) ==
    /\ r = changes + 1 /\ changes' = r
    /\ overlapped' = (overlapped \/ \E q \in Changes : call[q].pc # "idle")
    /\ Len(sent) <= SentBound(r)
    /\ LET new == IF enable THEN r + 1 ELSE None IN
       IF current = None
       THEN /\ enable
            /\ current' = new /\ startTask' = new /\ starting' = starting \cup {new}
            /\ UNCHANGED <<tasks, stopping, call>>
       ELSE /\ stopping' = TRUE
            /\ tasks' = {[t EXCEPT !.cancelled = TRUE] : t \in tasks}   \* _cancel_outbound
            /\ call' = [call EXCEPT ![r] = [NoCall EXCEPT !.pc = "cancel", !.new = new,
                                                          !.waits = {t.n : t \in tasks}]]
            /\ UNCHANGED <<current, startTask, starting>>
    /\ UNCHANGED <<queue, slots, tails, settled, prints, log, polling, lock>>

\* channel.stop() has returned, the start task is cancelled, the token released; then
\* the new object takes the place
Finish(r, old, task, start) ==
    LET new == {call[r].new} \ {None} IN
    /\ polling' = polling \ {old, task}
    /\ starting' = (starting \ {task}) \cup new
    /\ current' = call[r].new
    /\ startTask' = IF new = {} THEN start ELSE call[r].new
    /\ ReleaseToken
    /\ stopping' = FALSE
    /\ call' = [call EXCEPT ![r] = NoCall]

\* The cancelled tasks are gone, and _stop_channel_runtime begins; another change may
\* have removed the channel
OutboundCancelled(r) ==
    /\ call[r].pc = "cancel" /\ \A t \in tasks : t.n \notin call[r].waits
    /\ IF current = None THEN Finish(r, None, None, None)
       ELSE /\ call' = [call EXCEPT ![r] = [@ EXCEPT !.pc = "stop", !.old = current,
                                                     !.task = startTask, !.waits = {}]]
            /\ startTask' = None
            /\ UNCHANGED <<current, starting, polling, lock, stopping>>
    /\ UNCHANGED <<queue, outbox, prints, log, changes, overlapped>>

EndChange(r) ==
    /\ call[r].pc = "stop"
    /\ Finish(r, call[r].old, call[r].task, startTask)
    /\ UNCHANGED <<queue, outbox, prints, log, changes, overlapped>>

(***************************************************************************)
(* _start_channel: another instance may have the token, and start() may    *)
(* raise, which releases it.                                               *)
(***************************************************************************)
StartChannel(o, raises) ==
    /\ o \in starting
    /\ starting' = starting \ {o}
    /\ IF lock = Other THEN UNCHANGED <<polling, lock>>
       ELSE IF raises THEN lock' = None /\ UNCHANGED polling
       ELSE lock' = o /\ polling' = polling \cup {o}
    /\ UNCHANGED <<queue, outbox, prints, log, current, startTask, stopping, call, changes,
                   overlapped>>

OtherInstance ==
    /\ lock' = CASE lock = None -> Other [] lock = Other -> None [] OTHER -> lock
    /\ UNCHANGED <<queue, outbox, prints, log, current, startTask, starting, polling,
                   stopping, call, changes, overlapped>>

-----------------------------------------------------------------------------
Dispatcher == Dispatch \/ SlotAcquired

TaskStep(t) ==
    \/ TaskStarts(t) \/ SendSucceeds(t)
    \/ \E reached, retryable \in BOOLEAN : SendFails(t, reached, retryable)
    \/ \E reached \in BOOLEAN : TaskCancelled(t, reached)

Next ==
    \/ \E in \in Inputs, repeats \in BOOLEAN : Publish(in[1], in[2], repeats)
    \/ Dispatcher
    \/ \E t \in tasks : TaskStep(t)
    \/ \E r \in Changes :
          \/ \E enable \in BOOLEAN : BeginChange(r, enable)
          \/ OutboundCancelled(r) \/ EndChange(r)
    \/ \E o \in starting, raises \in BOOLEAN : StartChannel(o, raises)
    \/ OtherInstance

Spec == Init /\ [][Next]_vars

(***************************************************************************)
(* Tasks that are ready go on.  A send ends, as the channels' calls have   *)
(* timeouts, and attempts are bounded, so some task always comes to its    *)
(* end.                                                                    *)
(***************************************************************************)
FairSpec ==
    /\ Spec
    /\ WF_vars(Dispatcher)
    /\ WF_vars(\E t \in tasks : TaskStep(t))
    /\ \A r \in Changes : WF_vars(OutboundCancelled(r) \/ EndChange(r))

-----------------------------------------------------------------------------
(* Properties.                                                             *)

TypeOK ==
    /\ slots \in 0..PendingLimit /\ slots + Cardinality(tasks) = PendingLimit
    /\ tails \in [Chats -> 0..MaxSent]
    /\ current \in Objects \cup {None} /\ starting \cup polling \subseteq Objects
    /\ lock \in Objects \cup {None, Other}
    /\ settled \subseteq 1..Len(sent)

\* What reaches a chat does so in the order it was published, whatever was merged,
\* retried, cancelled or sent by another object meanwhile ("preserve FIFO per
\* destination"), and only deltas of one stream are merged.
StreamsInOrder ==
    \A c \in Chats :
        /\ \A i \in DOMAIN log[c], j \in DOMAIN log[c] :
              i < j => \/ log[c][i] = log[c][j]
                       \/ Last(log[c][i]) < Head(log[c][j])
        /\ \A i \in DOMAIN log[c] : \A n, m \in ToSet(log[c][i]) :
              sent[n].stream = sent[m].stream

\* As long as no change of the channel began before another had ended, at most one
\* object polls with the bot token, on this instance or another ("One poller per bot
\* token", token_lock.py), and only the object that is in place sends, also what was
\* waiting for a slot when the channel was replaced.  Changes that overlap break both:
\* apply_channel_feature_action awaits between looking at the channel and replacing it,
\* so the one that ends last removes an object it has not stopped.
OneLiveObject ==
    ~overlapped =>
    /\ Cardinality(polling \cup (IF lock = Other THEN {Other} ELSE {})) <= 1
    /\ \A t \in tasks : t.object = current

\* Every message that is published is in the end delivered, given up or dropped: no
\* slot is lost, no task waits for ever, no boundary message is forgotten.
EveryMessageSettled == []<>(settled = DOMAIN sent)
=============================================================================
