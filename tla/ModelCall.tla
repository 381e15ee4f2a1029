------------------------------- MODULE ModelCall -------------------------------
(***************************************************************************)
(* One streamed model call through all its layers: the admission of        *)
(* BudgetedProvider (kernel/budget.py), the chain of FallbackProvider with *)
(* its circuit breaker (providers/fallback_provider.py), and the retry     *)
(* loop of every provider of the chain (providers/base.py).  In persistent *)
(* mode the same loop also runs around the whole chain.                    *)
(*                                                                         *)
(* Several calls share the FallbackProvider and so its breaker.  A call is *)
(* a record; a layer that awaits is a value of its `pc`.  What a provider  *)
(* answers, and when it stalls, is the environment's choice.               *)
(***************************************************************************)
EXTENDS Naturals, FiniteSets

CONSTANTS Calls,        \* the concurrent callers
          Fallbacks,    \* number of fallback presets
          MaxAttempts,  \* attempts of a provider's retry loop
          Threshold,    \* _PRIMARY_FAILURE_THRESHOLD
          IdenticalLimit, \* _PERSISTENT_IDENTICAL_ERROR_LIMIT
          Features      \* what distinguishes calls: retry_mode "persistent",
                        \* "recovering" (the caller passes on_stream_recover),
                        \* "images" in the messages

ASSUME ModelCallAssumption ==
    /\ {Fallbacks, MaxAttempts, Threshold, IdenticalLimit} \subseteq Nat \ {0}
    /\ Features \subseteq {"persistent", "recovering", "images"}

Primary == 0

(***************************************************************************)
(* What an attempt can end with, as far as the layers tell responses       *)
(* apart: "transient" stands for server errors, rate limits and lost       *)
(* connections, "auth" for errors another provider may not have, and       *)
(* "refused" for those every provider would repeat.                        *)
(***************************************************************************)
Responses == {"ok", "timeout", "transient", "auth", "refused"}
NoResponse == "none"

IsTransient(r) == r \in {"timeout", "transient"}
ShouldFallback(r) == r \in {"timeout", "transient", "auth"}

VARIABLES
    call,        \* the calls, see NewCall
    failures,    \* _primary_failures, up to Threshold
    circuit,     \* _primary_tripped_at: "closed" (None), "open", or "cooled"
    gpu          \* the primary is the GPU endpoint: it has a readiness probe and
                 \* a first-output timeout, and is tried with the circuit open

vars == <<call, failures, circuit, gpu>>

(***************************************************************************)
(* A call between two awaits.  The three `on` fields are on_content_delta  *)
(* as the outer loop, the chain and the provider's loop have it; the three *)
(* `streamed` fields are the has_streamed flags of the same three layers.  *)
(***************************************************************************)
NewCall == [
    pc |-> "idle", kind |-> {},
    held |-> FALSE,          \* the budget reservation
    stray |-> FALSE,         \* the call is over, but call_task of _call_provider runs on
    unsettled |-> 0,         \* attempts sent whose ledger event is not settled
    outerOn |-> TRUE, chainOn |-> TRUE, on |-> TRUE,
    outerStreamed |-> FALSE, chainStreamed |-> FALSE, streamed |-> FALSE,
    outerGuard |-> TRUE, guard |-> TRUE,   \* should_retry_guard is not None
    cand |-> Primary, attempt |-> 0, stripped |-> FALSE, images |-> FALSE,
    round |-> 0, same |-> 0, key |-> NoResponse, lastRound |-> FALSE,
    resp |-> NoResponse,     \* the response on its way up
    exhausted |-> FALSE,     \* last_exhausted_status
    output |-> FALSE, expired |-> FALSE,   \* of the first-output timeout
    segment |-> 0,           \* attempts whose text is in the current segment
    mine |-> FALSE,          \* the current attempt is one of them
    notice |-> "none"        \* the retry status the user was shown last
  ]

Init == call = [c \in Calls |-> NewCall] /\ failures = 0 /\ circuit = "closed"
        /\ gpu \in BOOLEAN

Persistent(r) == "persistent" \in r.kind
Recovering(r) == "recovering" \in r.kind

Unmoved == UNCHANGED <<failures, circuit, gpu>>    \* the shared provider object
Become(c, r) == call' = [call EXCEPT ![c] = r]

--------------------------------------------------------------------------------
(***************************************************************************)
(* The stream.                                                             *)
(***************************************************************************)
\* the retry loop and the chain have told the caller that text came
Delta(c) ==
    LET r == call[c] IN
    /\ r.pc = "attempt" /\ r.on /\ ~r.mine
    /\ Become(c, [r EXCEPT !.segment = IF @ < 2 THEN @ + 1 ELSE @, !.mine = TRUE,
                           !.streamed = TRUE, !.chainStreamed = TRUE,
                           !.outerStreamed = TRUE, !.output = TRUE])
    /\ Unmoved

\* on_stream_recover through all layers: a new segment, all flags reset
NewSegment(r) ==
    [r EXCEPT !.segment = 0, !.mine = FALSE,
              !.streamed = FALSE, !.chainStreamed = FALSE, !.outerStreamed = FALSE]

\* The first status after another one replaces it
Notify(r, condition, status) == IF condition THEN [r EXCEPT !.notice = status] ELSE r

--------------------------------------------------------------------------------
(***************************************************************************)
(* The retry loop of one provider, _run_with_retry in standard mode.       *)
(***************************************************************************)
Send(r) == [r EXCEPT !.pc = "attempt", !.unsettled = @ + 1, !.mine = FALSE]

BeginCandidate(r, k) ==
    Send([r EXCEPT !.cand = k, !.attempt = 1, !.on = r.chainOn, !.streamed = FALSE,
                   !.guard = TRUE, !.stripped = FALSE, !.exhausted = FALSE,
                   !.output = FALSE, !.expired = FALSE])

\* _finish_retry_status and return
FinishRetry(r, resp) ==
    [Notify(r, r.attempt > 1, IF resp = "ok" THEN "recovered" ELSE "cleared")
        EXCEPT !.pc = "returned", !.resp = resp]

\* A mutant of AfterText: the loop retries in the same segment
AfterTextSameSegment(r) == r

\* An attempt timed out after it had shown text: later text goes to a new
\* segment, or, if the caller cannot open one, nowhere
AfterText(r) ==
    IF Recovering(r) THEN NewSegment(r) ELSE [r EXCEPT !.on = FALSE, !.guard = FALSE]

\* A mutant of RetryOrGiveUp: the last delay is used too
RetryOrGiveUpLate(r, resp) ==
    IF IsTransient(resp) /\ r.attempt <= MaxAttempts
    THEN [r EXCEPT !.pc = "waiting", !.notice = "waiting"]
    ELSE FinishRetry(r, resp)

\* the loop after a failed attempt, when it may go on
RetryOrGiveUp(r, resp) ==
    IF ~IsTransient(resp)
    THEN IF r.images
         THEN Send([r EXCEPT !.stripped = TRUE])
         ELSE FinishRetry(r, resp)
    ELSE IF r.attempt = MaxAttempts
         THEN [r EXCEPT !.pc = "returned", !.resp = resp, !.exhausted = TRUE]
         ELSE [r EXCEPT !.pc = "waiting", !.notice = "waiting"]

\* _safe_chat_stream returns: the observer settles the attempt first
AttemptEnds(c, resp) ==
    LET r == [call[c] EXCEPT !.unsettled = @ - 1]
        afterText == r.guard /\ r.streamed
    IN
    /\ r.pc = "attempt"
    /\ Become(c, IF \/ resp = "ok" \/ r.stripped
                    \/ afterText /\ resp # "timeout"
                 THEN FinishRetry(r, resp)
                 ELSE RetryOrGiveUp(IF afterText THEN AfterText(r) ELSE r,
                                    resp))
    /\ Unmoved

\* A mutant of RetryAttempt: the attempts are not counted
RetryAttemptUncounted(c) ==
    /\ call[c].pc = "waiting"
    /\ Become(c, Send(call[c]))
    /\ Unmoved

\* _sleep_with_heartbeat ends
RetryAttempt(c) ==
    /\ call[c].pc = "waiting"
    /\ Become(c, Send([call[c] EXCEPT !.attempt = @ + 1]))
    /\ Unmoved

(***************************************************************************)
(* The first-output timeout of _call_provider.  The waiting task wakes up  *)
(* after the timer has expired, and in between the provider may still      *)
(* produce its first text, or its answer.                                  *)
(***************************************************************************)
Running(r) == r.pc \in {"attempt", "waiting"}

FirstOutputExpires(c) ==
    LET r == call[c] IN
    /\ gpu /\ r.cand = Primary /\ Running(r) /\ ~r.expired /\ ~r.stray
    /\ r.chainOn => ~r.output
    /\ Become(c, [r EXCEPT !.expired = TRUE])
    /\ Unmoved

FirstOutputCancels(c) ==
    LET r == call[c] IN
    /\ r.expired /\ Running(r) /\ ~r.stray
    /\ Become(c, [r EXCEPT !.pc = "returned", !.resp = "timeout", !.unsettled = 0])
    /\ Unmoved

--------------------------------------------------------------------------------
(***************************************************************************)
(* The chain, _try_with_fallback.                                          *)
(***************************************************************************)
PrimaryAvailable == circuit # "open"

ChainStarts(c) ==
    LET r == [call[c] EXCEPT !.chainOn = call[c].outerOn, !.exhausted = FALSE] IN
    /\ r.pc = "chain"
    /\ \E ready \in IF gpu THEN BOOLEAN ELSE {TRUE} :
           Become(c, IF ready /\ (PrimaryAvailable \/ gpu)
                     THEN BeginCandidate(r, Primary)
                     ELSE [r EXCEPT !.pc = "next", !.cand = Primary,
                                    !.resp = IF ready THEN NoResponse ELSE "transient"])
    /\ Unmoved

ChainReturns(r, resp) == [r EXCEPT !.pc = "chained", !.resp = resp]

PrimaryReturns(c) ==
    LET r == call[c]
        stalled == r.chainStreamed /\ r.resp = "timeout"
    IN
    /\ r.pc = "returned" /\ r.cand = Primary /\ ~r.stray
    /\ IF r.resp = "ok"
       THEN /\ Become(c, ChainReturns(r, "ok"))
            /\ failures' = 0 /\ circuit' = "closed" /\ UNCHANGED gpu
       ELSE IF (r.chainStreamed /\ ~stalled) \/ ~ShouldFallback(r.resp)
       THEN Become(c, ChainReturns(r, r.resp)) /\ Unmoved
       ELSE /\ Become(c, [(IF ~stalled THEN r
                           ELSE IF Recovering(r) THEN NewSegment(r)
                           ELSE [r EXCEPT !.chainStreamed = FALSE, !.chainOn = FALSE])
                          EXCEPT !.pc = "next"])
            /\ failures' = IF failures < Threshold THEN failures + 1 ELSE failures
            /\ circuit' = IF failures' = Threshold THEN "open" ELSE circuit
            /\ UNCHANGED gpu

FallbackReturns(c) ==
    LET r == call[c] IN
    /\ r.pc = "returned" /\ r.cand # Primary
    /\ Become(c, IF r.resp = "ok" THEN ChainReturns(r, "ok") ELSE [r EXCEPT !.pc = "next"])
    /\ Unmoved

\* text is on screen and cannot be closed off: the chain stops here
Blocked(r) == r.chainStreamed /\ ~(r.resp = "timeout" /\ Recovering(r))

\* The loop over the fallback presets; creating a provider may fail
NextFallback(c) ==
    LET r == call[c]
        s == Notify(IF r.chainStreamed THEN NewSegment(r) ELSE r, r.exhausted, "cleared")
    IN
    /\ r.pc = "next"
    /\ IF r.cand = Fallbacks \/ Blocked(r)
       THEN Become(c, ChainReturns(r, IF r.resp = NoResponse THEN "transient" ELSE r.resp))
       ELSE \/ Become(c, BeginCandidate(s, r.cand + 1))
            \/ Become(c, [s EXCEPT !.cand = @ + 1])
    /\ Unmoved

--------------------------------------------------------------------------------
(***************************************************************************)
(* _retry_with_fallback: what follows the chain.                           *)
(***************************************************************************)
\* the call returns: _metered releases its reservation
Finished(r, resp) == [NewCall EXCEPT !.pc = "done", !.kind = r.kind, !.resp = resp,
    !.unsettled = r.unsettled, !.segment = r.segment, !.mine = r.mine, !.notice = r.notice]

\* A mutant of StandardReturns: the captured exhaustion is forgotten
StandardReturnsQuietly(c) ==
    /\ call[c].pc = "chained" /\ ~Persistent(call[c])
    /\ Become(c, Finished(call[c], call[c].resp))
    /\ Unmoved

\* standard mode: the exhaustion of the last provider is shown now
StandardReturns(c) ==
    LET r == call[c] IN
    /\ r.pc = "chained" /\ ~Persistent(r)
    /\ Become(c, Finished(Notify(r, r.resp # "ok" /\ r.exhausted, "exhausted"), r.resp))
    /\ Unmoved

\* persistent mode: _run_with_retry with the chain as its call
FinishRound(r, resp) ==
    Finished(Notify(r, r.round > 1, IF resp = "ok" THEN "recovered" ELSE "cleared"), resp)

NextRound(r) == [r EXCEPT !.pc = "chain",
                          !.round = IF @ < 2 THEN @ + 1 ELSE @]

PersistentReturns(c) ==
    LET r == call[c]
        afterText == r.outerGuard /\ r.outerStreamed
        s == [(IF ~afterText THEN r
               ELSE IF Recovering(r) THEN NewSegment(r)
               ELSE [r EXCEPT !.outerOn = FALSE, !.outerGuard = FALSE])
              EXCEPT !.same = IF r.resp = r.key THEN @ + 1 ELSE 1, !.key = r.resp]
    IN
    /\ r.pc = "chained" /\ Persistent(r)
    /\ Become(c,
         CASE \/ r.resp = "ok" \/ r.lastRound
              \/ afterText /\ r.resp # "timeout"      -> FinishRound(r, r.resp)
           [] OTHER ->
              IF ~IsTransient(r.resp)
              THEN IF s.images
                   THEN [s EXCEPT !.pc = "chain", !.lastRound = TRUE, !.images = FALSE]
                   ELSE FinishRound(s, r.resp)
              ELSE IF s.same >= IdenticalLimit
                   THEN Finished([s EXCEPT !.notice = "exhausted"], r.resp)
                   ELSE [s EXCEPT !.pc = "resting", !.notice = "waiting"])
    /\ Unmoved

RoundStarts(c) ==
    /\ call[c].pc = "resting"
    /\ Become(c, NextRound(call[c]))
    /\ Unmoved

--------------------------------------------------------------------------------
(***************************************************************************)
(* The caller: _metered admits, and whatever ends the call releases.       *)
(***************************************************************************)
Admit(c) ==
    /\ call[c].pc \in {"idle", "done", "cancelled"}
    /\ \E kind \in SUBSET Features :
           Become(c, [NewCall EXCEPT !.pc = "chain", !.kind = kind, !.held = TRUE,
                                     !.round = 1, !.images = "images" \in kind])
    /\ Unmoved

Cancelled(r) == [Finished(r, NoResponse) EXCEPT !.pc = "cancelled"]

\* A mutant of Cancel: the attempt in flight is dropped without its event
CancelSilently(c) ==
    /\ call[c].pc \notin {"idle", "done", "cancelled"} /\ ~call[c].stray
    /\ Become(c, Cancelled(call[c]))
    /\ Unmoved

\* The provider's loop is a task of its own, which _call_provider may be waiting
\* for with asyncio.wait: a cancellation of that wait does not reach the task
Detached(r) == gpu /\ r.cand = Primary /\ r.chainOn /\ Running(r)

(***************************************************************************)
(* /stop, or the deadline of the call.  CancelledError passes through      *)
(* _safe_chat_stream, which observes the attempt, and through the finally  *)
(* blocks; or, while the first output of the GPU primary is awaited, only  *)
(* through the latter, and the provider's loop is left running.  After the *)
(* first output that wait ends a few steps of the event loop later, so     *)
(* both may happen.                                                        *)
(***************************************************************************)
Cancel(c) ==
    LET r == call[c] IN
    /\ r.pc \notin {"idle", "done", "cancelled"} /\ ~r.stray
    /\ \/ /\ Detached(r) => r.output
          /\ Become(c, Cancelled([r EXCEPT !.unsettled = 0]))
       \/ /\ Detached(r)
          /\ Become(c, [r EXCEPT !.held = FALSE, !.stray = TRUE])
    /\ Unmoved

\* the loop that was left running returns to nobody
StrayReturns(c) ==
    /\ call[c].pc = "returned" /\ call[c].stray
    /\ Become(c, Cancelled(call[c]))
    /\ Unmoved

\* _PRIMARY_COOLDOWN_S have passed since the circuit opened
Cooldown == circuit = "open" /\ circuit' = "cooled" /\ UNCHANGED <<call, failures, gpu>>

Progress(c) ==
    \/ \E resp \in Responses : AttemptEnds(c, resp)
    \/ RetryAttempt(c) \/ FirstOutputCancels(c)
    \/ ChainStarts(c) \/ PrimaryReturns(c) \/ FallbackReturns(c) \/ NextFallback(c)
    \/ StandardReturns(c) \/ PersistentReturns(c) \/ RoundStarts(c) \/ StrayReturns(c)

Next ==
    \/ \E c \in Calls : \/ Progress(c) \/ Delta(c) \/ FirstOutputExpires(c)
                        \/ Admit(c) \/ Cancel(c)
    \/ Cooldown

Spec == Init /\ [][Next]_vars

(***************************************************************************)
(* Every attempt ends (a provider's stream has an idle timeout), every     *)
(* sleep ends, and asyncio goes on with a task that is ready.              *)
(***************************************************************************)
FairSpec == Spec /\ \A c \in Calls : WF_vars(Progress(c))

--------------------------------------------------------------------------------
TypeOK ==
    /\ failures \in 0..Threshold /\ circuit \in {"closed", "open", "cooled"}
    /\ \A c \in Calls :
        /\ call[c].pc \in {"idle", "chain", "attempt", "waiting", "returned", "next",
                           "chained", "resting", "done", "cancelled"}
        /\ call[c].cand \in 0..Fallbacks /\ call[c].attempt \in 0..MaxAttempts
        /\ call[c].resp \in Responses \cup {NoResponse}
        /\ call[c].unsettled \in 0..1 /\ call[c].segment \in 0..2
        /\ call[c].same \in 0..IdenticalLimit

\* A stream segment shows the text of one attempt: no retry, fallback or
\* further round adds its own text to the partial answer of another, whatever
\* stalls and fails in between; and a caller that gets new segments never ends
\* with a partial answer in front of the one the call returns.
SegmentIsOneAttempt ==
    \A c \in Calls :
        /\ call[c].segment <= 1
        /\ Recovering(call[c]) /\ call[c].pc = "done" /\ call[c].resp = "ok"
              => call[c].segment = 0 \/ call[c].mine

\* A call holds its reservation while it runs, and every attempt it sent has
\* been settled before it is released: also those cut off by a timeout, by the
\* first-output timeout or by cancellation.  There is one exception.  A call that
\* is cancelled while it awaits the first output of the GPU primary is released
\* at once, and the retry loop of that primary runs on without a reservation; no
\* other provider's loop does, and that one too has settled every attempt it sent
\* when it ends.
SettledThenReleased ==
    \A c \in Calls :
        /\ call[c].held <=> call[c].pc \notin {"idle", "done", "cancelled"} /\ ~call[c].stray
        /\ call[c].pc # "attempt" => call[c].unsettled = 0
        /\ call[c].stray => /\ gpu /\ call[c].cand = Primary /\ call[c].chainOn
                            /\ call[c].pc \in {"attempt", "waiting", "returned"}

\* A call in standard mode that has returned does not leave "waiting for a
\* retry" on screen: every wait is followed by "recovered", "cleared" or
\* "exhausted", whichever provider of the chain it was for.  The first-output
\* timeout is excepted: it cuts a wait off and tells nobody.
NoticeSettled ==
    \A c \in Calls :
        call[c].pc = "done" /\ ~gpu /\ ~Persistent(call[c]) => call[c].notice # "waiting"

\* Every call that is not persistent returns (or is cancelled).
StandardCallEnds ==
    \A c \in Calls :
        call[c].pc = "chain" /\ ~Persistent(call[c]) ~> call[c].pc \in {"done", "cancelled"}

================================================================================
