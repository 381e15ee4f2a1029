---------------------------- MODULE ModelCallProofs ----------------------------
(***************************************************************************)
(* The layers of a model call, for any set of concurrent calls, any chain  *)
(* of fallbacks and any limits of the retry loops: text of two attempts is *)
(* never mixed in a segment, a call settles every attempt and releases its *)
(* reservation, and no "waiting" notice outlives its call.                 *)
(*                                                                         *)
(* None of these is inductive.  A layer restarts behind text that was      *)
(* shown only if it does not know of it, so the invariant says that every  *)
(* layer whose callback is still in place has seen the text of the current *)
(* segment (Streams); a notice is settled by the return that follows, so   *)
(* it says where "waiting" may still stand (Notices).                      *)
(***************************************************************************)
EXTENDS ModelCall, TLAPS

\* Where a call holds nothing.
Ended == {"idle", "done", "cancelled"}

\* The types of a call record.
CallRecords ==
    [pc : {"idle", "chain", "attempt", "waiting", "returned", "next",
           "chained", "resting", "done", "cancelled"},
     kind : SUBSET Features, held : BOOLEAN, stray : BOOLEAN, unsettled : 0..1,
     outerOn : BOOLEAN, chainOn : BOOLEAN, on : BOOLEAN,
     outerStreamed : BOOLEAN, chainStreamed : BOOLEAN, streamed : BOOLEAN,
     outerGuard : BOOLEAN, guard : BOOLEAN,
     cand : 0..Fallbacks, attempt : 0..MaxAttempts, stripped : BOOLEAN,
     images : BOOLEAN, round : 0..2, same : 0..IdenticalLimit,
     key : Responses \cup {NoResponse}, lastRound : BOOLEAN,
     resp : Responses \cup {NoResponse}, exhausted : BOOLEAN,
     output : BOOLEAN, expired : BOOLEAN, segment : 0..1, mine : BOOLEAN,
     notice : {"none", "waiting", "recovered", "cleared", "exhausted"}]

\* What the retry loops count.
Counted(r) ==
    /\ r.pc \in {"attempt", "waiting"} => r.attempt >= 1
    /\ r.pc = "waiting" => r.attempt < MaxAttempts
    /\ r.same < IdenticalLimit \/ r.lastRound

\* A call that is left running has no reservation, and is one to the primary.
Reserved(r) == (r.held <=> ~r.stray) /\ (r.stray => r.cand = Primary /\ r.chainOn)

\* An attempt that runs is not settled, every other one is.
Settled(r) ==
    /\ IF r.pc \in Ended THEN ~r.held /\ ~r.stray ELSE Reserved(r)
    /\ r.stray => r.pc \in {"attempt", "waiting", "returned"}
    /\ r.unsettled = IF r.pc = "attempt" THEN 1 ELSE 0

\* A layer whose callback is still in place knows of the text in the current
\* segment, and a layer that starts over has none to start behind.
Streams(r) ==
    /\ r.mine => r.segment = 1
    /\ r.outerOn /\ r.segment > 0 /\ r.pc \notin Ended => r.outerStreamed
    /\ r.chainOn /\ r.segment > 0 /\ r.pc \notin Ended => r.chainStreamed
    /\ r.on /\ r.segment > 0 /\ r.pc = "attempt" => r.streamed /\ r.mine
    /\ r.on /\ r.pc = "waiting" => r.segment = 0
    /\ r.outerOn /\ r.pc \in {"chain", "resting"} => r.segment = 0
    /\ r.pc \in {"attempt", "waiting"} /\ r.on => r.guard
    /\ r.outerOn => r.outerGuard
    /\ Recovering(r) => r.outerOn /\ r.chainOn /\ r.on
    /\ r.pc = "next" => r.resp # "ok"
    /\ r.pc \in {"returned", "chained", "done"} /\ r.resp = "ok" /\ Recovering(r)
          => r.segment = 0 \/ r.mine

\* Where "waiting" can be the last notice of a standard call.
Notices(r, g) ==
    ~g => /\ ~r.expired /\ ~r.stray
          /\ ~Persistent(r) /\ r.notice = "waiting" =>
                \/ r.pc = "waiting"
                \/ r.pc = "attempt" /\ r.attempt > 1
                \/ r.pc \in {"returned", "next", "chained"} /\ r.exhausted /\ r.resp # "ok"
                \/ r.pc = "cancelled"

\* Everything the proofs need of one call.
CallOK(r, g) == r \in CallRecords /\ Counted(r) /\ Settled(r) /\ Streams(r) /\ Notices(r, g)

\* The inductive invariant.
IInv ==
    /\ failures \in 0..Threshold /\ circuit \in {"closed", "open", "cooled"}
    /\ gpu \in BOOLEAN
    /\ call \in [Calls -> CallRecords]
    /\ \A c \in Calls : CallOK(call[c], gpu)

--------------------------------------------------------------------------------
\* A call becomes s; the provider object stays as it is, or counts a failure.
LEMMA BecomeOK ==
    ASSUME IInv, NEW c \in Calls, NEW s, CallOK(s, gpu), Become(c, s),
           \/ Unmoved
           \/ /\ failures' \in 0..Threshold /\ circuit' \in {"closed", "open", "cooled"}
              /\ gpu' = gpu
    PROVE  IInv'
<1>1. s \in CallRecords
    BY DEF CallOK
<1>2. call' \in [Calls -> CallRecords] /\ call'[c] = s
      /\ \A d \in Calls : d # c => call'[d] = call[d]
    BY <1>1 DEF IInv, Become
<1> QED
    BY <1>2 DEF IInv, Unmoved

\* A chunk of text arrives.
LEMMA DeltaOK ==
    ASSUME IInv, NEW c \in Calls, Delta(c) PROVE IInv'
<1> DEFINE r == call[c]
           seg == IF r.segment < 2 THEN r.segment + 1 ELSE r.segment
           s == [r EXCEPT !.segment = seg, !.mine = TRUE,
                           !.streamed = TRUE, !.chainStreamed = TRUE,
                           !.outerStreamed = TRUE, !.output = TRUE]
<1>1. /\ CallOK(r, gpu) /\ r.pc = "attempt" /\ r.on /\ ~r.mine
      /\ Become(c, s) /\ Unmoved
    BY DEF IInv, Delta
<1>2. seg = 1 /\ seg \in 0..1 /\ r \in CallRecords
    BY <1>1 DEF CallOK, CallRecords, Streams
<1> HIDE DEF seg
<1>3. s \in CallRecords
    BY <1>2, ZenonT(40) DEF CallRecords
<1>4. Counted(s) /\ Settled(s)
    BY <1>1, <1>2 DEF CallOK, CallRecords, Counted, Settled, Ended, Reserved
<1>5. Streams(s)
    BY <1>1, <1>2 DEF CallOK, CallRecords, Streams, Ended, Recovering
<1>6. Notices(s, gpu)
    BY <1>1, <1>2 DEF CallOK, CallRecords, Notices, Persistent
<1> QED
    BY <1>1, <1>3, <1>4, <1>5, <1>6, BecomeOK DEF CallOK

\* An attempt that was settled, before the retry loop has decided what is next.
Paused(r, g) ==
    /\ r \in CallRecords /\ Counted(r) /\ Streams(r) /\ Notices(r, g)
    /\ r.pc = "attempt" /\ Reserved(r) /\ r.unsettled = 0

\* Settling an attempt leads there.
LEMMA SettleAttempt ==
    ASSUME NEW r, NEW g \in BOOLEAN, CallOK(r, g), r.pc = "attempt"
    PROVE  Paused([r EXCEPT !.unsettled = @ - 1], g)
<1> DEFINE u == r.unsettled - 1
           s == [r EXCEPT !.unsettled = u]
<1>1. r \in CallRecords /\ u = 0 /\ u \in 0..1 /\ Reserved(r)
    BY DEF CallOK, Settled, CallRecords, Ended, Reserved
<1> HIDE DEF u
<1>2. s \in CallRecords
    BY <1>1, Zenon DEF CallRecords
<1>3. Counted(s) /\ s.pc = "attempt" /\ Reserved(s) /\ s.unsettled = 0
    BY <1>1 DEF CallOK, CallRecords, Counted, Reserved
<1>4. Streams(s)
    BY <1>1 DEF CallOK, CallRecords, Streams, Ended, Recovering
<1>5. Notices(s, g)
    BY <1>1 DEF CallOK, CallRecords, Notices, Persistent
<1> QED
    BY <1>2, <1>3, <1>4, <1>5 DEF Paused, u

\* The retry loop returns a response.
LEMMA FinishRetryOK ==
    ASSUME NEW r, NEW g \in BOOLEAN, Paused(r, g), NEW resp \in Responses,
           resp # "ok" \/ (Recovering(r) => r.segment = 0 \/ r.mine)
    PROVE  CallOK(FinishRetry(r, resp), g)
<1> DEFINE status == IF resp = "ok" THEN "recovered" ELSE "cleared"
           n == IF r.attempt > 1 THEN status ELSE r.notice
           s == [r EXCEPT !.notice = n, !.pc = "returned", !.resp = resp]
<1>1. r \in CallRecords /\ resp \in Responses \cup {NoResponse}
    BY DEF Paused
<1>2. n \in {"none", "waiting", "recovered", "cleared", "exhausted"}
    BY <1>1 DEF CallRecords
<1>3. FinishRetry(r, resp) = s
    BY <1>1 DEF FinishRetry, Notify, CallRecords
<1>4. r.attempt > 1 => n # "waiting"
    OBVIOUS
<1>5. r.attempt <= 1 => n = r.notice
    BY <1>1 DEF CallRecords
<1> HIDE DEF n
<1>6. s \in CallRecords
    BY <1>1, <1>2, Zenon DEF CallRecords
<1>7. Counted(s) /\ Settled(s)
    BY <1>1 DEF Paused, CallRecords, Counted, Settled, Ended, Reserved
<1>8. Streams(s)
    BY <1>1 DEF Paused, CallRecords, Streams, Ended, Recovering
<1>9. Notices(s, g)
    BY <1>1, <1>4, <1>5 DEF Paused, CallRecords, Notices, Persistent
<1> QED
    BY <1>3, <1>6, <1>7, <1>8, <1>9 DEF CallOK

\* The loop goes on: what was shown is in a segment of its own, or shown no more.
LEMMA NewSegmentType ==
    ASSUME NEW r \in CallRecords PROVE NewSegment(r) \in CallRecords
<1>1. 0 \in 0..1
    OBVIOUS
<1> QED
    BY <1>1, ZenonT(30) DEF CallRecords, NewSegment

\* The retry loop after text was shown: a new segment, or no callback any more.
LEMMA AfterTextOK ==
    ASSUME NEW r, NEW g \in BOOLEAN, Paused(r, g), r.guard, r.streamed
    PROVE  Paused(AfterText(r), g) /\ (AfterText(r).on => AfterText(r).segment = 0)
<1>1. r \in CallRecords /\ 0 \in 0..1
    BY DEF Paused
<1>2. CASE Recovering(r)
  <2> DEFINE s == NewSegment(r)
  <2>1. AfterText(r) = s
      BY <1>2 DEF AfterText
  <2>2. s \in CallRecords
      BY <1>1, NewSegmentType
  <2>3. /\ s.segment = 0 /\ Counted(s) /\ s.pc = "attempt" /\ Reserved(s) /\ s.unsettled = 0
      BY <1>1 DEF Paused, CallRecords, Counted, Reserved, NewSegment
  <2>4. Streams(s)
      BY <1>1, <1>2 DEF Paused, CallRecords, Streams, Ended, Recovering, NewSegment
  <2>5. Notices(s, g)
      BY <1>1 DEF Paused, CallRecords, Notices, Persistent, NewSegment
  <2> QED
      BY <2>1, <2>2, <2>3, <2>4, <2>5 DEF Paused
<1>3. CASE ~Recovering(r)
  <2> DEFINE s == [r EXCEPT !.on = FALSE, !.guard = FALSE]
  <2>1. AfterText(r) = s
      BY <1>3 DEF AfterText
  <2>2. s \in CallRecords
      BY <1>1, Zenon DEF CallRecords
  <2>3. /\ ~s.on /\ Counted(s) /\ s.pc = "attempt" /\ Reserved(s) /\ s.unsettled = 0
      BY <1>1 DEF Paused, CallRecords, Counted, Reserved
  <2>4. Streams(s)
      BY <1>1, <1>3 DEF Paused, CallRecords, Streams, Ended, Recovering
  <2>5. Notices(s, g)
      BY <1>1 DEF Paused, CallRecords, Notices, Persistent
  <2> QED
      BY <2>1, <2>2, <2>3, <2>4, <2>5 DEF Paused
<1> QED
    BY <1>2, <1>3

\* The retry loop tries again, waits, or gives up.
LEMMA RetryOrGiveUpOK ==
    ASSUME NEW r, NEW g \in BOOLEAN, Paused(r, g), r.on => r.segment = 0,
           NEW resp \in Responses \ {"ok"}
    PROVE  CallOK(RetryOrGiveUp(r, resp), g)
<1>1. /\ r \in CallRecords /\ 0 \in 0..1 /\ 1 \in 0..1 /\ resp # "ok"
      /\ resp \in Responses /\ resp \in Responses \cup {NoResponse}
    BY DEF Paused
<1>2. CASE ~IsTransient(resp) /\ r.images
  <2> DEFINE u == r.unsettled + 1
             s == [r EXCEPT !.stripped = TRUE, !.pc = "attempt", !.unsettled = u, !.mine = FALSE]
  <2>0. u = 1 /\ u \in 0..1
      BY <1>1 DEF Paused
  <2>1. RetryOrGiveUp(r, resp) = s
      BY <1>1, <1>2 DEF RetryOrGiveUp, Send, CallRecords
  <2> HIDE DEF u
  <2>a. u \in 0..1
      BY <2>0
  <2>b. r \in CallRecords
      BY <1>1
  <2>2. s \in CallRecords
      BY <2>a, <2>b, ZenonT(30) DEF CallRecords
  <2>3. /\ Counted(s) /\ Settled(s)
      BY <1>1, <2>0 DEF Paused, CallRecords, Counted, Settled, Ended, Reserved
  <2>4. Streams(s)
      BY <1>1 DEF Paused, CallRecords, Streams, Ended, Recovering
  <2>5. Notices(s, g)
      BY <1>1 DEF Paused, CallRecords, Notices, Persistent
  <2> QED
      BY <2>1, <2>2, <2>3, <2>4, <2>5 DEF CallOK
<1>3. CASE ~IsTransient(resp) /\ ~r.images
  <2>1. RetryOrGiveUp(r, resp) = FinishRetry(r, resp)
      BY <1>3 DEF RetryOrGiveUp
  <2> QED
      BY <1>1, <2>1, FinishRetryOK
<1>4. CASE IsTransient(resp) /\ r.attempt = MaxAttempts
  <2> DEFINE s == [r EXCEPT !.pc = "returned", !.resp = resp, !.exhausted = TRUE]
  <2>1. RetryOrGiveUp(r, resp) = s
      BY <1>1, <1>4 DEF RetryOrGiveUp
  <2>2. s \in CallRecords
      BY <1>1, Zenon DEF CallRecords
  <2>3. /\ Counted(s) /\ Settled(s)
      BY <1>1 DEF Paused, CallRecords, Counted, Settled, Ended, Reserved
  <2>4. Streams(s)
      BY <1>1 DEF Paused, CallRecords, Streams, Ended, Recovering
  <2>5. Notices(s, g)
      BY <1>1 DEF Paused, CallRecords, Notices, Persistent
  <2> QED
      BY <2>1, <2>2, <2>3, <2>4, <2>5 DEF CallOK
<1>5. CASE IsTransient(resp) /\ r.attempt # MaxAttempts
  <2> DEFINE s == [r EXCEPT !.pc = "waiting", !.notice = "waiting"]
  <2>1. RetryOrGiveUp(r, resp) = s
      BY <1>1, <1>5 DEF RetryOrGiveUp
  <2>2. s \in CallRecords
      BY <1>1, Zenon DEF CallRecords
  <2>3. Counted(s) /\ Settled(s)
      BY <1>1, <1>5, ModelCallAssumption DEF Paused, CallRecords, Counted, Settled, Ended, Reserved
  <2>4. Streams(s)
      BY <1>1 DEF Paused, CallRecords, Streams, Ended, Recovering
  <2>5. Notices(s, g)
      BY <1>1 DEF Paused, CallRecords, Notices, Persistent
  <2> QED
      BY <2>1, <2>2, <2>3, <2>4, <2>5 DEF CallOK
<1> QED
    BY <1>2, <1>3, <1>4, <1>5

\* An attempt ends.
LEMMA AttemptEndsOK ==
    ASSUME IInv, NEW c \in Calls, NEW resp \in Responses, AttemptEnds(c, resp)
    PROVE  IInv'
<1> DEFINE r == [call[c] EXCEPT !.unsettled = @ - 1]
           afterText == r.guard /\ r.streamed
           next == IF afterText THEN AfterText(r) ELSE r
           over == \/ resp = "ok" \/ r.stripped
                   \/ afterText /\ resp # "timeout"
           s == IF over
                THEN FinishRetry(r, resp)
                ELSE RetryOrGiveUp(next, resp)
<1>1. CallOK(call[c], gpu) /\ call[c] \in CallRecords /\ gpu \in BOOLEAN
    BY DEF IInv
<1>2. call[c].pc = "attempt" /\ Become(c, s) /\ Unmoved
  <2>1. r.pc = "attempt" /\ Become(c, s) /\ Unmoved
      BY DEF AttemptEnds
  <2>2. r.pc = call[c].pc
      BY <1>1 DEF CallRecords
  <2> QED
      BY <2>1, <2>2
<1>3. Paused(r, gpu)
    BY <1>1, <1>2, SettleAttempt
<1> HIDE DEF r
<1>4. CASE over
  <2>1. Recovering(r) => r.segment = 0 \/ r.mine
      BY <1>3 DEF Paused, Streams, CallRecords
  <2> QED
      BY <1>1, <1>2, <1>3, <1>4, <2>1, FinishRetryOK, BecomeOK
<1>5. CASE ~over
  <2>1. Paused(next, gpu) /\ (next.on => next.segment = 0)
    <3>1. CASE afterText
      <4>1. next = AfterText(r)
          BY <3>1
      <4> QED
          BY <1>1, <1>3, <3>1, <4>1, AfterTextOK
    <3>2. CASE ~afterText
      <4>1. next = r
          BY <3>2
      <4>2. r.on => r.segment = 0
          BY <1>3, <3>2 DEF Paused, Streams, CallRecords
      <4> QED
          BY <1>3, <4>1, <4>2
    <3> QED
        BY <3>1, <3>2
  <2> HIDE DEF next
  <2>2. s = RetryOrGiveUp(next, resp)
      BY <1>5
  <2> HIDE DEF s
  <2>3. CallOK(RetryOrGiveUp(next, resp), gpu)
      BY <1>1, <1>5, <2>1, RetryOrGiveUpOK
  <2> QED
      BY <1>2, <2>2, <2>3, BecomeOK
<1> QED
    BY <1>4, <1>5

\* The sleep between two attempts ends.
LEMMA RetryAttemptOK ==
    ASSUME IInv, NEW c \in Calls, RetryAttempt(c) PROVE IInv'
<1> DEFINE r == call[c]
           u == r.unsettled + 1
           a == r.attempt + 1
           s == [r EXCEPT !.attempt = a, !.pc = "attempt", !.unsettled = u, !.mine = FALSE]
<1>1. CallOK(r, gpu) /\ r \in CallRecords /\ r.pc = "waiting" /\ gpu \in BOOLEAN
    BY DEF IInv, RetryAttempt
<1>2. Become(c, s) /\ Unmoved
  <2>1. Send([r EXCEPT !.attempt = @ + 1]) = s
      BY <1>1 DEF Send, CallRecords
  <2> QED
      BY <2>1 DEF RetryAttempt
<1>3. u = 1 /\ a > 1 /\ u \in 0..1 /\ a \in 0..MaxAttempts
    BY <1>1, ModelCallAssumption DEF CallOK, Settled, Counted, CallRecords
<1> HIDE DEF u, a
<1>4. u \in 0..1
    BY <1>3
<1>5. a \in 0..MaxAttempts
    BY <1>3
<1>6. r \in CallRecords
    BY <1>1
<1>7. s \in CallRecords
    BY <1>4, <1>5, <1>6, ZenonT(30) DEF CallRecords
<1>8. Counted(s) /\ Settled(s)
    BY <1>1, <1>3 DEF CallOK, CallRecords, Counted, Settled, Ended, Reserved
<1>9. Streams(s)
    BY <1>1 DEF CallOK, CallRecords, Streams, Ended, Recovering
<1>10. Notices(s, gpu)
    BY <1>1, <1>3 DEF CallOK, CallRecords, Notices, Persistent
<1> QED
    BY <1>2, <1>7, <1>8, <1>9, <1>10, BecomeOK DEF CallOK

\* The timer of the first output expires.
LEMMA FirstOutputExpiresOK ==
    ASSUME IInv, NEW c \in Calls, FirstOutputExpires(c) PROVE IInv'
<1> DEFINE r == call[c]
           s == [r EXCEPT !.expired = TRUE]
<1>1. CallOK(r, gpu) /\ r \in CallRecords /\ gpu /\ Become(c, s) /\ Unmoved
    BY DEF IInv, FirstOutputExpires
<1>2. s \in CallRecords
    BY <1>1, Zenon DEF CallRecords
<1>3. Counted(s) /\ Settled(s)
    BY <1>1 DEF CallOK, CallRecords, Counted, Settled, Ended, Reserved
<1>4. Streams(s)
    BY <1>1 DEF CallOK, CallRecords, Streams, Ended, Recovering
<1>5. Notices(s, gpu)
    BY <1>1 DEF Notices
<1> QED
    BY <1>1, <1>2, <1>3, <1>4, <1>5, BecomeOK DEF CallOK

\* ... and cuts the attempt, or the wait, off.
LEMMA FirstOutputCancelsOK ==
    ASSUME IInv, NEW c \in Calls, FirstOutputCancels(c) PROVE IInv'
<1> DEFINE r == call[c]
           s == [r EXCEPT !.pc = "returned", !.resp = "timeout", !.unsettled = 0]
<1>1. /\ CallOK(r, gpu) /\ r \in CallRecords /\ r.expired /\ Become(c, s) /\ Unmoved
      /\ r.pc \in {"attempt", "waiting"}
    BY DEF IInv, FirstOutputCancels, Running
<1>2. s \in CallRecords
  <2>1. r \in CallRecords
      BY <1>1
  <2>2. 0 \in 0..1
      OBVIOUS
  <2>3. "timeout" \in Responses \cup {NoResponse}
      BY DEF Responses
  <2> QED
      BY <2>1, <2>2, <2>3, ZenonT(30) DEF CallRecords
<1>3. Counted(s) /\ Settled(s)
    BY <1>1 DEF CallOK, CallRecords, Counted, Settled, Ended, Reserved
<1>4. Streams(s)
    BY <1>1 DEF CallOK, CallRecords, Streams, Ended, Recovering
<1>5. Notices(s, gpu)
    BY <1>1 DEF CallOK, CallRecords, Notices
<1> QED
    BY <1>1, <1>2, <1>3, <1>4, <1>5, BecomeOK DEF CallOK

--------------------------------------------------------------------------------
\* A call between two candidates of the chain.
Between(r) ==
    /\ r \in CallRecords /\ r.held /\ ~r.stray /\ r.unsettled = 0
    /\ r.same < IdenticalLimit \/ r.lastRound
    /\ r.mine => r.segment = 1
    /\ r.outerOn /\ r.segment > 0 => r.outerStreamed
    /\ r.outerOn => r.outerGuard
    /\ Recovering(r) => r.outerOn /\ r.chainOn /\ r.on

\* The next candidate of the chain starts in an empty segment, or without a callback.
LEMMA BeginCandidateOK ==
    ASSUME NEW r, NEW g \in BOOLEAN, Between(r), r.chainOn => r.segment = 0,
           ~g => (~Persistent(r) => r.notice # "waiting"),
           NEW k \in 0..Fallbacks
    PROVE  CallOK(BeginCandidate(r, k), g)
<1> DEFINE u == r.unsettled + 1
           one == 1
           s == [r EXCEPT !.cand = k, !.attempt = one, !.on = r.chainOn, !.streamed = FALSE,
                   !.guard = TRUE, !.stripped = FALSE, !.exhausted = FALSE,
                   !.output = FALSE, !.expired = FALSE,
                   !.pc = "attempt", !.unsettled = u, !.mine = FALSE]
<1>1. r \in CallRecords
    BY DEF Between
<1>2. BeginCandidate(r, k) = s
    BY <1>1 DEF BeginCandidate, Send, CallRecords
<1>3. u = 1 /\ one = 1
    BY DEF Between
<1>4. u \in 0..1
    BY <1>3
<1>5. one \in 0..MaxAttempts
    BY <1>3, ModelCallAssumption
<1>6. r.chainOn \in BOOLEAN
    BY <1>1 DEF CallRecords
<1> HIDE DEF u, one
<1>7. s \in CallRecords
    BY <1>1, <1>4, <1>5, <1>6, ZenonT(60) DEF CallRecords
<1>8. Counted(s) /\ Settled(s)
    BY <1>1, <1>3 DEF Between, CallRecords, Counted, Settled, Ended, Reserved
<1>9. Streams(s)
    BY <1>1 DEF Between, CallRecords, Streams, Ended, Recovering
<1>10. Notices(s, g)
    BY <1>1 DEF Between, CallRecords, Notices, Persistent
<1> QED
    BY <1>2, <1>7, <1>8, <1>9, <1>10 DEF CallOK

\* A chain starts with the primary, or past it.
LEMMA ChainStartsOK ==
    ASSUME IInv, NEW c \in Calls, ChainStarts(c) PROVE IInv'
<1> DEFINE q == call[c]
           r == [q EXCEPT !.chainOn = q.outerOn, !.exhausted = FALSE]
<1>1. CallOK(q, gpu) /\ q \in CallRecords /\ gpu \in BOOLEAN
    BY DEF IInv
<1>2. q.outerOn \in BOOLEAN
    BY <1>1 DEF CallRecords
<1>3. r \in CallRecords
    BY <1>1, <1>2, Zenon DEF CallRecords
<1>4. r.pc = q.pc
    BY <1>1 DEF CallRecords
<1>5. PICK ready \in BOOLEAN :
         /\ q.pc = "chain" /\ Unmoved
         /\ Become(c, IF ready /\ (PrimaryAvailable \/ gpu)
                      THEN BeginCandidate(r, Primary)
                      ELSE [r EXCEPT !.pc = "next", !.cand = Primary,
                                     !.resp = IF ready THEN NoResponse ELSE "transient"])
    BY <1>4 DEF ChainStarts
<1>6. Between(r)
  <2>1. /\ q.held /\ ~q.stray /\ q.unsettled = 0 /\ (q.same < IdenticalLimit \/ q.lastRound)
        /\ (q.mine => q.segment = 1) /\ (q.outerOn => q.segment = 0 /\ q.outerGuard)
        /\ (Recovering(q) => q.outerOn /\ q.on)
      BY <1>1, <1>5 DEF CallOK, Counted, Settled, Streams, Ended, Reserved
  <2>2. /\ r.kind = q.kind /\ r.held = q.held /\ r.stray = q.stray /\ r.unsettled = q.unsettled
        /\ r.same = q.same /\ r.lastRound = q.lastRound /\ r.mine = q.mine
        /\ r.segment = q.segment /\ r.outerOn = q.outerOn /\ r.outerGuard = q.outerGuard
        /\ r.chainOn = q.outerOn /\ r.on = q.on
      BY <1>1 DEF CallRecords
  <2>3. q.segment \in 0..1
      BY <1>1 DEF CallRecords
  <2> HIDE DEF r, q
  <2> QED
      BY <1>3, <2>1, <2>2, <2>3 DEF Between, Recovering
<1>7. r.chainOn => r.segment = 0
    BY <1>1, <1>5 DEF CallOK, CallRecords, Streams
<1>8. ~gpu => ~r.expired /\ (~Persistent(r) => r.notice # "waiting")
    BY <1>1, <1>5 DEF CallOK, CallRecords, Notices, Persistent
<1>9. Primary \in 0..Fallbacks
    BY ModelCallAssumption DEF Primary
<1> HIDE DEF r, q
<1>10. CASE ready /\ (PrimaryAvailable \/ gpu)
  <2>1. Become(c, BeginCandidate(r, Primary)) /\ Unmoved
      BY <1>5, <1>10
  <2> QED
      BY <1>1, <1>6, <1>7, <1>8, <1>9, <2>1, BeginCandidateOK, BecomeOK
<1>11. CASE ~(ready /\ (PrimaryAvailable \/ gpu))
  <2> DEFINE p == IF ready THEN NoResponse ELSE "transient"
             s == [r EXCEPT !.pc = "next", !.cand = Primary, !.resp = p]
  <2>1. Become(c, s) /\ Unmoved
      BY <1>5, <1>11
  <2>2. p \in Responses \cup {NoResponse}
      BY DEF Responses
  <2>3. p # "ok"
      BY DEF NoResponse
  <2> HIDE DEF p
  <2>4. s \in CallRecords
      BY <1>3, <1>9, <2>2, ZenonT(30) DEF CallRecords
  <2>5. Counted(s) /\ Settled(s)
      BY <1>3, <1>6 DEF Between, CallRecords, Counted, Settled, Ended, Reserved
  <2>6. Streams(s)
      BY <1>3, <1>6, <1>7, <2>3 DEF Between, CallRecords, Streams, Ended, Recovering
  <2>7. Notices(s, gpu)
      BY <1>3, <1>6, <1>8 DEF Between, CallRecords, Notices, Persistent
  <2> QED
      BY <2>1, <2>4, <2>5, <2>6, <2>7, BecomeOK DEF CallOK
<1> QED
    BY <1>10, <1>11

\* What a returned candidate or an abandoned chain hands to the caller of the chain.
LEMMA ChainReturnsOK ==
    ASSUME NEW r, NEW g \in BOOLEAN, CallOK(r, g), r.pc \in {"returned", "next"},
           NEW resp \in Responses \cup {NoResponse},
           resp = r.resp \/ (r.pc = "next" /\ resp # "ok"), ~r.stray
    PROVE  CallOK(ChainReturns(r, resp), g)
<1> DEFINE s == [r EXCEPT !.pc = "chained", !.resp = resp]
<1>1. r \in CallRecords
    BY DEF CallOK
<1>2. ChainReturns(r, resp) = s
    BY DEF ChainReturns
<1>3. s \in CallRecords
    BY <1>1, Zenon DEF CallRecords
<1>4. Counted(s) /\ Settled(s)
    BY <1>1 DEF CallOK, CallRecords, Counted, Settled, Ended, Reserved
<1>5. Streams(s)
    BY <1>1 DEF CallOK, CallRecords, Streams, Ended, Recovering
<1>6. Notices(s, g)
    BY <1>1 DEF CallOK, CallRecords, Notices, Persistent
<1> QED
    BY <1>2, <1>3, <1>4, <1>5, <1>6 DEF CallOK

\* A candidate failed and the chain goes on: r, with a new segment, or without the
\* callback of the chain.
LEMMA GoOnOK ==
    ASSUME NEW r, NEW g \in BOOLEAN, CallOK(r, g), r.pc = "returned", ~r.stray, r.resp # "ok",
           NEW t, \/ t = r
                  \/ t = NewSegment(r)
                  \/ t = [r EXCEPT !.chainStreamed = FALSE, !.chainOn = FALSE]
                     /\ ~Recovering(r)
    PROVE  CallOK([t EXCEPT !.pc = "next"], g)
<1> DEFINE s == [t EXCEPT !.pc = "next"]
<1>1. r \in CallRecords
    BY DEF CallOK
<1>2. CASE t = r
  <2>1. s \in CallRecords
      BY <1>1, <1>2, ZenonT(40) DEF CallRecords
  <2>2. Counted(s) /\ Settled(s)
      BY <1>1, <1>2 DEF CallOK, CallRecords, Counted, Settled, Ended, Reserved
  <2>3. Streams(s)
      BY <1>1, <1>2 DEF CallOK, CallRecords, Streams, Ended, Recovering
  <2>4. Notices(s, g)
      BY <1>1, <1>2 DEF CallOK, CallRecords, Notices, Persistent
  <2> QED
      BY <2>1, <2>2, <2>3, <2>4 DEF CallOK
<1>3. CASE t = NewSegment(r)
  <2>0. t \in CallRecords
      BY <1>1, <1>3, NewSegmentType
  <2>1. s \in CallRecords
      BY <2>0, Zenon DEF CallRecords
  <2>2. Counted(s) /\ Settled(s)
      BY <1>1, <1>3 DEF CallOK, CallRecords, Counted, Settled, Ended, Reserved, NewSegment
  <2>3. Streams(s)
      BY <1>1, <1>3 DEF CallOK, CallRecords, Streams, Ended, Recovering, NewSegment
  <2>4. Notices(s, g)
      BY <1>1, <1>3 DEF CallOK, CallRecords, Notices, Persistent, NewSegment
  <2> QED
      BY <2>1, <2>2, <2>3, <2>4 DEF CallOK
<1>4. CASE t = [r EXCEPT !.chainStreamed = FALSE, !.chainOn = FALSE] /\ ~Recovering(r)
  <2>0. t \in CallRecords
      BY <1>1, <1>4, ZenonT(40) DEF CallRecords
  <2>1. s \in CallRecords
      BY <2>0, Zenon DEF CallRecords
  <2>2. Counted(s) /\ Settled(s)
      BY <1>1, <1>4 DEF CallOK, CallRecords, Counted, Settled, Ended, Reserved
  <2>3. Streams(s)
      BY <1>1, <1>4 DEF CallOK, CallRecords, Streams, Ended, Recovering
  <2>4. Notices(s, g)
      BY <1>1, <1>4 DEF CallOK, CallRecords, Notices, Persistent
  <2> QED
      BY <2>1, <2>2, <2>3, <2>4 DEF CallOK
<1> QED
    BY <1>2, <1>3, <1>4

\* The primary returns.
LEMMA PrimaryReturnsOK ==
    ASSUME IInv, NEW c \in Calls, PrimaryReturns(c) PROVE IInv'
<1> DEFINE r == call[c]
           stalled == r.chainStreamed /\ r.resp = "timeout"
           t == IF ~stalled THEN r
                ELSE IF Recovering(r) THEN NewSegment(r)
                ELSE [r EXCEPT !.chainStreamed = FALSE, !.chainOn = FALSE]
<1>1. /\ CallOK(r, gpu) /\ r \in CallRecords /\ r.pc = "returned" /\ ~r.stray
      /\ gpu \in BOOLEAN /\ failures \in 0..Threshold /\ circuit \in {"closed", "open", "cooled"}
    BY DEF IInv, PrimaryReturns
<1>2. r.resp \in Responses \cup {NoResponse}
    BY <1>1 DEF CallRecords
<1>3. CASE r.resp = "ok"
  <2>1. /\ Become(c, ChainReturns(r, r.resp)) /\ failures' = 0 /\ circuit' = "closed"
        /\ gpu' = gpu
      BY <1>3 DEF PrimaryReturns
  <2>2. failures' \in 0..Threshold /\ circuit' \in {"closed", "open", "cooled"}
      BY <2>1, ModelCallAssumption
  <2> QED
      BY <1>1, <1>2, <2>1, <2>2, ChainReturnsOK, BecomeOK
<1>4. CASE r.resp # "ok" /\ ((r.chainStreamed /\ ~stalled) \/ ~ShouldFallback(r.resp))
  <2>1. Become(c, ChainReturns(r, r.resp)) /\ Unmoved
      BY <1>4 DEF PrimaryReturns
  <2> QED
      BY <1>1, <1>2, <2>1, ChainReturnsOK, BecomeOK
<1>5. CASE r.resp # "ok" /\ ~((r.chainStreamed /\ ~stalled) \/ ~ShouldFallback(r.resp))
  <2>1. /\ Become(c, [t EXCEPT !.pc = "next"])
        /\ failures' = IF failures < Threshold THEN failures + 1 ELSE failures
        /\ circuit' = IF failures' = Threshold THEN "open" ELSE circuit
        /\ gpu' = gpu
      BY <1>5 DEF PrimaryReturns
  <2>2. failures' \in 0..Threshold /\ circuit' \in {"closed", "open", "cooled"}
      BY <1>1, <2>1, ModelCallAssumption
  <2>3. \/ t = r \/ t = NewSegment(r)
        \/ t = [r EXCEPT !.chainStreamed = FALSE, !.chainOn = FALSE] /\ ~Recovering(r)
      OBVIOUS
  <2> HIDE DEF t
  <2>4. CallOK([t EXCEPT !.pc = "next"], gpu)
      BY <1>1, <1>5, <2>3, GoOnOK
  <2> QED
      BY <2>1, <2>2, <2>4, BecomeOK
<1> QED
    BY <1>3, <1>4, <1>5

\* A fallback returns.
LEMMA FallbackReturnsOK ==
    ASSUME IInv, NEW c \in Calls, FallbackReturns(c) PROVE IInv'
<1> DEFINE r == call[c]
<1>1. /\ CallOK(r, gpu) /\ r \in CallRecords /\ r.pc = "returned" /\ r.cand # Primary
      /\ gpu \in BOOLEAN /\ Unmoved
    BY DEF IInv, FallbackReturns
<1>a. ~r.stray
    BY <1>1 DEF CallOK, Settled, Ended, Reserved, CallRecords
<1>2. r.resp \in Responses \cup {NoResponse}
    BY <1>1 DEF CallRecords
<1>3. CASE r.resp = "ok"
  <2>1. Become(c, ChainReturns(r, r.resp))
      BY <1>3 DEF FallbackReturns
  <2> QED
      BY <1>1, <1>a, <1>2, <2>1, ChainReturnsOK, BecomeOK
<1>4. CASE r.resp # "ok"
  <2>1. Become(c, [r EXCEPT !.pc = "next"])
      BY <1>4 DEF FallbackReturns
  <2>2. CallOK([r EXCEPT !.pc = "next"], gpu)
      BY <1>1, <1>a, <1>4, GoOnOK
  <2> QED
      BY <1>1, <2>1, <2>2, BecomeOK
<1> QED
    BY <1>3, <1>4

\* The chain goes on to a fallback, unless it is blocked: whatever text there was is
\* closed off, and a captured exhaustion is cleared.
LEMMA AdvanceOK ==
    ASSUME NEW r, NEW g \in BOOLEAN, CallOK(r, g), r.pc = "next", ~Blocked(r),
           NEW s,
           s = Notify(IF r.chainStreamed THEN NewSegment(r) ELSE r, r.exhausted, "cleared")
    PROVE  /\ Between(s) /\ (s.chainOn => s.segment = 0)
           /\ s.pc = "next" /\ s.resp # "ok" /\ s.cand = r.cand
           /\ ~g => ~s.expired /\ (~Persistent(s) => s.notice # "waiting")
<1> DEFINE b == IF r.chainStreamed THEN NewSegment(r) ELSE r
<1>1. r \in CallRecords
    BY DEF CallOK
<1>2. /\ b \in CallRecords /\ b.pc = "next" /\ b.resp # "ok" /\ b.cand = r.cand
      /\ b.notice = r.notice /\ b.exhausted = r.exhausted
      /\ b.expired = r.expired /\ b.kind = r.kind
      /\ Between(b) /\ (b.chainOn => b.segment = 0)
  <2>1. CASE r.chainStreamed
    <3>1. b = NewSegment(r)
        BY <2>1
    <3> HIDE DEF b
    <3>2. b \in CallRecords
        BY <1>1, <3>1, NewSegmentType
    <3>3. /\ b.pc = "next" /\ b.resp # "ok" /\ b.cand = r.cand
          /\ b.notice = r.notice /\ b.exhausted = r.exhausted
          /\ b.expired = r.expired /\ b.kind = r.kind /\ b.segment = 0
        BY <1>1, <3>1 DEF CallOK, CallRecords, Streams, NewSegment
    <3>4. Between(b)
        BY <1>1, <3>1, <3>2 DEF CallOK, CallRecords, Counted, Settled, Streams, Ended, Reserved, Between,
                           Recovering, NewSegment
    <3> QED
        BY <3>2, <3>3, <3>4
  <2>2. CASE ~r.chainStreamed
    <3>1. b = r
        BY <2>2
    <3> HIDE DEF b
    <3>2. b.pc = "next" /\ b.resp # "ok" /\ (b.chainOn => b.segment = 0)
        BY <1>1, <2>2, <3>1 DEF CallOK, CallRecords, Streams, Ended
    <3>3. Between(b)
        BY <1>1, <3>1 DEF CallOK, CallRecords, Counted, Settled, Streams, Ended, Reserved, Between,
                           Recovering
    <3> QED
        BY <1>1, <3>1, <3>2, <3>3
  <2> QED
      BY <2>1, <2>2
<1>3. ~g => ~r.expired /\ (~Persistent(r) /\ r.notice = "waiting" => r.exhausted)
    BY <1>1 DEF CallOK, Notices
<1>4. s = Notify(b, r.exhausted, "cleared")
    OBVIOUS
<1> HIDE DEF b
<1>5. CASE r.exhausted
  <2>1. s = [b EXCEPT !.notice = "cleared"]
      BY <1>4, <1>5 DEF Notify
  <2>2. s \in CallRecords
      BY <1>2, <2>1, ZenonT(40) DEF CallRecords
  <2>3. /\ s.pc = "next" /\ s.resp # "ok" /\ s.cand = r.cand /\ s.expired = r.expired
        /\ s.notice # "waiting" /\ (s.chainOn => s.segment = 0)
      BY <1>2, <2>1 DEF CallRecords
  <2>4. Between(s)
      BY <1>2, <2>1, <2>2 DEF Between, CallRecords, Recovering
  <2> QED
      BY <1>3, <2>3, <2>4
<1>6. CASE ~r.exhausted
  <2>1. s = b
      BY <1>4, <1>6 DEF Notify
  <2> QED
      BY <1>2, <1>3, <1>6, <2>1 DEF Persistent
<1> QED
    BY <1>5, <1>6

\* The loop over the fallback presets.
LEMMA NextFallbackOK ==
    ASSUME IInv, NEW c \in Calls, NextFallback(c) PROVE IInv'
<1> DEFINE r == call[c]
           s == Notify(IF r.chainStreamed THEN NewSegment(r) ELSE r, r.exhausted, "cleared")
<1>1. /\ CallOK(r, gpu) /\ r \in CallRecords /\ r.pc = "next" /\ gpu \in BOOLEAN /\ Unmoved
    BY DEF IInv, NextFallback
<1>2. CASE r.cand = Fallbacks \/ Blocked(r)
  <2> DEFINE p == IF r.resp = NoResponse THEN "transient" ELSE r.resp
  <2>1. Become(c, ChainReturns(r, p))
      BY <1>2 DEF NextFallback
  <2>2. p \in Responses \cup {NoResponse} /\ p # "ok"
      BY <1>1 DEF CallOK, CallRecords, Streams, Responses
  <2>3. ~r.stray
      BY <1>1 DEF CallOK, Settled
  <2> HIDE DEF p
  <2> QED
      BY <1>1, <2>1, <2>2, <2>3, ChainReturnsOK, BecomeOK
<1>3. CASE ~(r.cand = Fallbacks \/ Blocked(r))
  <2>1. \/ Become(c, BeginCandidate(s, r.cand + 1))
        \/ Become(c, [s EXCEPT !.cand = @ + 1])
      BY <1>3 DEF NextFallback
  <2>2. r.cand + 1 \in 0..Fallbacks
      BY <1>1, <1>3, ModelCallAssumption DEF CallRecords
  <2>3. /\ Between(s) /\ (s.chainOn => s.segment = 0)
        /\ s.pc = "next" /\ s.resp # "ok" /\ s.cand = r.cand
        /\ ~gpu => ~s.expired /\ (~Persistent(s) => s.notice # "waiting")
      BY <1>1, <1>3, AdvanceOK
  <2> HIDE DEF s
  <2>4. CASE Become(c, BeginCandidate(s, r.cand + 1))
    <3> DEFINE k == r.cand + 1
    <3> HIDE DEF k
    <3>1. CallOK(BeginCandidate(s, k), gpu)
        BY <1>1, <2>2, <2>3, BeginCandidateOK DEF k
    <3> QED
        BY <1>1, <2>4, <3>1, BecomeOK DEF k
  <2>5. CASE Become(c, [s EXCEPT !.cand = @ + 1])
    <3> DEFINE k == s.cand + 1
               z == [s EXCEPT !.cand = k]
    <3>1. k \in 0..Fallbacks
        BY <2>2, <2>3
    <3>2. s \in CallRecords
        BY <2>3 DEF Between
    <3>3. Become(c, z)
        BY <2>5
    <3> HIDE DEF k
    <3>4. z \in CallRecords
        BY <3>1, <3>2, Zenon DEF CallRecords
    <3>5. Counted(z) /\ Settled(z)
        BY <2>3, <3>2 DEF Between, CallRecords, Counted, Settled, Ended, Reserved
    <3>6. Streams(z)
        BY <2>3, <3>2 DEF Between, CallRecords, Streams, Ended, Recovering
    <3>7. Notices(z, gpu)
        BY <2>3, <3>2 DEF Between, CallRecords, Notices, Persistent
    <3> QED
        BY <1>1, <3>3, <3>4, <3>5, <3>6, <3>7, BecomeOK DEF CallOK
  <2> QED
      BY <2>1, <2>4, <2>5
<1> QED
    BY <1>2, <1>3

--------------------------------------------------------------------------------
\* A call that was never admitted is a call.
LEMMA NewCallType == NewCall \in CallRecords
<1>1. 0 \in 0..1 /\ 0 \in 0..2
    OBVIOUS
<1>2. 0 \in 0..Fallbacks /\ 0 \in 0..MaxAttempts /\ 0 \in 0..IdenticalLimit
    BY ModelCallAssumption
<1> QED
    BY <1>1, <1>2, ZenonT(60) DEF NewCall, CallRecords, Primary, NoResponse

\* What is left of a call that has ended is a call.
LEMMA FinishedType ==
    ASSUME NEW r \in CallRecords, NEW resp \in Responses \cup {NoResponse},
           NEW pc \in {"done", "cancelled"}
    PROVE  [Finished(r, resp) EXCEPT !.pc = pc] \in CallRecords
<1> DEFINE n == NewCall
           kind == r.kind
           unsettled == r.unsettled
           segment == r.segment
           mine == r.mine
           notice == r.notice
           b == [n EXCEPT !.pc = pc, !.kind = kind, !.resp = resp]
           a == [b EXCEPT !.unsettled = unsettled, !.segment = segment, !.mine = mine,
                          !.notice = notice]
<1>1. n \in CallRecords
    BY NewCallType
<1>2. [Finished(r, resp) EXCEPT !.pc = pc] = a
    BY DEF Finished
<1>3. kind \in SUBSET Features
    BY DEF CallRecords
<1>4. unsettled \in 0..1
    BY DEF CallRecords
<1>5. segment \in 0..1
    BY DEF CallRecords
<1>6. mine \in BOOLEAN
    BY DEF CallRecords
<1>7. notice \in {"none", "waiting", "recovered", "cleared", "exhausted"}
    BY DEF CallRecords
<1> HIDE DEF n, kind, unsettled, segment, mine, notice
<1>8. b \in CallRecords
    BY <1>1, <1>3, ZenonT(60) DEF CallRecords
<1> HIDE DEF b
<1>9. a \in CallRecords
    BY <1>4, <1>5, <1>6, <1>7, <1>8, ZenonT(60) DEF CallRecords
<1> QED
    BY <1>2, <1>9

\* The call returns, or is cancelled: the reservation is released with every attempt
\* settled.
LEMMA FinishedOK ==
    ASSUME NEW r \in CallRecords, NEW g \in BOOLEAN, r.unsettled = 0,
           r.mine => r.segment = 1,
           NEW resp \in Responses \cup {NoResponse},
           NEW pc \in {"done", "cancelled"},
           pc = "done" /\ resp = "ok" /\ Recovering(r) => r.segment = 0 \/ r.mine,
           pc = "done" /\ ~g /\ ~Persistent(r) => r.notice # "waiting"
    PROVE  CallOK([Finished(r, resp) EXCEPT !.pc = pc], g)
<1> DEFINE n == NewCall
           s == [n EXCEPT !.pc = pc, !.kind = r.kind, !.resp = resp,
    !.unsettled = r.unsettled, !.segment = r.segment, !.mine = r.mine, !.notice = r.notice]
<1>1. n \in CallRecords
    BY NewCallType
<1>2. /\ n.outerOn /\ n.chainOn /\ n.on /\ n.outerGuard /\ n.guard /\ ~n.held /\ ~n.stray
      /\ n.same = 0 /\ ~n.expired
    BY DEF NewCall
<1>3. [Finished(r, resp) EXCEPT !.pc = pc] = s
    BY <1>1 DEF Finished, CallRecords
<1> HIDE DEF n
<1>4. s \in CallRecords
  <2> HIDE DEF s
  <2>1. [Finished(r, resp) EXCEPT !.pc = pc] \in CallRecords
      BY FinishedType, Zenon
  <2> QED
      BY <1>3, <2>1, Zenon
<1>10. Counted(s) /\ Settled(s)
    BY <1>1, <1>2, ModelCallAssumption DEF CallRecords, Counted, Settled, Ended, Reserved
<1>11. Streams(s)
    BY <1>1, <1>2 DEF CallRecords, Streams, Ended, Recovering
<1>12. Notices(s, g)
    BY <1>1, <1>2 DEF CallRecords, Notices, Persistent
<1> QED
    BY <1>3, <1>4, <1>10, <1>11, <1>12 DEF CallOK

\* A finished call is done.
LEMMA FinishedIsDone ==
    ASSUME NEW r, NEW resp
    PROVE  [Finished(r, resp) EXCEPT !.pc = "done"] = Finished(r, resp)
BY DEF Finished, NewCall

\* A standard call returns what its chain returned.
LEMMA StandardReturnsOK ==
    ASSUME IInv, NEW c \in Calls, StandardReturns(c) PROVE IInv'
<1> DEFINE r == call[c]
           q == Notify(r, r.resp # "ok" /\ r.exhausted, "exhausted")
<1>1. /\ CallOK(r, gpu) /\ r \in CallRecords /\ r.pc = "chained" /\ gpu \in BOOLEAN /\ Unmoved
      /\ Become(c, Finished(q, r.resp)) /\ ~Persistent(r)
    BY DEF IInv, StandardReturns
<1>2. r.resp \in Responses \cup {NoResponse}
    BY <1>1 DEF CallRecords
<1>3. /\ r.unsettled = 0 /\ (r.mine => r.segment = 1)
      /\ r.resp = "ok" /\ Recovering(r) => r.segment = 0 \/ r.mine
      /\ ~gpu /\ r.notice = "waiting" => r.exhausted /\ r.resp # "ok"
    BY <1>1 DEF CallOK, Settled, Streams, Notices, CallRecords
<1>4. /\ q \in CallRecords /\ q.unsettled = 0 /\ (q.mine => q.segment = 1)
      /\ r.resp = "ok" /\ Recovering(q) => q.segment = 0 \/ q.mine
      /\ ~gpu => q.notice # "waiting"
  <2>1. CASE r.resp # "ok" /\ r.exhausted
    <3>1. q = [r EXCEPT !.notice = "exhausted"]
        BY <2>1 DEF Notify
    <3> HIDE DEF q
    <3>2. q \in CallRecords
        BY <1>1, <3>1, Zenon DEF CallRecords
    <3>3. /\ q.unsettled = r.unsettled /\ q.mine = r.mine /\ q.segment = r.segment
          /\ q.notice # "waiting"
        BY <1>1, <3>1 DEF CallRecords
    <3> QED
        BY <1>3, <2>1, <3>2, <3>3
  <2>2. CASE ~(r.resp # "ok" /\ r.exhausted)
    <3>1. q = r
        BY <2>2 DEF Notify
    <3> QED
        BY <1>1, <1>3, <2>2, <3>1
  <2> QED
      BY <2>1, <2>2
<1> HIDE DEF q
<1>5. CallOK([Finished(q, r.resp) EXCEPT !.pc = "done"], gpu)
    BY <1>1, <1>2, <1>4, FinishedOK
<1> QED
    BY <1>1, <1>5, FinishedIsDone, BecomeOK

\* Nobody waits for the call any more, and its attempts are settled.
LEMMA CancelledOK ==
    ASSUME NEW r \in CallRecords, NEW g \in BOOLEAN, r.unsettled = 0, r.mine => r.segment = 1
    PROVE  CallOK(Cancelled(r), g)
<1>1. NoResponse \in Responses \cup {NoResponse}
    OBVIOUS
<1>2. CallOK([Finished(r, NoResponse) EXCEPT !.pc = "cancelled"], g)
    BY <1>1, FinishedOK
<1> QED
    BY <1>2 DEF Cancelled

\* /stop, or the deadline of the call: it ends, or the primary's loop is left behind.
LEMMA CancelOK ==
    ASSUME IInv, NEW c \in Calls, Cancel(c) PROVE IInv'
<1> DEFINE r == call[c]
           q == [r EXCEPT !.unsettled = 0]
           s == [r EXCEPT !.held = FALSE, !.stray = TRUE]
<1>1. /\ CallOK(r, gpu) /\ r \in CallRecords /\ gpu \in BOOLEAN /\ Unmoved
      /\ Become(c, Cancelled(q)) \/ (Detached(r) /\ Become(c, s))
    BY DEF IInv, Cancel
<1>2. CASE Become(c, Cancelled(q))
  <2>1. 0 \in 0..1
      OBVIOUS
  <2>2. q \in CallRecords
      BY <1>1, <2>1, Zenon DEF CallRecords
  <2>3. q.unsettled = 0 /\ (q.mine => q.segment = 1)
      BY <1>1 DEF CallOK, Streams, CallRecords
  <2> HIDE DEF q
  <2>4. CallOK(Cancelled(q), gpu)
      BY <1>1, <2>2, <2>3, CancelledOK
  <2> QED
      BY <1>1, <1>2, <2>4, BecomeOK
<1>3. CASE Detached(r) /\ Become(c, s)
  <2>1. gpu /\ r.cand = Primary /\ r.chainOn /\ r.pc \in {"attempt", "waiting"}
      BY <1>3 DEF Detached, Running
  <2>2. s \in CallRecords
      BY <1>1, Zenon DEF CallRecords
  <2>3. Counted(s) /\ Settled(s)
      BY <1>1, <2>1 DEF CallOK, CallRecords, Counted, Settled, Ended, Reserved
  <2>4. Streams(s)
      BY <1>1 DEF CallOK, CallRecords, Streams, Ended, Recovering
  <2>5. Notices(s, gpu)
      BY <2>1 DEF Notices
  <2> QED
      BY <1>1, <1>3, <2>2, <2>3, <2>4, <2>5, BecomeOK DEF CallOK
<1> QED
    BY <1>1, <1>2, <1>3

\* The loop that was left behind returns.
LEMMA StrayReturnsOK ==
    ASSUME IInv, NEW c \in Calls, StrayReturns(c) PROVE IInv'
<1> DEFINE r == call[c]
<1>1. /\ CallOK(r, gpu) /\ r \in CallRecords /\ gpu \in BOOLEAN /\ Unmoved
      /\ Become(c, Cancelled(r)) /\ r.pc = "returned"
    BY DEF IInv, StrayReturns
<1>2. r.unsettled = 0 /\ (r.mine => r.segment = 1)
    BY <1>1 DEF CallOK, Settled, Streams, CallRecords
<1> HIDE DEF r
<1>3. CallOK(Cancelled(r), gpu)
    BY <1>1, <1>2, CancelledOK
<1> QED
    BY <1>1, <1>3, BecomeOK

\* _metered admits a call.
LEMMA AdmitOK ==
    ASSUME IInv, NEW c \in Calls, Admit(c) PROVE IInv'
<1>1. PICK kind \in SUBSET Features :
         Become(c, [NewCall EXCEPT !.pc = "chain", !.kind = kind, !.held = TRUE,
                                   !.round = 1, !.images = "images" \in kind])
    BY DEF Admit
<1> DEFINE n == NewCall
           i == "images" \in kind
           s == [n EXCEPT !.pc = "chain", !.kind = kind, !.held = TRUE,
                                   !.round = 1, !.images = i]
<1>2. n \in CallRecords
    BY NewCallType
<1>3. /\ n.outerOn /\ n.chainOn /\ n.on /\ n.outerGuard /\ n.guard /\ n.unsettled = 0 /\ ~n.stray
      /\ n.same = 0 /\ ~n.expired /\ n.segment = 0 /\ ~n.mine /\ n.notice = "none"
    BY DEF NewCall
<1>4. i \in BOOLEAN
    OBVIOUS
<1>5. 1 \in 0..2
    OBVIOUS
<1>6. Become(c, s) /\ Unmoved
    BY <1>1 DEF Admit
<1> HIDE DEF n, i
<1>7. s \in CallRecords
    BY <1>2, <1>4, <1>5, ZenonT(30) DEF CallRecords
<1>8. Counted(s) /\ Settled(s)
    BY <1>2, <1>3, ModelCallAssumption DEF CallRecords, Counted, Settled, Ended, Reserved
<1>9. Streams(s)
    BY <1>2, <1>3 DEF CallRecords, Streams, Ended, Recovering
<1>10. Notices(s, gpu)
    BY <1>2, <1>3 DEF CallRecords, Notices
<1> QED
    BY <1>6, <1>7, <1>8, <1>9, <1>10, BecomeOK DEF CallOK

--------------------------------------------------------------------------------
\* A notice, or taking the outer callback away, keeps a call record one.
LEMMA NoticeType ==
    ASSUME NEW r \in CallRecords,
           NEW n \in {"none", "waiting", "recovered", "cleared", "exhausted"}
    PROVE  [r EXCEPT !.notice = n] \in CallRecords
    BY ZenonT(30) DEF CallRecords

\* Taking the outer callback away keeps a call record one.
LEMMA OuterOffType ==
    ASSUME NEW r \in CallRecords
    PROVE  [r EXCEPT !.outerOn = FALSE, !.outerGuard = FALSE] \in CallRecords
    BY ZenonT(30) DEF CallRecords

\* A persistent call returns from its outer loop.
LEMMA FinishRoundOK ==
    ASSUME NEW r \in CallRecords, NEW g \in BOOLEAN, Persistent(r), r.unsettled = 0,
           r.mine => r.segment = 1, NEW resp \in Responses \cup {NoResponse},
           resp = "ok" /\ Recovering(r) => r.segment = 0 \/ r.mine
    PROVE  CallOK(FinishRound(r, resp), g)
<1> DEFINE status == IF resp = "ok" THEN "recovered" ELSE "cleared"
           q == Notify(r, r.round > 1, status)
<1>1. FinishRound(r, resp) = Finished(q, resp)
    BY DEF FinishRound
<1>2. status \in {"none", "waiting", "recovered", "cleared", "exhausted"}
    OBVIOUS
<1>3. q = r \/ q = [r EXCEPT !.notice = status]
    BY DEF Notify
<1> HIDE DEF status, q
<1>4. q \in CallRecords
    BY <1>2, <1>3, NoticeType
<1>5. /\ q.unsettled = r.unsettled /\ q.mine = r.mine /\ q.segment = r.segment
      /\ q.kind = r.kind
    BY <1>3 DEF CallRecords
<1>6. /\ q.unsettled = 0 /\ (q.mine => q.segment = 1)
      /\ Persistent(q)
      /\ resp = "ok" /\ Recovering(q) => q.segment = 0 \/ q.mine
    BY <1>5 DEF Persistent, Recovering
<1>7. CallOK([Finished(q, resp) EXCEPT !.pc = "done"], g)
    BY <1>4, <1>6, FinishedOK
<1> QED
    BY <1>1, <1>7, FinishedIsDone

\* The outer loop after a failed chain, before it looks at the error: text that was
\* shown is in a segment of its own, or the outer callback is gone.
LEMMA OuterAfterText ==
    ASSUME NEW r, NEW g \in BOOLEAN, CallOK(r, g), r.pc = "chained",
           NEW b,
           b = IF ~(r.outerGuard /\ r.outerStreamed) THEN r
               ELSE IF Recovering(r) THEN NewSegment(r)
               ELSE [r EXCEPT !.outerOn = FALSE, !.outerGuard = FALSE]
    PROVE  /\ Between(b) /\ (b.outerOn => b.segment = 0)
           /\ b.kind = r.kind /\ b.same = r.same /\ b.lastRound = r.lastRound
           /\ b.expired = r.expired
           /\ b.chainOn /\ b.segment > 0 => b.chainStreamed
<1>1. r \in CallRecords
    BY DEF CallOK
<1>2. CASE ~(r.outerGuard /\ r.outerStreamed)
  <2>1. b = r
      BY <1>2
  <2>2. Between(b)
      BY <1>1, <2>1 DEF CallOK, CallRecords, Counted, Settled, Streams, Ended, Reserved, Between, Recovering
  <2>3. b.outerOn => b.segment = 0
      BY <1>1, <1>2, <2>1 DEF CallOK, CallRecords, Streams, Ended
  <2>4. b.chainOn /\ b.segment > 0 => b.chainStreamed
      BY <2>1 DEF CallOK, Streams, Ended
  <2> QED
      BY <2>1, <2>2, <2>3, <2>4
<1>3. CASE r.outerGuard /\ r.outerStreamed /\ Recovering(r)
  <2>1. b = NewSegment(r)
      BY <1>3
  <2>0. b \in CallRecords
      BY <1>1, <2>1, NewSegmentType
  <2>2. Between(b)
      BY <1>1, <2>0, <2>1 DEF CallOK, CallRecords, Counted, Settled, Streams, Ended, Reserved, Between,
                              Recovering, NewSegment
  <2>3. /\ b.segment = 0 /\ b.kind = r.kind /\ b.same = r.same /\ b.lastRound = r.lastRound
        /\ b.expired = r.expired
      BY <1>1, <2>1 DEF CallRecords, NewSegment
  <2> QED
      BY <2>2, <2>3
<1>4. CASE r.outerGuard /\ r.outerStreamed /\ ~Recovering(r)
  <2>1. b = [r EXCEPT !.outerOn = FALSE, !.outerGuard = FALSE]
      BY <1>4
  <2>0. b \in CallRecords
      BY <1>1, <2>1, OuterOffType
  <2>2. Between(b)
      BY <1>1, <1>4, <2>0, <2>1 DEF CallOK, CallRecords, Counted, Settled, Streams, Ended, Reserved, Between,
                              Recovering
  <2>3. /\ ~b.outerOn /\ b.kind = r.kind /\ b.same = r.same /\ b.lastRound = r.lastRound
        /\ b.expired = r.expired
        /\ b.chainOn /\ b.segment > 0 => b.chainStreamed
      BY <1>1, <2>1 DEF CallOK, CallRecords, Streams, Ended
  <2> QED
      BY <2>2, <2>3
<1> QED
    BY <1>2, <1>3, <1>4

\* A persistent call goes on, or returns what its chain returned.
LEMMA PersistentReturnsOK ==
    ASSUME IInv, NEW c \in Calls, PersistentReturns(c) PROVE IInv'
<1> DEFINE r == call[c]
           afterText == r.outerGuard /\ r.outerStreamed
           b == IF ~afterText THEN r
                ELSE IF Recovering(r) THEN NewSegment(r)
                ELSE [r EXCEPT !.outerOn = FALSE, !.outerGuard = FALSE]
           n == IF r.resp = r.key THEN b.same + 1 ELSE 1
           s == [b EXCEPT !.same = n, !.key = r.resp]
           over == \/ r.resp = "ok" \/ r.lastRound
                   \/ afterText /\ r.resp # "timeout"
<1>1. /\ CallOK(r, gpu) /\ r \in CallRecords /\ r.pc = "chained" /\ gpu \in BOOLEAN
      /\ Persistent(r) /\ Unmoved
    BY DEF IInv, PersistentReturns
<1>2. Become(c, CASE over -> FinishRound(r, r.resp)
           [] OTHER ->
              IF ~IsTransient(r.resp)
              THEN IF s.images
                   THEN [s EXCEPT !.pc = "chain", !.lastRound = TRUE, !.images = FALSE]
                   ELSE FinishRound(s, r.resp)
              ELSE IF s.same >= IdenticalLimit
                   THEN Finished([s EXCEPT !.notice = "exhausted"], r.resp)
                   ELSE [s EXCEPT !.pc = "resting", !.notice = "waiting"])
    BY DEF PersistentReturns
<1>3. r.resp \in Responses \cup {NoResponse}
    BY <1>1 DEF CallRecords
<1>4. CASE over
  <2>1. Become(c, FinishRound(r, r.resp))
      BY <1>2, <1>4
  <2>2. /\ r.unsettled = 0 /\ (r.mine => r.segment = 1)
        /\ r.resp = "ok" /\ Recovering(r) => r.segment = 0 \/ r.mine
      BY <1>1 DEF CallOK, Settled, Streams
  <2> QED
      BY <1>1, <1>3, <2>1, <2>2, FinishRoundOK, BecomeOK
<1>5. CASE ~over
  <2>1. Become(c, IF ~IsTransient(r.resp)
              THEN IF s.images
                   THEN [s EXCEPT !.pc = "chain", !.lastRound = TRUE, !.images = FALSE]
                   ELSE FinishRound(s, r.resp)
              ELSE IF s.same >= IdenticalLimit
                   THEN Finished([s EXCEPT !.notice = "exhausted"], r.resp)
                   ELSE [s EXCEPT !.pc = "resting", !.notice = "waiting"])
      BY <1>2, <1>5
  <2>2. /\ Between(b) /\ (b.outerOn => b.segment = 0)
        /\ b.kind = r.kind /\ b.same = r.same /\ b.lastRound = r.lastRound
        /\ b.expired = r.expired
        /\ b.chainOn /\ b.segment > 0 => b.chainStreamed
    <3>1. b = IF ~(r.outerGuard /\ r.outerStreamed) THEN r
              ELSE IF Recovering(r) THEN NewSegment(r)
              ELSE [r EXCEPT !.outerOn = FALSE, !.outerGuard = FALSE]
        OBVIOUS
    <3> HIDE DEF b, r
    <3> QED
        BY <1>1, <3>1, OuterAfterText
  <2>3. ~r.lastRound /\ r.resp # "ok"
      BY <1>5
  <2> HIDE DEF b
  <2>4. b \in CallRecords
      BY <2>2 DEF Between
  <2>5. n \in 0..IdenticalLimit
      BY <2>2, <2>3, <2>4, ModelCallAssumption DEF Between, CallRecords
  <2>6. ~gpu => ~b.expired
      BY <1>1, <2>2 DEF CallOK, Notices
  <2> HIDE DEF n
  <2>7. s \in CallRecords
      BY <1>3, <2>4, <2>5, ZenonT(30) DEF CallRecords
  <2>8. /\ s.held /\ ~s.stray /\ s.unsettled = 0 /\ (s.mine => s.segment = 1)
        /\ (s.outerOn => s.segment = 0) /\ (s.outerOn => s.outerGuard)
        /\ (Recovering(s) => s.outerOn /\ s.chainOn /\ s.on)
        /\ (s.chainOn /\ s.segment > 0 => s.chainStreamed)
        /\ Persistent(s) /\ (~gpu => ~s.expired)
      BY <1>1, <2>2, <2>4, <2>6 DEF Between, CallRecords, Recovering, Persistent
  <2> HIDE DEF s
  <2>9. CASE ~IsTransient(r.resp) /\ s.images
    <3> DEFINE z == [s EXCEPT !.pc = "chain", !.lastRound = TRUE, !.images = FALSE]
    <3>1. Become(c, z)
        BY <2>1, <2>9
    <3>2. z \in CallRecords
        BY <2>7, Zenon DEF CallRecords
    <3>3. Counted(z) /\ Settled(z)
        BY <2>7, <2>8 DEF CallRecords, Counted, Settled, Ended, Reserved
    <3>4. Streams(z)
        BY <2>7, <2>8 DEF CallRecords, Streams, Ended, Recovering
    <3>5. Notices(z, gpu)
        BY <2>7, <2>8 DEF CallRecords, Notices, Persistent
    <3> QED
        BY <1>1, <3>1, <3>2, <3>3, <3>4, <3>5, BecomeOK DEF CallOK
  <2>10. CASE ~IsTransient(r.resp) /\ ~s.images
    <3>1. Become(c, FinishRound(s, r.resp))
        BY <2>1, <2>10
    <3> QED
        BY <1>1, <1>3, <2>3, <2>7, <2>8, <3>1, FinishRoundOK, BecomeOK
  <2>11. CASE IsTransient(r.resp) /\ s.same >= IdenticalLimit
    <3> DEFINE z == [s EXCEPT !.notice = "exhausted"]
    <3>1. Become(c, Finished(z, r.resp))
        BY <2>1, <2>11
    <3>2. z \in CallRecords
        BY <2>7, Zenon DEF CallRecords
    <3>3. z.unsettled = 0 /\ (z.mine => z.segment = 1) /\ z.notice # "waiting"
        BY <2>7, <2>8 DEF CallRecords
    <3> HIDE DEF z
    <3>4. CallOK([Finished(z, r.resp) EXCEPT !.pc = "done"], gpu)
        BY <1>1, <1>3, <2>3, <3>2, <3>3, FinishedOK
    <3> QED
        BY <1>1, <3>1, <3>4, FinishedIsDone, BecomeOK
  <2>12. CASE IsTransient(r.resp) /\ ~(s.same >= IdenticalLimit)
    <3> DEFINE z == [s EXCEPT !.pc = "resting", !.notice = "waiting"]
    <3>1. Become(c, z)
        BY <2>1, <2>12
    <3>2. z \in CallRecords
        BY <2>7, Zenon DEF CallRecords
    <3>3. Counted(z) /\ Settled(z)
        BY <2>7, <2>8, <2>12, ModelCallAssumption DEF CallRecords, Counted, Settled, Ended, Reserved
    <3>4. Streams(z)
        BY <2>7, <2>8 DEF CallRecords, Streams, Ended, Recovering
    <3>5. Notices(z, gpu)
        BY <2>7, <2>8 DEF CallRecords, Notices, Persistent
    <3> QED
        BY <1>1, <3>1, <3>2, <3>3, <3>4, <3>5, BecomeOK DEF CallOK
  <2> QED
      BY <2>9, <2>10, <2>11, <2>12
<1> QED
    BY <1>4, <1>5

\* The next round of a persistent call.
LEMMA RoundStartsOK ==
    ASSUME IInv, NEW c \in Calls, RoundStarts(c) PROVE IInv'
<1> DEFINE r == call[c]
           n == IF r.round < 2 THEN r.round + 1 ELSE r.round
           s == [r EXCEPT !.pc = "chain", !.round = n]
<1>1. /\ CallOK(r, gpu) /\ r \in CallRecords /\ r.pc = "resting" /\ Unmoved
      /\ Become(c, s)
    BY DEF IInv, RoundStarts, NextRound
<1>2. n \in 0..2
    BY <1>1 DEF CallRecords
<1> HIDE DEF n
<1>3. s \in CallRecords
    BY <1>1, <1>2, Zenon DEF CallRecords
<1>4. Counted(s) /\ Settled(s)
    BY <1>1 DEF CallOK, CallRecords, Counted, Settled, Ended, Reserved
<1>5. Streams(s)
    BY <1>1 DEF CallOK, CallRecords, Streams, Ended, Recovering
<1>6. Notices(s, gpu)
    BY <1>1 DEF CallOK, CallRecords, Notices, Persistent
<1> QED
    BY <1>1, <1>3, <1>4, <1>5, <1>6, BecomeOK DEF CallOK

--------------------------------------------------------------------------------
\* No call has been admitted.
LEMMA InitIInv == Init => IInv
<1> SUFFICES ASSUME Init PROVE IInv
    OBVIOUS
<1> DEFINE n == NewCall
<1>1. n \in CallRecords
    BY NewCallType
<1>2. CallOK(n, gpu)
    BY <1>1, ModelCallAssumption DEF NewCall, NoResponse, CallOK, Counted, Settled, Streams,
       Notices, Ended, Recovering
<1>3. call = [c \in Calls |-> n] /\ failures = 0 /\ circuit = "closed" /\ gpu \in BOOLEAN
    BY DEF Init
<1> HIDE DEF n
<1>4. 0 \in 0..Threshold
    BY ModelCallAssumption
<1> QED
    BY <1>1, <1>2, <1>3, <1>4 DEF IInv

\* Every step of every call keeps the invariant.
LEMMA NextIInv == IInv /\ [Next]_vars => IInv'
<1> SUFFICES ASSUME IInv, [Next]_vars PROVE IInv'
    OBVIOUS
<1>1. ASSUME NEW c \in Calls, Progress(c) PROVE IInv'
    BY <1>1, AttemptEndsOK, RetryAttemptOK, FirstOutputCancelsOK, ChainStartsOK,
       PrimaryReturnsOK, FallbackReturnsOK, NextFallbackOK, StandardReturnsOK,
       PersistentReturnsOK, RoundStartsOK, StrayReturnsOK DEF Progress
<1>2. ASSUME NEW c \in Calls, Delta(c) \/ FirstOutputExpires(c) \/ Admit(c) \/ Cancel(c)
      PROVE  IInv'
    BY <1>2, DeltaOK, FirstOutputExpiresOK, AdmitOK, CancelOK
<1>3. CASE Cooldown
    BY <1>3 DEF Cooldown, IInv
<1>4. CASE UNCHANGED vars
    BY <1>4 DEF vars, IInv
<1> QED
    BY <1>1, <1>2, <1>3, <1>4 DEF Next

\* The inductive invariant holds throughout.
LEMMA Invariance == Spec => []IInv
BY InitIInv, NextIInv, PTL DEF Spec

\* The attempts of a retry loop, the rounds with identical errors and the failures
\* the breaker counts stay within their limits, and at most one attempt of a call is
\* under way.
THEOREM CallTypes == Spec => []TypeOK
<1>1. IInv => TypeOK
  <2> SUFFICES ASSUME IInv PROVE TypeOK
      OBVIOUS
  <2>1. ASSUME NEW c \in Calls
        PROVE  /\ call[c].pc \in {"idle", "chain", "attempt", "waiting", "returned", "next",
                           "chained", "resting", "done", "cancelled"}
               /\ call[c].cand \in 0..Fallbacks /\ call[c].attempt \in 0..MaxAttempts
               /\ call[c].resp \in Responses \cup {NoResponse}
               /\ call[c].unsettled \in 0..1 /\ call[c].segment \in 0..2
               /\ call[c].same \in 0..IdenticalLimit
      BY DEF IInv, CallRecords
  <2> QED
      BY <2>1 DEF TypeOK, IInv
<1> QED
    BY <1>1, Invariance, PTL

\* For any number of calls, fallbacks and attempts, whatever the providers answer and
\* wherever streams stall: no segment shows the text of two attempts.
THEOREM SegmentsNeverMix == Spec => []SegmentIsOneAttempt
<1>1. IInv => SegmentIsOneAttempt
  <2> SUFFICES ASSUME IInv, NEW c \in Calls
               PROVE  /\ call[c].segment <= 1
                      /\ Recovering(call[c]) /\ call[c].pc = "done" /\ call[c].resp = "ok"
                           => call[c].segment = 0 \/ call[c].mine
      BY DEF SegmentIsOneAttempt
  <2>1. call[c] \in CallRecords /\ Streams(call[c])
      BY DEF IInv, CallOK
  <2> QED
      BY <2>1 DEF CallRecords, Streams
<1> QED
    BY <1>1, Invariance, PTL

\* However a call ends, its reservation is released after its last attempt was
\* settled, and not before the call has ended; only a cancellation while the first
\* output of the GPU primary is awaited leaves attempts running without one.
THEOREM ReleasedOnceSettled == Spec => []SettledThenReleased
<1>1. IInv => SettledThenReleased
  <2> SUFFICES ASSUME IInv, NEW c \in Calls
               PROVE  /\ call[c].held <=> call[c].pc \notin Ended /\ ~call[c].stray
                      /\ call[c].pc # "attempt" => call[c].unsettled = 0
                      /\ call[c].stray => /\ gpu /\ call[c].cand = Primary /\ call[c].chainOn
                                          /\ call[c].pc \in {"attempt", "waiting", "returned"}
      BY DEF SettledThenReleased, Ended
  <2>1. /\ call[c] \in CallRecords /\ gpu \in BOOLEAN /\ Settled(call[c])
        /\ (~gpu => ~call[c].stray)
      BY DEF IInv, CallOK, Notices
  <2> QED
      BY <2>1 DEF Settled, Reserved, Ended, CallRecords
<1> QED
    BY <1>1, Invariance, PTL

\* No standard call leaves "waiting for a retry" on screen when it returns.
THEOREM NoticesSettled == Spec => []NoticeSettled
<1>1. IInv => NoticeSettled
    BY DEF IInv, CallOK, Notices, NoticeSettled
<1> QED
    BY <1>1, Invariance, PTL
================================================================================
