------------------------- MODULE LocalTriggersProofs -------------------------
(***************************************************************************)
(* The queue of local triggers loses no message, runs none more often than *)
(* something went wrong, and stays quiet after a delete: for any number of *)
(* triggers, deliveries, crashes and store errors, any batch size and any  *)
(* limit of attempts.                                                      *)
(*                                                                         *)
(* The properties are about files and counts alone; what makes them hold   *)
(* is how these agree with the batch the gateway has in memory, and with   *)
(* how far it is with the first delivery of that batch.                    *)
(***************************************************************************)
EXTENDS LocalTriggers, SequenceTheorems, WellFoundedInduction, TLAPS

\* The types of a queued delivery and of the gateway.
Attempts == 0..(MaxDeliveryAttempts - 1)

Item == [id : Deliveries, attempts : Attempts]

Gateway ==
    [pc : {"down", "recover", "recover_unlink", "poll", "claim", "check", "submit", "wait",
           "record", "audit", "complete", "retry", "retry_unlink"},
     batch : Seq(Item),
     cause : {"none", "ok", "error", "exception", "cancelled"},
     turn : {"none", "queued", "running"}]

\* Where the gateway has no batch, and where it has not read processing yet.
Recovering == {"down", "recover", "recover_unlink"}
Unbatched == Recovering \cup {"poll"}

\* The faults so far: restarts and failed writes.
Faults == stops + storeErrors

\* The first delivery of the batch was retried: its copy is written, the file in
\* processing is about to be removed or gone.
Retried ==
    \/ gateway.pc = "retry_unlink"
    \/ gateway.pc = "audit" /\ gateway.cause \in {"exception", "cancelled"}
    \/ gateway.pc = "record" /\ gateway.cause = "exception"

\* The turn of the first delivery of the batch has not started.
Unstarted ==
    \/ gateway.pc \in {"claim", "check", "submit"}
    \/ gateway.pc = "wait" /\ gateway.turn = "queued"

\* Its outcome is recorded, and its file can go.
Recorded ==
    \/ gateway.pc = "audit" /\ gateway.cause \in {"ok", "error"}
    \/ gateway.pc = "complete"

\* The control state of the loop.
Control ==
    /\ gateway \in Gateway
    /\ gateway.pc \in Unbatched <=> gateway.batch = <<>>
    /\ gateway.pc \in Unbatched \cup {"claim", "check", "submit", "wait"} =>
          gateway.cause = "none"
    /\ gateway.pc = "record" => gateway.cause \in {"ok", "error", "exception"}
    /\ gateway.pc = "audit" => gateway.cause # "none"
    /\ gateway.pc = "complete" => gateway.cause \in {"ok", "error"}
    /\ gateway.pc \in {"retry", "retry_unlink"} => gateway.cause \in {"exception", "cancelled"}
    /\ gateway.pc = "wait" => gateway.turn # "none"

\* Only an accepted message has files, a place in the batch or turns.
Owned ==
    /\ In(inbox) \cup In(processing) \cup In(failed) \subseteq Enqueued
    /\ \A i \in 1..Len(gateway.batch) : gateway.batch[i].id \in Enqueued
    /\ \A d \in Deliveries \ Enqueued : turns[d] = 0 /\ lateTurns[d] = 0

\* What a removal of a file relies on.
Unlinkable ==
    /\ gateway.pc \in {"recover", "recover_unlink"} => In(processing) # {}
    /\ gateway.pc = "recover_unlink" =>
          First(In(processing)) \in In(inbox) \cup In(failed)
    /\ gateway.pc = "retry_unlink" => Current.id \in In(inbox) \cup In(failed)
    /\ Recorded => \/ outcome[Current.id] # "none"
                   \/ trigger[CurrentTrigger] = "deleted"

\* The batch and the directories agree.
BatchOK ==
    /\ \A i, j \in 1..Len(gateway.batch) :
          gateway.batch[i].id = gateway.batch[j].id => i = j
    /\ \A i \in 1..Len(gateway.batch) :
          /\ gateway.batch[i].id \in In(inbox) => i = 1 /\ Retried
          /\ processing[gateway.batch[i].id] \in {gateway.batch[i].attempts, NoFile}
    /\ gateway.pc \notin Recovering =>
          \A d \in In(processing) : \E i \in 1..Len(gateway.batch) : gateway.batch[i].id = d
    /\ Retried /\ gateway.pc # "retry_unlink" => processing[Current.id] = NoFile

\* Every turn but one was paid for by an attempt, and every attempt by a fault.
Paid ==
    /\ \A d \in In(inbox) : turns[d] <= inbox[d] /\ inbox[d] <= Faults
    /\ \A d \in In(processing) :
          /\ turns[d] <= processing[d] + 1 /\ processing[d] <= Faults
          /\ gateway.pc \in Recovering \/ gateway.cause = "cancelled" =>
                processing[d] + 1 <= Faults
    /\ \A i \in 1..Len(gateway.batch) :
          /\ turns[gateway.batch[i].id] <= gateway.batch[i].attempts + 1
          /\ i # 1 \/ Unstarted => turns[gateway.batch[i].id] <= gateway.batch[i].attempts
          /\ gateway.batch[i].attempts <= Faults
    /\ gateway.pc = "retry" => Current.attempts + 1 <= Faults

\* A late turn follows a delete, and one that may still come is the first.
Quiet ==
    /\ \A d \in Deliveries : lateTurns[d] # 0 => trigger[owner[d]] = "deleted"
    /\ gateway.pc = "submit" \/ (gateway.pc = "wait" /\ gateway.turn = "queued") =>
          lateTurns[Current.id] = 0

\* The inductive invariant: the properties, and what they rest on.
IInv ==
    /\ TypeOK /\ Control /\ Owned /\ Unlinkable /\ BatchOK
    /\ NoDeliveryLost
    /\ Paid /\ RerunOnlyAfterFault
    /\ Quiet /\ DeletedTriggerStaysQuiet

-----------------------------------------------------------------------------
\* The oldest of some files is one of them.
LEMMA FirstIn ==
    ASSUME NEW S, S \subseteq Deliveries, S # {}
    PROVE  First(S) \in S
<1> DEFINE R == OpToRel(<, Nat)
<1>1. S \subseteq Nat
    BY TriggersAssumption DEF Deliveries
<1>2. PICK d \in S : \A e \in S : ~(<<e, d>> \in R)
    BY <1>1, NatLessThanWellFounded, WFMin
<1>3. \A e \in Nat : e < d => <<e, d>> \in R
    BY <1>1 DEF OpToRel
<1> HIDE DEF R
<1>4. ASSUME NEW e \in S PROVE d <= e
  <2>1. ~(e < d)
      BY <1>1, <1>2, <1>3
  <2> QED
      BY <1>1, <2>1
<1> QED
    BY <1>4 DEF First

\* The delivery at hand is the first of the batch.
LEMMA CurrentIs ==
    ASSUME Control, gateway.pc \notin Unbatched
    PROVE  /\ Len(gateway.batch) \in Nat /\ 1 \in 1..Len(gateway.batch)
           /\ Current = gateway.batch[1] /\ Current \in Item
           /\ Current.id \in Deliveries /\ Current.attempts \in Attempts
<1>1. gateway.batch \in Seq(Item) /\ gateway.batch # <<>>
    BY DEF Control, Gateway
<1>2. Current \in Item /\ Current = gateway.batch[1]
    BY <1>1, HeadTailProperties DEF Current
<1> QED
    BY <1>1, <1>2, EmptySeq DEF Item

\* What is compared is a number.
LEMMA Numbers ==
    ASSUME IInv
    PROVE  /\ stops \in Nat /\ storeErrors \in Nat /\ Faults \in Nat
           /\ \A d \in Deliveries :
                /\ turns[d] \in Nat /\ lateTurns[d] \in Nat
                /\ inbox[d] # NoFile => inbox[d] \in Attempts /\ inbox[d] \in Nat
                /\ processing[d] # NoFile => processing[d] \in Attempts /\ processing[d] \in Nat
           /\ \A i \in 1..Len(gateway.batch) :
                /\ gateway.batch[i].id \in Deliveries
                /\ gateway.batch[i].attempts \in Attempts /\ gateway.batch[i].attempts \in Nat
                /\ gateway.batch[i].attempts # NoFile
<1>1. \A i \in 1..Len(gateway.batch) : gateway.batch[i] \in Item
    BY DEF IInv, Control, Gateway
<1>2. Attempts \subseteq Nat /\ NoFile \notin Nat
    BY TriggersAssumption DEF Attempts
<1> QED
    BY <1>1, <1>2, TriggersAssumption DEF IInv, TypeOK, Item, Attempts, Faults

\* The delivery at hand was accepted, for some trigger.
LEMMA CurrentOwned ==
    ASSUME IInv, gateway.pc \notin Unbatched
    PROVE  Current.id \in Enqueued /\ CurrentTrigger \in Triggers
<1>1. Current.id \in Enqueued
    BY CurrentIs DEF IInv, Owned
<1> QED
    BY <1>1 DEF IInv, TypeOK, CurrentTrigger, Enqueued

\* What a step that leaves the gateway's batch and the deliveries alone shows of a trigger.
LEMMA StaysDeleted ==
    ASSUME IInv, UNCHANGED <<owner, gateway, lateTurns>>,
           \A u \in Triggers : trigger[u] = "deleted" => trigger'[u] = "deleted"
    PROVE  /\ Current' = Current
           /\ gateway.pc \notin Unbatched /\ trigger[CurrentTrigger] = "deleted" =>
                 trigger'[CurrentTrigger'] = "deleted"
           /\ \A d \in Enqueued : trigger[owner[d]] = "deleted" => trigger'[owner'[d]] = "deleted"
           /\ Quiet'
<1>1. Current' = Current /\ CurrentTrigger' = CurrentTrigger
    BY DEF Current, CurrentTrigger
<1>2. \A d \in Enqueued : owner[d] \in Triggers
    BY DEF IInv, TypeOK, Enqueued
<1>3. \A d \in Deliveries : lateTurns[d] # 0 => d \in Enqueued
    BY DEF IInv, Owned
<1>4. Quiet'
    BY <1>1, <1>2, <1>3 DEF IInv, Quiet
<1> QED
    BY <1>1, <1>2, <1>4, CurrentOwned

\* The batch without its first delivery.
LEMMA NextBatch ==
    ASSUME Control, gateway.pc \notin Unbatched, NextDelivery
    PROVE  /\ gateway' \in Gateway /\ gateway'.cause = "none"
           /\ gateway'.pc \in {"poll", "check"} /\ (gateway'.pc = "poll" <=> gateway'.batch = <<>>)
           /\ \A i \in 1..Len(gateway'.batch) :
                /\ i + 1 \in 1..Len(gateway.batch) /\ i + 1 # 1
                /\ gateway'.batch[i] = gateway.batch[i + 1]
           /\ \A j \in 1..Len(gateway.batch) : j # 1 =>
                /\ j - 1 \in 1..Len(gateway'.batch)
                /\ gateway'.batch[j - 1] = gateway.batch[j]
<1> DEFINE b == gateway.batch
<1>1. b \in Seq(Item) /\ b # <<>>
    BY DEF Control, Gateway
<1>2. /\ Tail(b) \in Seq(Item) /\ Len(Tail(b)) = Len(b) - 1
      /\ \A i \in 1..Len(Tail(b)) : Tail(b)[i] = b[i + 1]
      /\ Len(b) \in Nat
    BY <1>1, HeadTailProperties
<1>3. /\ gateway'.batch = Tail(b) /\ gateway'.cause = "none"
      /\ gateway'.pc = IF Len(b) = 1 THEN "poll" ELSE "check"
      /\ gateway' \in Gateway
    BY <1>2 DEF NextDelivery, Control, Gateway
<1>4. Len(b) = 1 <=> Tail(b) = <<>>
  <2>1. Tail(b) = <<>> <=> Len(Tail(b)) = 0
      BY <1>2, EmptySeq
  <2> QED
      BY <1>2, <2>1
<1> HIDE DEF b
<1>5. /\ \A i \in 1..(Len(b) - 1) : i + 1 \in 1..Len(b) /\ i + 1 # 1
      /\ \A j \in 1..Len(b) : j # 1 => j - 1 \in 1..(Len(b) - 1) /\ (j - 1) + 1 = j
    BY <1>2
<1> QED
    BY <1>2, <1>3, <1>4, <1>5 DEF b

\* On to the next delivery, once the file of this one is out of processing.
LEMMA Advance ==
    ASSUME IInv, gateway.pc \notin Unbatched, NextDelivery,
           UNCHANGED <<trigger, owner, inbox, failed, turns, lateTurns, stops, storeErrors>>,
           processing'[Current.id] = NoFile,
           \A d \in Deliveries \ {Current.id} : processing'[d] = processing[d]
    PROVE  Control' /\ Owned' /\ Unlinkable' /\ BatchOK' /\ Paid' /\ Quiet'
<1>1. Control /\ Current = gateway.batch[1] /\ Current.id \in Deliveries
      /\ 1 \in 1..Len(gateway.batch)
    BY CurrentIs DEF IInv
<1>2. /\ gateway' \in Gateway /\ gateway'.cause = "none"
      /\ gateway'.pc \in {"poll", "check"} /\ (gateway'.pc = "poll" <=> gateway'.batch = <<>>)
    BY <1>1, NextBatch
<1>3. \A i \in 1..Len(gateway'.batch) :
         /\ i + 1 \in 1..Len(gateway.batch) /\ i + 1 # 1
         /\ gateway'.batch[i] = gateway.batch[i + 1]
    BY <1>1, NextBatch
<1>4. \A j \in 1..Len(gateway.batch) : j # 1 =>
         j - 1 \in 1..Len(gateway'.batch) /\ gateway'.batch[j - 1] = gateway.batch[j]
    BY <1>1, NextBatch
<1>5. In(processing') = In(processing) \ {Current.id}
    BY <1>1 DEF In
<1>6. ASSUME NEW i \in 1..Len(gateway'.batch)
      PROVE  /\ gateway'.batch[i].id \in Enqueued /\ gateway'.batch[i].id \in Deliveries
             /\ gateway'.batch[i].id # Current.id
             /\ gateway'.batch[i].id \notin In(inbox)
             /\ processing[gateway'.batch[i].id] \in {gateway'.batch[i].attempts, NoFile}
             /\ turns[gateway'.batch[i].id] <= gateway'.batch[i].attempts
             /\ turns[gateway'.batch[i].id] <= gateway'.batch[i].attempts + 1
             /\ gateway'.batch[i].attempts <= Faults
  <2>1. PICK j \in 1..Len(gateway.batch) : j # 1 /\ gateway'.batch[i] = gateway.batch[j]
      BY <1>3
  <2>2. /\ gateway.batch[j].id \in Enqueued /\ gateway.batch[j].id \in Deliveries
        /\ gateway.batch[j].id # Current.id
        /\ gateway.batch[j].id \notin In(inbox)
        /\ processing[gateway.batch[j].id] \in {gateway.batch[j].attempts, NoFile}
      BY <1>1, <2>1, Numbers DEF IInv, Owned, BatchOK
  <2>3. /\ turns[gateway.batch[j].id] <= gateway.batch[j].attempts
        /\ turns[gateway.batch[j].id] <= gateway.batch[j].attempts + 1
        /\ gateway.batch[j].attempts <= Faults
      BY <2>1 DEF IInv, Paid
  <2> QED
      BY <2>1, <2>2, <2>3
<1>7. ASSUME NEW i \in 1..Len(gateway'.batch), NEW k \in 1..Len(gateway'.batch),
             gateway'.batch[i].id = gateway'.batch[k].id
      PROVE  i = k
  <2>1. /\ i + 1 \in 1..Len(gateway.batch) /\ k + 1 \in 1..Len(gateway.batch)
        /\ gateway.batch[i + 1].id = gateway.batch[k + 1].id
      BY <1>3, <1>7
  <2>2. i + 1 = k + 1
      BY <2>1 DEF IInv, BatchOK
  <2> QED
      BY <2>2
<1>8. ASSUME NEW d \in In(processing')
      PROVE  \E i \in 1..Len(gateway'.batch) : gateway'.batch[i].id = d
  <2>1. PICK j \in 1..Len(gateway.batch) : gateway.batch[j].id = d
      BY <1>5 DEF IInv, BatchOK, Unbatched
  <2>2. j # 1
      BY <1>1, <1>5, <2>1
  <2> QED
      BY <1>4, <2>1, <2>2
<1>9. Control'
    BY <1>2 DEF Control, Unbatched, Recovering
<1>10. Owned'
  <2>1. Enqueued' = Enqueued /\ In(inbox') = In(inbox) /\ In(failed') = In(failed)
      BY DEF Enqueued
  <2> QED
      BY <1>5, <1>6, <2>1 DEF IInv, Owned
<1>11. Unlinkable'
    BY <1>2 DEF Unlinkable, Recorded
<1>12. BatchOK'
    BY <1>2, <1>6, <1>7, <1>8 DEF BatchOK, Retried
<1>13. Paid'
  <2>1. Faults' = Faults
      BY DEF Faults
  <2>2. \A d \in In(processing') : turns[d] <= processing'[d] + 1 /\ processing'[d] <= Faults
      BY <1>5 DEF IInv, Paid, In
  <2> QED
      BY <1>2, <1>6, <2>1, <2>2 DEF IInv, Paid, Recovering
<1>14. Quiet'
    BY <1>2 DEF IInv, Quiet
<1> QED
    BY <1>9, <1>10, <1>11, <1>12, <1>13, <1>14

\* The gateway is gone, and what it leaves in processing can be recovered.
LEMMA GoneDown ==
    ASSUME IInv, gateway' = Down, Faults' \in Nat, Faults <= Faults',
           UNCHANGED <<trigger, owner, inbox, processing, failed, turns, lateTurns>>,
           \A d \in In(processing) : processing[d] + 1 <= Faults'
    PROVE  Control' /\ Owned' /\ Unlinkable' /\ BatchOK' /\ Paid' /\ Quiet'
<1>1. /\ gateway'.pc = "down" /\ gateway'.cause = "none" /\ gateway'.batch = <<>>
      /\ gateway' \in Gateway /\ \A i \in 1..Len(gateway'.batch) : FALSE
    BY DEF Down, Gateway
<1>2. Control'
    BY <1>1 DEF Control, Unbatched, Recovering
<1>3. Owned'
    BY <1>1 DEF IInv, Owned, Enqueued, In
<1>4. Unlinkable'
    BY <1>1 DEF Unlinkable, Recorded
<1>5. BatchOK'
    BY <1>1 DEF BatchOK, Retried, Recovering
<1>6. Paid'
  <2>1. \A d \in In(inbox) : turns[d] <= inbox[d] /\ inbox[d] <= Faults'
      BY Numbers DEF IInv, Paid, In
  <2>2. \A d \in In(processing) : turns[d] <= processing[d] + 1 /\ processing[d] <= Faults'
      BY Numbers DEF IInv, Paid, In
  <2> QED
      BY <1>1, <2>1, <2>2 DEF Paid, In
<1>7. Quiet'
    BY <1>1 DEF IInv, Quiet
<1> QED
    BY <1>2, <1>3, <1>4, <1>5, <1>6, <1>7

\* _retry_delivery_unlocked leaves a copy, with one attempt more.
LEMMA CopyWritten ==
    ASSUME TypeOK, NEW c \in Deliveries, NEW a \in Attempts, WriteRetryCopy(c, a)
    PROVE  /\ inbox' \in [Deliveries -> 0..(MaxDeliveryAttempts - 1) \cup {NoFile}]
           /\ failed' \in [Deliveries -> {MaxDeliveryAttempts, NoFile}]
           /\ \A d \in Deliveries \ {c} : inbox'[d] = inbox[d] /\ failed'[d] = failed[d]
           /\ \A d \in Deliveries : /\ inbox[d] # NoFile => inbox'[d] # NoFile
                                    /\ failed[d] # NoFile => failed'[d] # NoFile
           /\ c \in In(inbox') \cup In(failed')
           /\ inbox'[c] \in {inbox[c], a + 1}
<1>1. /\ a \in Nat /\ MaxDeliveryAttempts \in Nat /\ a <= MaxDeliveryAttempts - 1
      /\ NoFile \notin Nat
    BY TriggersAssumption DEF Attempts
<1>2. CASE RetriesLeft(a)
  <2>1. failed' = failed /\ inbox' = [inbox EXCEPT ![c] = a + 1]
      BY <1>2 DEF WriteRetryCopy
  <2>2. a + 1 \in 0..(MaxDeliveryAttempts - 1) /\ a + 1 # NoFile
      BY <1>1, <1>2 DEF RetriesLeft
  <2> QED
      BY <2>1, <2>2 DEF TypeOK, In
<1>3. CASE ~RetriesLeft(a)
  <2>1. inbox' = inbox /\ failed' = [failed EXCEPT ![c] = a + 1]
      BY <1>3 DEF WriteRetryCopy
  <2>2. a + 1 = MaxDeliveryAttempts /\ MaxDeliveryAttempts # NoFile
      BY <1>1, <1>3 DEF RetriesLeft
  <2> QED
      BY <2>1, <2>2 DEF TypeOK, In
<1> QED
    BY <1>2, <1>3

\* create.
LEMMA CreateOK == ASSUME IInv, NEW t \in Triggers, Create(t) PROVE IInv'
<1>1. /\ gateway' = gateway
      /\ UNCHANGED <<owner, inbox, processing, failed, outcome, run,
                         turns, lateTurns, stops, storeErrors>>
    BY DEF Create, files, records, history, faults
<1>2. \A u \in Triggers : trigger[u] = "deleted" => trigger'[u] = "deleted"
    BY DEF IInv, TypeOK, Create
<1>3. trigger' \in [Triggers -> {"none", "enabled", "disabled", "deleted"}]
    BY DEF IInv, TypeOK, Create
<1>4. /\ Current' = Current /\ Quiet'
      /\ gateway.pc \notin Unbatched /\ trigger[CurrentTrigger] = "deleted" =>
            trigger'[CurrentTrigger'] = "deleted"
      /\ \A d \in Enqueued : trigger[owner[d]] = "deleted" => trigger'[owner'[d]] = "deleted"
    BY <1>1, <1>2, StaysDeleted
<1>5. TypeOK'
    BY <1>1, <1>2, <1>3, <1>4 DEF IInv, TypeOK
<1>6. Control'
    BY <1>1 DEF IInv, Control, Unbatched, Recovering
<1>7. Owned'
    BY <1>1, <1>2, <1>3, <1>4 DEF IInv, Owned, In, Enqueued
<1>8. Unlinkable'
    BY <1>1, <1>4 DEF IInv, Unlinkable, Recorded, In, Unbatched, Recovering
<1>9. BatchOK'
    BY <1>1, <1>4 DEF IInv, BatchOK, Retried, In
<1>10. NoDeliveryLost'
    BY <1>1, <1>4 DEF IInv, NoDeliveryLost, In, Enqueued
<1>11. Paid'
    BY <1>1, <1>4 DEF IInv, Paid, Unstarted, In, Faults
<1>12. RerunOnlyAfterFault'
    BY <1>1 DEF IInv, RerunOnlyAfterFault
<1>13. Quiet'
    BY <1>4
<1>14. DeletedTriggerStaysQuiet'
    BY <1>1 DEF IInv, DeletedTriggerStaysQuiet
<1> QED
    BY <1>5, <1>6, <1>7, <1>8, <1>9, <1>10,
       <1>11, <1>12, <1>13, <1>14 DEF IInv

\* enable.
LEMMA EnableOK ==
    ASSUME IInv, NEW t \in Triggers, NEW enabled \in BOOLEAN, Enable(t, enabled)
    PROVE  IInv'
<1>1. /\ gateway' = gateway
      /\ UNCHANGED <<owner, inbox, processing, failed, outcome, run,
                         turns, lateTurns, stops, storeErrors>>
    BY DEF Enable, files, records, history, faults
<1>2. \A u \in Triggers : trigger[u] = "deleted" => trigger'[u] = "deleted"
    BY DEF IInv, TypeOK, Enable
<1>3. trigger' \in [Triggers -> {"none", "enabled", "disabled", "deleted"}]
    BY DEF IInv, TypeOK, Enable
<1>4. /\ Current' = Current /\ Quiet'
      /\ gateway.pc \notin Unbatched /\ trigger[CurrentTrigger] = "deleted" =>
            trigger'[CurrentTrigger'] = "deleted"
      /\ \A d \in Enqueued : trigger[owner[d]] = "deleted" => trigger'[owner'[d]] = "deleted"
    BY <1>1, <1>2, StaysDeleted
<1>5. TypeOK'
    BY <1>1, <1>2, <1>3, <1>4 DEF IInv, TypeOK
<1>6. Control'
    BY <1>1 DEF IInv, Control, Unbatched, Recovering
<1>7. Owned'
    BY <1>1, <1>2, <1>3, <1>4 DEF IInv, Owned, In, Enqueued
<1>8. Unlinkable'
    BY <1>1, <1>4 DEF IInv, Unlinkable, Recorded, In, Unbatched, Recovering
<1>9. BatchOK'
    BY <1>1, <1>4 DEF IInv, BatchOK, Retried, In
<1>10. NoDeliveryLost'
    BY <1>1, <1>4 DEF IInv, NoDeliveryLost, In, Enqueued
<1>11. Paid'
    BY <1>1, <1>4 DEF IInv, Paid, Unstarted, In, Faults
<1>12. RerunOnlyAfterFault'
    BY <1>1 DEF IInv, RerunOnlyAfterFault
<1>13. Quiet'
    BY <1>4
<1>14. DeletedTriggerStaysQuiet'
    BY <1>1 DEF IInv, DeletedTriggerStaysQuiet
<1> QED
    BY <1>5, <1>6, <1>7, <1>8, <1>9, <1>10,
       <1>11, <1>12, <1>13, <1>14 DEF IInv

\* The audit record and the submission of the turn.
LEMMA SubmitOK == ASSUME IInv, Submit PROVE IInv'
<1>1. /\ gateway.pc = "submit"
      /\ gateway'.pc = "wait"
      /\ gateway'.batch = gateway.batch
      /\ gateway'.cause = gateway.cause /\ gateway'.turn = "queued"
      /\ gateway' \in Gateway
    BY DEF Submit, At, IInv, Control, Gateway
<1>2. /\ Current = gateway.batch[1] /\ 1 \in 1..Len(gateway.batch)
      /\ Current.id \in Deliveries /\ Current.attempts \in Attempts /\ Current' = Current
    BY <1>1, CurrentIs DEF IInv, Unbatched, Recovering, Current
<1>3. UNCHANGED <<trigger, owner, inbox, processing, failed, outcome,
                      turns, lateTurns, stops, storeErrors>>
    BY DEF Submit, files, records, history, faults
<1>4. TypeOK'
    BY <1>2, <1>3 DEF IInv, TypeOK, Submit
<1>5. Control'
    BY <1>1 DEF IInv, Control, Unbatched, Recovering
<1>6. Owned'
    BY <1>1, <1>2, <1>3 DEF IInv, Owned, In, Enqueued
<1>7. Unlinkable'
    BY <1>1, <1>2, <1>3 DEF IInv, Unlinkable, Recorded, In, CurrentTrigger
<1>8. BatchOK'
    BY <1>1, <1>2, <1>3 DEF IInv, BatchOK, Retried, In, Recovering
<1>9. NoDeliveryLost'
    BY <1>3 DEF IInv, NoDeliveryLost, In, Enqueued
<1>10. Paid'
    BY <1>1, <1>2, <1>3 DEF IInv, Paid, Unstarted, In, Recovering, Faults
<1>11. RerunOnlyAfterFault'
    BY <1>3 DEF IInv, RerunOnlyAfterFault
<1>12. Quiet'
    BY <1>1, <1>2, <1>3 DEF IInv, Quiet
<1>13. DeletedTriggerStaysQuiet'
    BY <1>3 DEF IInv, DeletedTriggerStaysQuiet
<1> QED
    BY <1>4, <1>5, <1>6, <1>7, <1>8, <1>9,
       <1>10, <1>11, <1>12, <1>13 DEF IInv

\* The gateway starts.
LEMMA StartOK == ASSUME IInv, Start PROVE IInv'
<1>1. /\ gateway.pc = "down"
      /\ gateway'.pc = IF In(processing) = {} THEN "poll" ELSE "recover"
      /\ gateway'.batch = gateway.batch
      /\ gateway'.cause = gateway.cause /\ gateway'.turn = gateway.turn
      /\ gateway' \in Gateway
    BY DEF Start, At, Goto, IInv, Control, Gateway
<1>2. UNCHANGED <<trigger, owner, inbox, processing, failed, outcome,
                      run, turns, lateTurns, stops, storeErrors>>
    BY DEF Start, files, records, history, faults
<1>3. TypeOK'
    BY <1>1, <1>2 DEF IInv, TypeOK
<1>4. Control'
    BY <1>1 DEF IInv, Control, Unbatched, Recovering
<1>5. Owned'
    BY <1>1, <1>2 DEF IInv, Owned, In, Enqueued
<1>6. Unlinkable'
    BY <1>1, <1>2 DEF IInv, Unlinkable, Recorded, In, CurrentTrigger
<1>7. BatchOK'
    BY <1>1, <1>2 DEF IInv, BatchOK, Retried, In, Recovering
<1>8. NoDeliveryLost'
    BY <1>2 DEF IInv, NoDeliveryLost, In, Enqueued
<1>9. Paid'
    BY <1>1, <1>2 DEF IInv, Paid, Unstarted, In, Recovering, Faults
<1>10. RerunOnlyAfterFault'
    BY <1>2 DEF IInv, RerunOnlyAfterFault
<1>11. Quiet'
    BY <1>1, <1>2 DEF IInv, Quiet
<1>12. DeletedTriggerStaysQuiet'
    BY <1>2 DEF IInv, DeletedTriggerStaysQuiet
<1> QED
    BY <1>3, <1>4, <1>5, <1>6, <1>7, <1>8,
       <1>9, <1>10, <1>11, <1>12 DEF IInv

\* _deliver_delivery looks the trigger up.
LEMMA CheckOK ==
    ASSUME IInv, NEW channelEnabled \in BOOLEAN, Check(channelEnabled)
    PROVE  IInv'
<1>1. /\ gateway.pc = "check"
      /\ \/ gateway'.pc = "submit" /\ gateway'.cause = gateway.cause /\ trigger[CurrentTrigger] = "enabled"
         \/ gateway'.pc = "record" /\ gateway'.cause = "error"
      /\ gateway'.batch = gateway.batch
      /\ gateway' \in Gateway
    BY DEF Check, Accepts, At, Goto, GotoFor, IInv, Control, Gateway
<1>2. /\ Current = gateway.batch[1] /\ 1 \in 1..Len(gateway.batch)
      /\ Current.id \in Deliveries /\ Current.attempts \in Attempts /\ Current' = Current
    BY <1>1, CurrentIs DEF IInv, Unbatched, Recovering, Current
<1>3. UNCHANGED <<trigger, owner, inbox, processing, failed, outcome,
                      run, turns, lateTurns, stops, storeErrors>>
    BY DEF Check, files, records, history, faults
<1>4. TypeOK'
    BY <1>1, <1>2, <1>3 DEF IInv, TypeOK
<1>5. Control'
    BY <1>1 DEF IInv, Control, Unbatched, Recovering
<1>6. Owned'
    BY <1>1, <1>2, <1>3 DEF IInv, Owned, In, Enqueued
<1>7. Unlinkable'
    BY <1>1, <1>2, <1>3 DEF IInv, Unlinkable, Recorded, In, CurrentTrigger
<1>8. BatchOK'
    BY <1>1, <1>2, <1>3 DEF IInv, BatchOK, Retried, In, Recovering
<1>9. NoDeliveryLost'
    BY <1>3 DEF IInv, NoDeliveryLost, In, Enqueued
<1>10. Paid'
    BY <1>1, <1>2, <1>3 DEF IInv, Paid, Unstarted, In, Recovering, Faults
<1>11. RerunOnlyAfterFault'
    BY <1>3 DEF IInv, RerunOnlyAfterFault
<1>12. Quiet'
    BY <1>1, <1>2, <1>3 DEF IInv, Quiet, CurrentTrigger
<1>13. DeletedTriggerStaysQuiet'
    BY <1>3 DEF IInv, DeletedTriggerStaysQuiet
<1> QED
    BY <1>4, <1>5, <1>6, <1>7, <1>8, <1>9,
       <1>10, <1>11, <1>12, <1>13 DEF IInv

\* The agent starts the turn.
LEMMA TurnStartsOK == ASSUME IInv, TurnStarts PROVE IInv'
<1>1. /\ gateway.pc = "wait"
      /\ gateway'.pc = "wait"
      /\ gateway'.batch = gateway.batch
      /\ gateway'.cause = gateway.cause /\ gateway'.turn = "running"
      /\ gateway' \in Gateway
      /\ gateway.turn = "queued"
    BY DEF TurnStarts, At, IInv, Control, Gateway
<1>2. /\ Current = gateway.batch[1] /\ 1 \in 1..Len(gateway.batch)
      /\ Current.id \in Deliveries /\ Current.attempts \in Attempts /\ Current' = Current
    BY <1>1, CurrentIs DEF IInv, Unbatched, Recovering, Current
<1>3. UNCHANGED <<trigger, owner, inbox, processing, failed, outcome,
                      run, stops, storeErrors>>
    BY DEF TurnStarts, files, records, history, faults
<1>4. /\ turns' = [turns EXCEPT ![Current.id] = @ + 1]
      /\ lateTurns' = [lateTurns EXCEPT ![Current.id] =
                         IF trigger[CurrentTrigger] = "deleted" THEN @ + 1 ELSE @]
    BY DEF TurnStarts
<1>5. /\ lateTurns[Current.id] = 0 /\ turns[Current.id] <= Current.attempts
      /\ Current.attempts <= Faults /\ turns[Current.id] \in Nat
      /\ Current.id \in Enqueued
    BY <1>1, <1>2, Numbers, CurrentOwned DEF IInv, Quiet, Paid, Unstarted, Unbatched, Recovering
<1>6. /\ turns'[Current.id] = turns[Current.id] + 1
      /\ lateTurns'[Current.id] \in {0, 1}
      /\ lateTurns'[Current.id] # 0 => trigger[owner[Current.id]] = "deleted"
      /\ \A d \in Deliveries \ {Current.id} : turns'[d] = turns[d] /\ lateTurns'[d] = lateTurns[d]
    BY <1>2, <1>4, <1>5 DEF IInv, TypeOK, CurrentTrigger
<1>7. TypeOK'
    BY <1>1, <1>2, <1>3, <1>4, <1>5, <1>6 DEF IInv, TypeOK
<1>8. Control'
    BY <1>1 DEF IInv, Control, Unbatched, Recovering
<1>9. Owned'
    BY <1>1, <1>3, <1>5, <1>6 DEF IInv, Owned, In, Enqueued
<1>10. Unlinkable'
    BY <1>1, <1>2, <1>3, <1>4, <1>5, <1>6 DEF IInv, Unlinkable, Recorded, In, CurrentTrigger
<1>11. BatchOK'
    BY <1>1, <1>2, <1>3, <1>4, <1>5, <1>6 DEF IInv, BatchOK, Retried, In, Recovering
<1>12. NoDeliveryLost'
    BY <1>3 DEF IInv, NoDeliveryLost, In, Enqueued
<1>13. Paid'
  <2>1. ASSUME NEW i \in 1..Len(gateway.batch)
        PROVE  /\ turns'[gateway.batch[i].id] <= gateway.batch[i].attempts + 1
               /\ i # 1 => turns'[gateway.batch[i].id] <= gateway.batch[i].attempts
    <3>1. i # 1 => gateway.batch[i].id # Current.id
        BY <1>2 DEF IInv, BatchOK
    <3> QED
        BY <1>2, <1>5, <1>6, <3>1, Numbers DEF IInv, Paid
  <2>2. \A d \in In(inbox) : turns'[d] = turns[d]
      BY <1>1, <1>2, <1>6 DEF IInv, BatchOK, Retried, In
  <2>3. ASSUME NEW d \in In(processing) PROVE turns'[d] <= processing[d] + 1
    <3>1. CASE d = Current.id
        BY <1>2, <1>5, <1>6, <3>1, Numbers DEF IInv, BatchOK, In
    <3> QED
        BY <1>6, <3>1 DEF IInv, Paid, In
  <2>4. Faults' = Faults /\ In(inbox') = In(inbox) /\ In(processing') = In(processing)
      BY <1>3 DEF Faults
  <2> QED
      BY <1>1, <1>2, <1>3, <2>1, <2>2, <2>3, <2>4 DEF IInv, Paid, Unstarted, Recovering
<1>14. RerunOnlyAfterFault'
  <2>1. turns'[Current.id] <= MaxDeliveryAttempts /\ turns'[Current.id] <= 1 + stops + storeErrors
    <3>1. /\ Current.attempts \in Nat /\ Current.attempts <= MaxDeliveryAttempts - 1
          /\ MaxDeliveryAttempts \in Nat
        BY <1>2, TriggersAssumption DEF Attempts
    <3>2. Faults = stops + storeErrors /\ stops \in Nat /\ storeErrors \in Nat
        BY Numbers DEF Faults
    <3> HIDE DEF Current, Faults
    <3> QED
        BY <1>5, <1>6, <3>1, <3>2
  <2> QED
      BY <1>3, <1>6, <2>1 DEF IInv, RerunOnlyAfterFault
<1>15. Quiet'
    BY <1>1, <1>3, <1>6 DEF IInv, Quiet
<1>16. DeletedTriggerStaysQuiet'
    BY <1>6 DEF IInv, DeletedTriggerStaysQuiet
<1> QED
    BY <1>7, <1>8, <1>9, <1>10, <1>11, <1>12,
       <1>13, <1>14, <1>15, <1>16 DEF IInv

\* The turn ends.
LEMMA TurnEndsOK ==
    ASSUME IInv, NEW result \in {"ok", "error"}, TurnEnds(result)
    PROVE  IInv'
<1>1. /\ gateway.pc = "wait"
      /\ gateway'.pc = "record"
      /\ gateway'.batch = gateway.batch /\ gateway'.cause = result /\ gateway'.turn = "none"
      /\ gateway' \in Gateway
    BY DEF TurnEnds, At, GotoFor, IInv, Control, Gateway
<1>2. /\ Current = gateway.batch[1] /\ 1 \in 1..Len(gateway.batch)
      /\ Current.id \in Deliveries /\ Current.attempts \in Attempts /\ Current' = Current
    BY <1>1, CurrentIs DEF IInv, Unbatched, Recovering, Current
<1>3. UNCHANGED <<trigger, owner, inbox, processing, failed, outcome,
                      run, turns, lateTurns, stops, storeErrors>>
    BY DEF TurnEnds, files, records, history, faults
<1>4. TypeOK'
    BY <1>1, <1>2, <1>3 DEF IInv, TypeOK
<1>5. Control'
    BY <1>1 DEF IInv, Control, Unbatched, Recovering
<1>6. Owned'
    BY <1>1, <1>2, <1>3 DEF IInv, Owned, In, Enqueued
<1>7. Unlinkable'
    BY <1>1, <1>2, <1>3 DEF IInv, Unlinkable, Recorded, In, CurrentTrigger
<1>8. BatchOK'
    BY <1>1, <1>2, <1>3 DEF IInv, BatchOK, Retried, In, Recovering
<1>9. NoDeliveryLost'
    BY <1>3 DEF IInv, NoDeliveryLost, In, Enqueued
<1>10. Paid'
    BY <1>1, <1>2, <1>3 DEF IInv, Paid, Unstarted, In, Recovering, Faults
<1>11. RerunOnlyAfterFault'
    BY <1>3 DEF IInv, RerunOnlyAfterFault
<1>12. Quiet'
    BY <1>1, <1>2, <1>3 DEF IInv, Quiet
<1>13. DeletedTriggerStaysQuiet'
    BY <1>3 DEF IInv, DeletedTriggerStaysQuiet
<1> QED
    BY <1>4, <1>5, <1>6, <1>7, <1>8, <1>9,
       <1>10, <1>11, <1>12, <1>13 DEF IInv

\* retry_delivery writes the copy.
LEMMA RetryWriteOK == ASSUME IInv, RetryWrite PROVE IInv'
<1>1. /\ gateway.pc = "retry"
      /\ gateway'.pc = "retry_unlink"
      /\ gateway'.batch = gateway.batch
      /\ gateway'.cause = gateway.cause /\ gateway'.turn = gateway.turn
      /\ gateway' \in Gateway
    BY DEF RetryWrite, At, Goto, IInv, Control, Gateway
<1>2. /\ Current = gateway.batch[1] /\ 1 \in 1..Len(gateway.batch)
      /\ Current.id \in Deliveries /\ Current.attempts \in Attempts /\ Current' = Current
    BY <1>1, CurrentIs DEF IInv, Unbatched, Recovering, Current
<1>3. UNCHANGED <<trigger, owner, processing, outcome, run, turns,
                      lateTurns, stops, storeErrors>>
    BY DEF RetryWrite, files, records, history, faults
<1>4. /\ inbox' \in [Deliveries -> 0..(MaxDeliveryAttempts - 1) \cup {NoFile}]
      /\ failed' \in [Deliveries -> {MaxDeliveryAttempts, NoFile}]
      /\ \A d \in Deliveries \ {Current.id} : inbox'[d] = inbox[d] /\ failed'[d] = failed[d]
      /\ \A d \in Deliveries : /\ inbox[d] # NoFile => inbox'[d] # NoFile
                               /\ failed[d] # NoFile => failed'[d] # NoFile
      /\ Current.id \in In(inbox') \cup In(failed')
      /\ inbox'[Current.id] \in {inbox[Current.id], Current.attempts + 1}
    BY <1>2, CopyWritten DEF RetryWrite, IInv
<1>5. Current.attempts + 1 <= Faults /\ turns[Current.id] <= Current.attempts + 1
      /\ Current.id \in Enqueued
    BY <1>1, <1>2, CurrentOwned DEF IInv, Paid, Unbatched, Recovering
<1>6. TypeOK'
    BY <1>3, <1>4 DEF IInv, TypeOK
<1>7. Control'
    BY <1>1 DEF IInv, Control, Unbatched, Recovering
<1>8. Owned'
    BY <1>1, <1>2, <1>3, <1>4, <1>5 DEF IInv, Owned, In, Enqueued
<1>9. Unlinkable'
    BY <1>1, <1>2, <1>4 DEF Unlinkable, Recorded
<1>10. BatchOK'
    BY <1>1, <1>2, <1>3, <1>4 DEF IInv, BatchOK, Retried, In, Recovering
<1>11. NoDeliveryLost'
    BY <1>3, <1>4 DEF IInv, NoDeliveryLost, In, Enqueued
<1>12. Paid'
  <2>1. \A d \in In(inbox') : turns[d] <= inbox'[d] /\ inbox'[d] <= Faults
      BY <1>2, <1>4, <1>5 DEF IInv, Paid, In
  <2> QED
      BY <1>1, <1>2, <1>3, <2>1 DEF IInv, Paid, Unstarted, In, Recovering, Faults
<1>13. RerunOnlyAfterFault'
    BY <1>3 DEF IInv, RerunOnlyAfterFault
<1>14. Quiet'
    BY <1>1, <1>2, <1>3, <1>4, <1>5 DEF IInv, Quiet
<1>15. DeletedTriggerStaysQuiet'
    BY <1>3 DEF IInv, DeletedTriggerStaysQuiet
<1> QED
    BY <1>6, <1>7, <1>8, <1>9, <1>10, <1>11,
       <1>12, <1>13, <1>14, <1>15 DEF IInv

\* retry_delivery removes the file.
LEMMA RetryUnlinkOK == ASSUME IInv, RetryUnlink PROVE IInv'
<1>1. /\ gateway.pc = "retry_unlink"
      /\ gateway'.pc = "audit"
      /\ gateway'.batch = gateway.batch
      /\ gateway'.cause = gateway.cause /\ gateway'.turn = gateway.turn
      /\ gateway' \in Gateway
    BY DEF RetryUnlink, At, Goto, IInv, Control, Gateway
<1>2. /\ Current = gateway.batch[1] /\ 1 \in 1..Len(gateway.batch)
      /\ Current.id \in Deliveries /\ Current.attempts \in Attempts /\ Current' = Current
    BY <1>1, CurrentIs DEF IInv, Unbatched, Recovering, Current
<1>3. UNCHANGED <<trigger, owner, inbox, failed, outcome, run,
                      turns, lateTurns, stops, storeErrors>>
    BY DEF RetryUnlink, files, records, history, faults
<1>4. processing' = [processing EXCEPT ![Current.id] = NoFile]
    BY DEF RetryUnlink, Unlink
<1>5. /\ processing'[Current.id] = NoFile /\ gateway.cause \in {"exception", "cancelled"}
      /\ \A d \in Deliveries \ {Current.id} : processing'[d] = processing[d]
    BY <1>1, <1>2, <1>4 DEF IInv, TypeOK, Control
<1>6. TypeOK'
    BY <1>1, <1>2, <1>3, <1>4, <1>5 DEF IInv, TypeOK
<1>7. Control'
    BY <1>1 DEF IInv, Control, Unbatched, Recovering
<1>8. Owned'
    BY <1>1, <1>2, <1>3, <1>4, <1>5 DEF IInv, Owned, In, Enqueued
<1>9. Unlinkable'
    BY <1>1, <1>5 DEF Unlinkable, Recorded
<1>10. BatchOK'
    BY <1>1, <1>2, <1>3, <1>5, Numbers DEF IInv, BatchOK, Retried, In, Recovering
<1>11. NoDeliveryLost'
  <2>1. Current.id \in In(inbox) \cup In(failed)
      BY <1>1 DEF IInv, Unlinkable
  <2> QED
      BY <1>3, <1>5, <2>1 DEF IInv, NoDeliveryLost, In, Enqueued
<1>12. Paid'
    BY <1>1, <1>2, <1>3, <1>4, <1>5 DEF IInv, Paid, Unstarted, In, Recovering, Faults
<1>13. RerunOnlyAfterFault'
    BY <1>3 DEF IInv, RerunOnlyAfterFault
<1>14. Quiet'
    BY <1>1, <1>2, <1>3, <1>4, <1>5 DEF IInv, Quiet
<1>15. DeletedTriggerStaysQuiet'
    BY <1>3 DEF IInv, DeletedTriggerStaysQuiet
<1> QED
    BY <1>6, <1>7, <1>8, <1>9, <1>10, <1>11,
       <1>12, <1>13, <1>14, <1>15 DEF IInv

\* A store call of the try block raises.
LEMMA StoreErrorOK == ASSUME IInv, StoreError PROVE IInv'
<1>1. /\ gateway.pc \in {"check", "submit", "record", "complete"}
      /\ gateway'.pc = "retry"
      /\ gateway'.batch = gateway.batch /\ gateway'.cause = "exception" /\ gateway'.turn = "none"
      /\ gateway' \in Gateway
      /\ gateway.pc \in {"record", "complete"} => gateway.cause = "ok"
    BY DEF StoreError, GotoFor, IInv, Control, Gateway
<1>2. /\ Current = gateway.batch[1] /\ 1 \in 1..Len(gateway.batch)
      /\ Current.id \in Deliveries /\ Current.attempts \in Attempts /\ Current' = Current
    BY <1>1, CurrentIs DEF IInv, Unbatched, Recovering, Current
<1>3. UNCHANGED <<trigger, owner, inbox, processing, failed, outcome,
                      run, turns, lateTurns, stops>>
    BY DEF StoreError, files, records, history, faults
<1>4. storeErrors' = storeErrors + 1 /\ storeErrors < MaxStoreErrors
    BY DEF StoreError
<1>5. Faults \in Nat /\ Faults' = Faults + 1
    BY <1>3, <1>4, Numbers DEF Faults
<1>6. TypeOK'
    BY <1>3, <1>4, Numbers, TriggersAssumption DEF IInv, TypeOK
<1>7. Control'
    BY <1>1 DEF IInv, Control, Unbatched, Recovering
<1>8. Owned'
    BY <1>1, <1>2, <1>3, <1>4, <1>5 DEF IInv, Owned, In, Enqueued
<1>9. Unlinkable'
    BY <1>1, <1>2, <1>3, <1>4, <1>5 DEF IInv, Unlinkable, Recorded, In, CurrentTrigger
<1>10. BatchOK'
    BY <1>1, <1>2, <1>3, <1>4, <1>5 DEF IInv, BatchOK, Retried, In, Recovering
<1>11. NoDeliveryLost'
    BY <1>3 DEF IInv, NoDeliveryLost, In, Enqueued
<1>12. Paid'
  <2>1. Current.attempts + 1 <= Faults'
      BY <1>2, <1>5, Numbers DEF IInv, Paid
  <2> QED
      BY <1>1, <1>2, <1>3, <1>5, <2>1, Numbers DEF IInv, Paid, Unstarted, In, Recovering, Control
<1>13. RerunOnlyAfterFault'
    BY <1>3, <1>4, Numbers DEF IInv, RerunOnlyAfterFault
<1>14. Quiet'
    BY <1>1, <1>2, <1>3, <1>4, <1>5 DEF IInv, Quiet
<1>15. DeletedTriggerStaysQuiet'
    BY <1>3 DEF IInv, DeletedTriggerStaysQuiet
<1> QED
    BY <1>6, <1>7, <1>8, <1>9, <1>10, <1>11,
       <1>12, <1>13, <1>14, <1>15 DEF IInv

\* delete.
LEMMA DeleteOK ==
    ASSUME IInv, NEW t \in Triggers, NEW left \in SUBSET Deliveries, Delete(t, left)
    PROVE  IInv'
<1>1. /\ gateway' = gateway
      /\ UNCHANGED <<owner, run, turns, lateTurns, stops, storeErrors>>
    BY DEF Delete, history, faults
<1>2. /\ gateway.pc \notin {"recover", "recover_unlink", "claim", "retry_unlink"}
      /\ trigger' \in [Triggers -> {"none", "enabled", "disabled", "deleted"}]
      /\ trigger'[t] = "deleted"
      /\ \A u \in Triggers : trigger[u] = "deleted" => trigger'[u] = "deleted"
    BY DEF IInv, TypeOK, Delete, LockHeld
<1>3. \A d \in Deliveries :
         /\ inbox'[d] \in {inbox[d], NoFile} /\ processing'[d] \in {processing[d], NoFile}
         /\ failed'[d] \in {failed[d], NoFile} /\ outcome'[d] \in {outcome[d], "none"}
         /\ owner[d] # t => /\ inbox'[d] = inbox[d] /\ processing'[d] = processing[d]
                            /\ failed'[d] = failed[d] /\ outcome'[d] = outcome[d]
    BY DEF Delete
<1>4. /\ Current' = Current /\ Quiet'
      /\ gateway.pc \notin Unbatched /\ trigger[CurrentTrigger] = "deleted" =>
            trigger'[CurrentTrigger'] = "deleted"
      /\ \A d \in Enqueued : trigger[owner[d]] = "deleted" => trigger'[owner'[d]] = "deleted"
    BY <1>1, <1>2, StaysDeleted
<1>5. TypeOK'
  <2>1. /\ inbox' \in [Deliveries -> 0..(MaxDeliveryAttempts - 1) \cup {NoFile}]
        /\ processing' \in [Deliveries -> 0..(MaxDeliveryAttempts - 1) \cup {NoFile}]
        /\ failed' \in [Deliveries -> {MaxDeliveryAttempts, NoFile}]
        /\ outcome' \in [Deliveries -> {"none", "ok", "error"}]
      BY DEF IInv, TypeOK, Delete
  <2> QED
      BY <1>1, <1>2, <2>1 DEF IInv, TypeOK
<1>6. Control'
    BY <1>1 DEF IInv, Control, Unbatched, Recovering
<1>7. Owned'
    BY <1>1, <1>3 DEF IInv, Owned, In, Enqueued
<1>8. Unlinkable'
  <2>1. CASE Recorded
    <3>1. Current.id \in Deliveries
        BY <2>1, CurrentIs DEF IInv, Recorded, Unbatched, Recovering
    <3>2. outcome'[Current.id] # "none" \/ trigger'[CurrentTrigger'] = "deleted"
        BY <1>1, <1>2, <1>3, <1>4, <2>1, <3>1
           DEF IInv, Unlinkable, CurrentTrigger, Recorded, Unbatched, Recovering
    <3> QED
        BY <1>1, <1>2, <1>4, <3>2 DEF Unlinkable
  <2> QED
      BY <1>1, <1>2, <2>1 DEF Unlinkable, Recorded
<1>9. BatchOK'
  <2>1. In(inbox') \subseteq In(inbox) /\ In(processing') \subseteq In(processing)
      BY <1>3 DEF In
  <2>2. \A i \in 1..Len(gateway.batch) :
           processing'[gateway.batch[i].id] \in {gateway.batch[i].attempts, NoFile}
      BY <1>3, Numbers DEF IInv, BatchOK
  <2>3. gateway.pc \notin Unbatched => Current.id \in Deliveries
      BY CurrentIs DEF IInv
  <2> QED
      BY <1>1, <1>3, <1>4, <2>1, <2>2, <2>3 DEF IInv, BatchOK, Retried, Unbatched, Recovering
<1>10. NoDeliveryLost'
    BY <1>1, <1>2, <1>3, <1>4 DEF IInv, NoDeliveryLost, In, Enqueued
<1>11. Paid'
  <2>1. /\ \A d \in In(inbox') : d \in In(inbox) /\ inbox'[d] = inbox[d]
        /\ \A d \in In(processing') : d \in In(processing) /\ processing'[d] = processing[d]
      BY <1>3 DEF In
  <2> QED
      BY <1>1, <1>4, <2>1 DEF IInv, Paid, Unstarted, Faults
<1>12. RerunOnlyAfterFault'
    BY <1>1 DEF IInv, RerunOnlyAfterFault
<1>13. Quiet'
    BY <1>4
<1>14. DeletedTriggerStaysQuiet'
    BY <1>1 DEF IInv, DeletedTriggerStaysQuiet
<1> QED
    BY <1>5, <1>6, <1>7, <1>8, <1>9, <1>10,
       <1>11, <1>12, <1>13, <1>14 DEF IInv

\* enqueue.
LEMMA EnqueueOK == ASSUME IInv, NEW t \in Triggers, Enqueue(t) PROVE IInv'
<1>1. /\ gateway' = gateway
      /\ UNCHANGED <<trigger, processing, failed, outcome, turns, lateTurns,
                      stops, storeErrors>>
    BY DEF Enqueue, history, faults
<1>2. PICK c \in Deliveries \ Enqueued :
         /\ owner' = [owner EXCEPT ![c] = t]
         /\ inbox' = [inbox EXCEPT ![c] = 0]
         /\ run' = [run EXCEPT ![c] = "queued"]
  <2>1. First(Deliveries \ Enqueued) \in Deliveries \ Enqueued
      BY FirstIn DEF Enqueue, Enqueued
  <2> QED
      BY <2>1 DEF Enqueue
<1>3. gateway.pc \notin {"recover", "recover_unlink", "claim", "retry_unlink"}
    BY DEF Enqueue, LockHeld
<1>4. /\ owner'[c] = t /\ t # NoOwner /\ inbox'[c] = 0 /\ turns[c] = 0 /\ lateTurns[c] = 0
      /\ inbox[c] = NoFile /\ processing[c] = NoFile /\ failed[c] = NoFile
      /\ 0 # NoFile
      /\ \A d \in Deliveries \ {c} : owner'[d] = owner[d] /\ inbox'[d] = inbox[d]
      /\ Enqueued' = Enqueued \cup {c} /\ In(inbox') = In(inbox) \cup {c}
      /\ \A i \in 1..Len(gateway.batch) :
            /\ gateway.batch[i].id \in Enqueued /\ gateway.batch[i].id \in Deliveries
            /\ gateway.batch[i].id # c
  <2>1. /\ owner'[c] = t /\ inbox'[c] = 0
        /\ \A d \in Deliveries \ {c} : owner'[d] = owner[d] /\ inbox'[d] = inbox[d]
      BY <1>2 DEF IInv, TypeOK
  <2>2. t # NoOwner /\ 0 # NoFile
      BY TriggersAssumption
  <2>3. c \notin In(inbox) \cup In(processing) \cup In(failed) /\ turns[c] = 0 /\ lateTurns[c] = 0
      BY <1>2 DEF IInv, Owned
  <2>4. Enqueued' = Enqueued \cup {c} /\ In(inbox') = In(inbox) \cup {c}
      BY <1>2, <2>1, <2>2 DEF Enqueued, In
  <2>5. \A i \in 1..Len(gateway.batch) :
           gateway.batch[i].id \in Enqueued /\ gateway.batch[i].id \in Deliveries
      BY Numbers DEF IInv, Owned
  <2> QED
      BY <1>2, <2>1, <2>2, <2>3, <2>4, <2>5 DEF In
<1>5. /\ Current' = Current
      /\ gateway.pc \notin Unbatched => /\ Current.id # c /\ Current.id \in Deliveries
                                        /\ CurrentTrigger' = CurrentTrigger
    BY <1>1, <1>2, <1>4, CurrentOwned, CurrentIs DEF IInv, Current, CurrentTrigger
<1>6. TypeOK'
  <2>1. 0 \in 0..(MaxDeliveryAttempts - 1)
      BY TriggersAssumption
  <2>2. inbox' \in [Deliveries -> 0..(MaxDeliveryAttempts - 1) \cup {NoFile}]
      BY <1>2, <2>1 DEF IInv, TypeOK
  <2> QED
      BY <1>1, <1>2, <2>2 DEF IInv, TypeOK
<1>7. Control'
    BY <1>1 DEF IInv, Control
<1>8. Owned'
    BY <1>1, <1>4 DEF IInv, Owned, In
<1>9. Unlinkable'
    BY <1>1, <1>3, <1>5 DEF IInv, Unlinkable, Recorded, Unbatched, Recovering
<1>10. BatchOK'
    BY <1>1, <1>3, <1>4, <1>5 DEF IInv, BatchOK, Retried, In, Recovering
<1>11. NoDeliveryLost'
    BY <1>1, <1>4 DEF IInv, NoDeliveryLost, In, Enqueued
<1>12. Paid'
  <2>1. \A d \in In(inbox') : turns[d] <= inbox'[d] /\ inbox'[d] <= Faults
      BY <1>2, <1>4, Numbers DEF IInv, Paid, In
  <2> QED
      BY <1>1, <1>5, <2>1 DEF IInv, Paid, Unstarted, Faults
<1>13. RerunOnlyAfterFault'
    BY <1>1 DEF IInv, RerunOnlyAfterFault
<1>14. Quiet'
    BY <1>1, <1>2, <1>4, <1>5 DEF IInv, Quiet
<1>15. DeletedTriggerStaysQuiet'
    BY <1>1 DEF IInv, DeletedTriggerStaysQuiet
<1> QED
    BY <1>6, <1>7, <1>8, <1>9, <1>10, <1>11,
       <1>12, <1>13, <1>14, <1>15 DEF IInv

\* recover_processing_deliveries writes a file back.
LEMMA RecoverWriteOK == ASSUME IInv, RecoverWrite PROVE IInv'
<1>1. /\ gateway.pc = "recover"
      /\ gateway'.pc = "recover_unlink"
      /\ gateway'.batch = gateway.batch
      /\ gateway'.cause = gateway.cause /\ gateway'.turn = gateway.turn
      /\ gateway' \in Gateway
      /\ gateway.batch = <<>>
    BY DEF RecoverWrite, At, Goto, IInv, Control, Gateway, Unbatched, Recovering
<1>2. PICK c \in In(processing) : c = First(In(processing)) /\ WriteRetryCopy(c, processing[c])
  <2>1. First(In(processing)) \in In(processing)
      BY <1>1, FirstIn DEF IInv, Unlinkable, In
  <2> QED
      BY <2>1 DEF RecoverWrite
<1>3. UNCHANGED <<trigger, owner, processing, outcome, run, turns,
                      lateTurns, stops, storeErrors>>
    BY DEF RecoverWrite, files, records, history, faults
<1>4. c \in Deliveries /\ c \in Enqueued /\ processing[c] \in Attempts
    BY <1>2, Numbers DEF IInv, Owned, In
<1>5. /\ inbox' \in [Deliveries -> 0..(MaxDeliveryAttempts - 1) \cup {NoFile}]
      /\ failed' \in [Deliveries -> {MaxDeliveryAttempts, NoFile}]
      /\ \A d \in Deliveries \ {c} : inbox'[d] = inbox[d] /\ failed'[d] = failed[d]
      /\ \A d \in Deliveries : /\ inbox[d] # NoFile => inbox'[d] # NoFile
                               /\ failed[d] # NoFile => failed'[d] # NoFile
      /\ c \in In(inbox') \cup In(failed')
      /\ inbox'[c] \in {inbox[c], processing[c] + 1}
    BY <1>2, <1>4, CopyWritten DEF IInv
<1>6. TypeOK'
    BY <1>3, <1>5 DEF IInv, TypeOK
<1>7. Control'
    BY <1>1 DEF IInv, Control, Unbatched, Recovering
<1>8. Owned'
    BY <1>1, <1>3, <1>4, <1>5 DEF IInv, Owned, In, Enqueued
<1>9. Unlinkable'
    BY <1>1, <1>2, <1>3, <1>5 DEF IInv, Unlinkable, Recorded
<1>10. BatchOK'
    BY <1>1, <1>3 DEF IInv, BatchOK, Retried, Recovering
<1>11. NoDeliveryLost'
    BY <1>3, <1>5 DEF IInv, NoDeliveryLost, In, Enqueued
<1>12. Paid'
  <2>1. processing[c] + 1 <= Faults /\ turns[c] <= processing[c] + 1
      BY <1>1, <1>2 DEF IInv, Paid, Recovering
  <2>2. \A d \in In(inbox') : turns[d] <= inbox'[d] /\ inbox'[d] <= Faults
      BY <1>4, <1>5, <2>1 DEF IInv, Paid, In
  <2> QED
      BY <1>1, <1>3, <2>2 DEF IInv, Paid, Unstarted, In, Recovering, Faults
<1>13. RerunOnlyAfterFault'
    BY <1>3 DEF IInv, RerunOnlyAfterFault
<1>14. Quiet'
    BY <1>1, <1>2, <1>3, <1>4, <1>5 DEF IInv, Quiet
<1>15. DeletedTriggerStaysQuiet'
    BY <1>3 DEF IInv, DeletedTriggerStaysQuiet
<1> QED
    BY <1>6, <1>7, <1>8, <1>9, <1>10, <1>11,
       <1>12, <1>13, <1>14, <1>15 DEF IInv

\* ... and removes it from processing.
LEMMA RecoverUnlinkOK == ASSUME IInv, RecoverUnlink PROVE IInv'
<1>1. /\ gateway.pc = "recover_unlink"
      /\ gateway'.pc = IF In(processing) = {First(In(processing))} THEN "poll" ELSE "recover"
      /\ gateway'.batch = gateway.batch
      /\ gateway'.cause = gateway.cause /\ gateway'.turn = gateway.turn
      /\ gateway' \in Gateway
      /\ gateway.batch = <<>>
    BY DEF RecoverUnlink, At, Goto, IInv, Control, Gateway, Unbatched, Recovering
<1>2. PICK c \in In(processing) : c = First(In(processing))
  <2>1. First(In(processing)) \in In(processing)
      BY <1>1, FirstIn DEF IInv, Unlinkable, In
  <2> QED
      BY <2>1
<1>3. UNCHANGED <<trigger, owner, inbox, failed, outcome, run,
                      turns, lateTurns, stops, storeErrors>>
    BY DEF RecoverUnlink, files, records, history, faults
<1>4. /\ processing' = [processing EXCEPT ![c] = NoFile]
      /\ c \in Deliveries /\ c \in In(inbox) \cup In(failed)
    BY <1>1, <1>2 DEF RecoverUnlink, Unlink, IInv, Unlinkable, In
<1>5. /\ processing'[c] = NoFile /\ \A d \in Deliveries \ {c} : processing'[d] = processing[d]
      /\ In(processing') = In(processing) \ {c}
    BY <1>4 DEF IInv, TypeOK, In
<1>6. TypeOK'
    BY <1>1, <1>2, <1>3, <1>4, <1>5 DEF IInv, TypeOK
<1>7. Control'
    BY <1>1 DEF IInv, Control, Unbatched, Recovering
<1>8. Owned'
    BY <1>1, <1>2, <1>3, <1>4, <1>5 DEF IInv, Owned, In, Enqueued
<1>9. Unlinkable'
    BY <1>1, <1>2, <1>5 DEF IInv, Unlinkable, Recorded
<1>10. BatchOK'
    BY <1>1, <1>2, <1>3, <1>5 DEF IInv, BatchOK, Retried, Recovering
<1>11. NoDeliveryLost'
    BY <1>3, <1>4, <1>5 DEF IInv, NoDeliveryLost, In, Enqueued
<1>12. Paid'
    BY <1>1, <1>3, <1>5 DEF IInv, Paid, Unstarted, In, Recovering, Faults
<1>13. RerunOnlyAfterFault'
    BY <1>3 DEF IInv, RerunOnlyAfterFault
<1>14. Quiet'
    BY <1>1, <1>2, <1>3, <1>4, <1>5 DEF IInv, Quiet
<1>15. DeletedTriggerStaysQuiet'
    BY <1>3 DEF IInv, DeletedTriggerStaysQuiet
<1> QED
    BY <1>6, <1>7, <1>8, <1>9, <1>10, <1>11,
       <1>12, <1>13, <1>14, <1>15 DEF IInv

\* claim_deliveries moves a file to processing.
LEMMA ClaimOK == ASSUME IInv, Claim PROVE IInv'
<1>1. PICK c \in In(inbox) : c = First(In(inbox))
  <2>1. First(In(inbox)) \in In(inbox)
      BY FirstIn DEF Claim, In
  <2> QED
      BY <2>1
<1>2. /\ c \in Deliveries /\ inbox[c] \in Attempts /\ inbox[c] \in Nat /\ inbox[c] # NoFile
      /\ processing' = [processing EXCEPT ![c] = inbox[c]]
      /\ inbox' = [inbox EXCEPT ![c] = NoFile]
      /\ c \in Enqueued
    BY <1>1, Numbers DEF Claim, IInv, Owned, In
<1>3. UNCHANGED <<trigger, owner, failed, outcome, run, turns,
                      lateTurns, stops, storeErrors>>
    BY DEF Claim, files, records, history, faults
<1>4. /\ inbox'[c] = NoFile /\ processing'[c] = inbox[c]
      /\ \A d \in Deliveries \ {c} : inbox'[d] = inbox[d] /\ processing'[d] = processing[d]
      /\ In(inbox') = In(inbox) \ {c} /\ In(processing') = In(processing) \cup {c}
    BY <1>2 DEF IInv, TypeOK, In
<1>5. gateway.batch \in Seq(Item) /\ [id |-> c, attempts |-> inbox[c]] \in Item
    BY <1>2 DEF IInv, Control, Gateway, Item
<1>6. /\ gateway.pc \in {"poll", "claim"} /\ gateway'.pc \in {"check", "claim"}
      /\ gateway'.batch = Append(gateway.batch, [id |-> c, attempts |-> inbox[c]])
      /\ gateway'.cause = gateway.cause /\ gateway' \in Gateway
  <2> DEFINE b == Append(gateway.batch, [id |-> c, attempts |-> inbox[c]])
  <2>1. b \in Seq(Item)
      BY <1>5, AppendProperties
  <2>2. /\ gateway.pc \in {"poll", "claim"}
        /\ gateway' = [gateway EXCEPT !.batch = b,
                         !.pc = IF Len(b) = BatchSize \/ In(inbox) = {c} THEN "check" ELSE "claim"]
      BY <1>1 DEF Claim
  <2> HIDE DEF b
  <2>3. /\ gateway.pc \in {"poll", "claim"} /\ gateway'.pc \in {"check", "claim"}
        /\ gateway'.batch = b /\ gateway'.cause = gateway.cause /\ gateway' \in Gateway
      BY <2>1, <2>2 DEF IInv, Control, Gateway
  <2> QED
      BY <2>3 DEF b
<1>7. /\ Len(gateway.batch) \in Nat /\ gateway'.batch # <<>>
      /\ Len(gateway'.batch) = Len(gateway.batch) + 1
      /\ \A i \in 1..Len(gateway.batch) : gateway'.batch[i] = gateway.batch[i]
      /\ gateway'.batch[Len(gateway.batch) + 1].id = c
      /\ gateway'.batch[Len(gateway.batch) + 1].attempts = inbox[c]
  <2>1. /\ Len(gateway.batch) \in Nat /\ Len(gateway'.batch) = Len(gateway.batch) + 1
        /\ \A i \in 1..Len(gateway.batch) : gateway'.batch[i] = gateway.batch[i]
        /\ gateway'.batch[Len(gateway.batch) + 1] = [id |-> c, attempts |-> inbox[c]]
      BY <1>5, <1>6, AppendProperties
  <2>2. gateway'.batch # <<>>
      BY <2>1
  <2> QED
      BY <2>1, <2>2
<1>8. \A i \in 1..Len(gateway'.batch) :
         i \in 1..Len(gateway.batch) \/ i = Len(gateway.batch) + 1
    BY <1>7
<1>9. \A i \in 1..Len(gateway.batch) :
         /\ gateway.batch[i].id \in Deliveries /\ gateway.batch[i].id \in Enqueued
         /\ gateway.batch[i].id \notin In(inbox) /\ gateway.batch[i].id # c
         /\ processing[gateway.batch[i].id] \in {gateway.batch[i].attempts, NoFile}
    BY <1>1, <1>6, Numbers DEF IInv, Owned, BatchOK, Retried
<1>10. TypeOK'
  <2>1. /\ inbox' \in [Deliveries -> 0..(MaxDeliveryAttempts - 1) \cup {NoFile}]
        /\ processing' \in [Deliveries -> 0..(MaxDeliveryAttempts - 1) \cup {NoFile}]
      BY <1>2 DEF IInv, TypeOK, Attempts
  <2> QED
      BY <1>3, <2>1 DEF IInv, TypeOK
<1>11. Control'
    BY <1>6, <1>7 DEF IInv, Control, Unbatched, Recovering
<1>12. Owned'
  <2>1. \A i \in 1..Len(gateway'.batch) : gateway'.batch[i].id \in Enqueued
      BY <1>2, <1>7, <1>8, <1>9
  <2> QED
      BY <1>2, <1>3, <1>4, <2>1 DEF IInv, Owned, Enqueued, In
<1>13. Unlinkable'
    BY <1>6 DEF Unlinkable, Recorded
<1>14. BatchOK'
  <2>1. ASSUME NEW i \in 1..Len(gateway'.batch), NEW j \in 1..Len(gateway'.batch),
               gateway'.batch[i].id = gateway'.batch[j].id
        PROVE  i = j
    <3>1. CASE i \in 1..Len(gateway.batch) /\ j \in 1..Len(gateway.batch)
      <4>1. gateway.batch[i].id = gateway.batch[j].id
          BY <1>7, <2>1, <3>1
      <4> QED
          BY <3>1, <4>1 DEF IInv, BatchOK
    <3>2. CASE i = Len(gateway.batch) + 1 \/ j = Len(gateway.batch) + 1
        BY <1>7, <1>8, <1>9, <2>1, <3>2
    <3> QED
        BY <1>8, <3>1, <3>2
  <2>2. ASSUME NEW i \in 1..Len(gateway'.batch)
        PROVE  /\ gateway'.batch[i].id \notin In(inbox')
               /\ processing'[gateway'.batch[i].id] \in {gateway'.batch[i].attempts, NoFile}
    <3>1. CASE i \in 1..Len(gateway.batch)
        BY <1>4, <1>7, <1>9, <3>1
    <3>2. CASE i = Len(gateway.batch) + 1
        BY <1>4, <1>7, <3>2
    <3> QED
        BY <1>8, <3>1, <3>2
  <2>3. ASSUME NEW d \in In(processing')
        PROVE  \E i \in 1..Len(gateway'.batch) : gateway'.batch[i].id = d
    <3>1. CASE d = c
      <4>1. Len(gateway.batch) + 1 \in 1..Len(gateway'.batch)
          BY <1>7
      <4> QED
          BY <1>7, <3>1, <4>1
    <3>2. CASE d # c
      <4>1. PICK i \in 1..Len(gateway.batch) : gateway.batch[i].id = d
          BY <1>4, <1>6, <3>2 DEF IInv, BatchOK, Recovering
      <4>2. i \in 1..Len(gateway'.batch)
          BY <1>7
      <4> QED
          BY <1>7, <4>1, <4>2
    <3> QED
        BY <3>1, <3>2
  <2> QED
      BY <1>6, <2>1, <2>2, <2>3 DEF BatchOK, Retried
<1>15. NoDeliveryLost'
    BY <1>3, <1>4 DEF IInv, NoDeliveryLost, In, Enqueued
<1>16. Paid'
  <2>1. turns[c] <= inbox[c] /\ inbox[c] <= Faults /\ turns[c] \in Nat /\ turns[c] <= inbox[c] + 1
      BY <1>1, <1>2, Numbers DEF IInv, Paid
  <2>2. ASSUME NEW i \in 1..Len(gateway.batch)
        PROVE  /\ turns[gateway.batch[i].id] <= gateway.batch[i].attempts + 1
               /\ turns[gateway.batch[i].id] <= gateway.batch[i].attempts
               /\ gateway.batch[i].attempts <= Faults
    <3>1. gateway.pc = "claim"
        BY <1>6 DEF IInv, Control, Unbatched, Recovering
    <3> QED
        BY <3>1 DEF IInv, Paid, Unstarted
  <2>3. \A i \in 1..Len(gateway'.batch) :
           /\ turns[gateway'.batch[i].id] <= gateway'.batch[i].attempts + 1
           /\ turns[gateway'.batch[i].id] <= gateway'.batch[i].attempts
           /\ gateway'.batch[i].attempts <= Faults
      BY <1>7, <1>8, <2>1, <2>2
  <2>4. \A d \in In(processing') : turns[d] <= processing'[d] + 1 /\ processing'[d] <= Faults
      BY <1>4, <2>1 DEF IInv, Paid, In
  <2>5. \A d \in In(inbox') : turns[d] <= inbox'[d] /\ inbox'[d] <= Faults
      BY <1>4 DEF IInv, Paid, In
  <2>6. Faults' = Faults /\ gateway'.cause = "none"
      BY <1>3, <1>6 DEF Faults, IInv, Control, Unbatched
  <2> QED
      BY <1>3, <1>6, <2>3, <2>4, <2>5, <2>6 DEF Paid, Recovering
<1>17. RerunOnlyAfterFault'
    BY <1>3 DEF IInv, RerunOnlyAfterFault
<1>18. Quiet'
    BY <1>3, <1>6 DEF IInv, Quiet
<1>19. DeletedTriggerStaysQuiet'
    BY <1>3 DEF IInv, DeletedTriggerStaysQuiet
<1> QED
    BY <1>10, <1>11, <1>12, <1>13, <1>14, <1>15,
       <1>16, <1>17, <1>18, <1>19 DEF IInv

\* record_delivery, before the audit record.
LEMMA RecordOK == ASSUME IInv, gateway.cause # "exception", Record PROVE IInv'
<1>1. /\ gateway.pc = "record"
      /\ gateway'.pc = "audit"
      /\ gateway'.batch = gateway.batch
      /\ gateway'.cause = gateway.cause /\ gateway'.turn = gateway.turn
      /\ gateway' \in Gateway
      /\ gateway.cause \in {"ok", "error"}
    BY DEF Record, At, Goto, IInv, Control, Gateway
<1>2. /\ Current = gateway.batch[1] /\ 1 \in 1..Len(gateway.batch)
      /\ Current.id \in Deliveries /\ Current.attempts \in Attempts /\ Current' = Current
    BY <1>1, CurrentIs DEF IInv, Unbatched, Recovering, Current
<1>3. UNCHANGED <<trigger, owner, inbox, processing, failed, run,
                      turns, lateTurns, stops, storeErrors>>
    BY DEF Record, files, records, history, faults
<1>4. outcome' = [outcome EXCEPT ![Current.id] =
                       IF trigger[CurrentTrigger] = "deleted" THEN @
                       ELSE IF gateway.cause = "ok" THEN "ok" ELSE "error"]
    BY DEF Record
<1>5. /\ outcome' \in [Deliveries -> {"none", "ok", "error"}]
      /\ \A d \in Deliveries : outcome[d] # "none" => outcome'[d] # "none"
      /\ outcome'[Current.id] # "none" \/ trigger[CurrentTrigger] = "deleted"
    BY <1>2, <1>4 DEF IInv, TypeOK
<1>6. TypeOK'
    BY <1>3, <1>5 DEF IInv, TypeOK
<1>7. Control'
    BY <1>1 DEF IInv, Control, Unbatched, Recovering
<1>8. Owned'
    BY <1>1, <1>2, <1>3, <1>4, <1>5 DEF IInv, Owned, In, Enqueued
<1>9. Unlinkable'
    BY <1>1, <1>2, <1>3, <1>5 DEF Unlinkable, Recorded, CurrentTrigger
<1>10. BatchOK'
    BY <1>1, <1>2, <1>3, <1>4, <1>5 DEF IInv, BatchOK, Retried, In, Recovering
<1>11. NoDeliveryLost'
    BY <1>3, <1>5 DEF IInv, NoDeliveryLost, In, Enqueued
<1>12. Paid'
    BY <1>1, <1>2, <1>3, <1>4, <1>5 DEF IInv, Paid, Unstarted, In, Recovering, Faults
<1>13. RerunOnlyAfterFault'
    BY <1>3 DEF IInv, RerunOnlyAfterFault
<1>14. Quiet'
    BY <1>1, <1>2, <1>3, <1>4, <1>5 DEF IInv, Quiet
<1>15. DeletedTriggerStaysQuiet'
    BY <1>3 DEF IInv, DeletedTriggerStaysQuiet
<1> QED
    BY <1>6, <1>7, <1>8, <1>9, <1>10, <1>11,
       <1>12, <1>13, <1>14, <1>15 DEF IInv

\* record_delivery after a retry ends the delivery.
LEMMA RecordRetriedOK == ASSUME IInv, gateway.cause = "exception", Record PROVE IInv'
<1>1. gateway.pc = "record" /\ gateway.pc \notin Unbatched /\ NextDelivery
    BY DEF Record, At, Unbatched, Recovering
<1>2. Current.id \in Deliveries /\ processing[Current.id] = NoFile
    BY <1>1, CurrentIs DEF IInv, BatchOK, Retried
<1>3. UNCHANGED <<trigger, owner, inbox, processing, failed, run,
                      turns, lateTurns, stops, storeErrors>>
    BY DEF Record, files, records, history, faults
<1>4. outcome' = [outcome EXCEPT ![Current.id] =
                       IF trigger[CurrentTrigger] = "deleted" THEN @
                       ELSE IF gateway.cause = "ok" THEN "ok" ELSE "error"]
    BY DEF Record
<1>5. /\ outcome' \in [Deliveries -> {"none", "ok", "error"}]
      /\ \A d \in Deliveries : outcome[d] # "none" => outcome'[d] # "none"
      /\ outcome'[Current.id] # "none" \/ trigger[CurrentTrigger] = "deleted"
    BY <1>2, <1>4 DEF IInv, TypeOK
<1>6. Control' /\ Owned' /\ Unlinkable' /\ BatchOK' /\ Paid' /\ Quiet'
    BY <1>1, <1>2, <1>3, Advance
<1>7. TypeOK'
    BY <1>3, <1>5 DEF IInv, TypeOK
<1>8. Control'
    BY <1>6
<1>9. Owned'
    BY <1>6
<1>10. Unlinkable'
    BY <1>6
<1>11. BatchOK'
    BY <1>6
<1>12. NoDeliveryLost'
    BY <1>3, <1>5 DEF IInv, NoDeliveryLost, In, Enqueued
<1>13. Paid'
    BY <1>6
<1>14. RerunOnlyAfterFault'
    BY <1>3 DEF IInv, RerunOnlyAfterFault
<1>15. Quiet'
    BY <1>6
<1>16. DeletedTriggerStaysQuiet'
    BY <1>3 DEF IInv, DeletedTriggerStaysQuiet
<1> QED
    BY <1>7, <1>8, <1>9, <1>10, <1>11, <1>12,
       <1>13, <1>14, <1>15, <1>16 DEF IInv

\* complete_delivery.
LEMMA CompleteOK == ASSUME IInv, Complete PROVE IInv'
<1>1. gateway.pc = "complete" /\ gateway.pc \notin Unbatched /\ NextDelivery
    BY DEF Complete, At, Unbatched, Recovering
<1>2. /\ processing' = [processing EXCEPT ![Current.id] = NoFile] /\ Current.id \in Deliveries
      /\ outcome[Current.id] # "none" \/ trigger[CurrentTrigger] = "deleted"
    BY <1>1, CurrentIs DEF Complete, Unlink, IInv, Unlinkable, Recorded
<1>3. UNCHANGED <<trigger, owner, inbox, failed, outcome, run,
                      turns, lateTurns, stops, storeErrors>>
    BY DEF Complete, files, records, history, faults
<1>4. /\ processing'[Current.id] = NoFile
      /\ \A d \in Deliveries \ {Current.id} : processing'[d] = processing[d]
    BY <1>2 DEF IInv, TypeOK
<1>5. Control' /\ Owned' /\ Unlinkable' /\ BatchOK' /\ Paid' /\ Quiet'
    BY <1>1, <1>3, <1>4, Advance
<1>6. TypeOK'
    BY <1>2, <1>3 DEF IInv, TypeOK
<1>7. Control'
    BY <1>5
<1>8. Owned'
    BY <1>5
<1>9. Unlinkable'
    BY <1>5
<1>10. BatchOK'
    BY <1>5
<1>11. NoDeliveryLost'
    BY <1>2, <1>3, <1>4 DEF IInv, NoDeliveryLost, In, Enqueued, CurrentTrigger
<1>12. Paid'
    BY <1>5
<1>13. RerunOnlyAfterFault'
    BY <1>3 DEF IInv, RerunOnlyAfterFault
<1>14. Quiet'
    BY <1>5
<1>15. DeletedTriggerStaysQuiet'
    BY <1>3 DEF IInv, DeletedTriggerStaysQuiet
<1> QED
    BY <1>6, <1>7, <1>8, <1>9, <1>10, <1>11,
       <1>12, <1>13, <1>14, <1>15 DEF IInv

\* What writing the audit record changes, whether it succeeds or not.
LEMMA AuditWritten ==
    ASSUME IInv, NEW written \in BOOLEAN, Audit(written)
    PROVE  /\ run' \in [Deliveries -> {"none", "queued", "processing", "ok", "error",
                                       "retrying", "interrupted"}]
           /\ stops' = stops /\ storeErrors' \in 0..MaxStoreErrors
           /\ stops \in Nat /\ storeErrors \in Nat /\ storeErrors' \in Nat
           /\ storeErrors <= storeErrors'
           /\ Faults \in Nat /\ Faults' \in Nat /\ Faults <= Faults'
<1>1. AuditStatus \in {"ok", "error", "retrying", "interrupted"}
    BY DEF AuditStatus, IInv, Control, Gateway, Audit, At
<1>2. run' = run \/ run' = [run EXCEPT ![Current.id] = AuditStatus]
    BY DEF Audit
<1>3. run' \in [Deliveries -> {"none", "queued", "processing", "ok", "error",
                               "retrying", "interrupted"}]
    BY <1>1, <1>2 DEF IInv, TypeOK
<1>4. /\ stops' = stops /\ storeErrors' \in 0..MaxStoreErrors
      /\ storeErrors <= storeErrors' /\ storeErrors' \in Nat
    BY Numbers, TriggersAssumption DEF Audit, IInv, TypeOK
<1>5. stops \in Nat /\ storeErrors \in Nat
    BY Numbers
<1>6. Faults = stops + storeErrors /\ Faults' = stops + storeErrors'
    BY <1>4 DEF Faults
<1>7. Faults \in Nat /\ Faults' \in Nat /\ Faults <= Faults'
  <2> DEFINE s == storeErrors'
  <2>1. s \in Nat /\ storeErrors <= s /\ Faults' = stops + s
      BY <1>4, <1>6
  <2> HIDE DEF s
  <2> QED
      BY <1>5, <1>6, <2>1
<1> QED
    BY <1>3, <1>4, <1>5, <1>7

\* The audit record of a cancelled delivery, the last step of a shutdown.
LEMMA AuditCancelledOK ==
    ASSUME IInv, NEW written \in BOOLEAN, gateway.cause = "cancelled", Audit(written)
    PROVE  IInv'
<1>1. gateway' = Down
    BY DEF Audit
<1>2. /\ run' \in [Deliveries -> {"none", "queued", "processing", "ok", "error",
                                  "retrying", "interrupted"}]
      /\ stops' = stops /\ storeErrors' \in 0..MaxStoreErrors
      /\ stops \in Nat /\ storeErrors \in Nat /\ storeErrors' \in Nat
      /\ storeErrors <= storeErrors'
      /\ Faults \in Nat /\ Faults' \in Nat /\ Faults <= Faults'
    BY AuditWritten
<1>3. UNCHANGED <<trigger, owner, inbox, processing, failed, outcome,
                      turns, lateTurns>>
    BY DEF Audit, files, history
<1>4. \A d \in In(processing) : processing[d] + 1 <= Faults'
    BY <1>2, Numbers DEF IInv, Paid, In
<1>5. Control' /\ Owned' /\ Unlinkable' /\ BatchOK' /\ Paid' /\ Quiet'
    BY <1>1, <1>2, <1>3, <1>4, GoneDown
<1>6. TypeOK'
    BY <1>2, <1>3 DEF IInv, TypeOK
<1>7. Control'
    BY <1>5
<1>8. Owned'
    BY <1>5
<1>9. Unlinkable'
    BY <1>5
<1>10. BatchOK'
    BY <1>5
<1>11. NoDeliveryLost'
    BY <1>3 DEF IInv, NoDeliveryLost, In, Enqueued
<1>12. Paid'
    BY <1>5
<1>13. RerunOnlyAfterFault'
    BY <1>2, <1>3, Numbers DEF IInv, RerunOnlyAfterFault
<1>14. Quiet'
    BY <1>5
<1>15. DeletedTriggerStaysQuiet'
    BY <1>3 DEF IInv, DeletedTriggerStaysQuiet
<1> QED
    BY <1>6, <1>7, <1>8, <1>9, <1>10, <1>11,
       <1>12, <1>13, <1>14, <1>15 DEF IInv

\* The audit record of any other delivery.
LEMMA AuditOK ==
    ASSUME IInv, NEW written \in BOOLEAN, gateway.cause # "cancelled", Audit(written)
    PROVE  IInv'
<1>1. /\ gateway.pc = "audit"
      /\ gateway'.pc = IF gateway.cause = "exception" THEN "record" ELSE "complete"
      /\ gateway'.batch = gateway.batch
      /\ gateway'.cause = gateway.cause /\ gateway'.turn = gateway.turn
      /\ gateway' \in Gateway
      /\ gateway.cause \in {"ok", "error", "exception"}
    BY DEF Audit, At, Goto, IInv, Control, Gateway
<1>2. /\ run' \in [Deliveries -> {"none", "queued", "processing", "ok", "error",
                                  "retrying", "interrupted"}]
      /\ stops' = stops /\ storeErrors' \in 0..MaxStoreErrors
      /\ stops \in Nat /\ storeErrors \in Nat /\ storeErrors' \in Nat
      /\ storeErrors <= storeErrors'
      /\ Faults \in Nat /\ Faults' \in Nat /\ Faults <= Faults'
    BY AuditWritten
<1>3. UNCHANGED <<trigger, owner, inbox, processing, failed, outcome,
                      turns, lateTurns>>
    BY DEF Audit, files, history
<1>4. /\ Current = gateway.batch[1] /\ 1 \in 1..Len(gateway.batch)
      /\ Current.id \in Deliveries /\ Current.attempts \in Attempts /\ Current' = Current
    BY <1>1, CurrentIs DEF IInv, Unbatched, Recovering, Current
<1>5. TypeOK'
    BY <1>2, <1>3 DEF IInv, TypeOK
<1>6. Control'
    BY <1>1 DEF IInv, Control, Unbatched, Recovering
<1>7. Owned'
    BY <1>1, <1>3 DEF IInv, Owned, In, Enqueued
<1>8. Unlinkable'
    BY <1>1, <1>3, <1>4 DEF IInv, Unlinkable, Recorded, CurrentTrigger
<1>9. BatchOK'
    BY <1>1, <1>3, <1>4 DEF IInv, BatchOK, Retried, In, Recovering
<1>10. NoDeliveryLost'
    BY <1>3 DEF IInv, NoDeliveryLost, In, Enqueued
<1>11. Paid'
  <2>1. \A d \in In(inbox) : turns[d] <= inbox[d] /\ inbox[d] <= Faults'
      BY <1>2, Numbers DEF IInv, Paid, In
  <2>2. \A d \in In(processing) : turns[d] <= processing[d] + 1 /\ processing[d] <= Faults'
      BY <1>2, Numbers DEF IInv, Paid, In
  <2>3. \A i \in 1..Len(gateway.batch) :
           /\ turns[gateway.batch[i].id] <= gateway.batch[i].attempts + 1
           /\ i # 1 => turns[gateway.batch[i].id] <= gateway.batch[i].attempts
           /\ gateway.batch[i].attempts <= Faults'
      BY <1>2, Numbers DEF IInv, Paid
  <2> QED
      BY <1>1, <1>3, <2>1, <2>2, <2>3 DEF Paid, Unstarted, In, Recovering
<1>12. RerunOnlyAfterFault'
    BY <1>2, <1>3, Numbers DEF IInv, RerunOnlyAfterFault
<1>13. Quiet'
    BY <1>1, <1>3 DEF IInv, Quiet
<1>14. DeletedTriggerStaysQuiet'
    BY <1>3 DEF IInv, DeletedTriggerStaysQuiet
<1> QED
    BY <1>5, <1>6, <1>7, <1>8, <1>9, <1>10,
       <1>11, <1>12, <1>13, <1>14 DEF IInv

\* The gateway is killed.
LEMMA CrashOK == ASSUME IInv, Crash PROVE IInv'
<1>1. gateway' = Down
    BY DEF Crash, At
<1>2. /\ stops' = stops + 1 /\ stops' \in 0..MaxStops /\ stops \in Nat /\ storeErrors' = storeErrors
      /\ storeErrors \in Nat
      /\ Faults \in Nat /\ Faults' = Faults + 1 /\ Faults' \in Nat /\ Faults <= Faults'
  <2>1. stops \in Nat /\ storeErrors \in Nat /\ MaxStops \in Nat
      BY Numbers, TriggersAssumption
  <2>2. stops' = stops + 1 /\ stops < MaxStops /\ storeErrors' = storeErrors
      BY DEF Crash
  <2>3. stops' \in 0..MaxStops
      BY <2>1, <2>2
  <2> QED
      BY <2>1, <2>2, <2>3 DEF Faults
<1>3. UNCHANGED <<trigger, owner, inbox, processing, failed, outcome,
                      run, turns, lateTurns>>
    BY DEF Crash, files, records, history
<1>4. \A d \in In(processing) : processing[d] + 1 <= Faults'
    BY <1>2, Numbers DEF IInv, Paid, In
<1>5. Control' /\ Owned' /\ Unlinkable' /\ BatchOK' /\ Paid' /\ Quiet'
    BY <1>1, <1>2, <1>3, <1>4, GoneDown
<1>6. TypeOK'
    BY <1>2, <1>3 DEF IInv, TypeOK
<1>7. Control'
    BY <1>5
<1>8. Owned'
    BY <1>5
<1>9. Unlinkable'
    BY <1>5
<1>10. BatchOK'
    BY <1>5
<1>11. NoDeliveryLost'
    BY <1>3 DEF IInv, NoDeliveryLost, In, Enqueued
<1>12. Paid'
    BY <1>5
<1>13. RerunOnlyAfterFault'
    BY <1>2, <1>3, Numbers DEF IInv, RerunOnlyAfterFault
<1>14. Quiet'
    BY <1>5
<1>15. DeletedTriggerStaysQuiet'
    BY <1>3 DEF IInv, DeletedTriggerStaysQuiet
<1> QED
    BY <1>6, <1>7, <1>8, <1>9, <1>10, <1>11,
       <1>12, <1>13, <1>14, <1>15 DEF IInv

\* A shutdown between two polls.
LEMMA ShutdownIdleOK == ASSUME IInv, gateway.pc = "poll", Shutdown PROVE IInv'
<1>1. gateway' = Down
    BY DEF Shutdown, At
<1>2. /\ stops' = stops + 1 /\ stops' \in 0..MaxStops /\ stops \in Nat /\ storeErrors' = storeErrors
      /\ storeErrors \in Nat
      /\ Faults \in Nat /\ Faults' = Faults + 1 /\ Faults' \in Nat /\ Faults <= Faults'
  <2>1. stops \in Nat /\ storeErrors \in Nat /\ MaxStops \in Nat
      BY Numbers, TriggersAssumption
  <2>2. stops' = stops + 1 /\ stops < MaxStops /\ storeErrors' = storeErrors
      BY DEF Shutdown
  <2>3. stops' \in 0..MaxStops
      BY <2>1, <2>2
  <2> QED
      BY <2>1, <2>2, <2>3 DEF Faults
<1>3. UNCHANGED <<trigger, owner, inbox, processing, failed, outcome,
                      run, turns, lateTurns>>
    BY DEF Shutdown, files, records, history
<1>4. \A d \in In(processing) : processing[d] + 1 <= Faults'
    BY <1>2, Numbers DEF IInv, Paid, In
<1>5. Control' /\ Owned' /\ Unlinkable' /\ BatchOK' /\ Paid' /\ Quiet'
    BY <1>1, <1>2, <1>3, <1>4, GoneDown
<1>6. TypeOK'
    BY <1>2, <1>3 DEF IInv, TypeOK
<1>7. Control'
    BY <1>5
<1>8. Owned'
    BY <1>5
<1>9. Unlinkable'
    BY <1>5
<1>10. BatchOK'
    BY <1>5
<1>11. NoDeliveryLost'
    BY <1>3 DEF IInv, NoDeliveryLost, In, Enqueued
<1>12. Paid'
    BY <1>5
<1>13. RerunOnlyAfterFault'
    BY <1>2, <1>3, Numbers DEF IInv, RerunOnlyAfterFault
<1>14. Quiet'
    BY <1>5
<1>15. DeletedTriggerStaysQuiet'
    BY <1>3 DEF IInv, DeletedTriggerStaysQuiet
<1> QED
    BY <1>6, <1>7, <1>8, <1>9, <1>10, <1>11,
       <1>12, <1>13, <1>14, <1>15 DEF IInv

\* A shutdown cancels the turn the gateway waits for.
LEMMA ShutdownOK == ASSUME IInv, gateway.pc # "poll", Shutdown PROVE IInv'
<1>1. /\ gateway.pc = "wait"
      /\ gateway'.pc = "retry"
      /\ gateway'.batch = gateway.batch /\ gateway'.cause = "cancelled" /\ gateway'.turn = "none"
      /\ gateway' \in Gateway
    BY DEF Shutdown, At, GotoFor, IInv, Control, Gateway
<1>2. /\ stops' = stops + 1 /\ stops' \in 0..MaxStops /\ stops \in Nat /\ storeErrors' = storeErrors
      /\ storeErrors \in Nat
      /\ Faults \in Nat /\ Faults' = Faults + 1 /\ Faults' \in Nat /\ Faults <= Faults'
  <2>1. stops \in Nat /\ storeErrors \in Nat /\ MaxStops \in Nat
      BY Numbers, TriggersAssumption
  <2>2. stops' = stops + 1 /\ stops < MaxStops /\ storeErrors' = storeErrors
      BY DEF Shutdown
  <2>3. stops' \in 0..MaxStops
      BY <2>1, <2>2
  <2> QED
      BY <2>1, <2>2, <2>3 DEF Faults
<1>3. UNCHANGED <<trigger, owner, inbox, processing, failed, outcome,
                      run, turns, lateTurns>>
    BY DEF Shutdown, files, records, history
<1>4. /\ Current = gateway.batch[1] /\ 1 \in 1..Len(gateway.batch)
      /\ Current.id \in Deliveries /\ Current.attempts \in Attempts /\ Current' = Current
    BY <1>1, CurrentIs DEF IInv, Unbatched, Recovering, Current
<1>5. TypeOK'
    BY <1>2, <1>3 DEF IInv, TypeOK
<1>6. Control'
    BY <1>1 DEF IInv, Control, Unbatched, Recovering
<1>7. Owned'
    BY <1>1, <1>3 DEF IInv, Owned, In, Enqueued
<1>8. Unlinkable'
    BY <1>1 DEF Unlinkable, Recorded
<1>9. BatchOK'
    BY <1>1, <1>3, <1>4 DEF IInv, BatchOK, Retried, In, Recovering
<1>10. NoDeliveryLost'
    BY <1>3 DEF IInv, NoDeliveryLost, In, Enqueued
<1>11. Paid'
  <2>1. \A d \in In(inbox) : turns[d] <= inbox[d] /\ inbox[d] <= Faults'
      BY <1>2, Numbers DEF IInv, Paid, In
  <2>2. \A d \in In(processing) :
           turns[d] <= processing[d] + 1 /\ processing[d] <= Faults' /\ processing[d] + 1 <= Faults'
      BY <1>2, Numbers DEF IInv, Paid, In
  <2>3. \A i \in 1..Len(gateway.batch) :
           /\ turns[gateway.batch[i].id] <= gateway.batch[i].attempts + 1
           /\ i # 1 => turns[gateway.batch[i].id] <= gateway.batch[i].attempts
           /\ gateway.batch[i].attempts <= Faults' /\ gateway.batch[i].attempts + 1 <= Faults'
      BY <1>2, Numbers DEF IInv, Paid
  <2> QED
      BY <1>1, <1>3, <1>4, <2>1, <2>2, <2>3 DEF Paid, Unstarted, In, Recovering
<1>12. RerunOnlyAfterFault'
    BY <1>2, <1>3, Numbers DEF IInv, RerunOnlyAfterFault
<1>13. Quiet'
    BY <1>1, <1>3 DEF IInv, Quiet
<1>14. DeletedTriggerStaysQuiet'
    BY <1>3 DEF IInv, DeletedTriggerStaysQuiet
<1> QED
    BY <1>5, <1>6, <1>7, <1>8, <1>9, <1>10,
       <1>11, <1>12, <1>13, <1>14 DEF IInv

-----------------------------------------------------------------------------
\* The invariant holds of an empty queue with no gateway running.
LEMMA InitIInv == Init => IInv
<1> SUFFICES ASSUME Init PROVE IInv
    OBVIOUS
<1>1. /\ gateway.pc = "down" /\ gateway.cause = "none" /\ gateway.batch = <<>>
      /\ gateway \in Gateway /\ \A i \in 1..Len(gateway.batch) : FALSE
    BY DEF Init, Down, Gateway
<1>2. Enqueued = {} /\ In(inbox) = {} /\ In(processing) = {} /\ In(failed) = {}
    BY DEF Init, Enqueued, In
<1>3. /\ \A d \in Deliveries : turns[d] = 0 /\ lateTurns[d] = 0
      /\ stops = 0 /\ storeErrors = 0
    BY DEF Init
<1>4. TypeOK
    BY TriggersAssumption DEF Init, TypeOK
<1>5. Control
    BY <1>1 DEF Control, Unbatched, Recovering
<1>6. Owned /\ NoDeliveryLost
    BY <1>1, <1>2, <1>3 DEF Owned, NoDeliveryLost
<1>7. Unlinkable /\ BatchOK /\ Paid /\ Quiet
    BY <1>1, <1>2, <1>3 DEF Unlinkable, Recorded, BatchOK, Retried, Recovering, Paid, Quiet
<1>8. RerunOnlyAfterFault /\ DeletedTriggerStaysQuiet
    BY <1>3, TriggersAssumption DEF RerunOnlyAfterFault, DeletedTriggerStaysQuiet
<1> QED
    BY <1>4, <1>5, <1>6, <1>7, <1>8 DEF IInv

\* Every step preserves it, one lemma per action of the gateway and per command.
LEMMA NextIInv == IInv /\ [Next]_vars => IInv'
<1> SUFFICES ASSUME IInv, [Next]_vars PROVE IInv'
    OBVIOUS
<1>1. CASE GatewayStep
    BY <1>1, StartOK, RecoverWriteOK, RecoverUnlinkOK, ClaimOK, CheckOK, SubmitOK, TurnStartsOK,
       TurnEndsOK, RecordOK, RecordRetriedOK, AuditOK, AuditCancelledOK, CompleteOK,
       RetryWriteOK, RetryUnlinkOK DEF GatewayStep
<1>2. CASE StoreError \/ Shutdown \/ Crash
    BY <1>2, StoreErrorOK, ShutdownOK, ShutdownIdleOK, CrashOK
<1>3. CASE \E t \in Triggers :
              \/ Create(t)
              \/ \E enabled \in BOOLEAN : Enable(t, enabled)
              \/ \E left \in SUBSET Deliveries : Delete(t, left)
              \/ Enqueue(t)
    BY <1>3, CreateOK, EnableOK, DeleteOK, EnqueueOK
<1>4. CASE UNCHANGED vars
  <2>1. IInv' <=> IInv
      BY <1>4 DEF vars, IInv, TypeOK, Control, Owned, Unlinkable, BatchOK, NoDeliveryLost, Paid,
                  RerunOnlyAfterFault, Quiet, DeletedTriggerStaysQuiet, In, Enqueued, Recorded,
                  Retried, Unstarted, Current, CurrentTrigger, Faults
  <2> QED
      BY <2>1
<1> QED
    BY <1>1, <1>2, <1>3, <1>4 DEF Next

\* So it holds of every reachable state.
LEMMA Inductive == Spec => []IInv
    BY InitIInv, NextIInv, PTL DEF Spec

\* Every variable of the queue keeps its type, and no stored count of attempts passes
\* the limit of _retry_delivery_unlocked: below it in inbox and processing, at it in failed.
THEOREM TriggerTypes == Spec => []TypeOK
<1>1. IInv => TypeOK
    BY DEF IInv
<1> QED
    BY <1>1, Inductive, PTL

\* A message that enqueue accepted keeps a file in some directory until record_delivery
\* has its outcome or its trigger is deleted, wherever the gateway is killed: a copy is
\* written before a file is removed, and a file is removed only with the outcome recorded.
THEOREM DeliveriesKept == Spec => []NoDeliveryLost
<1>1. IInv => NoDeliveryLost
    BY DEF IInv
<1> QED
    BY <1>1, Inductive, PTL

\* run_local_trigger_queue starts at most _MAX_DELIVERY_ATTEMPTS turns for a message, and
\* at most one more than there were stops of the gateway and store errors.
THEOREM RerunsPaidFor == Spec => []RerunOnlyAfterFault
<1>1. IInv => RerunOnlyAfterFault
    BY DEF IInv
<1> QED
    BY <1>1, Inductive, PTL

\* After delete at most the turn of a message that was past its check in _deliver_delivery
\* still starts, whatever files a retry or a recovery brings back.
THEOREM QuietAfterDelete == Spec => []DeletedTriggerStaysQuiet
<1>1. IInv => DeletedTriggerStaysQuiet
    BY DEF IInv
<1> QED
    BY <1>1, Inductive, PTL

=============================================================================
