---------------------------- MODULE OutboxProofs ----------------------------
(***************************************************************************)
(* Proofs about Outbox, for any events, producers, sweepers and bounds.    *)
(* Everything rests on one inductive invariant, IndInv; its preservation   *)
(* is one lemma per group of actions, and the properties follow from it.   *)
(***************************************************************************)
EXTENDS Outbox, FiniteSetTheorems, TLAPS

USE OutboxAssumption

(* The initial state satisfies the invariant.                              *)
LEMMA InitIndInv == Init => IndInv
  BY DEF Init, IndInv, TypeOK, SinglePublisher, BatchesAreSending, NoTx, Tx,
     LockedRowsAreOpen, SuccessHasCopy, SentWasPublished, CopiesAccounted,
     Published, Batch, Locked, Status

(* A request or the passing of time touches no claimed row: PENDING is     *)
(* written only where there was no row, and due is read only by claims.    *)
LEMMA EnvironmentIndInv ==
  ASSUME IndInv, NEW e \in Event, Enqueue(e) \/ BackoffElapses(e)
  PROVE  IndInv'
<1>1. CASE Enqueue(e)
  <2>. USE <1>1 DEF IndInv, Enqueue, rowVars, sweepVars
  <2>1. TypeOK'
    BY DEF TypeOK, Status
  <2>2. SinglePublisher'
    BY DEF SinglePublisher, Batch, Locked
  <2>3. BatchesAreSending'
    BY DEF BatchesAreSending, Batch, TypeOK
  <2>4. LockedRowsAreOpen'
    BY DEF LockedRowsAreOpen, TypeOK, Tx
  <2>5. (\A f \in Event : status[f] = "ABSENT" => attempts[f] = 0)'
    BY DEF TypeOK
  <2>6. SuccessHasCopy'
    BY DEF SuccessHasCopy, SentWasPublished, TypeOK
  <2>7. CopiesAccounted'
    BY DEF CopiesAccounted, Published
  <2>. QED BY <2>1, <2>2, <2>3, <2>4, <2>5, <2>6, <2>7
<1>2. CASE BackoffElapses(e)
  BY <1>2 DEF IndInv, BackoffElapses, rowVars, sweepVars, TypeOK,
     SinglePublisher, BatchesAreSending, LockedRowsAreOpen, SuccessHasCopy,
     SentWasPublished, CopiesAccounted, Published, Batch, Locked
<1>. QED BY <1>1, <1>2

(* A producer locks a row that nobody is sending and that is not locked;   *)
(* its publish is paid for by the attempt it is about to commit.           *)
LEMMA ProducerIndInv ==
  ASSUME IndInv, NEW p \in Producer, NEW e \in Event, NEW o \in Outcome,
         \/ ProducerClaim(p, e)
         \/ ProducerPublish(p, o)
         \/ ProducerCommit(p)
         \/ ProducerRollback(p)
  PROVE  IndInv'
<1>. USE DEF IndInv
<1>1. CASE ProducerClaim(p, e)
  <2>. USE <1>1 DEF ProducerClaim, rowVars, sweepVars
  <2>1. TypeOK'
    BY DEF TypeOK, Tx
  <2>2. SinglePublisher'
    BY DEF SinglePublisher, BatchesAreSending, Batch, Locked, Eligible, TypeOK, Tx
  <2>3. BatchesAreSending'
    BY DEF BatchesAreSending, Batch
  <2>4. LockedRowsAreOpen'
    BY DEF LockedRowsAreOpen, Eligible, TypeOK, Tx
  <2>5. (\A f \in Event : status[f] = "ABSENT" => attempts[f] = 0)'
    OBVIOUS
  <2>6. SuccessHasCopy'
    BY DEF SuccessHasCopy, SentWasPublished, TypeOK, Tx
  <2>7. CopiesAccounted'
    <3>1. \A f \in Event : Published(f)' <=> Published(f)
      BY DEF Published, TypeOK, Tx, NoTx
    <3>. QED BY <3>1 DEF CopiesAccounted
  <2>. QED BY <2>1, <2>2, <2>3, <2>4, <2>5, <2>6, <2>7
<1>2. CASE ProducerPublish(p, o)
  <2>. DEFINE f == tx[p].event
  <2>. USE <1>2 DEF ProducerPublish, rowVars, sweepVars
  <2>0. /\ f \in Event
        /\ tx' \in [Producer -> Tx]
        /\ copies' \in [Event -> Nat]
        /\ \A g \in Event : g # f => copies'[g] = copies[g]
        /\ copies'[f] \in {copies[f], copies[f] + 1}
        /\ o = "confirmed" => copies'[f] = copies[f] + 1
        /\ \A q \in Producer : tx'[q].event = tx[q].event
        /\ \A q \in Producer : q # p => tx'[q] = tx[q]
        /\ tx'[p].result = Recorded(o)
    BY DEF TypeOK, Tx, Accepted, Outcome, Recorded
  <2>1. TypeOK'
    BY <2>0 DEF TypeOK
  <2>2. SinglePublisher'
    BY <2>0 DEF SinglePublisher, Batch, Locked
  <2>3. BatchesAreSending'
    BY DEF BatchesAreSending, Batch
  <2>4. LockedRowsAreOpen'
    BY <2>0 DEF LockedRowsAreOpen
  <2>5. (\A g \in Event : status[g] = "ABSENT" => attempts[g] = 0)'
    OBVIOUS
  <2>6. SuccessHasCopy'
    <3>1. \A g \in Event : copies[g] > 0 => copies'[g] > 0
      BY <2>0 DEF TypeOK
    <3>2. ASSUME NEW q \in Producer, tx'[q].event # NoEvent, tx'[q].result = "SENT"
          PROVE  copies'[tx'[q].event] > 0
      <4>1. CASE q = p
        BY <3>2, <4>1, <2>0 DEF Recorded, TypeOK
      <4>2. CASE q # p
        <5>1. tx[q].event \in Event /\ copies[tx[q].event] > 0
          BY <3>2, <4>2, <2>0 DEF SuccessHasCopy, TypeOK, Tx
        <5>. QED BY <5>1, <2>0, <3>1
      <4>. QED BY <4>1, <4>2
    <3>. QED BY <3>1, <3>2 DEF SuccessHasCopy, SentWasPublished, TypeOK
  <2>7. CopiesAccounted'
    <3>1. ~Published(f) /\ Published(f)'
      BY <2>0 DEF Published, Recorded, SinglePublisher
    <3>2. \A g \in Event : g # f => (Published(g)' <=> Published(g))
      BY <2>0 DEF Published
    <3>3. \A s \in Sweeper : f \notin todo[s]
      BY <2>0 DEF SinglePublisher, Batch, Locked
    <3>. QED BY <2>0, <3>1, <3>2, <3>3 DEF CopiesAccounted, TypeOK
  <2>. QED BY <2>1, <2>2, <2>3, <2>4, <2>5, <2>6, <2>7
<1>3. CASE ProducerCommit(p)
  <2>00. PICK f \in Event : f = tx[p].event
    BY <1>3 DEF TypeOK, Tx, ProducerCommit
  <2>. USE <2>00
  <2>. USE <1>3 DEF ProducerCommit, sweepVars
  <2>0. /\ tx[p].result \in {"SENT", "FAILED"}
        /\ \A q \in Producer : q # p => tx[q].event # f /\ tx'[q] = tx[q]
        /\ tx'[p] = NoTx
        /\ \A s \in Sweeper : f \notin Batch(s)
        /\ attempts[f] < MaxAttempts
    BY DEF TypeOK, Tx, SinglePublisher, Locked, LockedRowsAreOpen
  <2>1. TypeOK'
    BY <2>0 DEF TypeOK, Tx, NoTx, Charged, Status
  <2>2. SinglePublisher'
    BY <2>0 DEF SinglePublisher, Batch, Locked, NoTx
  <2>3. BatchesAreSending'
    BY <2>0 DEF BatchesAreSending, Batch, TypeOK
  <2>4. LockedRowsAreOpen'
    BY <2>0 DEF LockedRowsAreOpen, NoTx, TypeOK
  <2>5. (\A g \in Event : status[g] = "ABSENT" => attempts[g] = 0)'
    BY <2>0 DEF TypeOK
  <2>6. SuccessHasCopy'
    BY <2>0 DEF SuccessHasCopy, SentWasPublished, TypeOK, NoTx
  <2>7. CopiesAccounted'
    <3>1. Published(f) /\ ~Published(f)'
      BY <2>0 DEF Published, NoTx
    <3>2. \A g \in Event : g # f => (Published(g)' <=> Published(g))
      BY <2>0 DEF Published, NoTx
    <3>. QED BY <2>0, <3>1, <3>2 DEF CopiesAccounted, TypeOK, Batch, Charged
  <2>. QED BY <2>1, <2>2, <2>3, <2>4, <2>5, <2>6, <2>7
<1>4. CASE ProducerRollback(p)
  <2>00. PICK f \in Event : f = tx[p].event
    BY <1>4 DEF TypeOK, Tx, ProducerRollback
  <2>. USE <2>00
  <2>. USE <1>4 DEF ProducerRollback, rowVars, sweepVars
  <2>0. /\ \A q \in Producer : q # p => tx[q].event # f /\ tx'[q] = tx[q]
        /\ tx'[p] = NoTx
        /\ \A s \in Sweeper : f \notin Batch(s)
        /\ rollbacks' \in [Event -> 0..MaxRollbacks]
        /\ rollbacks'[f] = rollbacks[f] + 1
        /\ \A g \in Event : g # f => rollbacks'[g] = rollbacks[g]
    BY DEF TypeOK, Tx, SinglePublisher, Locked
  <2>1. TypeOK'
    BY <2>0 DEF TypeOK, Tx, NoTx
  <2>2. SinglePublisher'
    BY <2>0 DEF SinglePublisher, Batch, Locked, NoTx
  <2>3. BatchesAreSending'
    BY DEF BatchesAreSending, Batch
  <2>4. LockedRowsAreOpen'
    BY <2>0 DEF LockedRowsAreOpen, NoTx
  <2>5. (\A g \in Event : status[g] = "ABSENT" => attempts[g] = 0)'
    OBVIOUS
  <2>6. SuccessHasCopy'
    BY <2>0 DEF SuccessHasCopy, SentWasPublished, NoTx
  <2>7. CopiesAccounted'
    <3>1. \A g \in Event : g # f => (Published(g)' <=> Published(g))
      BY <2>0 DEF Published, NoTx
    <3>. QED BY <2>0, <3>1 DEF CopiesAccounted, TypeOK, Batch
  <2>. QED BY <2>1, <2>2, <2>3, <2>4, <2>5, <2>6, <2>7
<1>. QED BY <1>1, <1>2, <1>3, <1>4

(* A sweep claims only rows that nobody is sending, pays one attempt for    *)
(* each before it publishes, and writes back only the batch it owns.        *)
LEMMA SweepClaimIndInv ==
  ASSUME IndInv, NEW s \in Sweeper, SweepClaim(s)
  PROVE  IndInv'
<1>1. PICK batch \in SUBSET {e \in Event : Claimable(e)} :
         /\ status' = [e \in Event |-> IF e \in batch THEN "SENDING"
                                                      ELSE status[e]]
         /\ attempts' = [e \in Event |-> IF e \in batch THEN Charged(e)
                                                        ELSE attempts[e]]
         /\ todo' = [todo EXCEPT ![s] = batch]
  BY DEF SweepClaim
<1>2. /\ Batch(s) = {}
      /\ UNCHANGED <<due, copies, tx, sent, failed, rollbacks, aborts>>
  BY DEF SweepClaim
<1>3. \A e \in batch : /\ e \in Event
                       /\ status[e] \in {"PENDING", "FAILED"}
                       /\ attempts[e] < MaxAttempts
                       /\ ~Locked(e)
                       /\ \A t \in Sweeper : e \notin Batch(t)
  BY DEF IndInv, Claimable, Eligible, BatchesAreSending
<1>. USE <1>1, <1>2, <1>3 DEF IndInv
<1>4. TypeOK'
  BY DEF TypeOK, Status, Charged
<1>5. SinglePublisher'
  BY DEF SinglePublisher, Batch, Locked, TypeOK
<1>6. BatchesAreSending'
  BY DEF BatchesAreSending, Batch, TypeOK
<1>7. LockedRowsAreOpen'
  <2>1. ASSUME NEW p \in Producer, tx[p].event # NoEvent
        PROVE  tx[p].event \in Event \ batch
    BY <2>1 DEF TypeOK, Tx, Locked
  <2>. QED BY <2>1 DEF LockedRowsAreOpen
<1>8. (\A e \in Event : status[e] = "ABSENT" => attempts[e] = 0)'
  BY DEF TypeOK
<1>9. SuccessHasCopy'
  BY DEF SuccessHasCopy, SentWasPublished, TypeOK
<1>10. CopiesAccounted'
  <2>1. \A e \in Event : Published(e)' <=> Published(e)
    BY DEF Published
  <2>2. \A e \in batch : ~Published(e)
    BY DEF Published, Locked
  <2>. QED BY <2>1, <2>2 DEF CopiesAccounted, TypeOK, Charged
<1>. QED BY <1>4, <1>5, <1>6, <1>7, <1>8, <1>9, <1>10

LEMMA SweepPublishIndInv ==
  ASSUME IndInv, NEW s \in Sweeper, NEW e \in Event, NEW o \in Outcome,
         SweepPublish(s, e, o)
  PROVE  IndInv'
<1>. USE DEF IndInv, SweepPublish, rowVars
<1>1. /\ copies' \in [Event -> Nat]
      /\ \A g \in Event : g # e => copies'[g] = copies[g]
      /\ copies'[e] \in {copies[e], copies[e] + 1}
      /\ o = "confirmed" => copies'[e] = copies[e] + 1
  BY DEF TypeOK, Accepted, Outcome
<1>2. Recorded(o) = "SENT" <=> o = "confirmed"
  BY DEF Recorded
<1>3. TypeOK'
  BY <1>1 DEF TypeOK
<1>4. \A t \in Sweeper : Batch(t)' = Batch(t)
  BY DEF Batch, TypeOK
<1>5. SinglePublisher'
  BY <1>4 DEF SinglePublisher, Locked
<1>6. BatchesAreSending'
  BY <1>4 DEF BatchesAreSending, TypeOK
<1>7. LockedRowsAreOpen'
  BY DEF LockedRowsAreOpen
<1>8. (\A g \in Event : status[g] = "ABSENT" => attempts[g] = 0)'
  OBVIOUS
<1>9. SuccessHasCopy'
  <2>1. \A g \in Event : copies[g] > 0 => copies'[g] > 0
    BY <1>1 DEF TypeOK
  <2>2. \A t \in Sweeper : \A g \in sent'[t] : copies'[g] > 0
    BY <1>1, <1>2, <2>1 DEF SuccessHasCopy, TypeOK
  <2>3. \A p \in Producer : tx[p].event # NoEvent => tx[p].event \in Event
    BY DEF TypeOK, Tx
  <2>. QED BY <2>1, <2>2, <2>3 DEF SuccessHasCopy, SentWasPublished
<1>10. CopiesAccounted'
  <2>1. \A g \in Event : Published(g)' <=> Published(g)
    BY DEF Published
  <2>2. ~Published(e)
    BY DEF Published, SinglePublisher, Batch, Locked
  <2>3. \A t \in Sweeper : e \in todo[t] => t = s
    BY DEF SinglePublisher, Batch
  <2>. QED BY <1>1, <2>1, <2>2, <2>3 DEF CopiesAccounted, TypeOK
<1>. QED BY <1>3, <1>5, <1>6, <1>7, <1>8, <1>9, <1>10

LEMMA SweepEndIndInv ==
  ASSUME IndInv, NEW s \in Sweeper, SweepFinalize(s) \/ SweepAbort(s)
  PROVE  IndInv'
<1>. USE DEF IndInv
<1>1. /\ \A t \in Sweeper : t # s => Batch(t)' = Batch(t)
      /\ Batch(s)' = {}
      /\ \A t \in Sweeper : t # s => /\ todo'[t] = todo[t]
                                   /\ sent'[t] = sent[t]
                                   /\ failed'[t] = failed[t]
      /\ todo'[s] = {} /\ sent'[s] = {} /\ failed'[s] = {}
      /\ UNCHANGED <<attempts, copies, tx, rollbacks>>
  BY DEF SweepFinalize, SweepAbort, rowVars, Batch, TypeOK
<1>2. /\ \A e \in Event : e \notin Batch(s) => status'[e] = status[e]
      /\ \A e \in Event : status'[e] # status[e] =>
            \/ status'[e] = "FAILED"
            \/ status'[e] = "SENT" /\ e \in sent[s]
  BY DEF SweepFinalize, SweepAbort, rowVars, FinalStatus, Batch
<1>3. TypeOK'
  <2>1. CASE SweepFinalize(s)
    BY <2>1 DEF SweepFinalize, FinalStatus, TypeOK, Status
  <2>2. CASE SweepAbort(s)
    BY <2>2 DEF SweepAbort, rowVars, TypeOK
  <2>. QED BY <2>1, <2>2
<1>4. SinglePublisher'
  BY <1>1 DEF SinglePublisher, Locked
<1>5. BatchesAreSending'
  <2>1. ASSUME NEW t \in Sweeper, t # s, NEW e \in Batch(t)
        PROVE  status'[e] = "SENDING"
    BY <2>1, <1>2 DEF BatchesAreSending, SinglePublisher, Batch, TypeOK
  <2>. QED BY <1>1, <2>1 DEF BatchesAreSending
<1>6. LockedRowsAreOpen'
  <2>1. ASSUME NEW p \in Producer, tx[p].event # NoEvent
        PROVE  /\ tx[p].event \in Event
               /\ tx[p].event \notin Batch(s)
    BY <2>1 DEF TypeOK, Tx, SinglePublisher, Locked
  <2>. QED BY <1>1, <1>2, <2>1 DEF LockedRowsAreOpen
<1>7. (\A e \in Event : status[e] = "ABSENT" => attempts[e] = 0)'
  BY <1>1, <1>2
<1>8. SuccessHasCopy'
  BY <1>1, <1>2 DEF SuccessHasCopy, SentWasPublished
<1>9. CopiesAccounted'
  <2>1. \A e \in Event : Published(e)' <=> Published(e)
    BY <1>1 DEF Published
  <2>. QED BY <1>1, <2>1 DEF CopiesAccounted
<1>. QED BY <1>3, <1>4, <1>5, <1>6, <1>7, <1>8, <1>9

(* Whatever step the outbox takes, IndInv survives it.                     *)
LEMMA StepIndInv == IndInv /\ [Next]_vars => IndInv'
<1>. SUFFICES ASSUME IndInv, [Next]_vars PROVE IndInv'
  OBVIOUS
<1>1. CASE Next
  <2>1. ASSUME NEW e \in Event, Enqueue(e) \/ BackoffElapses(e)
        PROVE  IndInv'
    BY <2>1, EnvironmentIndInv
  <2>2. ASSUME NEW p \in Producer, NEW e \in Event, ProducerClaim(p, e)
        PROVE  IndInv'
    BY <2>2, ProducerIndInv DEF Outcome
  <2>3. ASSUME NEW p \in Producer,
               \/ \E o \in Outcome : ProducerPublish(p, o)
               \/ ProducerCommit(p) \/ ProducerRollback(p)
        PROVE  IndInv'
    <3>1. tx[p].event \in Event
      BY <2>3 DEF ProducerPublish, ProducerCommit, ProducerRollback,
                  IndInv, TypeOK, Tx
    <3>. QED BY <2>3, <3>1, ProducerIndInv DEF Outcome
  <2>4. ASSUME NEW s \in Sweeper,
               \/ SweepClaim(s)
               \/ \E e \in Event, o \in Outcome : SweepPublish(s, e, o)
               \/ SweepFinalize(s) \/ SweepAbort(s)
        PROVE  IndInv'
    BY <2>4, SweepClaimIndInv, SweepPublishIndInv, SweepEndIndInv
  <2>. QED BY <1>1, <2>1, <2>2, <2>3, <2>4 DEF Next
<1>2. CASE UNCHANGED vars
  BY <1>2 DEF vars, IndInv, TypeOK, SinglePublisher, BatchesAreSending,
     LockedRowsAreOpen, SuccessHasCopy, SentWasPublished, CopiesAccounted,
     Published, Batch, Locked
<1>. QED BY <1>1, <1>2

(* IndInv holds in every reachable state.                                  *)
THEOREM OutboxInductive == Spec => []IndInv
  BY InitIndInv, StepIndInv, PTL DEF Spec

(* Every variable keeps its type: in particular no row is charged more     *)
(* than MaxAttempts attempts.                                              *)
THEOREM OutboxTypeOK == Spec => []TypeOK
<1>1. IndInv => TypeOK
  BY DEF IndInv
<1>. QED BY <1>1, OutboxInductive, PTL

(* Two sweepers, two producers, or one of each never work on one event at  *)
(* the same time.                                                          *)
THEOREM OutboxSinglePublisher == Spec => []SinglePublisher
<1>1. IndInv => SinglePublisher
  BY DEF IndInv
<1>. QED BY <1>1, OutboxInductive, PTL

(* A row that says SENT has a copy in the broker.                          *)
THEOREM OutboxSentWasPublished == Spec => []SentWasPublished
<1>1. IndInv => SentWasPublished
  BY DEF IndInv, SuccessHasCopy
<1>. QED BY <1>1, OutboxInductive, PTL

(* At most MaxAttempts copies, plus one per lost producer transaction.     *)
THEOREM OutboxCopiesBounded == Spec => []CopiesBounded
<1>1. IndInv => CopiesBounded
  <2>. SUFFICES ASSUME IndInv, NEW e \in Event
                PROVE  copies[e] <= MaxAttempts + rollbacks[e]
    BY DEF CopiesBounded
  <2>1. attempts[e] + (IF Published(e) THEN 1 ELSE 0) <= MaxAttempts
    BY DEF IndInv, TypeOK, Published, LockedRowsAreOpen
  <2>. QED BY <2>1 DEF IndInv, CopiesAccounted, TypeOK
<1>. QED BY <1>1, OutboxInductive, PTL

(* Once SENT, a row and the copies of its event never change again: it is  *)
(* in no batch and in no transaction, and no claim takes it.               *)
THEOREM OutboxSentIsFinal == Spec => SentIsFinal
<1>1. ASSUME IndInv, [Next]_vars, NEW e \in Event, status[e] = "SENT"
      PROVE  /\ status'[e] = "SENT"
             /\ attempts'[e] = attempts[e]
             /\ copies'[e] = copies[e]
  <2>1. /\ \A s \in Sweeper : e \notin Batch(s)
        /\ \A p \in Producer : tx[p].event # e
        /\ ~Eligible(e)
    BY <1>1 DEF IndInv, BatchesAreSending, LockedRowsAreOpen, Eligible,
                OutboxAssumption
  <2>2. CASE \E f \in Event : Enqueue(f) \/ BackoffElapses(f)
    BY <1>1, <2>1, <2>2 DEF IndInv, TypeOK, Enqueue, BackoffElapses
  <2>3. CASE \E p \in Producer :
                \/ \E f \in Event : ProducerClaim(p, f)
                \/ \E o \in Outcome : ProducerPublish(p, o)
                \/ ProducerCommit(p)
                \/ ProducerRollback(p)
    BY <1>1, <2>1, <2>3 DEF IndInv, TypeOK, ProducerClaim, ProducerPublish, ProducerCommit,
                ProducerRollback, Accepted, rowVars
  <2>4. CASE \E s \in Sweeper : SweepClaim(s)
    BY <1>1, <2>1, <2>4 DEF IndInv, TypeOK, SweepClaim, Claimable
  <2>5. CASE \E s \in Sweeper : \E f \in Event, o \in Outcome : SweepPublish(s, f, o)
    BY <1>1, <2>1, <2>5 DEF IndInv, TypeOK, SweepPublish, Accepted, rowVars, Batch
  <2>6. CASE \E s \in Sweeper : SweepFinalize(s) \/ SweepAbort(s)
    BY <1>1, <2>1, <2>6 DEF IndInv, TypeOK, SweepFinalize, SweepAbort, FinalStatus, rowVars, Batch
  <2>7. CASE UNCHANGED vars
    BY <1>1, <2>1, <2>7 DEF IndInv, TypeOK, vars
  <2>8. CASE Next
    BY <2>2, <2>3, <2>4, <2>5, <2>6, <2>8 DEF Next
  <2>. QED BY <1>1, <2>7, <2>8
<1>2. IndInv /\ [Next]_vars =>
         [\A e \in Event : status[e] = "SENT" =>
            /\ status'[e] = "SENT"
            /\ attempts'[e] = attempts[e]
            /\ copies'[e] = copies[e]]_vars
  BY <1>1
<1>. QED BY <1>2, OutboxInductive, PTL DEF Spec, SentIsFinal

-----------------------------------------------------------------------------
(* Stranded rows.                                                          *)

\* A sweep never holds more rows than the limit of its claim, and what earlier
\* sweeps have stranded is paid for by aborts.
StrandedAccounted ==
    /\ \A s \in Sweeper : /\ IsFiniteSet(Batch(s))
                          /\ Cardinality(Batch(s)) <= BatchLimit
    /\ IsFiniteSet(Orphans)
    /\ OrphansBounded

(* Nothing but a sweep makes, ends or loses a batch, and whatever else      *)
(* writes a status finds the row not SENDING and leaves it not SENDING.     *)
LEMMA OrphansOfOthers ==
  ASSUME IndInv,
         \/ \E e \in Event : Enqueue(e) \/ BackoffElapses(e)
         \/ \E p \in Producer : \/ \E e \in Event : ProducerClaim(p, e)
                                \/ \E o \in Outcome : ProducerPublish(p, o)
                                \/ ProducerCommit(p)
                                \/ ProducerRollback(p)
  PROVE  /\ \A s \in Sweeper : Batch(s)' = Batch(s)
         /\ Orphans' = Orphans
         /\ aborts' = aborts
<1>. USE DEF IndInv, TypeOK, rowVars, sweepVars
<1>1. UNCHANGED <<sweepVars, aborts>>
  BY DEF Enqueue, BackoffElapses, ProducerClaim, ProducerPublish,
         ProducerCommit, ProducerRollback
<1>2. \A s \in Sweeper : Batch(s)' = Batch(s)
  BY <1>1 DEF Batch
<1>3. \A f \in Event : status'[f] = "SENDING" <=> status[f] = "SENDING"
  <2>1. CASE \E e \in Event : Enqueue(e) \/ BackoffElapses(e)
    BY <2>1 DEF Enqueue, BackoffElapses
  <2>2. ASSUME NEW p \in Producer, ProducerCommit(p)
        PROVE  \A f \in Event : status'[f] = "SENDING" <=> status[f] = "SENDING"
    <3>1. PICK e \in Event : e = tx[p].event
      BY <2>2 DEF ProducerCommit, Tx
    <3>2. status[e] # "SENDING" /\ tx[p].result \in {"SENT", "FAILED"}
      BY <2>2, <3>1 DEF ProducerCommit, LockedRowsAreOpen, Tx
    <3>. QED BY <2>2, <3>1, <3>2 DEF ProducerCommit
  <2>3. CASE \E p \in Producer : \/ \E e \in Event : ProducerClaim(p, e)
                                 \/ \E o \in Outcome : ProducerPublish(p, o)
                                 \/ ProducerRollback(p)
    BY <2>3 DEF ProducerClaim, ProducerPublish, ProducerRollback
  <2>. QED BY <2>1, <2>2, <2>3
<1>. QED BY <1>1, <1>2, <1>3 DEF Orphans

(* A sweep without a batch is within the limit.                            *)
LEMMA EmptyBatchBounded == IsFiniteSet({}) /\ Cardinality({}) <= BatchLimit
<1>1. IsFiniteSet({}) /\ Cardinality({}) = 0
  BY FS_EmptySet, Zenon
<1>. QED BY <1>1

(* A sweep owns what it claims until it writes all of it back.             *)
LEMMA OrphansOfSweeps ==
  ASSUME IndInv, StrandedAccounted, NEW s \in Sweeper,
         \/ SweepClaim(s)
         \/ \E e \in Event, o \in Outcome : SweepPublish(s, e, o)
         \/ SweepFinalize(s)
  PROVE  StrandedAccounted'
<1>. USE DEF IndInv, TypeOK, rowVars, sweepVars
<1>1. aborts' = aborts
  BY DEF SweepClaim, SweepPublish, SweepFinalize
<1>2. CASE SweepClaim(s)
  <2>1. PICK batch \in SUBSET {e \in Event : Claimable(e)} :
           /\ IsFiniteSet(batch)
           /\ Cardinality(batch) = BatchLimit \/ Cardinality(batch) < BatchLimit
           /\ status' = [e \in Event |-> IF e \in batch THEN "SENDING"
                                                        ELSE status[e]]
           /\ todo' = [todo EXCEPT ![s] = batch]
    BY <1>2 DEF SweepClaim
  <2>2. Batch(s) = {} /\ UNCHANGED <<sent, failed>>
    BY <1>2 DEF SweepClaim
  <2>3. Batch(s)' = batch /\ \A t \in Sweeper \ {s} : Batch(t)' = Batch(t)
    BY <2>1, <2>2 DEF Batch
  <2>4. Orphans' = Orphans
    <3>1. \A e \in batch : e \in Event /\ status[e] # "SENDING"
      BY <2>1 DEF Claimable, Eligible
    <3>. QED BY <2>1, <2>2, <2>3, <3>1 DEF Orphans
  <2>5. Cardinality(batch) <= BatchLimit
    BY <2>1, FS_CardinalityType
  <2>. QED BY <1>1, <2>1, <2>3, <2>4, <2>5 DEF StrandedAccounted, OrphansBounded
<1>3. CASE \E e \in Event, o \in Outcome : SweepPublish(s, e, o)
  <2>1. \A t \in Sweeper : Batch(t)' = Batch(t)
    BY <1>3 DEF SweepPublish, Batch
  <2>2. Orphans' = Orphans
    BY <1>3, <2>1 DEF SweepPublish, Orphans
  <2>. QED BY <1>1, <2>1, <2>2 DEF StrandedAccounted, OrphansBounded
<1>4. CASE SweepFinalize(s)
  <2>1. Batch(s)' = {} /\ \A t \in Sweeper \ {s} : Batch(t)' = Batch(t)
    BY <1>4 DEF SweepFinalize, Batch
  <2>2. \A e \in Event : status'[e] = IF e \in Batch(s) THEN FinalStatus(s, e)
                                                        ELSE status[e]
    BY <1>4 DEF SweepFinalize, FinalStatus, Batch
  <2>3. \A e \in Batch(s) : FinalStatus(s, e) # "SENDING"
    BY <1>4 DEF SweepFinalize, FinalStatus, Batch
  <2>4. Orphans' = Orphans
    BY <2>1, <2>2, <2>3 DEF Orphans
  <2>. QED BY <1>1, <2>1, <2>4, EmptyBatchBounded DEF StrandedAccounted, OrphansBounded
<1>. QED BY <1>2, <1>3, <1>4

(* An aborted sweep leaves its batch behind, and pays for it.              *)
LEMMA OrphansOfAborts ==
  ASSUME IndInv, StrandedAccounted, NEW s \in Sweeper, SweepAbort(s)
  PROVE  StrandedAccounted'
<1>. USE DEF IndInv, TypeOK, SweepAbort, rowVars
<1>1. Batch(s)' = {} /\ \A t \in Sweeper \ {s} : Batch(t)' = Batch(t)
  BY DEF Batch
<1>2. Orphans' = Orphans \cup Batch(s)
  BY <1>1 DEF Orphans, BatchesAreSending, SinglePublisher, Batch
<1>3. /\ IsFiniteSet(Orphans')
      /\ Cardinality(Orphans') <= Cardinality(Orphans) + Cardinality(Batch(s))
  <2>1. IsFiniteSet(Orphans) /\ IsFiniteSet(Batch(s))
    BY DEF StrandedAccounted
  <2>2. IsFiniteSet(Orphans \cap Batch(s))
    BY <2>1, FS_Intersection
  <2>3. /\ Cardinality(Orphans \cap Batch(s)) \in Nat
        /\ Cardinality(Orphans) \in Nat /\ Cardinality(Batch(s)) \in Nat
    BY <2>1, <2>2, FS_CardinalityType
  <2>4. /\ IsFiniteSet(Orphans \cup Batch(s))
        /\ Cardinality(Orphans \cup Batch(s)) =
              Cardinality(Orphans) + Cardinality(Batch(s))
                 - Cardinality(Orphans \cap Batch(s))
    BY <2>1, FS_Union, Zenon
  <2>. QED BY <1>2, <2>3, <2>4
<1>4. (aborts + 1) * BatchLimit = aborts * BatchLimit + BatchLimit
  OBVIOUS
<1>5. /\ aborts * BatchLimit \in Nat /\ Cardinality(Orphans) \in Nat
      /\ Cardinality(Batch(s)) \in Nat /\ Cardinality(Orphans') \in Nat
  BY <1>3, FS_CardinalityType DEF StrandedAccounted
<1>6. Cardinality(Orphans') <= (aborts + 1) * BatchLimit
  BY <1>3, <1>4, <1>5 DEF StrandedAccounted, OrphansBounded
<1>. QED BY <1>1, <1>3, <1>6, EmptyBatchBounded DEF StrandedAccounted, OrphansBounded

(* However many sweeps are cut short, each strands at most one batch, and   *)
(* no crash, lost transaction or failed publish strands a row otherwise.    *)
THEOREM OutboxOrphansBounded == Spec => []OrphansBounded
<1>1. Init => StrandedAccounted
  <2>. SUFFICES ASSUME Init PROVE StrandedAccounted
    OBVIOUS
  <2>1. \A s \in Sweeper : Batch(s) = {}
    BY DEF Init, Batch
  <2>2. Orphans = {}
    BY DEF Init, Orphans
  <2>3. Cardinality(Orphans) = 0 /\ IsFiniteSet(Orphans)
    BY <2>2, FS_EmptySet, Zenon
  <2>. QED BY <2>1, <2>3, EmptyBatchBounded DEF Init, StrandedAccounted, OrphansBounded
<1>2. IndInv /\ StrandedAccounted /\ [Next]_vars => StrandedAccounted'
  <2>. SUFFICES ASSUME IndInv, StrandedAccounted, [Next]_vars
                PROVE  StrandedAccounted'
    OBVIOUS
  <2>1. CASE \/ \E e \in Event : Enqueue(e) \/ BackoffElapses(e)
             \/ \E p \in Producer : \/ \E e \in Event : ProducerClaim(p, e)
                                    \/ \E o \in Outcome : ProducerPublish(p, o)
                                    \/ ProducerCommit(p)
                                    \/ ProducerRollback(p)
    BY <2>1, OrphansOfOthers DEF StrandedAccounted, OrphansBounded
  <2>2. CASE \E s \in Sweeper :
                \/ SweepClaim(s)
                \/ \E e \in Event, o \in Outcome : SweepPublish(s, e, o)
                \/ SweepFinalize(s)
                \/ SweepAbort(s)
    BY <2>2, OrphansOfSweeps, OrphansOfAborts
  <2>3. CASE UNCHANGED vars
    BY <2>3 DEF vars, StrandedAccounted, OrphansBounded, Orphans, Batch
  <2>. QED BY <2>1, <2>2, <2>3 DEF Next
<1>3. StrandedAccounted => OrphansBounded
  BY DEF StrandedAccounted
<1>. QED BY <1>1, <1>2, <1>3, OutboxInductive, PTL DEF Spec

-----------------------------------------------------------------------------
(* The outbox implements its contract: under the mapping StageOf, its      *)
(* initial state is the contract's, and each of its steps is a Publish, a  *)
(* Record, or invisible.                                                   *)
LEMMA StepContract ==
  ASSUME IndInv, [Next]_vars
  PROVE  [Contract!CNext]_(Contract!cvars)
<1>. DEFINE stage == [e \in Event |-> StageOf(e)]
<1>0. IndInv'
  BY StepIndInv
<1>. USE DEF IndInv, TypeOK
<1>1. ASSUME UNCHANGED <<status, attempts>>, NEW e \in Event, NEW o \in Outcome,
             Accepted(e, o), stage[e] \in {"absent", "owed"}
      PROVE  [Contract!CNext]_(Contract!cvars)
  <2>1. stage' = stage
    BY <1>1 DEF StageOf, Settled
  <2>2. copies' = copies \/ Contract!Publish(e)
    BY <1>1, <2>1 DEF Accepted, Contract!Publish, Contract!Open
  <2>. QED BY <2>1, <2>2 DEF Contract!CNext, Contract!cvars
<1>2. ASSUME UNCHANGED copies,
             \A e \in Event :
                \/ stage'[e] = stage[e]
                \/ /\ stage[e] \in {"absent", "owed"}
                   /\ stage'[e] \in {"owed", "abandoned"}
                \/ /\ stage[e] \in {"absent", "owed"}
                   /\ stage'[e] = "delivered" /\ copies[e] > 0
      PROVE  [Contract!CNext]_(Contract!cvars)
  <2>1. stage' \in [Event -> Contract!Stage]
    BY DEF StageOf, Contract!Stage
  <2>. QED BY <1>2, <2>1 DEF Contract!CNext, Contract!Record, Contract!Open
<1>3. ASSUME NEW e \in Event, Enqueue(e) \/ BackoffElapses(e)
      PROVE  [Contract!CNext]_(Contract!cvars)
  <2>1. UNCHANGED copies
    BY <1>3 DEF Enqueue, BackoffElapses
  <2>2. \A f \in Event :
           \/ stage'[f] = stage[f]
           \/ stage[f] = "absent" /\ stage'[f] = "owed"
    <3>1. CASE Enqueue(e)
      <4>1. stage[e] = "absent" /\ stage'[e] = "owed"
        BY <3>1 DEF Enqueue, StageOf, Settled
      <4>2. \A f \in Event : f # e => stage'[f] = stage[f]
        BY <3>1 DEF Enqueue, StageOf, Settled
      <4>. QED BY <4>1, <4>2
    <3>2. CASE BackoffElapses(e)
      <4>1. status' = status /\ attempts' = attempts
        BY <3>2 DEF BackoffElapses
      <4>. QED BY <4>1 DEF StageOf, Settled
    <3>. QED BY <1>3, <3>1, <3>2
  <2>. QED BY <1>2, <2>1, <2>2
<1>4. ASSUME NEW p \in Producer, NEW e \in Event, ProducerClaim(p, e)
      PROVE  [Contract!CNext]_(Contract!cvars)
  BY <1>4 DEF ProducerClaim, rowVars, StageOf, Settled, Contract!cvars
<1>5. ASSUME NEW p \in Producer, NEW o \in Outcome, ProducerPublish(p, o)
      PROVE  [Contract!CNext]_(Contract!cvars)
  <2>1. PICK e \in Event : e = tx[p].event
    BY <1>5 DEF ProducerPublish, Tx
  <2>2. stage[e] \in {"absent", "owed"}
    BY <2>1, OutboxAssumption DEF LockedRowsAreOpen, StageOf, Settled
  <2>. QED BY <1>1, <1>5, <2>1, <2>2 DEF ProducerPublish, rowVars
<1>6. ASSUME NEW p \in Producer, ProducerCommit(p)
      PROVE  [Contract!CNext]_(Contract!cvars)
  <2>1. PICK e \in Event : e = tx[p].event
    BY <1>6 DEF ProducerCommit, Tx
  <2>2. stage[e] \in {"absent", "owed"}
    BY <2>1, OutboxAssumption DEF LockedRowsAreOpen, StageOf, Settled
  <2>3. \A f \in Event : f # e => stage'[f] = stage[f]
    BY <1>6, <2>1 DEF ProducerCommit, StageOf, Settled
  <2>4. \/ stage'[e] \in {"owed", "abandoned"}
        \/ stage'[e] = "delivered" /\ copies[e] > 0
    BY <1>6, <2>1 DEF ProducerCommit, StageOf, Settled, SuccessHasCopy, Tx
  <2>. QED BY <1>2, <1>6, <2>2, <2>3, <2>4 DEF ProducerCommit
<1>7. ASSUME NEW p \in Producer, ProducerRollback(p)
      PROVE  [Contract!CNext]_(Contract!cvars)
  BY <1>7 DEF ProducerRollback, rowVars, StageOf, Settled, Contract!cvars
<1>8. ASSUME NEW s \in Sweeper, SweepClaim(s)
      PROVE  [Contract!CNext]_(Contract!cvars)
  <2>1. \A e \in Event : stage'[e] = stage[e]
    BY <1>8 DEF SweepClaim, StageOf, Settled, Claimable, Eligible
  <2>. QED BY <1>2, <1>8, <2>1 DEF SweepClaim
<1>9. ASSUME NEW s \in Sweeper, NEW e \in Event, NEW o \in Outcome,
             SweepPublish(s, e, o)
      PROVE  [Contract!CNext]_(Contract!cvars)
  <2>1. stage[e] \in {"absent", "owed"}
    BY <1>9 DEF SweepPublish, BatchesAreSending, Batch, StageOf, Settled
  <2>. QED BY <1>1, <1>9, <2>1 DEF SweepPublish, rowVars
<1>10. ASSUME NEW s \in Sweeper, SweepFinalize(s)
       PROVE  [Contract!CNext]_(Contract!cvars)
  <2>1. \A e \in Batch(s) : stage[e] = "owed"
    BY DEF BatchesAreSending, Batch, StageOf, Settled
  <2>2. \A e \in Event : e \notin Batch(s) => stage'[e] = stage[e]
    BY <1>10 DEF SweepFinalize, FinalStatus, Batch, StageOf, Settled
  <2>3. \A e \in sent[s] : stage'[e] = "delivered" /\ copies[e] > 0
    BY <1>10 DEF SweepFinalize, FinalStatus, StageOf, Settled, SuccessHasCopy
  <2>4. \A e \in Batch(s) \ sent[s] : stage'[e] \in {"owed", "abandoned"}
    BY <1>10 DEF SweepFinalize, FinalStatus, Batch, StageOf, Settled
  <2>. QED BY <1>2, <1>10, <2>1, <2>2, <2>3, <2>4 DEF SweepFinalize, Batch
<1>11. ASSUME NEW s \in Sweeper, SweepAbort(s)
       PROVE  [Contract!CNext]_(Contract!cvars)
  BY <1>11 DEF SweepAbort, rowVars, StageOf, Settled, Contract!cvars
<1>12. CASE UNCHANGED vars
  BY <1>12 DEF vars, StageOf, Settled, Contract!cvars
<1>. QED BY <1>3, <1>4, <1>5, <1>6, <1>7, <1>8, <1>9, <1>10, <1>11, <1>12
         DEF Next

THEOREM OutboxImplementsContract == Spec => ImplementsContract
<1>1. Init => Contract!CInit
  BY DEF Init, Contract!CInit, StageOf
<1>2. IndInv /\ [Next]_vars => [Contract!CNext]_(Contract!cvars)
  BY StepContract
<1>. QED BY <1>1, <1>2, OutboxInductive, PTL DEF Spec, ImplementsContract, Contract!CSpec

(* What a reader of the events sees of a step: copies never disappear, a    *)
(* new one belongs to an event the outbox is not done with, an event that  *)
(* is recorded stays recorded, and one that is abandoned stays so.         *)
LEMMA StepSeen ==
  ASSUME IndInv, [Next]_vars, NEW e \in Event
  PROVE  /\ copies'[e] \in Nat /\ copies[e] \in Nat /\ copies'[e] >= copies[e]
         /\ copies'[e] # copies[e] => /\ StageOf(e) \in {"absent", "owed"}
                                     /\ StageOf(e)' = StageOf(e)
         /\ StageOf(e) = "abandoned" => StageOf(e)' = "abandoned"
         /\ StageOf(e)' = "absent" => StageOf(e) = "absent"
<1>. DEFINE stage == [f \in Event |-> StageOf(f)]
<1>1. copies \in [Event -> Nat] /\ copies' \in [Event -> Nat]
  BY StepIndInv DEF IndInv, TypeOK
<1>2. stage[e] = StageOf(e) /\ stage'[e] = StageOf(e)'
  OBVIOUS
<1>3. CASE Contract!Record
  BY <1>1, <1>2, <1>3 DEF Contract!Record, Contract!Open
<1>4. ASSUME NEW f \in Event, Contract!Publish(f)
      PROVE  /\ copies'[e] # copies[e] => e = f
             /\ copies'[e] >= copies[e]
             /\ stage[f] \in {"absent", "owed"} /\ stage' = stage
  BY <1>1, <1>4 DEF Contract!Publish, Contract!Open
<1>5. CASE UNCHANGED Contract!cvars
  BY <1>1, <1>2, <1>5 DEF Contract!cvars
<1>. QED BY <1>1, <1>2, <1>3, <1>4, <1>5, StepContract DEF Contract!CNext
=============================================================================
