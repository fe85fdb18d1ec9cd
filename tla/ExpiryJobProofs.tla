-------------------------- MODULE ExpiryJobProofs ---------------------------
(***************************************************************************)
(* Proofs about ExpiryJob, for any items, runs, days and bounds.           *)
(***************************************************************************)
EXTENDS ExpiryJob, FiniteSetTheorems, TLAPS

USE ExpiryAssumption DEF ExpiryAssumption

(* How many runs hold an alert is a number, at most that of all runs.      *)
LEMMA HoldersCounted ==
  ASSUME NEW a
  PROVE  /\ IsFiniteSet(Holders(a))
         /\ Cardinality(Holders(a)) \in Nat
         /\ Cardinality(Job) \in Nat
         /\ Cardinality(Holders(a)) <= Cardinality(Job)
  BY FS_Subset, FS_CardinalityType DEF Holders

LEMMA HoldersCountedNext ==
  ASSUME NEW a
  PROVE  /\ IsFiniteSet(Holders(a)')
         /\ Cardinality(Holders(a)') \in Nat
         /\ Cardinality(Holders(a)') <= Cardinality(Job)
  BY FS_Subset, FS_CardinalityType DEF Holders

(* AttemptsBounded holds after a step that gives an alert to no run and    *)
(* charges it no attempt.                                                  *)
LEMMA AttemptsBoundedKept ==
  ASSUME TypeOK, AttemptsBounded, TypeOK',
         \A a \in Alert : Holders(a)' \subseteq Holders(a),
         \A a \in Alert : attempts'[a] <= attempts[a]
  PROVE  AttemptsBounded'
<1>. SUFFICES ASSUME NEW a \in Alert
              PROVE  (attempts[a] + Cardinality(Holders(a))
                        < MaxAttempts + Cardinality(Job))'
  BY DEF AttemptsBounded
<1>1. Cardinality(Holders(a)') <= Cardinality(Holders(a))
  BY HoldersCounted, FS_Subset
<1>2. attempts[a] \in Nat /\ attempts'[a] \in Nat
  BY DEF TypeOK
<1>. QED
  BY <1>1, <1>2, HoldersCounted, HoldersCountedNext DEF AttemptsBounded

(* The initial state satisfies the invariant.                              *)
LEMMA InitIndInv == Init => IndInv
<1>. SUFFICES ASSUME Init PROVE IndInv
  OBVIOUS
<1>1. TypeOK
  <2>1. \A j \in Job : Batch(j) = {}
    BY DEF Init, Batch
  <2>2. today \in 0..LastDay /\ edits \in 0..MaxEdits /\ faults \in 0..MaxFaults
        /\ skips \in 0..MaxSkips
    BY DEF Init
  <2>3. batches \in [Job -> 0..MaxBatches] /\ attempts \in [Alert -> Nat]
    BY DEF Init
  <2>. QED BY <2>1, <2>2, <2>3 DEF Init, TypeOK
<1>3. NoFutureAlert /\ SuccessAnnounced /\ PublishedHasEvent
  BY DEF Init, NoFutureAlert, SuccessAnnounced, PublishedHasEvent, Batch
<1>2. ASSUME NEW a \in Alert
      PROVE  attempts[a] + Cardinality(Holders(a)) < MaxAttempts + Cardinality(Job)
  <2>1. Holders(a) = {}
    BY DEF Init, Holders, Batch
  <2>2. Cardinality(Holders(a)) = 0
    BY <2>1, FS_EmptySet
  <2>. QED
    <3>1. attempts[a] = 0
      BY DEF Init
    <3>. QED BY <3>1, <2>2, HoldersCounted
<1>. QED
  BY <1>1, <1>2, <1>3 DEF IndInv, AttemptsBounded

(* Items are edited, or deleted with their alerts.                         *)
LEMMA EnvironmentIndInv ==
  ASSUME IndInv, NEW i \in Item, NEW d \in Dates \cup {NoDate},
         Edit(i, d) \/ Delete(i)
  PROVE  IndInv'
<1>. USE DEF IndInv, itemVars, alertVars, runVars, batchVars, eventVars
<1>1. CASE Edit(i, d)
  <2>1. TypeOK'
    BY <1>1 DEF Edit, TypeOK, Batch
  <2>2. NoFutureAlert' /\ SuccessAnnounced' /\ PublishedHasEvent'
    BY <1>1 DEF Edit, NoFutureAlert, SuccessAnnounced, PublishedHasEvent,
                Announced, Batch
  <2>3. AttemptsBounded'
    BY <1>1, <2>1, AttemptsBoundedKept DEF Edit, Holders, Batch, TypeOK
  <2>. QED BY <2>1, <2>2, <2>3
<1>2. CASE Delete(i)
  <2>1. TypeOK'
    BY <1>2 DEF Delete, TypeOK, Batch
  <2>2. NoFutureAlert' /\ SuccessAnnounced' /\ PublishedHasEvent'
    BY <1>2 DEF Delete, NoFutureAlert, SuccessAnnounced, PublishedHasEvent,
                Announced, Batch, TypeOK
  <2>3. \A a \in Alert : attempts'[a] <= attempts[a]
    BY <1>2 DEF Delete, TypeOK
  <2>4. AttemptsBounded'
    BY <1>2, <2>1, <2>3, AttemptsBoundedKept DEF Delete, Holders, Batch
  <2>. QED BY <2>1, <2>2, <2>4
<1>. QED BY <1>1, <1>2

(* Another day: alerts only grow older.                                    *)
LEMMA MidnightIndInv == ASSUME IndInv, Midnight PROVE IndInv'
<1>. USE DEF IndInv, itemVars, alertVars, runVars, batchVars, eventVars
<1>1. TypeOK'
  BY DEF Midnight, TypeOK, Batch
<1>2. NoFutureAlert'
  BY DEF Midnight, NoFutureAlert, Batch, TypeOK, Alert
<1>3. SuccessAnnounced' /\ PublishedHasEvent'
  BY DEF Midnight, SuccessAnnounced, PublishedHasEvent, Announced
<1>4. AttemptsBounded'
  BY <1>1, AttemptsBoundedKept DEF Midnight, Holders, Batch, TypeOK
<1>. QED BY <1>1, <1>2, <1>3, <1>4

(* Only a fetch hands out alerts, and only such as have attempts left.     *)
LEMMA FetchIndInv ==
  ASSUME IndInv, NEW j \in Job, NEW locked, Fetch(j, locked)
  PROVE  IndInv'
<1>. USE DEF IndInv, itemVars, alertVars, runVars, eventVars
<1>. DEFINE pool == {a \in Alert : a.type = phase[j] /\ Fetchable(a)} \ locked
<1>1. PICK S \in SUBSET pool :
         IF S = {} THEN EndLoop(j) /\ UNCHANGED <<todo, dated>>
         ELSE /\ todo' = [todo EXCEPT ![j] = S]
              /\ dated' = [dated EXCEPT ![j] = {a \in S : HasDate(a.item)}]
              /\ batches' = [batches EXCEPT ![j] = @ + 1]
              /\ UNCHANGED phase
  BY DEF Fetch, Batches
<1>2. UNCHANGED <<today, expiry, edits, alert, attempts, gaveUp, good, failed,
                  recorded, dropped, faults>> /\ BetweenBatches(j)
  BY DEF Fetch
<1>3. skips' \in 0..MaxSkips /\ batches[j] < MaxBatches
  BY DEF Fetch, TypeOK
<1>4. CASE S = {}
  <2>1. TypeOK'
    BY <1>1, <1>2, <1>3, <1>4 DEF EndLoop, After, BetweenBatches, Type, TypeOK, Batch
  <2>2. NoFutureAlert' /\ SuccessAnnounced' /\ PublishedHasEvent'
    BY <1>1, <1>2, <1>4 DEF NoFutureAlert, SuccessAnnounced, PublishedHasEvent,
                            Announced, Batch
  <2>3. AttemptsBounded'
    BY <1>1, <1>2, <1>4, <2>1, AttemptsBoundedKept DEF Holders, Batch, TypeOK
  <2>. QED BY <2>1, <2>2, <2>3
<1>5. CASE S # {}
  <2>1. TypeOK'
    BY <1>1, <1>2, <1>3, <1>5 DEF BetweenBatches, TypeOK, Batch
  <2>2. NoFutureAlert'
    BY <1>1, <1>2, <1>5 DEF NoFutureAlert, Batch, Fetchable, BetweenBatches, TypeOK
  <2>3. SuccessAnnounced' /\ PublishedHasEvent'
    BY <1>2 DEF SuccessAnnounced, PublishedHasEvent, Announced
  <2>4. ASSUME NEW a \in Alert
        PROVE  (attempts[a] + Cardinality(Holders(a))
                  < MaxAttempts + Cardinality(Job))'
    <3>1. attempts'[a] = attempts[a] /\ attempts[a] \in Nat
      BY <1>2 DEF TypeOK
    <3>2. CASE a \in S
      <4>1. attempts[a] < MaxAttempts
        BY <3>2 DEF Fetchable
      <4>2. /\ Cardinality(Holders(a)') \in Nat /\ Cardinality(Job) \in Nat
            /\ Cardinality(Holders(a)') <= Cardinality(Job)
        BY HoldersCountedNext, HoldersCounted
      <4>. QED BY <3>1, <4>1, <4>2
    <3>3. CASE a \notin S
      <4>1. Holders(a)' = Holders(a)
        BY <1>1, <1>2, <1>5, <3>3 DEF Holders, Batch, BetweenBatches, TypeOK
      <4>. QED BY <3>1, <4>1 DEF AttemptsBounded
    <3>. QED BY <3>2, <3>3
  <2>5. AttemptsBounded'
    BY <2>4 DEF AttemptsBounded
  <2>. QED BY <2>1, <2>2, <2>3, <2>5
<1>. QED BY <1>4, <1>5

(* A run that begins or a loop that gives up hands out nothing; new alerts *)
(* are of today.                                                           *)
LEMMA LoopIndInv ==
  ASSUME IndInv, NEW j \in Job, Register(j) \/ GiveUp(j)
  PROVE  IndInv'
<1>. USE DEF IndInv, itemVars, alertVars, runVars, batchVars, eventVars
<1>1. CASE Register(j)
  <2>1. TypeOK'
    <3>1. alert' \in [Alert -> {"absent", "open", "published"}]
      BY <1>1 DEF Register, TypeOK
    <3>2. phase' \in [Job -> Type \cup {"idle"}]
      BY <1>1 DEF Register, TypeOK, Type
    <3>3. \A k \in Job : \A a \in Batch(k)' : a.type = phase'[k]
      BY <1>1 DEF Register, TypeOK, Batch, Type, Alert
    <3>. QED BY <1>1, <3>1, <3>2, <3>3 DEF Register, TypeOK
  <2>2. NoFutureAlert'
    BY <1>1 DEF Register, NoFutureAlert, Unregistered, Batch, TypeOK
  <2>3. SuccessAnnounced' /\ PublishedHasEvent'
    BY <1>1 DEF Register, SuccessAnnounced, PublishedHasEvent, Announced, TypeOK
  <2>4. AttemptsBounded'
    BY <1>1, <2>1, AttemptsBoundedKept DEF Register, Holders, Batch, TypeOK
  <2>. QED BY <2>1, <2>2, <2>3, <2>4
<1>2. CASE GiveUp(j)
  <2>1. TypeOK'
    BY <1>2 DEF GiveUp, EndLoop, After, BetweenBatches, Type, TypeOK, Batch
  <2>2. NoFutureAlert' /\ SuccessAnnounced' /\ PublishedHasEvent'
    BY <1>2 DEF GiveUp, NoFutureAlert, SuccessAnnounced, PublishedHasEvent,
                Announced, Batch
  <2>3. AttemptsBounded'
    BY <1>2, <2>1, AttemptsBoundedKept DEF GiveUp, Holders, Batch, TypeOK
  <2>. QED BY <2>1, <2>2, <2>3
<1>. QED BY <1>1, <1>2

(* A success records the event of today, which is no older than the alert; *)
(* an exception records nothing and is no success.                         *)
LEMMA PublishIndInv ==
  ASSUME IndInv, NEW j \in Job, NEW a \in todo[j],
         NEW outcome \in {"committed", "raised"}, Publish(j, a, outcome)
  PROVE  IndInv'
<1>. USE DEF IndInv, itemVars, alertVars, runVars, eventVars
<1>. DEFINE event == [a EXCEPT !.day = today]
<1>1. a \in Alert /\ a \in Batch(j) /\ a.day <= today /\ today \in 0..LastDay
  BY DEF TypeOK, Batch, NoFutureAlert
<1>2. /\ event \in Alert /\ event.item = a.item /\ event.type = a.type
      /\ event.day = today
  BY <1>1 DEF Alert
<1>3. /\ UNCHANGED <<today, expiry, edits, alert, attempts, phase, batches,
                     gaveUp, dated, faults, skips>>
      /\ todo' = [todo EXCEPT ![j] = @ \ {a}]
  BY DEF Publish
<1>4. \/ /\ outcome = "committed" /\ a \in dated[j]
         /\ recorded' = recorded \cup {event} /\ dropped' = dropped
      \/ /\ outcome = "committed" /\ a \notin dated[j]
         /\ dropped' = dropped \cup {a} /\ recorded' = recorded
      \/ outcome = "raised" /\ recorded' = recorded /\ dropped' = dropped
  BY DEF Publish
<1>5. \/ /\ outcome = "committed"
         /\ good' = [good EXCEPT ![j] = @ \cup {a}] /\ failed' = failed
      \/ /\ outcome = "raised"
         /\ failed' = [failed EXCEPT ![j] = @ \cup {a}] /\ good' = good
  BY DEF Publish, Successful
<1>6. \A k \in Job : Batch(k)' = Batch(k)
  BY <1>3, <1>5 DEF Batch, TypeOK
<1>7. TypeOK'
  <2>1. recorded' \in SUBSET Alert /\ dropped' \in SUBSET Alert
    BY <1>1, <1>2, <1>4 DEF TypeOK
  <2>2. /\ todo' \in [Job -> SUBSET Alert]
        /\ good' \in [Job -> SUBSET Alert]
        /\ failed' \in [Job -> SUBSET Alert]
    BY <1>1, <1>3, <1>5 DEF TypeOK
  <2>. QED BY <1>3, <1>6, <2>1, <2>2 DEF TypeOK
<1>8. NoFutureAlert'
  BY <1>3, <1>6 DEF NoFutureAlert
<1>9. \A b \in Alert : Announced(b) => Announced(b)'
  BY <1>4 DEF Announced
<1>10. outcome = "committed" => Announced(a)'
  BY <1>1, <1>2, <1>4 DEF Announced
<1>11. SuccessAnnounced'
  BY <1>5, <1>9, <1>10 DEF SuccessAnnounced, TypeOK
<1>12. PublishedHasEvent'
  BY <1>3, <1>9 DEF PublishedHasEvent
<1>13. AttemptsBounded'
  BY <1>3, <1>6, <1>7, AttemptsBoundedKept DEF Holders, TypeOK
<1>. QED BY <1>7, <1>8, <1>11, <1>12, <1>13

(* Marking charges the alerts of the batch one attempt and lets go of      *)
(* them, so what an overlapping run may still add stays within the bound.  *)
LEMMA MarkIndInv ==
  ASSUME IndInv, NEW j \in Job, Mark(j)
  PROVE  IndInv'
<1>. USE DEF IndInv, itemVars, runVars, eventVars
<1>1. /\ UNCHANGED <<today, expiry, edits, phase, batches, gaveUp, todo,
                     recorded, dropped, faults, skips>>
      /\ todo[j] = {}
      /\ good' = [good EXCEPT ![j] = {}]
      /\ failed' = [failed EXCEPT ![j] = {}]
      /\ dated' = [dated EXCEPT ![j] = {}]
  BY DEF Mark
<1>2. \A a \in Alert :
         /\ alert'[a] = IF a \in good[j] /\ alert[a] = "open"
                        THEN "published" ELSE alert[a]
         /\ attempts'[a] = IF a \in good[j] \cup failed[j] /\ alert[a] = "open"
                           THEN attempts[a] + 1 ELSE attempts[a]
  BY DEF Mark, Markable
<1>3. Batch(j)' = {} /\ \A k \in Job \ {j} : Batch(k)' = Batch(k)
  BY <1>1 DEF Batch, TypeOK
<1>4. TypeOK'
  <2>1. alert' \in [Alert -> {"absent", "open", "published"}]
    BY DEF Mark, TypeOK
  <2>2. attempts' \in [Alert -> Nat]
    BY DEF Mark, TypeOK
  <2>3. /\ good' \in [Job -> SUBSET Alert]
        /\ failed' \in [Job -> SUBSET Alert]
        /\ dated' \in [Job -> SUBSET Alert]
    BY <1>1 DEF TypeOK
  <2>. QED BY <1>1, <1>3, <2>1, <2>2, <2>3 DEF TypeOK
<1>5. NoFutureAlert'
  BY <1>1, <1>2, <1>3 DEF NoFutureAlert
<1>6. SuccessAnnounced'
  BY <1>1 DEF SuccessAnnounced, Announced, TypeOK
<1>7. PublishedHasEvent'
  BY <1>1, <1>2 DEF PublishedHasEvent, SuccessAnnounced, Announced
<1>8. ASSUME NEW a \in Alert
      PROVE  (attempts[a] + Cardinality(Holders(a))
                < MaxAttempts + Cardinality(Job))'
  <2>1. /\ attempts[a] \in Nat
        /\ attempts[a] + Cardinality(Holders(a)) < MaxAttempts + Cardinality(Job)
    BY DEF TypeOK, AttemptsBounded
  <2>2. /\ IsFiniteSet(Holders(a)) /\ Cardinality(Holders(a)) \in Nat
        /\ Cardinality(Holders(a)') \in Nat /\ Cardinality(Job) \in Nat
    BY HoldersCounted, HoldersCountedNext
  <2>3. Holders(a)' = Holders(a) \ {j}
    BY <1>3 DEF Holders
  <2>4. CASE a \in good[j] \cup failed[j]
    <3>1. j \in Holders(a)
      BY <2>4 DEF Holders, Batch
    <3>2. Cardinality(Holders(a)') = Cardinality(Holders(a)) - 1
      BY <2>2, <2>3, <3>1, FS_RemoveElement
    <3>3. attempts'[a] <= attempts[a] + 1 /\ attempts'[a] \in Nat
      BY <1>2, <2>1
    <3>. QED BY <2>1, <2>2, <3>2, <3>3
  <2>5. CASE a \notin good[j] \cup failed[j]
    <3>1. attempts'[a] = attempts[a]
      BY <1>2, <2>5
    <3>2. Cardinality(Holders(a)') <= Cardinality(Holders(a))
      BY <2>2, <2>3, FS_Subset
    <3>. QED BY <2>1, <2>2, <3>1, <3>2
  <2>. QED BY <2>4, <2>5
<1>9. AttemptsBounded'
  BY <1>8 DEF AttemptsBounded
<1>. QED BY <1>4, <1>5, <1>6, <1>7, <1>9

(* An aborted run forgets its batch.                                       *)
LEMMA AbortIndInv ==
  ASSUME IndInv, NEW j \in Job, Abort(j)
  PROVE  IndInv'
<1>. USE DEF IndInv, itemVars, alertVars, eventVars
<1>1. Batch(j)' = {} /\ \A k \in Job \ {j} : Batch(k)' = Batch(k)
  BY DEF Abort, Batch, TypeOK
<1>2. TypeOK'
  <2>1. /\ phase' \in [Job -> Type \cup {"idle"}]
        /\ \A k \in Job \ {j} : phase'[k] = phase[k]
    BY DEF Abort, TypeOK
  <2>2. batches' \in [Job -> 0..MaxBatches] /\ faults' \in 0..MaxFaults
    BY DEF Abort, TypeOK
  <2>3. /\ todo' \in [Job -> SUBSET Alert]
        /\ good' \in [Job -> SUBSET Alert]
        /\ failed' \in [Job -> SUBSET Alert]
        /\ dated' \in [Job -> SUBSET Alert]
    BY DEF Abort, TypeOK
  <2>. QED BY <1>1, <2>1, <2>2, <2>3 DEF Abort, TypeOK
<1>3. NoFutureAlert'
  BY <1>1 DEF Abort, NoFutureAlert
<1>4. SuccessAnnounced' /\ PublishedHasEvent'
  BY DEF Abort, SuccessAnnounced, PublishedHasEvent, Announced, TypeOK
<1>5. AttemptsBounded'
  BY <1>1, <1>2, AttemptsBoundedKept DEF Abort, Holders, TypeOK
<1>. QED BY <1>2, <1>3, <1>4, <1>5

LEMMA StutterIndInv == ASSUME IndInv, UNCHANGED vars PROVE IndInv'
  BY DEF IndInv, vars, itemVars, alertVars, runVars, batchVars, eventVars,
     TypeOK, NoFutureAlert, SuccessAnnounced, PublishedHasEvent,
     AttemptsBounded, Announced, Holders, Batch

(* The inductive invariant of the expiry job.                              *)
THEOREM ExpiryInductive == Spec => []IndInv
<1>1. IndInv /\ [Next]_vars => IndInv'
  <2>. SUFFICES ASSUME IndInv, [Next]_vars PROVE IndInv'
    OBVIOUS
  <2>1. ASSUME NEW j \in Job, Continue(j) PROVE IndInv'
    BY <2>1, FetchIndInv, LoopIndInv, PublishIndInv, MarkIndInv DEF Continue
  <2>2. ASSUME NEW j \in Job, NEW a \in Alert, Fetch(j, {a}) PROVE IndInv'
    BY <2>2, FetchIndInv
  <2>3. ASSUME NEW j \in Job, Register(j) \/ Abort(j) PROVE IndInv'
    BY <2>3, LoopIndInv, AbortIndInv
  <2>4. ASSUME NEW i \in Item, NEW d \in Dates \cup {NoDate}, Edit(i, d)
        PROVE  IndInv'
    BY <2>4, EnvironmentIndInv
  <2>5. ASSUME NEW i \in Item, Delete(i) PROVE IndInv'
    BY <2>5, EnvironmentIndInv
  <2>6. CASE Midnight
    BY <2>6, MidnightIndInv
  <2>7. CASE UNCHANGED vars
    BY <2>7, StutterIndInv
  <2>. QED BY <2>1, <2>2, <2>3, <2>4, <2>5, <2>6, <2>7 DEF Next
<1>. QED BY <1>1, InitIndInv, PTL DEF Spec

(* The types of the alert table, the runs and their batches; a run's batch *)
(* is of the type it is publishing.                                        *)
THEOREM ExpiryTypeOK == Spec => []TypeOK
  BY ExpiryInductive, PTL DEF IndInv

(* No alert is marked published before its event is recorded.              *)
THEOREM ExpiryPublishedHasEvent == Spec => []PublishedHasEvent
  BY ExpiryInductive, PTL DEF IndInv

(* publish_attempts stays below max_attempts plus the number of runs.      *)
THEOREM ExpiryAttemptsBounded == Spec => []AttemptsBounded
  BY ExpiryInductive, PTL DEF IndInv

(* The late results of an overlapping run never change a published alert.  *)
THEOREM ExpiryPublishedIsFinal == Spec => PublishedIsFinal
<1>. DEFINE Final(a) ==
       alert[a] = "published" => \/ alert'[a] = "published" /\ attempts'[a] = attempts[a]
                                 \/ expiry'[a.item] = Deleted
<1>1. IndInv /\ [Next]_vars => \A a \in Alert : Final(a)
  <2>. SUFFICES ASSUME IndInv, [Next]_vars, NEW a \in Alert,
                       alert[a] = "published"
                PROVE  \/ alert'[a] = "published" /\ attempts'[a] = attempts[a]
                       \/ expiry'[a.item] = Deleted
    OBVIOUS
  <2>1. CASE UNCHANGED alertVars
    BY <2>1 DEF alertVars
  <2>2. ASSUME NEW j \in Job, Register(j)
        PROVE  alert'[a] = "published" /\ attempts'[a] = attempts[a]
    BY <2>2 DEF Register, Unregistered
  <2>3. ASSUME NEW j \in Job, Mark(j)
        PROVE  alert'[a] = "published" /\ attempts'[a] = attempts[a]
    BY <2>3 DEF Mark, Markable
  <2>4. ASSUME NEW i \in Item, Delete(i)
        PROVE  \/ alert'[a] = "published" /\ attempts'[a] = attempts[a]
               \/ expiry'[a.item] = Deleted
    BY <2>4 DEF Delete, IndInv, TypeOK
  <2>5. ASSUME NEW j \in Job, Continue(j)
        PROVE  Mark(j) \/ UNCHANGED alertVars
    BY <2>5 DEF Continue, Fetch, GiveUp, Publish
  <2>6. ASSUME NEW j \in Job, Abort(j) \/ \E b \in Alert : Fetch(j, {b})
        PROVE  UNCHANGED alertVars
    BY <2>6 DEF Abort, Fetch
  <2>7. ASSUME Midnight \/ \E i \in Item, d \in Dates \cup {NoDate} : Edit(i, d)
        PROVE  UNCHANGED alertVars
    BY <2>7 DEF Midnight, Edit
  <2>8. CASE UNCHANGED vars
    BY <2>8, <2>1 DEF vars, alertVars
  <2>. QED
    BY <2>1, <2>2, <2>3, <2>4, <2>5, <2>6, <2>7, <2>8 DEF Next
<1>. QED BY <1>1, ExpiryInductive, PTL DEF Spec, PublishedIsFinal

(* What is ahead of an item that comes before another is ahead of that one. *)
LEMMA ForemostIsInitial ==
  ASSUME TypeOK, NEW type \in Type, NEW i \in Foremost(type),
         NEW k \in Item, Candidate(k, type), expiry[k] < expiry[i]
  PROVE  k \in Foremost(type)
<1>. DEFINE C == {x \in Item : Candidate(x, type)}
            Ahead(y) == {x \in C : Before(x, y)}
<1>1. i \in C /\ k \in C /\ Cardinality(Ahead(i)) < Limit
  BY DEF Foremost
<1>2. \A x \in C : expiry[x] \in Nat
  BY DEF Candidate, HasDate, TypeOK
<1>3. Ahead(k) \subseteq Ahead(i)
  <2>. SUFFICES ASSUME NEW x \in C, Before(x, k) PROVE Before(x, i)
    OBVIOUS
  <2>1. expiry[x] \in Nat /\ expiry[k] \in Nat /\ expiry[i] \in Nat
    BY <1>1, <1>2
  <2>2. expiry[x] <= expiry[k]
    BY <2>1 DEF Before
  <2>3. expiry[x] < expiry[i]
    BY <2>1, <2>2
  <2>. QED BY <2>3 DEF Before
<1>4. IsFiniteSet(Ahead(i)) /\ IsFiniteSet(Ahead(k))
  <2>1. Ahead(i) \subseteq Item /\ Ahead(k) \subseteq Item
    OBVIOUS
  <2>. QED BY <2>1, FS_Subset
<1>5. /\ Cardinality(Ahead(k)) <= Cardinality(Ahead(i))
      /\ Cardinality(Ahead(k)) \in Nat /\ Cardinality(Ahead(i)) \in Nat
  BY <1>3, <1>4, FS_Subset, FS_CardinalityType
<1>6. Cardinality(Ahead(k)) < Limit
  BY <1>1, <1>5
<1>. QED BY <1>1, <1>6 DEF Foremost

(* The limit of a registration never prefers an item to one that expires   *)
(* sooner.                                                                 *)
THEOREM ExpirySoonestFirst == Spec => SoonestFirst
<1>. DEFINE Sooner(a, k) ==
       /\ alert[a] = "absent" /\ alert'[a] # "absent"
       /\ Candidate(k, a.type) /\ expiry[k] < expiry[a.item]
       => alert'[[a EXCEPT !.item = k]] # "absent"
<1>1. IndInv /\ [Next]_vars => \A a \in Alert, k \in Item : Sooner(a, k)
  <2>. SUFFICES ASSUME IndInv, [Next]_vars, NEW a \in Alert, NEW k \in Item,
                       alert[a] = "absent", alert'[a] # "absent",
                       Candidate(k, a.type), expiry[k] < expiry[a.item]
                PROVE  alert'[[a EXCEPT !.item = k]] # "absent"
    OBVIOUS
  <2>1. ASSUME NEW j \in Job, Register(j)
        PROVE  alert'[[a EXCEPT !.item = k]] # "absent"
    <3>. DEFINE b == [a EXCEPT !.item = k]
    <3>1. /\ b \in Alert
          /\ b.item = k /\ b.type = a.type /\ b.day = a.day /\ a.type \in Type
      BY DEF Alert
    <3>2. a.day = today /\ a.item \in Foremost(a.type)
      BY <2>1 DEF Register, Unregistered
    <3>3. k \in Foremost(a.type)
      BY <3>1, <3>2, ForemostIsInitial DEF IndInv
    <3>. HIDE DEF b
    <3>4. alert'[b] # "absent"
      BY <2>1, <3>1, <3>2, <3>3 DEF Register, Unregistered
    <3>. QED BY <3>4 DEF b
  <2>2. ASSUME NEW j \in Job, Mark(j) PROVE FALSE
    BY <2>2 DEF Mark, Markable
  <2>3. ASSUME NEW i \in Item, Delete(i) PROVE FALSE
    BY <2>3 DEF Delete
  <2>4. CASE UNCHANGED alertVars
    BY <2>4 DEF alertVars
  <2>5. ASSUME NEW j \in Job, Continue(j)
        PROVE  Mark(j) \/ UNCHANGED alertVars
    BY <2>5 DEF Continue, Fetch, GiveUp, Publish
  <2>6. ASSUME NEW j \in Job, Abort(j) \/ \E b \in Alert : Fetch(j, {b})
        PROVE  UNCHANGED alertVars
    BY <2>6 DEF Abort, Fetch
  <2>7. ASSUME Midnight \/ \E i \in Item, d \in Dates \cup {NoDate} : Edit(i, d)
        PROVE  UNCHANGED alertVars
    BY <2>7 DEF Midnight, Edit
  <2>8. CASE UNCHANGED vars
    BY <2>8 DEF vars, alertVars
  <2>. QED
    BY <2>1, <2>2, <2>3, <2>4, <2>5, <2>6, <2>7, <2>8 DEF Next
<1>. QED BY <1>1, ExpiryInductive, PTL DEF Spec, SoonestFirst
=============================================================================
