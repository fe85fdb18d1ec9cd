--------------------------- MODULE DeliveryProofs ---------------------------
(***************************************************************************)
(* Proofs about Delivery, for any events, deliveries, workers and          *)
(* claimers, any outcome of a send and any number of faults, and, in the   *)
(* second half, about Pipeline, where the outbox and the broker feed it.   *)
(***************************************************************************)
EXTENDS Pipeline, FiniteSetTheorems, TLAPS

USE DeliveryAssumption

\* A row that is not there has used no attempt.
AbsentIsFresh == \A d \in Delivery : status[d] = "ABSENT" => attempts[d] = 0

\* A claimer that works on nothing holds nothing.
IdleHoldsNothing == \A c \in Claimer : doing[c] = NoEvent => Held(c) = {}

\* What a claimer is about to report as sent was sent.
OkWasSent == \A c \in Claimer : \A d \in ok[c] : sends[d] > 0

\* While no claimer at work has lost a lease, whoever holds a delivery made
\* its latest claim, and the lease of that claim still keeps others away.
HeldIsLeased ==
    slow = 0 => \A c \in Claimer : \A d \in Held(c) :
                   holder[d] = c /\ status[d] = "SENDING" /\ live[d]

Shape == TypeOK /\ AbsentIsFresh /\ IdleHoldsNothing

IndInv == /\ Shape
          /\ OkWasSent
          /\ SentWasSent
          /\ HeldIsLeased
          /\ SendsBounded

\* The claimers that are about to send a delivery.
Senders(d) == {c \in Claimer : d \in todo[c]}

-----------------------------------------------------------------------------
(* Counting                                                                *)

LEMMA SomeClaimers ==
  ASSUME NEW C \in SUBSET Claimer
  PROVE  IsFiniteSet(C) /\ Cardinality(C) \in Nat
BY FS_Subset, FS_CardinalityType

LEMMA FewerClaimers ==
  ASSUME NEW C \in SUBSET Claimer, NEW B \in SUBSET C
  PROVE  Cardinality(B) <= Cardinality(C)
<1>1. IsFiniteSet(C)
  BY SomeClaimers
<1>. QED BY <1>1, FS_Subset

LEMMA OneMoreClaimer ==
  ASSUME NEW C \in SUBSET Claimer, NEW c \in Claimer
  PROVE  Cardinality(C \cup {c}) <= Cardinality(C) + 1
<1>1. IsFiniteSet(C) /\ Cardinality(C) \in Nat
  BY SomeClaimers
<1>2. CASE c \in C
  <2>1. C \cup {c} = C
    BY <1>2
  <2>. QED BY <1>1, <2>1
<1>3. CASE c \notin C
  <2>1. Cardinality(C \cup {c}) = Cardinality(C) + 1
    BY <1>1, <1>3, FS_AddElement
  <2>. QED BY <1>1, <2>1
<1>. QED BY <1>2, <1>3

LEMMA OneClaimerLess ==
  ASSUME NEW C \in SUBSET Claimer, NEW c \in C
  PROVE  Cardinality(C \ {c}) = Cardinality(C) - 1
BY SomeClaimers, FS_RemoveElement

LEMMA RequeueType ==
  ASSUME TypeOK, NEW C \in SUBSET Claimer, Requeue(C)
  PROVE  ready' \in [Event -> Nat]
<1>1. ASSUME NEW e \in Event PROVE Unacked(C, e) \in Nat
  BY SomeClaimers DEF Unacked
<1>. QED BY <1>1 DEF Requeue, TypeOK

-----------------------------------------------------------------------------
(* Claims                                                                  *)

LEMMA InitIndInv == Init => IndInv
<1>. SUFFICES ASSUME Init PROVE IndInv
  OBVIOUS
<1>1. Shape
  BY DEF Init, Shape, TypeOK, Status, AbsentIsFresh, IdleHoldsNothing, Held
<1>2. OkWasSent /\ SentWasSent /\ HeldIsLeased
  BY DEF Init, OkWasSent, SentWasSent, HeldIsLeased, Held
<1>3. SendsBounded
  <2>1. \A d \in Delivery : {c \in Claimer : d \in todo[c]} = {}
    BY DEF Init
  <2>2. Cardinality({}) = 0
    BY FS_EmptySet
  <2>3. \A d \in Delivery : sends[d] = 0 /\ attempts[d] = 0
    BY DEF Init
  <2>4. ASSUME NEW d \in Delivery
        PROVE  sends[d] + Cardinality({c \in Claimer : d \in todo[c]}) <= attempts[d]
    <3>1. Cardinality({c \in Claimer : d \in todo[c]}) = 0
      BY <2>1, <2>2
    <3>. QED BY <2>3, <3>1
  <2>. QED BY <2>4 DEF SendsBounded
<1>. QED BY <1>1, <1>2, <1>3 DEF IndInv

\* What a claim may take: rows with an attempt left that nobody keeps.
Takable(S) ==
    \A d \in S : /\ attempts[d] < MaxAttempts
                 /\ status[d] \in {"ABSENT", "FAILED"} \/ (status[d] = "SENDING" /\ ~live[d])

LEMMA ClaimSetTakable ==
  ASSUME Shape, NEW c \in Claimer, NEW e \in Event
  PROVE  ClaimSet(c, e) \in SUBSET Delivery /\ Takable(ClaimSet(c, e))
BY DEF Shape, TypeOK, AbsentIsFresh, ClaimSet, RowsOf, Retryable, Takable

\* A claim by an idle claimer, whatever happens to the queue.
LEMMA ClaimPreserves ==
  ASSUME IndInv, NEW c \in Claimer, NEW e \in Event,
         NEW S \in SUBSET Delivery, Takable(S),
         doing[c] = NoEvent, Claim(c, e, S), ready' \in [Event -> Nat],
         UNCHANGED <<ok, bad, sends, faults, slow>>
  PROVE  IndInv'
<1>. USE DEF IndInv, Shape
<1>1. TypeOK'
  <2>1. attempts' \in [Delivery -> 0..MaxAttempts]
    BY DEF TypeOK, Claim, Charged, Takable
  <2>. QED BY <2>1 DEF TypeOK, Claim, Status
<1>2. AbsentIsFresh'
  BY DEF TypeOK, AbsentIsFresh, Claim
<1>3. Held(c) = {} /\ todo'[c] = S /\ ok'[c] = {} /\ bad'[c] = {}
  BY DEF TypeOK, IdleHoldsNothing, Held, Claim
<1>4. \A k \in Claimer \ {c} : Held(k)' = Held(k) /\ doing'[k] = doing[k]
  BY DEF TypeOK, Held, Claim
<1>5. Held(c)' = S /\ doing'[c] # NoEvent
  BY <1>3 DEF TypeOK, Held, Claim
<1>6. IdleHoldsNothing'
  BY <1>4, <1>5 DEF IdleHoldsNothing
<1>7. OkWasSent'
  BY DEF OkWasSent
<1>8. SentWasSent'
  BY DEF TypeOK, SentWasSent, Claim
<1>9. HeldIsLeased'
  <2>. SUFFICES ASSUME slow = 0, NEW k \in Claimer, NEW d \in Held(k)'
                PROVE  holder'[d] = k /\ status'[d] = "SENDING" /\ live'[d]
    BY DEF HeldIsLeased
  <2>1. CASE k = c
    BY <2>1, <1>5 DEF Claim
  <2>2. CASE k # c
    <3>1. d \in Delivery /\ holder[d] = k /\ status[d] = "SENDING" /\ live[d]
      BY <2>2, <1>4 DEF HeldIsLeased, Held, TypeOK
    <3>2. d \notin S
      BY <3>1 DEF Takable
    <3>. QED BY <3>1, <3>2 DEF Claim
  <2>. QED BY <2>1, <2>2
<1>10. SendsBounded'
  <2>. SUFFICES ASSUME NEW d \in Delivery
                PROVE  sends[d] + Cardinality(Senders(d)') <= attempts'[d]
    BY DEF SendsBounded, Senders
  <2>1. /\ sends[d] \in Nat
        /\ attempts[d] \in Nat
        /\ sends[d] + Cardinality(Senders(d)) <= attempts[d]
    BY DEF TypeOK, SendsBounded, Senders
  <2>2. Senders(d) \in SUBSET Claimer /\ Senders(d)' \in SUBSET Claimer
    BY DEF Senders
  <2>3. Cardinality(Senders(d)) \in Nat /\ Cardinality(Senders(d)') \in Nat
    BY <2>2, SomeClaimers
  <2>4. CASE d \in S
    <3>1. Senders(d)' = Senders(d) \cup {c}
      BY <2>4 DEF Senders, Claim, TypeOK
    <3>2. attempts'[d] = attempts[d] + 1
      BY <2>4 DEF Claim, Charged
    <3>. QED BY <2>1, <2>2, <2>3, <3>1, <3>2, OneMoreClaimer
  <2>5. CASE d \notin S
    <3>1. Senders(d)' = Senders(d)
      BY <2>5, <1>3 DEF Senders, Claim, TypeOK, Held
    <3>2. attempts'[d] = attempts[d]
      BY <2>5 DEF Claim
    <3>. QED BY <2>1, <3>1, <3>2
  <2>. QED BY <2>4, <2>5
<1>. QED BY <1>1, <1>2, <1>6, <1>7, <1>8, <1>9, <1>10

LEMMA PreparePreserves ==
  ASSUME IndInv, NEW c \in Consumer, NEW e \in Event, Prepare(c, e)
  PROVE  IndInv'
<1>. USE DEF IndInv, Shape
<1>1. c \in Claimer /\ ready' \in [Event -> Nat]
  BY DEF Claimer, Prepare, TypeOK
<1>2. CASE ClaimSet(c, e) # {}
  BY <1>1, <1>2, ClaimSetTakable, ClaimPreserves DEF Prepare
<1>3. CASE ClaimSet(c, e) = {}
  <2>1. UNCHANGED <<rowVars, taskVars, holder, sends, faults, slow>>
    BY <1>3 DEF Prepare
  <2>. QED BY <2>1, <1>1 DEF rowVars, taskVars, TypeOK, AbsentIsFresh,
       IdleHoldsNothing, Held, OkWasSent, SentWasSent, HeldIsLeased, SendsBounded
<1>. QED BY <1>2, <1>3

LEMMA SweepClaimPreserves ==
  ASSUME IndInv, NEW c \in Sweeper, NEW e \in Event, SweepClaim(c, e)
  PROVE  IndInv'
<1>1. c \in Claimer /\ ready' \in [Event -> Nat]
  BY DEF Claimer, SweepClaim, IndInv, Shape, TypeOK
<1>. QED BY <1>1, ClaimSetTakable, ClaimPreserves DEF SweepClaim, IndInv

-----------------------------------------------------------------------------
(* Sends                                                                   *)

LEMMA SendPreserves ==
  ASSUME IndInv, NEW c \in Claimer, NEW d \in Delivery,
         NEW o \in SendOutcome, Send(c, d, o)
  PROVE  IndInv'
<1>. USE DEF IndInv, Shape
<1>1. TypeOK'
  <2>1. sends' \in [Delivery -> Nat]
    BY DEF TypeOK, Send
  <2>2. todo' \in [Claimer -> SUBSET Delivery]
    BY DEF TypeOK, Send
  <2>3. ok' \in [Claimer -> SUBSET Delivery]
    BY DEF TypeOK, Send
  <2>4. bad' \in [Claimer -> SUBSET Delivery]
    BY DEF TypeOK, Send
  <2>5. UNCHANGED <<rowVars, doing, holder, ready, faults, slow>>
    BY DEF Send
  <2>. QED BY <2>1, <2>2, <2>3, <2>4, <2>5 DEF TypeOK, rowVars
<1>2. AbsentIsFresh'
  BY DEF AbsentIsFresh, Send, rowVars
<1>3. \A k \in Claimer : Held(k)' = Held(k)
  BY DEF TypeOK, Held, Send
<1>4. IdleHoldsNothing'
  BY <1>3 DEF IdleHoldsNothing, Send
<1>5. \A x \in Delivery : sends'[x] \in Nat /\ sends[x] \in Nat /\ sends'[x] >= sends[x]
  BY DEF TypeOK, Send
<1>6. OkWasSent'
  <2>. SUFFICES ASSUME NEW k \in Claimer, NEW x \in ok'[k] PROVE sends'[x] > 0
    BY DEF OkWasSent
  <2>1. x \in Delivery
    BY <1>1 DEF TypeOK
  <2>2. CASE x \in ok[k]
    BY <2>1, <2>2, <1>5 DEF OkWasSent
  <2>3. CASE x \notin ok[k]
    <3>1. o = "sent" /\ x = d
      BY <2>3 DEF Send, TypeOK
    <3>2. sends'[d] = sends[d] + 1
      BY <3>1 DEF Send, TypeOK
    <3>. QED BY <3>1, <3>2, <1>5
  <2>. QED BY <2>2, <2>3
<1>7. SentWasSent'
  <2>. SUFFICES ASSUME NEW x \in Delivery, status[x] = "SENT" PROVE sends'[x] > 0
    BY DEF SentWasSent, Send, rowVars
  <2>. QED BY <1>5 DEF SentWasSent
<1>8. HeldIsLeased'
  BY <1>3 DEF HeldIsLeased, Send, rowVars
<1>9. SendsBounded'
  <2>. SUFFICES ASSUME NEW x \in Delivery
                PROVE  sends'[x] + Cardinality(Senders(x)') <= attempts'[x]
    BY DEF SendsBounded, Senders
  <2>1. sends[x] + Cardinality(Senders(x)) <= attempts[x] /\ attempts'[x] = attempts[x]
    BY DEF SendsBounded, Senders, Send, rowVars
  <2>2. /\ Senders(x) \in SUBSET Claimer
        /\ sends[x] \in Nat /\ attempts[x] \in Nat
    BY DEF Senders, TypeOK
  <2>3. Cardinality(Senders(x)) \in Nat
    BY <2>2, SomeClaimers
  <2>4. CASE x = d
    <3>1. c \in Senders(x) /\ Senders(x)' = Senders(x) \ {c}
      BY <2>4 DEF Senders, Send, TypeOK
    <3>2. sends'[x] <= sends[x] + 1 /\ sends'[x] \in Nat
      BY <2>4 DEF Send, TypeOK
    <3>3. Cardinality(Senders(x)') = Cardinality(Senders(x)) - 1
      BY <2>2, <3>1, OneClaimerLess
    <3>. QED BY <2>1, <2>2, <2>3, <3>2, <3>3
  <2>5. CASE x # d
    <3>1. Senders(x)' = Senders(x) /\ sends'[x] = sends[x]
      BY <2>5 DEF Senders, Send, TypeOK
    <3>. QED BY <2>1, <3>1
  <2>. QED BY <2>4, <2>5
<1>. QED BY <1>1, <1>2, <1>4, <1>6, <1>7, <1>8, <1>9

\* Who holds fewer deliveries, and sends fewer, keeps the bound.
LEMMA FewerSendersKeepBound ==
  ASSUME TypeOK, SendsBounded, TypeOK',
         \A k \in Claimer : todo'[k] \subseteq todo[k],
         UNCHANGED <<sends, attempts>>
  PROVE  SendsBounded'
<1>. SUFFICES ASSUME NEW x \in Delivery
              PROVE  sends[x] + Cardinality(Senders(x)') <= attempts[x]
  BY DEF SendsBounded, Senders
<1>1. sends[x] + Cardinality(Senders(x)) <= attempts[x]
  BY DEF SendsBounded, Senders
<1>2. Senders(x) \in SUBSET Claimer /\ Senders(x)' \in SUBSET Senders(x)
  BY DEF Senders
<1>3. /\ Cardinality(Senders(x)) \in Nat
      /\ Cardinality(Senders(x)') \in Nat
      /\ Cardinality(Senders(x)') <= Cardinality(Senders(x))
  BY <1>2, SomeClaimers, FewerClaimers
<1>. QED BY <1>1, <1>3 DEF TypeOK

LEMMA RefusePreserves ==
  ASSUME IndInv, NEW c \in Claimer, NEW d \in Delivery, Refuse(c, d)
  PROVE  IndInv'
<1>. USE DEF IndInv, Shape
<1>1. TypeOK' /\ AbsentIsFresh'
  BY DEF TypeOK, AbsentIsFresh, Refuse, rowVars
<1>2. \A k \in Claimer : Held(k)' = Held(k)
  BY DEF TypeOK, Held, Refuse
<1>3. IdleHoldsNothing' /\ HeldIsLeased'
  BY <1>2 DEF IdleHoldsNothing, HeldIsLeased, Refuse, rowVars
<1>4. OkWasSent' /\ SentWasSent'
  BY DEF OkWasSent, SentWasSent, Refuse, rowVars
<1>5. SendsBounded'
  BY <1>1, FewerSendersKeepBound DEF Refuse, rowVars, TypeOK
<1>. QED BY <1>1, <1>3, <1>4, <1>5

-----------------------------------------------------------------------------
(* Ends of a claim                                                         *)

\* Claimers that forget what they hold; nobody else notices.
LEMMA ForgetHeld ==
  ASSUME TypeOK, IdleHoldsNothing, NEW C \in SUBSET Claimer, Forget(C)
  PROVE  /\ doing' \in [Claimer -> Event \cup {NoEvent}]
         /\ todo' \in [Claimer -> SUBSET Delivery]
         /\ ok' \in [Claimer -> SUBSET Delivery]
         /\ bad' \in [Claimer -> SUBSET Delivery]
         /\ \A k \in Claimer : /\ todo'[k] \subseteq todo[k]
                               /\ ok'[k] \subseteq ok[k]
                               /\ Held(k)' = IF k \in C THEN {} ELSE Held(k)
         /\ IdleHoldsNothing'
<1>1. \A k \in Claimer :
         /\ doing'[k] = IF k \in C THEN NoEvent ELSE doing[k]
         /\ Held(k)' = IF k \in C THEN {} ELSE Held(k)
  BY DEF Forget, Held
<1>2. IdleHoldsNothing'
  BY <1>1 DEF IdleHoldsNothing
<1>3. /\ doing' \in [Claimer -> Event \cup {NoEvent}]
      /\ todo' \in [Claimer -> SUBSET Delivery]
      /\ ok' \in [Claimer -> SUBSET Delivery]
      /\ bad' \in [Claimer -> SUBSET Delivery]
  BY DEF Forget, TypeOK
<1>4. \A k \in Claimer : todo'[k] \subseteq todo[k] /\ ok'[k] \subseteq ok[k]
  BY DEF Forget
<1>. QED BY <1>1, <1>2, <1>3, <1>4

\* A crash, or a finalize that fails: the rows stay as they are.
LEMMA LossPreserves ==
  ASSUME IndInv, NEW C \in SUBSET Claimer, Forget(C), Requeue(C),
         faults < MaxFaults, faults' = faults + 1,
         UNCHANGED <<rowVars, holder, sends, slow>>
  PROVE  IndInv'
<1>. USE DEF IndInv, Shape
<1>1. TypeOK'
  <2>1. faults' \in 0..MaxFaults
    BY DEF TypeOK
  <2>. QED BY <2>1, ForgetHeld, RequeueType DEF TypeOK, rowVars
<1>2. AbsentIsFresh' /\ SentWasSent'
  BY DEF AbsentIsFresh, SentWasSent, rowVars
<1>3. IdleHoldsNothing'
  BY ForgetHeld
<1>4. OkWasSent'
  BY ForgetHeld DEF OkWasSent
<1>5. HeldIsLeased'
  BY ForgetHeld DEF HeldIsLeased, rowVars
<1>6. SendsBounded'
  BY <1>1, ForgetHeld, FewerSendersKeepBound DEF rowVars
<1>. QED BY <1>1, <1>2, <1>3, <1>4, <1>5, <1>6

LEMMA FinalizePreserves ==
  ASSUME IndInv, NEW c \in Claimer, Finalize(c)
  PROVE  IndInv'
<1>. USE DEF IndInv, Shape
<1>. DEFINE written == {d \in ok[c] \cup bad[c] : Owned(c, d)}
<1>1. /\ Forget({c})
      /\ written \in SUBSET Delivery
      /\ \A d \in written : d \in Held(c) /\ status[d] = "SENDING"
  BY DEF Finalize, TypeOK, Owned, Held
<1>2. /\ status' = [d \in Delivery |-> IF d \in written THEN Result(c, d) ELSE status[d]]
      /\ live' = [d \in Delivery |-> live[d] /\ d \notin written]
      /\ owner' = [d \in Delivery |-> IF d \in written THEN NoWorker ELSE owner[d]]
      /\ due' = [d \in Delivery |->
                    IF d \notin written THEN due[d]
                    ELSE d \in ok[c] \/ RetriesAtOnce(c, d)]
      /\ UNCHANGED <<attempts, holder, sends, ready, faults, slow>>
  BY DEF Finalize
<1>. HIDE DEF written
<1>3. status' \in [Delivery -> Status]
  BY <1>2 DEF TypeOK, Status, Result
<1>4. due' \in [Delivery -> BOOLEAN] /\ live' \in [Delivery -> BOOLEAN]
  <2>1. \A d \in Delivery : (IF d \notin written THEN due[d]
                             ELSE d \in ok[c] \/ RetriesAtOnce(c, d)) \in BOOLEAN
    BY DEF TypeOK, RetriesAtOnce
  <2>. QED BY <1>2, <2>1 DEF TypeOK
<1>5. owner' \in [Delivery -> Worker \cup {NoWorker}]
  BY <1>2 DEF TypeOK
<1>6. TypeOK'
  BY <1>1, <1>2, <1>3, <1>4, <1>5, ForgetHeld DEF TypeOK
<1>7. AbsentIsFresh'
  BY <1>2 DEF AbsentIsFresh, Result
<1>8. IdleHoldsNothing'
  BY <1>1, ForgetHeld
<1>9. OkWasSent'
  BY <1>1, <1>2, ForgetHeld DEF OkWasSent
<1>10. SentWasSent'
  BY <1>2 DEF SentWasSent, OkWasSent, Result
<1>11. HeldIsLeased'
  <2>. SUFFICES ASSUME slow = 0, NEW k \in Claimer, NEW d \in Held(k)'
                PROVE  holder[d] = k /\ status'[d] = "SENDING" /\ live'[d]
    BY <1>2 DEF HeldIsLeased
  <2>1. k # c /\ d \in Held(k)
    BY <1>1, ForgetHeld
  <2>2. d \in Delivery /\ holder[d] = k /\ status[d] = "SENDING" /\ live[d]
    BY <2>1 DEF HeldIsLeased, Held, TypeOK
  <2>3. d \notin written
    BY <1>1, <2>1, <2>2 DEF HeldIsLeased
  <2>. QED BY <1>2, <2>2, <2>3
<1>12. SendsBounded'
  BY <1>1, <1>2, <1>6, ForgetHeld, FewerSendersKeepBound
<1>. QED BY <1>6, <1>7, <1>8, <1>9, <1>10, <1>11, <1>12

LEMMA LeaseExpiresPreserves ==
  ASSUME IndInv, NEW d \in Delivery, LeaseExpires(d)
  PROVE  IndInv'
<1>. USE DEF IndInv, Shape
<1>1. TypeOK'
  BY DEF TypeOK, LeaseExpires, taskVars
<1>2. AbsentIsFresh' /\ IdleHoldsNothing' /\ OkWasSent' /\ SentWasSent' /\ SendsBounded'
  BY DEF AbsentIsFresh, IdleHoldsNothing, Held, OkWasSent, SentWasSent,
         SendsBounded, LeaseExpires, taskVars
<1>3. HeldIsLeased'
  <2>. SUFFICES ASSUME slow' = 0, NEW k \in Claimer, NEW x \in Held(k)
                PROVE  holder[x] = k /\ status[x] = "SENDING" /\ live'[x]
    BY DEF HeldIsLeased, Held, LeaseExpires, taskVars
  <2>1. ~Working(d) /\ slow = 0
    BY DEF LeaseExpires, TypeOK
  <2>2. x \in Delivery /\ holder[x] = k /\ status[x] = "SENDING" /\ live[x]
    BY <2>1 DEF HeldIsLeased, Held, TypeOK
  <2>3. x # d
    BY <2>1, <2>2 DEF Working
  <2>. QED BY <2>2, <2>3 DEF LeaseExpires, TypeOK
<1>. QED BY <1>1, <1>2, <1>3

-----------------------------------------------------------------------------
(* Theorems                                                                *)

LEMMA StepIndInv == IndInv /\ [Next]_vars => IndInv'
<1>. SUFFICES ASSUME IndInv, [Next]_vars PROVE IndInv'
  OBVIOUS
<1>. USE DEF Claimer
<1>1. ASSUME NEW c \in Consumer, NEW e \in Event, Prepare(c, e) PROVE IndInv'
  BY <1>1, PreparePreserves
<1>2. ASSUME NEW c \in Sweeper, NEW e \in Event, SweepClaim(c, e) PROVE IndInv'
  BY <1>2, SweepClaimPreserves
<1>3. ASSUME NEW c \in Claimer, Process(c) PROVE IndInv'
  BY <1>3, SendPreserves, RefusePreserves, FinalizePreserves DEF Process
<1>4. ASSUME NEW c \in Claimer, FinalizeFails(c) PROVE IndInv'
  BY <1>4, LossPreserves DEF FinalizeFails
<1>5. ASSUME NEW w \in Worker, Crash(w) PROVE IndInv'
  BY <1>5, LossPreserves DEF Crash
<1>6. ASSUME NEW d \in Delivery, LeaseExpires(d) PROVE IndInv'
  BY <1>6, LeaseExpiresPreserves
<1>7. ASSUME NEW d \in Delivery, BackoffElapses(d) PROVE IndInv'
  BY <1>7 DEF IndInv, Shape, TypeOK, AbsentIsFresh, IdleHoldsNothing, Held,
     OkWasSent, SentWasSent, HeldIsLeased, SendsBounded, BackoffElapses, taskVars
<1>8. CASE UNCHANGED vars
  BY <1>8 DEF IndInv, Shape, TypeOK, AbsentIsFresh, IdleHoldsNothing, Held,
     OkWasSent, SentWasSent, HeldIsLeased, SendsBounded, vars, rowVars, taskVars
<1>. QED BY <1>1, <1>2, <1>3, <1>4, <1>5, <1>6, <1>7, <1>8 DEF Next

\* The invariant the others follow from: with the types, what claimers hold
\* and how their leases keep others away.
THEOREM DeliveryInductive == Spec => []IndInv
<1>. QED BY InitIndInv, StepIndInv, PTL DEF Spec

\* Every column and every task keeps its range; an attempt is never charged
\* beyond max_attempts.
THEOREM DeliveryTypeOK == Spec => []TypeOK
<1>1. IndInv => TypeOK
  BY DEF IndInv, Shape
<1>. QED BY DeliveryInductive, <1>1, PTL

\* A recipient never gets a notification more often than max_attempts, sends
\* about to happen included.
THEOREM DeliverySendsBounded == Spec => []SendsBounded
<1>1. IndInv => SendsBounded
  BY DEF IndInv
<1>. QED BY DeliveryInductive, <1>1, PTL

\* A row says SENT only of a notification that reached its recipient.
THEOREM DeliverySentWasSent == Spec => []SentWasSent
<1>1. IndInv => SentWasSent
  BY DEF IndInv
<1>. QED BY DeliveryInductive, <1>1, PTL

\* Two claimers hold the same delivery only after a lease ran out on one that
\* was still at work.
THEOREM DeliveryOneClaimerPerDelivery == Spec => []OneClaimerPerDelivery
<1>1. IndInv => OneClaimerPerDelivery
  BY DEF IndInv, HeldIsLeased, OneClaimerPerDelivery
<1>. QED BY DeliveryInductive, <1>1, PTL

\* No step, of late claimers and sweepers included, takes a row out of SENT.
THEOREM DeliverySentIsFinal == Spec => SentIsFinal
<1>1. IndInv /\ [Next]_vars =>
         [\A d \in Delivery :
             status[d] = "SENT" =>
                status'[d] = "SENT" /\ attempts'[d] = attempts[d]]_vars
  <2>. DEFINE Final == \A d \in Delivery :
         status[d] = "SENT" => status'[d] = "SENT" /\ attempts'[d] = attempts[d]
  <2>. SUFFICES ASSUME IndInv, [Next]_vars PROVE Final
    OBVIOUS
  <2>. USE DEF IndInv, Shape
  <2>1. ASSUME NEW c \in Claimer, NEW e \in Event, Claim(c, e, ClaimSet(c, e))
        PROVE  Final
    <3>1. Takable(ClaimSet(c, e))
      BY ClaimSetTakable
    <3>. QED BY <2>1, <3>1 DEF Claim, Takable
  <2>2. ASSUME NEW c \in Consumer, NEW e \in Event, Prepare(c, e) PROVE Final
    BY <2>1, <2>2 DEF Prepare, Claimer, rowVars
  <2>3. ASSUME NEW c \in Sweeper, NEW e \in Event, SweepClaim(c, e) PROVE Final
    BY <2>1, <2>3 DEF SweepClaim, Claimer
  <2>4. ASSUME NEW c \in Claimer, Finalize(c) PROVE Final
    BY <2>4 DEF Finalize, Owned
  <2>5. ASSUME UNCHANGED <<status, attempts>> PROVE Final
    BY <2>5
  <2>6. ASSUME NEW c \in Claimer, Process(c) \/ FinalizeFails(c) PROVE Final
    BY <2>4, <2>5, <2>6 DEF Process, Send, Refuse, FinalizeFails, rowVars
  <2>7. ASSUME NEW w \in Worker, Crash(w) PROVE Final
    BY <2>5, <2>7 DEF Crash, rowVars
  <2>8. ASSUME NEW d \in Delivery, LeaseExpires(d) \/ BackoffElapses(d) PROVE Final
    BY <2>5, <2>8 DEF LeaseExpires, BackoffElapses
  <2>9. CASE UNCHANGED vars
    BY <2>5, <2>9 DEF vars, rowVars
  <2>. HIDE DEF Final
  <2>. QED BY <2>2, <2>3, <2>6, <2>7, <2>8, <2>9 DEF Next
<1>. QED BY <1>1, DeliveryInductive, PTL DEF Spec, SentIsFinal

-----------------------------------------------------------------------------
(* The table implements its contract: under StageOf its initial state is   *)
(* the contract's, a send is a Reach, a claim or a result is a Record, and *)
(* everything else is invisible.                                           *)

\* A claim that is about to be sent leaves room for the send.
LEMMA SendIsCharged ==
  ASSUME IndInv, NEW c \in Claimer, NEW d \in todo[c]
  PROVE  d \in Delivery /\ sends[d] < attempts[d]
<1>1. d \in Delivery /\ sends[d] \in Nat /\ attempts[d] \in Nat
  BY DEF IndInv, Shape, TypeOK
<1>2. Senders(d) \in SUBSET Claimer /\ {c} \in SUBSET Senders(d)
  BY DEF Senders
<1>3. /\ Cardinality(Senders(d)) \in Nat
      /\ Cardinality({c}) <= Cardinality(Senders(d))
  BY <1>2, SomeClaimers, FewerClaimers
<1>4. Cardinality({c}) = 1
  BY FS_Singleton
<1>5. sends[d] + Cardinality(Senders(d)) <= attempts[d]
  BY <1>1 DEF IndInv, SendsBounded, Senders
<1>. QED BY <1>1, <1>3, <1>4, <1>5

\* What does not touch rows is invisible.
LEMMA RowsKeptStutter ==
  ASSUME UNCHANGED <<status, attempts, sends>>
  PROVE  UNCHANGED Contract!cvars
BY DEF StageOf, Contract!cvars

LEMMA ClaimRecords ==
  ASSUME IndInv, NEW c \in Claimer, NEW e \in Event,
         Claim(c, e, ClaimSet(c, e)), UNCHANGED sends
  PROVE  Contract!Record
<1>. DEFINE S == ClaimSet(c, e)
<1>1. Takable(S)
  BY ClaimSetTakable DEF IndInv
<1>2. /\ status' = [d \in Delivery |-> IF d \in S THEN "SENDING" ELSE status[d]]
      /\ attempts' = [d \in Delivery |-> IF d \in S THEN attempts[d] + 1 ELSE attempts[d]]
  BY DEF Claim, Charged
<1>. HIDE DEF S
<1>3. ASSUME NEW d \in Delivery
      PROVE  Contract!Keep(d) \/ Contract!Charge(d)
  <2>1. CASE d \in S
    <3>1. attempts[d] \in Nat /\ attempts[d] < MaxAttempts
      BY <1>1, <2>1 DEF Takable, IndInv, Shape, TypeOK
    <3>2. StageOf(d) \in {"absent", "owed"}
      BY <1>1, <2>1, <3>1 DEF StageOf, Takable
    <3>3. StageOf(d)' = "owed" /\ attempts'[d] = attempts[d] + 1
      BY <1>2, <2>1 DEF StageOf
    <3>. QED BY <3>1, <3>2, <3>3 DEF Contract!Charge, Contract!Open
  <2>2. CASE d \notin S
    <3>1. status'[d] = status[d] /\ attempts'[d] = attempts[d]
      BY <1>2, <2>2
    <3>. QED BY <3>1 DEF StageOf, Contract!Keep
  <2>. QED BY <2>1, <2>2
<1>. QED BY <1>3 DEF Contract!Record

LEMMA FinalizeRecords ==
  ASSUME IndInv, NEW c \in Claimer, Finalize(c)
  PROVE  Contract!Record
<1>1. ASSUME NEW d \in Delivery
      PROVE  Contract!Keep(d) \/ Contract!Settle(d)
  <2>1. attempts'[d] = attempts[d]
    BY DEF Finalize
  <2>2. CASE status'[d] = status[d]
    BY <2>1, <2>2 DEF StageOf, Contract!Keep
  <2>3. CASE status'[d] # status[d]
    <3>1. /\ status[d] = "SENDING"
          /\ \/ status'[d] = "SENT" /\ d \in ok[c]
             \/ status'[d] = "FAILED"
      BY <2>3 DEF Finalize, Owned, Result
    <3>2. StageOf(d) = "owed"
      BY <3>1 DEF StageOf
    <3>3. CASE status'[d] = "SENT" /\ d \in ok[c]
      <4>1. StageOf(d)' = "sent" /\ sends[d] > 0
        BY <3>3 DEF StageOf, IndInv, OkWasSent
      <4>. QED BY <2>1, <3>2, <4>1 DEF Contract!Settle
    <3>4. CASE status'[d] = "FAILED" /\ attempts[d] = MaxAttempts
      <4>1. StageOf(d)' = "exhausted"
        BY <2>1, <3>4 DEF StageOf
      <4>. QED BY <2>1, <3>2, <3>4, <4>1 DEF Contract!Settle
    <3>5. CASE status'[d] = "FAILED" /\ attempts[d] # MaxAttempts
      <4>1. StageOf(d)' = "owed"
        BY <2>1, <3>5 DEF StageOf
      <4>. QED BY <2>1, <3>2, <4>1 DEF Contract!Keep
    <3>. QED BY <3>1, <3>3, <3>4, <3>5
  <2>. QED BY <2>2, <2>3
<1>. QED BY <1>1 DEF Contract!Record, Finalize

LEMMA SendReaches ==
  ASSUME IndInv, NEW c \in Claimer, NEW d \in Delivery,
         NEW o \in SendOutcome, Send(c, d, o)
  PROVE  Contract!Reach(d) \/ UNCHANGED Contract!cvars
<1>1. UNCHANGED <<status, attempts>>
  BY DEF Send, rowVars
<1>2. CASE o = "failed"
  BY <1>1, <1>2, RowsKeptStutter DEF Send
<1>3. CASE o # "failed"
  <2>1. sends' = [sends EXCEPT ![d] = @ + 1] /\ sends[d] < attempts[d]
    BY <1>3, SendIsCharged DEF Send
  <2>2. [x \in Delivery |-> StageOf(x)]' = [x \in Delivery |-> StageOf(x)]
    BY <1>1 DEF StageOf
  <2>. QED BY <1>1, <2>1, <2>2 DEF Contract!Reach
<1>. QED BY <1>2, <1>3

\* Whatever step the table takes, the contract allows it or cannot see it.
LEMMA StepContract ==
  ASSUME IndInv, [Next]_vars
  PROVE  [Contract!CNext]_(Contract!cvars)
<1>. DEFINE Allowed == Contract!CNext \/ UNCHANGED Contract!cvars
<1>. SUFFICES Allowed
  OBVIOUS
<1>1. Contract!Record => Allowed
  BY DEF Contract!CNext
<1>2. UNCHANGED <<status, attempts, sends>> => Allowed
  BY RowsKeptStutter
<1>3. ASSUME NEW d \in Delivery, Contract!Reach(d) PROVE Allowed
  BY <1>3 DEF Contract!CNext
<1>4. UNCHANGED Contract!cvars => Allowed
  OBVIOUS
<1>. HIDE DEF Allowed
<1>5. ASSUME NEW c \in Consumer, NEW e \in Event, Prepare(c, e) PROVE Allowed
  BY <1>1, <1>2, <1>5, ClaimRecords DEF Prepare, Claimer, rowVars
<1>6. ASSUME NEW c \in Sweeper, NEW e \in Event, SweepClaim(c, e) PROVE Allowed
  BY <1>1, <1>6, ClaimRecords DEF SweepClaim, Claimer
<1>7. ASSUME NEW c \in Claimer, Process(c) PROVE Allowed
  <2>1. ASSUME NEW d \in Delivery, NEW o \in SendOutcome, Send(c, d, o)
        PROVE  Allowed
    BY <1>3, <1>4, <2>1, SendReaches
  <2>2. ASSUME NEW d \in Delivery, Refuse(c, d) PROVE Allowed
    BY <1>2, <2>2 DEF Refuse, rowVars
  <2>3. CASE Finalize(c)
    BY <1>1, <2>3, FinalizeRecords
  <2>. QED BY <1>7, <2>1, <2>2, <2>3 DEF Process
<1>8. ASSUME NEW c \in Claimer, FinalizeFails(c) PROVE Allowed
  BY <1>2, <1>8 DEF FinalizeFails, rowVars
<1>9. ASSUME NEW w \in Worker, Crash(w) PROVE Allowed
  BY <1>2, <1>9 DEF Crash, rowVars
<1>10. ASSUME NEW d \in Delivery, LeaseExpires(d) \/ BackoffElapses(d)
       PROVE  Allowed
  BY <1>2, <1>10 DEF LeaseExpires, BackoffElapses
<1>11. CASE UNCHANGED vars
  BY <1>2, <1>11 DEF vars, rowVars
<1>. QED BY <1>5, <1>6, <1>7, <1>8, <1>9, <1>10, <1>11 DEF Next

\* Every behaviour of the delivery table is one its contract allows: attempts
\* are charged one at a time and never beyond max_attempts, nothing reaches a
\* recipient without an attempt, and sent and exhausted rows are final.
THEOREM DeliveryImplementsContract == Spec => ImplementsContract
<1>1. Init => Contract!CInit
  BY DEF Init, Contract!CInit, StageOf
<1>2. IndInv /\ [Next]_vars => [Contract!CNext]_(Contract!cvars)
  BY StepContract
<1>. QED BY <1>1, <1>2, DeliveryInductive, PTL DEF Spec, ImplementsContract, Contract!CSpec

-----------------------------------------------------------------------------
(* The pipeline.                                                           *)
(*                                                                         *)
(* A step of the pipeline is a step of the outbox, with the delivery table *)
(* untouched, or the other way round, so the invariants of both tables     *)
(* carry over.  What is left is the hand-over between them.                *)

\* The outbox of the pipeline, with what OutboxProofs proves about it.
Proven == INSTANCE OutboxProofs
            WITH Sweeper <- Publisher,
                 MaxAttempts <- PublishAttempts,
                 status <- outStatus,
                 attempts <- outAttempts,
                 due <- outDue,
                 todo <- outTodo,
                 sent <- outSent,
                 failed <- outFailed

\* The assumptions those proofs make are assumptions of the pipeline.
LEMMA OutboxAssumed == Proven!OutboxAssumption
BY PipelineAssumption DEF Proven!OutboxAssumption, Out!OutboxAssumption

\* Pipeline and OutboxProofs speak of the same outbox.
LEMMA SameInit == Out!Init <=> Proven!Init
BY DEF Out!Init, Out!NoTx, Proven!Init, Proven!NoTx

LEMMA SameStep == [Out!Next]_(Out!vars) <=> [Proven!Next]_(Proven!vars)
<1>1. Out!Next <=> Proven!Next
  BY DEF
    Out!Next, Out!Enqueue, Out!BackoffElapses, Out!ProducerClaim,
    Out!ProducerPublish, Out!ProducerCommit, Out!ProducerRollback,
    Out!SweepClaim, Out!SweepPublish, Out!SweepFinalize, Out!SweepAbort,
    Out!Locked, Out!Eligible, Out!Claimable, Out!Charged, Out!Recorded,
    Out!Batch, Out!Accepted, Out!FinalStatus, Out!rowVars, Out!sweepVars,
    Out!NoTx, Out!Outcome, Out!IsFiniteSet, Out!Cardinality,
    Proven!Next, Proven!Enqueue, Proven!BackoffElapses, Proven!ProducerClaim,
    Proven!ProducerPublish, Proven!ProducerCommit, Proven!ProducerRollback,
    Proven!SweepClaim, Proven!SweepPublish, Proven!SweepFinalize, Proven!SweepAbort,
    Proven!Locked, Proven!Eligible, Proven!Claimable, Proven!Charged, Proven!Recorded,
    Proven!Batch, Proven!Accepted, Proven!FinalStatus, Proven!rowVars, Proven!sweepVars,
    Proven!NoTx, Proven!Outcome, Proven!IsFiniteSet, Proven!Cardinality
<1>2. UNCHANGED Out!vars <=> UNCHANGED Proven!vars
  BY DEF Out!vars, Proven!vars
<1>. QED BY <1>1, <1>2

LEMMA SameTypeOK == Out!TypeOK <=> Proven!TypeOK
BY DEF Out!TypeOK, Out!Status, Out!Tx, Proven!TypeOK, Proven!Status, Proven!Tx

LEMMA SameStage ==
  ASSUME NEW e \in Event
  PROVE  Out!StageOf(e) = Proven!StageOf(e) /\ Out!StageOf(e)' = Proven!StageOf(e)'
BY DEF Out!StageOf, Out!Settled, Proven!StageOf, Proven!Settled

\* A message of the event waits, a claimer is at work on it, or it has a row.
Alive(e) == \/ ready[e] > 0
            \/ \E c \in Claimer : doing[c] = e
            \/ \E d \in RowsOf(e) : status[d] # "ABSENT"

\* Nothing moves through the pipeline, or leaves it, that was not published.
Sourced == \A e \in Event : Alive(e) \/ e \in dead => copies[e] > 0

\* What holds of each table, and of the hand-over between them.
PipelineIndInv == /\ Proven!IndInv
                  /\ IndInv
                  /\ dead \in SUBSET Event
                  /\ doubles \in 0..MaxDoubles
                  /\ Sourced
                  /\ NothingSlips

LEMMA InitPipeline == PipelineInit => PipelineIndInv
<1>. SUFFICES ASSUME PipelineInit PROVE PipelineIndInv
  OBVIOUS
<1>1. Proven!IndInv
  BY SameInit, OutboxAssumed, Proven!InitIndInv DEF PipelineInit
<1>2. IndInv
  BY InitIndInv DEF PipelineInit
<1>3. /\ dead = {} /\ doubles = 0
      /\ \A e \in Event : copies[e] = 0 /\ ready[e] = 0
      /\ \A c \in Claimer : doing[c] = NoEvent
      /\ \A d \in Delivery : status[d] = "ABSENT"
  BY PipelineAssumption DEF PipelineInit, Init, Out!Init
<1>4. Sourced /\ NothingSlips
  BY <1>3 DEF Sourced, Alive, NothingSlips, RowsOf
<1>. QED BY <1>1, <1>2, <1>3, <1>4, PipelineAssumption DEF PipelineIndInv

\* What the outbox does, as the rest of the pipeline sees it.
LEMMA OutboxSeen ==
  ASSUME Proven!IndInv, [Out!Next]_(Out!vars)
  PROVE  /\ Proven!IndInv'
         /\ \A e \in Event :
              /\ copies'[e] \in Nat /\ copies[e] \in Nat /\ copies'[e] >= copies[e]
              /\ copies'[e] # copies[e] => /\ Out!StageOf(e) \in {"absent", "owed"}
                                          /\ Out!StageOf(e)' = Out!StageOf(e)
              /\ Out!StageOf(e) = "abandoned" => Out!StageOf(e)' = "abandoned"
              /\ Out!StageOf(e)' = "absent" => Out!StageOf(e) = "absent"
<1>1. [Proven!Next]_(Proven!vars)
  BY SameStep
<1>2. Proven!IndInv'
  BY <1>1, OutboxAssumed, Proven!StepIndInv
<1>. QED BY <1>1, <1>2, OutboxAssumed, SameStage, Proven!StepSeen

\* A row that is there stays there, and an event whose last message is taken
\* has all its rows from then on.
LEMMA HandlingKeeps ==
  ASSUME IndInv, [Next]_vars, NEW e \in Event
  PROVE  /\ \A d \in RowsOf(e) : status[d] # "ABSENT" => status'[d] # "ABSENT"
         /\ ready'[e] >= ready[e] \/ \A d \in RowsOf(e) : status'[d] # "ABSENT"
<1>. DEFINE Kept == /\ \A d \in Delivery : status[d] # "ABSENT" => status'[d] # "ABSENT"
                    /\ ready'[e] >= ready[e] \/ \A d \in RowsOf(e) : status'[d] # "ABSENT"
<1>. SUFFICES Kept
  BY DEF RowsOf
<1>1. ready \in [Event -> Nat]
  BY DEF IndInv, Shape, TypeOK
<1>2. ASSUME ready' = ready, NEW c \in Claimer, NEW f \in Event, Claim(c, f, ClaimSet(c, f))
      PROVE  Kept
  BY <1>1, <1>2 DEF Claim
<1>3. ASSUME NEW c \in Consumer, NEW f \in Event, Prepare(c, f)
      PROVE  Kept
  <2>1. \A d \in Delivery : status[d] # "ABSENT" => status'[d] # "ABSENT"
    BY <1>3 DEF Prepare, Claim, rowVars
  <2>2. CASE f # e
    BY <1>1, <1>3, <2>1, <2>2 DEF Prepare
  <2>3. CASE f = e
    <3>1. ASSUME NEW d \in RowsOf(e), status[d] = "ABSENT"
          PROVE  status'[d] # "ABSENT"
      <4>1. d \in Delivery /\ d \in ClaimSet(c, e)
        BY <3>1 DEF ClaimSet, RowsOf
      <4>. QED BY <1>3, <2>3, <4>1 DEF Prepare, Claim
    <3>. QED BY <2>1, <3>1 DEF RowsOf
  <2>. QED BY <2>2, <2>3
<1>4. ASSUME UNCHANGED <<status, ready>> PROVE Kept
  BY <1>1, <1>4
<1>5. ASSUME NEW c \in Claimer, Finalize(c) PROVE Kept
  BY <1>1, <1>5 DEF Finalize, Result
<1>6. ASSUME NEW C \in SUBSET Claimer, Requeue(C), UNCHANGED status PROVE Kept
  <2>1. C \cap Consumer \in SUBSET Claimer
    OBVIOUS
  <2>2. Unacked(C, e) \in Nat
    BY SomeClaimers DEF Unacked
  <2>. QED BY <1>1, <1>6, <2>2 DEF Requeue
<1>. HIDE DEF Kept
<1>7. ASSUME NEW c \in Claimer, Process(c) \/ FinalizeFails(c) PROVE Kept
  BY <1>4, <1>5, <1>6, <1>7 DEF Process, Send, Refuse, FinalizeFails, rowVars
<1>8. ASSUME NEW w \in Worker, Crash(w) PROVE Kept
  BY <1>6, <1>8 DEF Crash, rowVars
<1>9. ASSUME NEW d \in Delivery, LeaseExpires(d) \/ BackoffElapses(d) PROVE Kept
  BY <1>4, <1>9 DEF LeaseExpires, BackoffElapses
<1>10. ASSUME NEW c \in Sweeper, NEW f \in Event, SweepClaim(c, f) PROVE Kept
  BY <1>2, <1>10 DEF SweepClaim, Claimer
<1>11. CASE UNCHANGED vars
  BY <1>4, <1>11 DEF vars, rowVars
<1>. QED BY <1>3, <1>7, <1>8, <1>9, <1>10, <1>11 DEF Next

\* Claimers begin nothing on their own: what is alive after a step was alive
\* before it, as a message, in some claimer's hands or as a row.
LEMMA HandlingTraced ==
  ASSUME IndInv, [Next]_vars, NEW e \in Event, Alive(e)'
  PROVE  Alive(e)
<1>1. /\ ready \in [Event -> Nat]
      /\ doing \in [Claimer -> Event \cup {NoEvent}]
      /\ todo \in [Claimer -> SUBSET Delivery]
  BY DEF IndInv, Shape, TypeOK
<1>. DEFINE Before == Alive(e)
<1>. SUFFICES Before
  OBVIOUS
<1>2. ASSUME NEW c \in Claimer, NEW f \in Event, Claim(c, f, ClaimSet(c, f)),
             UNCHANGED ready, ClaimSet(c, f) # {}, c \notin Consumer
      PROVE  Before
  <2>1. \A d \in ClaimSet(c, f) : d \in RowsOf(f) /\ status[d] # "ABSENT"
    BY <1>2 DEF ClaimSet, Retryable
  <2>2. CASE e = f
    BY <1>2, <2>1, <2>2 DEF Alive
  <2>3. CASE e # f
    <3>1. \A k \in Claimer : doing'[k] = e => doing[k] = e
      BY <1>1, <1>2, <2>3 DEF Claim
    <3>2. \A d \in RowsOf(e) : status'[d] = status[d]
      BY <1>2, <2>1, <2>3 DEF Claim, RowsOf
    <3>. QED BY <1>2, <3>1, <3>2 DEF Alive
  <2>. QED BY <2>2, <2>3
<1>3. ASSUME NEW c \in Consumer, NEW f \in Event, Prepare(c, f)
      PROVE  Before
  <2>1. CASE e = f
    BY <1>3, <2>1 DEF Prepare, Alive
  <2>2. CASE e # f
    <3>1. ready'[e] = ready[e]
      BY <1>1, <1>3, <2>2 DEF Prepare
    <3>2. \A k \in Claimer : doing'[k] = e => doing[k] = e
      BY <1>1, <1>3, <2>2 DEF Prepare, Claim, taskVars
    <3>3. \A d \in RowsOf(e) : status'[d] = status[d]
      <4>1. \A d \in RowsOf(e) : d \in Delivery /\ d \notin ClaimSet(c, f)
        BY <2>2 DEF RowsOf, ClaimSet
      <4>. QED BY <1>3, <4>1 DEF Prepare, Claim, rowVars
    <3>. QED BY <3>1, <3>2, <3>3 DEF Alive
  <2>. QED BY <2>1, <2>2
<1>4. ASSUME UNCHANGED <<status, doing, ready>> PROVE Before
  BY <1>4 DEF Alive
<1>5. ASSUME NEW c \in Claimer, Finalize(c) PROVE Before
  <2>1. UNCHANGED ready /\ \A k \in Claimer : doing'[k] = e => doing[k] = e
    BY <1>1, <1>5 DEF Finalize, Forget
  <2>2. \A d \in Delivery : status'[d] # "ABSENT" => status[d] # "ABSENT"
    BY <1>5 DEF Finalize, Owned
  <2>. QED BY <2>1, <2>2 DEF Alive, RowsOf
<1>6. ASSUME NEW C \in SUBSET Claimer, Forget(C), Requeue(C), UNCHANGED status
      PROVE  Before
  <2>1. \A k \in Claimer : doing'[k] = e => doing[k] = e
    BY <1>1, <1>6 DEF Forget
  <2>2. CASE \E k \in Claimer : doing[k] = e
    BY <2>2 DEF Alive
  <2>3. CASE ~\E k \in Claimer : doing[k] = e
    <3>1. {k \in C \cap Consumer : doing[k] = e} = {}
      BY <2>3
    <3>2. Unacked(C, e) = 0
      BY <3>1, FS_EmptySet, Zenon DEF Unacked
    <3>3. ready'[e] = ready[e]
      BY <1>1, <1>6, <3>2 DEF Requeue
    <3>. QED BY <1>6, <2>1, <3>3 DEF Alive
  <2>. QED BY <2>2, <2>3
<1>. HIDE DEF Before
<1>7. ASSUME NEW c \in Claimer, Process(c) \/ FinalizeFails(c) PROVE Before
  BY <1>4, <1>5, <1>6, <1>7 DEF Process, Send, Refuse, FinalizeFails, rowVars
<1>8. ASSUME NEW w \in Worker, Crash(w) PROVE Before
  BY <1>6, <1>8 DEF Crash, rowVars
<1>9. ASSUME NEW d \in Delivery, LeaseExpires(d) \/ BackoffElapses(d) PROVE Before
  BY <1>4, <1>9 DEF LeaseExpires, BackoffElapses, taskVars
<1>10. ASSUME NEW c \in Sweeper, NEW f \in Event, SweepClaim(c, f) PROVE Before
  BY <1>2, <1>10 DEF SweepClaim, Claimer
<1>11. CASE UNCHANGED vars
  BY <1>4, <1>11 DEF vars, rowVars, taskVars
<1>. QED BY <1>3, <1>7, <1>8, <1>9, <1>10, <1>11 DEF Next

\* One step of the pipeline keeps the invariants of both tables and of the
\* hand-over.
LEMMA StepPipeline ==
  PipelineIndInv /\ [PipelineNext]_pipelineVars => PipelineIndInv'
<1>. SUFFICES ASSUME PipelineIndInv, [PipelineNext]_pipelineVars
              PROVE  PipelineIndInv'
  OBVIOUS
<1>. USE DEF PipelineIndInv
<1>1. CASE Publishing
  <2>1. UNCHANGED <<deliveryVars, dead, doubles>>
    BY <1>1 DEF Publishing
  <2>2. Proven!IndInv'
    BY <1>1, OutboxSeen DEF Publishing
  <2>3. /\ ready' \in [Event -> Nat]
        /\ \A e \in Event : /\ copies[e] \in Nat /\ copies'[e] \in Nat
                            /\ ready[e] \in Nat
                            /\ copies'[e] >= copies[e]
                            /\ ready'[e] = ready[e] + (copies'[e] - copies[e])
    <3>1. ready \in [Event -> Nat]
      BY DEF IndInv, Shape, TypeOK
    <3>2. \A e \in Event : /\ copies[e] \in Nat /\ copies'[e] \in Nat
                           /\ copies'[e] >= copies[e]
      BY <1>1, OutboxSeen DEF Publishing
    <3>3. ready' = [e \in Event |-> ready[e] + (copies'[e] - copies[e])]
      BY <1>1 DEF Publishing, Queued
    <3>. QED BY <3>1, <3>2, <3>3
  <2>4. IndInv'
    BY <2>1, <2>3 DEF IndInv, Shape, TypeOK, AbsentIsFresh, IdleHoldsNothing,
       Held, OkWasSent, SentWasSent, HeldIsLeased, SendsBounded,
       deliveryVars, rowVars, taskVars
  <2>5. Sourced'
    BY <2>1, <2>3 DEF Sourced, Alive, deliveryVars, rowVars, taskVars
  <2>6. NothingSlips'
    BY <2>1, <2>3 DEF NothingSlips, deliveryVars, rowVars
  <2>. QED BY <2>1, <2>2, <2>4, <2>5, <2>6
<1>2. CASE Handling
  <2>1. Next /\ UNCHANGED <<outboxVars, dead, doubles>>
    BY <1>2 DEF Handling
  <2>2. Proven!IndInv'
    <3>1. UNCHANGED Out!vars
      BY <2>1 DEF outboxVars, Out!vars
    <3>. QED BY <3>1, OutboxSeen
  <2>3. IndInv'
    BY <2>1, StepIndInv
  <2>4. Sourced'
    BY <2>1, HandlingTraced DEF Sourced, outboxVars
  <2>5. NothingSlips'
    <3>. SUFFICES ASSUME NEW e \in Event, copies[e] > 0, e \notin dead
                  PROVE  ready'[e] > 0 \/ \A d \in RowsOf(e) : status'[d] # "ABSENT"
      BY <2>1 DEF NothingSlips, outboxVars
    <3>1. ready[e] \in Nat /\ ready'[e] \in Nat
      BY <2>3 DEF IndInv, Shape, TypeOK
    <3>2. CASE ready[e] > 0
      BY <2>1, <3>1, <3>2, HandlingKeeps
    <3>3. CASE ~(ready[e] > 0)
      <4>1. \A d \in RowsOf(e) : status[d] # "ABSENT"
        BY <3>3 DEF NothingSlips
      <4>. QED BY <2>1, <4>1, HandlingKeeps
    <3>. QED BY <3>2, <3>3
  <2>. QED BY <2>1, <2>2, <2>3, <2>4, <2>5
<1>3. ASSUME NEW e \in Event, Doubled(e) \/ DeadLetter(e) PROVE PipelineIndInv'
  <2>1. /\ UNCHANGED <<outboxVars, deliveryVars>>
        /\ ready[e] > 0
        /\ dead' \in SUBSET Event /\ dead \subseteq dead'
        /\ \A f \in dead' : f \in dead \/ f = e
        /\ doubles' \in 0..MaxDoubles
    BY <1>3, PipelineAssumption DEF Doubled, DeadLetter
  <2>2. /\ ready' \in [Event -> Nat]
        /\ \A f \in Event : f # e => ready'[f] = ready[f]
        /\ ready'[e] > 0 \/ e \in dead'
    <3>1. ready \in [Event -> Nat]
      BY DEF IndInv, Shape, TypeOK
    <3>. QED BY <1>3, <3>1 DEF Doubled, DeadLetter
  <2>3. Proven!IndInv'
    <3>1. UNCHANGED Out!vars
      BY <2>1 DEF outboxVars, Out!vars
    <3>. QED BY <3>1, OutboxSeen
  <2>4. IndInv'
    BY <2>1, <2>2 DEF IndInv, Shape, TypeOK, AbsentIsFresh, IdleHoldsNothing,
       Held, OkWasSent, SentWasSent, HeldIsLeased, SendsBounded,
       deliveryVars, rowVars, taskVars
  <2>5. Sourced'
    <3>1. copies[e] > 0
      BY <2>1 DEF Sourced, Alive
    <3>. QED BY <2>1, <2>2, <3>1 DEF Sourced, Alive, outboxVars,
             deliveryVars, rowVars, taskVars
  <2>6. NothingSlips'
    BY <2>1, <2>2 DEF NothingSlips, outboxVars, deliveryVars, rowVars
  <2>. QED BY <2>1, <2>3, <2>4, <2>5, <2>6
<1>4. CASE UNCHANGED pipelineVars
  <2>1. UNCHANGED <<outboxVars, deliveryVars, ready, dead, doubles>>
    BY <1>4 DEF pipelineVars
  <2>2. Proven!IndInv'
    <3>1. UNCHANGED Out!vars
      BY <2>1 DEF outboxVars, Out!vars
    <3>. QED BY <3>1, OutboxSeen
  <2>3. IndInv'
    <3>1. UNCHANGED vars
      BY <2>1 DEF deliveryVars, vars
    <3>. QED BY <3>1, StepIndInv
  <2>4. Sourced' /\ NothingSlips'
    BY <2>1 DEF Sourced, Alive, NothingSlips, outboxVars, deliveryVars, rowVars, taskVars
  <2>. QED BY <2>1, <2>2, <2>3, <2>4
<1>. QED BY <1>1, <1>2, <1>3, <1>4 DEF PipelineNext

\* Two tables, the broker between them, and every failure of either: the
\* invariant the others follow from.
THEOREM PipelineInductive == PipelineSpec => []PipelineIndInv
BY InitPipeline, StepPipeline, PTL DEF PipelineSpec

\* The columns of both tables, the tasks of both sides, the messages and the
\* dead letters keep their ranges when the two run together.
THEOREM PipelineTypes == PipelineSpec => []PipelineTypeOK
<1>1. PipelineIndInv => PipelineTypeOK
  <2>1. Proven!IndInv => Out!TypeOK
    BY SameTypeOK DEF Proven!IndInv
  <2>. QED BY <2>1 DEF PipelineIndInv, PipelineTypeOK, IndInv, Shape
<1>. QED BY <1>1, PipelineInductive, PTL

\* Between the outbox and the delivery table no accepted event is lost: it
\* waits as a message, was dead-lettered, or has all its rows.
THEOREM PipelineNothingSlips == PipelineSpec => []NothingSlips
<1>1. PipelineIndInv => NothingSlips
  BY DEF PipelineIndInv
<1>. QED BY <1>1, PipelineInductive, PTL

\* The pipeline adds nothing to the outbox: whatever OutboxProofs shows of its
\* behaviours holds of the pipeline's.
THEOREM PipelineRunsOutbox == PipelineSpec => Out!Spec
<1>1. PipelineInit => Out!Init
  BY DEF PipelineInit
<1>2. [PipelineNext]_pipelineVars => [Out!Next]_(Out!vars)
  <2>1. UNCHANGED outboxVars => UNCHANGED Out!vars
    BY DEF outboxVars, Out!vars
  <2>. QED BY <2>1 DEF PipelineNext, Publishing, Handling, Doubled, DeadLetter,
           pipelineVars
<1>. QED BY <1>1, <1>2, PTL DEF PipelineSpec, Out!Spec

\* The delivery table keeps its own contract however its messages come about:
\* late, several times, before their event is recorded, or after it was not.
THEOREM PipelineKeepsDeliveryContract == PipelineSpec => ImplementsContract
<1>1. PipelineInit => Contract!CInit
  BY DEF PipelineInit, Init, Contract!CInit, StageOf
<1>2. PipelineIndInv /\ [PipelineNext]_pipelineVars
         => [Contract!CNext]_(Contract!cvars)
  <2>. SUFFICES ASSUME PipelineIndInv, [PipelineNext]_pipelineVars
                PROVE  [Contract!CNext]_(Contract!cvars)
    OBVIOUS
  <2>1. CASE Handling
    BY <2>1, StepContract DEF Handling, PipelineIndInv
  <2>2. ASSUME UNCHANGED deliveryVars PROVE UNCHANGED Contract!cvars
    BY <2>2, RowsKeptStutter DEF deliveryVars, rowVars
  <2>3. CASE Publishing
    BY <2>2, <2>3 DEF Publishing
  <2>4. ASSUME NEW e \in Event, Doubled(e) \/ DeadLetter(e)
        PROVE  UNCHANGED Contract!cvars
    BY <2>2, <2>4 DEF Doubled, DeadLetter
  <2>5. CASE UNCHANGED pipelineVars
    BY <2>2, <2>5 DEF pipelineVars
  <2>. QED BY <2>1, <2>3, <2>4, <2>5 DEF PipelineNext
<1>. QED BY <1>1, <1>2, PipelineInductive, PTL
         DEF PipelineSpec, ImplementsContract, Contract!CSpec

-----------------------------------------------------------------------------
(* The pipeline implements its contract.                                   *)

\* Rows and sends exist only of events the broker has accepted.
LEMMA RowsArePublished ==
  ASSUME PipelineIndInv, NEW d \in Delivery
  PROVE  /\ EventOf[d] \in Event
         /\ copies[EventOf[d]] \in Nat
         /\ copies[EventOf[d]] = 0 => /\ StageOf(d) = "absent"
                                      /\ sends[d] = 0
<1>1. EventOf[d] \in Event
  OBVIOUS
<1>2. copies \in [Event -> Nat]
  <2>1. Proven!IndInv => Out!TypeOK
    BY SameTypeOK DEF Proven!IndInv
  <2>. QED BY <2>1 DEF PipelineIndInv, Out!TypeOK
<1>3. ASSUME copies[EventOf[d]] = 0 PROVE StageOf(d) = "absent" /\ sends[d] = 0
  <2>1. status[d] = "ABSENT"
    BY <1>1, <1>3 DEF PipelineIndInv, Sourced, Alive, RowsOf
  <2>2. attempts[d] = 0
    BY <2>1 DEF PipelineIndInv, IndInv, Shape, AbsentIsFresh
  <2>3. sends[d] \in Nat /\ sends[d] + Cardinality(Senders(d)) <= 0
    BY <2>2 DEF PipelineIndInv, IndInv, Shape, TypeOK, SendsBounded, Senders
  <2>4. Cardinality(Senders(d)) \in Nat
    BY SomeClaimers DEF Senders
  <2>. QED BY <2>1, <2>3, <2>4 DEF StageOf
<1>. QED BY <1>1, <1>2, <1>3

\* Before the first copy all deliveries of an event share its fate.
OneFate ==
    \A d, x \in Delivery :
       EventOf[d] = EventOf[x] /\ FateOf(d) \in {"unknown", "unpublished"}
          => FateOf(x) = FateOf(d)

LEMMA OneFateNow == PipelineIndInv => OneFate
<1>. SUFFICES ASSUME PipelineIndInv, NEW d \in Delivery, NEW x \in Delivery,
                     EventOf[d] = EventOf[x],
                     FateOf(d) \in {"unknown", "unpublished"}
              PROVE  FateOf(x) = FateOf(d)
  BY DEF OneFate
<1>1. copies[EventOf[d]] = 0
  BY RowsArePublished DEF FateOf
<1>2. StageOf(d) = "absent" /\ StageOf(x) = "absent"
  BY <1>1, RowsArePublished
<1>. QED BY <1>1, <1>2 DEF FateOf

LEMMA OneFateNext == PipelineIndInv' => OneFate'
BY OneFateNow, PTL

\* What the contract says about the deliveries of one event.
LEMMA OneEventKept ==
  ASSUME PipelineIndInv'
  PROVE  \A d, x \in Delivery : EndToEnd!OneEvent(d, x)
<1>. SUFFICES ASSUME NEW d \in Delivery, NEW x \in Delivery, EventOf[d] = EventOf[x],
                     NEW f \in {"unknown", "unpublished"}
              PROVE  FateOf(d)' = f <=> FateOf(x)' = f
  BY DEF EndToEnd!OneEvent
<1>1. FateOf(d)' \in {"unknown", "unpublished"} => FateOf(x)' = FateOf(d)'
  BY OneFateNext DEF OneFate
<1>2. FateOf(x)' \in {"unknown", "unpublished"} => FateOf(d)' = FateOf(x)'
  BY OneFateNext DEF OneFate
<1>. QED BY <1>1, <1>2

\* A step of the outbox announces deliveries, gives them up before anything was
\* published, or changes no fate.
LEMMA PublishingAdvances ==
  ASSUME PipelineIndInv, PipelineIndInv', Publishing
  PROVE  EndToEnd!Advance
<1>1. UNCHANGED <<status, attempts, sends>>
  BY DEF Publishing, deliveryVars, rowVars
<1>2. ASSUME NEW d \in Delivery
      PROVE  \/ EndToEnd!Keep(d) \/ EndToEnd!Announce(d) \/ EndToEnd!Abandon(d)
  <2>. DEFINE e == EventOf[d]
  <2>1. e \in Event /\ StageOf(d)' = StageOf(d)
    BY <1>1, RowsArePublished DEF StageOf
  <2>2. /\ copies'[e] \in Nat /\ copies[e] \in Nat /\ copies'[e] >= copies[e]
        /\ copies'[e] # copies[e] => Out!StageOf(e) \in {"absent", "owed"}
        /\ Out!StageOf(e) = "abandoned" => Out!StageOf(e)' = "abandoned"
        /\ Out!StageOf(e)' = "absent" => Out!StageOf(e) = "absent"
    BY <2>1, OutboxSeen DEF PipelineIndInv, Publishing
  <2>3. CASE StageOf(d) \in {"sent", "exhausted"}
    BY <2>1, <2>3 DEF FateOf, EndToEnd!Keep
  <2>4. CASE StageOf(d) \notin {"sent", "exhausted"} /\ copies[e] > 0
    <3>1. FateOf(d) = "owed"
      BY <2>4 DEF FateOf
    <3>2. FateOf(d)' = "owed"
      BY <2>1, <2>2, <2>4 DEF FateOf
    <3>. QED BY <3>1, <3>2 DEF EndToEnd!Keep
  <2>5. CASE StageOf(d) \notin {"sent", "exhausted"} /\ copies[e] = 0
    <3>1. FateOf(d) = CASE Out!StageOf(e) = "absent" -> "unknown"
                        [] Out!StageOf(e) = "abandoned" -> "unpublished"
                        [] OTHER -> "owed"
      BY <2>5 DEF FateOf
    <3>2. sends[d] = 0
      BY <2>5, RowsArePublished
    <3>3. CASE copies'[e] > 0
      <4>1. FateOf(d)' = "owed"
        BY <2>1, <2>5, <3>3 DEF FateOf
      <4>2. FateOf(d) \in {"unknown", "owed"}
        BY <2>2, <2>5, <3>1, <3>3
      <4>. QED BY <4>1, <4>2 DEF EndToEnd!Keep, EndToEnd!Announce
    <3>4. CASE ~(copies'[e] > 0)
      <4>1. FateOf(d)' = CASE Out!StageOf(e)' = "absent" -> "unknown"
                           [] Out!StageOf(e)' = "abandoned" -> "unpublished"
                           [] OTHER -> "owed"
        BY <2>1, <2>5, <3>4 DEF FateOf
      <4>. QED BY <2>2, <3>1, <3>2, <4>1
           DEF EndToEnd!Keep, EndToEnd!Announce, EndToEnd!Abandon
    <3>. QED BY <3>3, <3>4
  <2>. QED BY <2>2, <2>3, <2>4, <2>5
<1>. QED BY <1>1, <1>2, OneEventKept DEF EndToEnd!Advance

\* A step of the delivery table, seen through its own contract, settles owed
\* deliveries or reaches a recipient whose event was published.
LEMMA HandlingAdvances ==
  ASSUME PipelineIndInv, PipelineIndInv', Handling
  PROVE  [EndToEnd!CNext]_(EndToEnd!cvars)
<1>1. UNCHANGED outboxVars /\ [Contract!CNext]_(Contract!cvars)
  BY StepContract DEF Handling, PipelineIndInv
<1>2. \A d \in Delivery : /\ copies'[EventOf[d]] = copies[EventOf[d]]
                          /\ Out!StageOf(EventOf[d])' = Out!StageOf(EventOf[d])
  BY <1>1 DEF outboxVars, Out!StageOf, Out!Settled
<1>3. ASSUME NEW d \in Delivery
      PROVE  /\ StageOf(d)' = StageOf(d) => FateOf(d)' = FateOf(d)
             /\ StageOf(d) \in {"absent", "owed"} /\ StageOf(d)' \in {"absent", "owed"}
                   => FateOf(d)' = FateOf(d)
             /\ StageOf(d)' \in {"sent", "exhausted"} => FateOf(d)' = StageOf(d)'
  BY <1>2 DEF FateOf
<1>4. ASSUME NEW d \in Delivery, StageOf(d) # "absent" \/ sends[d] > 0 \/ attempts[d] > 0
      PROVE  /\ FateOf(d) \in {"owed", "sent", "exhausted"}
             /\ StageOf(d) = "owed" => FateOf(d) = "owed"
  <2>1. copies[EventOf[d]] > 0
    <3>1. CASE attempts[d] > 0
      <4>1. StageOf(d) # "absent"
        BY <3>1 DEF PipelineIndInv, IndInv, Shape, AbsentIsFresh, StageOf
      <4>. QED BY <4>1, RowsArePublished
    <3>. QED BY <1>4, <3>1, RowsArePublished
  <2>. QED BY <2>1 DEF FateOf
<1>5. CASE Contract!Record
  <2>1. ASSUME NEW d \in Delivery
        PROVE  EndToEnd!Keep(d) \/ EndToEnd!Settle(d)
    <3>1. CASE Contract!Keep(d)
      BY <1>3, <3>1 DEF Contract!Keep, EndToEnd!Keep
    <3>2. CASE Contract!Charge(d)
      BY <1>3, <3>2 DEF Contract!Charge, Contract!Open, EndToEnd!Keep
    <3>3. CASE Contract!Settle(d)
      BY <1>3, <1>4, <3>3 DEF Contract!Settle, EndToEnd!Settle
    <3>. QED BY <1>5, <3>1, <3>2, <3>3 DEF Contract!Record
  <2>. QED BY <1>5, <2>1, OneEventKept DEF Contract!Record, EndToEnd!Advance, EndToEnd!CNext
<1>6. ASSUME NEW d \in Delivery, Contract!Reach(d)
      PROVE  EndToEnd!CNext
  <2>1. /\ sends[d] < attempts[d]
        /\ sends' = [sends EXCEPT ![d] = @ + 1]
        /\ \A x \in Delivery : StageOf(x)' = StageOf(x)
    BY <1>6 DEF Contract!Reach
  <2>2. sends[d] \in Nat /\ attempts[d] \in 0..MaxAttempts
    BY DEF PipelineIndInv, IndInv, Shape, TypeOK
  <2>3. FateOf(d) \in {"owed", "sent", "exhausted"} /\ sends[d] < MaxAttempts
    BY <1>4, <2>1, <2>2
  <2>4. [x \in Delivery |-> FateOf(x)]' = [x \in Delivery |-> FateOf(x)]
    BY <1>3, <2>1
  <2>. QED BY <2>1, <2>3, <2>4 DEF EndToEnd!Reach, EndToEnd!CNext
<1>7. CASE UNCHANGED Contract!cvars
  <2>1. sends' = sends /\ \A d \in Delivery : StageOf(d)' = StageOf(d)
    BY <1>7 DEF Contract!cvars
  <2>. QED BY <1>3, <2>1 DEF EndToEnd!cvars
<1>. QED BY <1>1, <1>5, <1>6, <1>7 DEF Contract!CNext

\* From the request or job that reports an event to the recipient: every step
\* of the two tables, the broker and their failures is one the pipeline's
\* contract allows.  No fate is written that did not happen, the final ones
\* stay, what was never published reaches nobody, and copies of a message do
\* not add to the attempts of a delivery.
THEOREM PipelineImplementsEndToEnd == PipelineSpec => ImplementsEndToEnd
<1>1. PipelineInit => EndToEnd!CInit
  BY DEF PipelineInit, Init, Out!Init, EndToEnd!CInit, FateOf, StageOf, Out!StageOf
<1>2. PipelineIndInv /\ PipelineIndInv' /\ [PipelineNext]_pipelineVars
         => [EndToEnd!CNext]_(EndToEnd!cvars)
  <2>. SUFFICES ASSUME PipelineIndInv, PipelineIndInv', [PipelineNext]_pipelineVars
                PROVE  [EndToEnd!CNext]_(EndToEnd!cvars)
    OBVIOUS
  <2>1. CASE Publishing
    BY <2>1, PublishingAdvances DEF EndToEnd!CNext
  <2>2. CASE Handling
    BY <2>2, HandlingAdvances
  <2>3. ASSUME UNCHANGED <<outboxVars, deliveryVars>>
        PROVE  UNCHANGED EndToEnd!cvars
    <3>1. /\ UNCHANGED sends
          /\ \A d \in Delivery : FateOf(d)' = FateOf(d)
      BY <2>3 DEF outboxVars, deliveryVars, rowVars, FateOf, StageOf, Out!StageOf, Out!Settled
    <3>. QED BY <3>1 DEF EndToEnd!cvars
  <2>4. ASSUME NEW e \in Event, Doubled(e) \/ DeadLetter(e)
        PROVE  [EndToEnd!CNext]_(EndToEnd!cvars)
    BY <2>3, <2>4 DEF Doubled, DeadLetter
  <2>5. CASE UNCHANGED pipelineVars
    BY <2>3, <2>5 DEF pipelineVars
  <2>. QED BY <2>1, <2>2, <2>4, <2>5 DEF PipelineNext
<1>. QED BY <1>1, <1>2, PipelineInductive, PTL
         DEF PipelineSpec, ImplementsEndToEnd, EndToEnd!CSpec
=============================================================================
