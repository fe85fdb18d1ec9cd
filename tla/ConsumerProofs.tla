--------------------------- MODULE ConsumerProofs ---------------------------
(***************************************************************************)
(* Proofs about Consumer, for any messages, retry limit, handlers and      *)
(* processes, each of which retries through the broker or does not.        *)
(***************************************************************************)
EXTENDS Consumer, FiniteSetTheorems, TLAPS

USE ConsumerAssumption, NoCopyAssumption

\* A copy the broker will hand out again or somebody works on.
Live(c) == \/ queue[c] > 0 \/ retrying[c] > 0
           \/ \E h \in Handler : Busy(h) /\ copy[h] = c

\* Whoever works on something works on a copy within the limit.
BusyHasCopy ==
    \A h \in Handler : Busy(h) => copy[h] \in Copy /\ copy[h].retries <= MaxRetries

HandledIsCompleted ==
    \A h \in Handler : step[h] = "handled" => copy[h].msg \in completed

\* The header never counts more retries than there were failures.
RetriesCounted == \A c \in Copy : Live(c) => c.retries <= failures[c.msg]

\* A retry is published within the limit, of a failure that was counted.
RetryEarned ==
    \A h \in Handler : step[h] = "retry" =>
        copy[h].retries + 1 <= MaxRetries /\ copy[h].retries + 1 <= failures[copy[h].msg]

DeadEarned ==
    \A h \in Handler : step[h] = "dead" =>
        copy[h].msg \in refused \/ failures[copy[h].msg] > MaxRetries

\* Safe without the handlers that are about to acknowledge.
Safe(c) == \/ Exists(c)
           \/ \E h \in Handler : /\ Unacked(h) /\ copy[h] = c
                                 /\ step[h] \notin {"handled", "moved"}

AllSafe == \A m \in Message : m \in completed \/ \E c \in Copy : c.msg = m /\ Safe(c)

\* What a shutdown found running is still running, and a process that closes
\* in time has none of it left.
InflightAtWork == \A h \in inflight : step[h] \notin {"idle", "waiting"}

ClosingIsQuiet ==
    \A w \in Worker : phase[w] = "closing" => HandlersOf(w) \cap inflight = {}

Earned == /\ BusyHasCopy
          /\ HandledIsCompleted
          /\ RetriesCounted
          /\ RetryEarned
          /\ DeadEarned
          /\ DeadLettersEarned

\* Nobody holds a permit that drain has taken.
RoomForActive == \A w \in Worker : Cardinality(Active(w)) <= room[w]

Quiet == InflightAtWork /\ ClosingIsQuiet /\ RoomForActive

IndInv == TypeOK /\ Earned /\ AllSafe /\ Quiet

-----------------------------------------------------------------------------
(* Counting handlers.                                                      *)

LEMMA HandlersCounted ==
  ASSUME NEW H \in SUBSET Handler
  PROVE  /\ Cardinality(H) \in 0..Cardinality(Handler)
         /\ (Cardinality(H) > 0) <=> (H # {})
<1>1. IsFiniteSet(H) /\ Cardinality(H) <= Cardinality(Handler)
  BY FS_Subset
<1>2. Cardinality(H) \in Nat /\ Cardinality(Handler) \in Nat
  BY <1>1, FS_CardinalityType
<1>3. Cardinality(H) = 0 <=> H = {}
  BY <1>1, FS_EmptySet
<1>. QED BY <1>1, <1>2, <1>3

LEMMA SemaphoresKept ==
  ASSUME SemaphoresOK, UNCHANGED procVars
  PROVE  SemaphoresOK'
  BY DEF SemaphoresOK, procVars

LEMMA ActiveCounted ==
  ASSUME NEW w \in Worker
  PROVE  /\ Active(w) \in SUBSET Handler /\ IsFiniteSet(Active(w))
         /\ Cardinality(Active(w)) \in Nat
         /\ Cardinality(Active(w)) = 0 => Active(w) = {}
<1>1. Active(w) \in SUBSET Handler
  BY DEF HandlersOf, Active
<1>2. Cardinality(Handler) \in Nat
  BY FS_CardinalityType
<1>3. IsFiniteSet(Active(w))
  BY <1>1, FS_Subset
<1>. QED BY <1>1, <1>2, <1>3, HandlersCounted

\* A step after which no more handlers hold a permit.
LEMMA ActiveShrinks ==
  ASSUME RoomForActive, TypeOK, room' = room,
         \A k \in Handler : step'[k] \notin {"idle", "waiting"} =>
                               step[k] \notin {"idle", "waiting"}
  PROVE  RoomForActive'
<1>. SUFFICES ASSUME NEW w \in Worker
              PROVE  Cardinality(Active(w)') <= room[w]
  BY DEF RoomForActive
<1>1. Active(w)' \subseteq Active(w)
  BY DEF Active, HandlersOf
<1>2. /\ Cardinality(Active(w)') \in Nat
      /\ Cardinality(Active(w)') <= Cardinality(Active(w))
  BY <1>1, ActiveCounted, FS_Subset, FS_CardinalityType
<1>3. Cardinality(Active(w)) <= room[w] /\ room[w] \in Nat
  BY DEF RoomForActive, TypeOK, SemaphoresOK
<1>. QED BY <1>2, <1>3, ActiveCounted

\* A handler that gets a free permit.
LEMMA ActiveGrows ==
  ASSUME RoomForActive, TypeOK, room' = room, NEW h \in Handler,
         Free(WorkerOf[h]), step' = [step EXCEPT ![h] = "handling"]
  PROVE  RoomForActive'
<1>. SUFFICES ASSUME NEW w \in Worker
              PROVE  Cardinality(Active(w)') <= room[w]
  BY DEF RoomForActive
<1>1. /\ Cardinality(Active(w)) <= room[w] /\ room[w] \in Nat
      /\ IsFiniteSet(Active(w)) /\ Cardinality(Active(w)) \in Nat
  BY ActiveCounted DEF RoomForActive, TypeOK, SemaphoresOK
<1>2. CASE WorkerOf[h] # w
  <2>1. Active(w)' = Active(w)
    BY <1>2 DEF Active, HandlersOf, TypeOK
  <2>. QED BY <1>1, <2>1
<1>3. CASE WorkerOf[h] = w
  <2>1. Active(w)' \subseteq Active(w) \cup {h}
    BY DEF Active, HandlersOf, TypeOK
  <2>2. /\ IsFiniteSet(Active(w) \cup {h})
        /\ Cardinality(Active(w) \cup {h}) \in Nat
        /\ Cardinality(Active(w) \cup {h}) <= Cardinality(Active(w)) + 1
    <3>1. Cardinality(Active(w) \cup {h})
            = IF h \in Active(w) THEN Cardinality(Active(w)) ELSE Cardinality(Active(w)) + 1
      BY <1>1, FS_AddElement
    <3>2. IsFiniteSet(Active(w) \cup {h})
      BY <1>1, FS_AddElement
    <3>. QED BY <1>1, <3>1, <3>2
  <2>3. /\ Cardinality(Active(w)') \in Nat
        /\ Cardinality(Active(w)') <= Cardinality(Active(w) \cup {h})
    BY <2>1, <2>2, FS_Subset, FS_CardinalityType
  <2>4. Cardinality(Active(w)) < room[w]
    BY <1>3 DEF Free
  <2>. QED BY <1>1, <2>2, <2>3, <2>4
<1>. QED BY <1>2, <1>3

\* What the broker takes back: it only grows, by what was not acknowledged.
LEMMA ReturnedCopies ==
  ASSUME TypeOK, NEW H \in SUBSET Handler
  PROVE  /\ Returned(H) \in [Copy -> Nat]
         /\ \A c \in Copy :
               Returned(H)[c] > 0 <=>
                  queue[c] > 0 \/ \E h \in H : Unacked(h) /\ copy[h] = c
<1>1. ASSUME NEW c \in Copy
      PROVE  /\ Returned(H)[c] \in Nat
             /\ Returned(H)[c] > 0 <=>
                   queue[c] > 0 \/ \E h \in H : Unacked(h) /\ copy[h] = c
  <2>. DEFINE K == {h \in H : Unacked(h) /\ copy[h] = c}
  <2>1. Returned(H)[c] = queue[c] + Cardinality(K)
    BY DEF Returned
  <2>2. Cardinality(K) \in Nat /\ (Cardinality(K) > 0 <=> K # {})
    <3>1. K \in SUBSET Handler
      OBVIOUS
    <3>. QED BY <3>1, HandlersCounted
  <2>3. queue[c] \in Nat
    BY DEF TypeOK
  <2>4. K # {} <=> \E h \in H : Unacked(h) /\ copy[h] = c
    OBVIOUS
  <2>. HIDE DEF K
  <2>. QED BY <2>1, <2>2, <2>3, <2>4
<1>2. Returned(H) \in [Copy -> Nat]
  BY <1>1 DEF Returned
<1>. QED BY <1>1, <1>2

-----------------------------------------------------------------------------
(* on_message                                                              *)

LEMMA InitIndInv == Init => IndInv
<1>. SUFFICES ASSUME Init PROVE IndInv
  OBVIOUS
<1>1. TypeOK
  BY DEF Init, TypeOK, SemaphoresOK, Exists, Copy, Step
<1>2. Earned
  BY DEF Init, Earned, BusyHasCopy, HandledIsCompleted, RetriesCounted, Live,
     Busy, RetryEarned, DeadEarned, DeadLettersEarned, InDeadLetters, Copy
<1>3. AllSafe
  <2>. SUFFICES ASSUME NEW m \in Message
                PROVE  \E c \in Copy : c.msg = m /\ Safe(c)
    BY DEF AllSafe
  <2>1. [msg |-> m, retries |-> 0] \in Copy
    BY DEF Copy
  <2>. QED BY <2>1 DEF Init, Safe, Exists
<1>4. Quiet
  <2>1. ASSUME NEW w \in Worker
        PROVE  Cardinality(Active(w)) <= room[w]
    <3>1. Active(w) = {} /\ room[w] = Concurrency
      BY DEF Init, Active, HandlersOf
    <3>. QED BY <3>1, FS_EmptySet
  <2>. QED BY <2>1 DEF Init, Quiet, InflightAtWork, ClosingIsQuiet, RoomForActive
<1>. QED BY <1>1, <1>2, <1>3, <1>4 DEF IndInv

LEMMA DeliverIndInv ==
  ASSUME IndInv, NEW h \in Handler, NEW c \in Copy, Deliver(h, c)
  PROVE  IndInv'
<1>. USE DEF IndInv, Deliver, history
<1>0. c.retries <= MaxRetries
  BY DEF TypeOK, Exists, Copy
<1>s. SemaphoresOK'
  BY DEF TypeOK, SemaphoresOK
<1>1. TypeOK'
  BY <1>s DEF TypeOK, Exists, Step
<1>2. Earned'
  <2>. USE DEF Earned
  <2>1. BusyHasCopy'
    BY <1>0 DEF BusyHasCopy, Busy, TypeOK
  <2>2. HandledIsCompleted' /\ RetryEarned' /\ DeadEarned'
    BY DEF HandledIsCompleted, RetryEarned, DeadEarned, TypeOK
  <2>3. RetriesCounted'
    BY DEF RetriesCounted, Live, Busy, TypeOK
  <2>4. DeadLettersEarned'
    BY DEF DeadLettersEarned, InDeadLetters
  <2>. QED BY <2>1, <2>2, <2>3, <2>4
<1>3. AllSafe'
  <2>1. \A d \in Copy : Safe(d) => Safe(d)'
    BY DEF Safe, Exists, Unacked, Busy, TypeOK
  <2>. QED BY <2>1 DEF AllSafe
<1>4. Quiet'
  <2>1. RoomForActive'
    <3>1. CASE step'[h] = "handling"
      BY <3>1, ActiveGrows DEF Quiet, TypeOK
    <3>2. CASE step'[h] # "handling"
      BY <3>2, ActiveShrinks DEF Quiet, TypeOK
    <3>. QED BY <3>1, <3>2
  <2>. QED BY <2>1 DEF Quiet, InflightAtWork, ClosingIsQuiet, HandlersOf, TypeOK
<1>. QED BY <1>1, <1>2, <1>3, <1>4

LEMMA StartIndInv ==
  ASSUME IndInv, NEW h \in Handler, Start(h)
  PROVE  IndInv'
<1>. USE DEF IndInv, Start, brokerVars, history
<1>s. SemaphoresOK'
  <2>. DEFINE w == WorkerOf[h]
  <2>1. /\ UNCHANGED <<phase, room>>
        /\ line' = [line EXCEPT ![w] = Tail(line[w])]
        /\ line[w] \in Seq(Handler) /\ line[w] # <<>>
    BY DEF TypeOK, SemaphoresOK
  <2>2. Tail(line[w]) \in Seq(Handler)
    BY <2>1
  <2>3. ahead' \in [Worker -> Nat]
    <3>1. ahead \in [Worker -> Nat]
      BY DEF TypeOK, SemaphoresOK
    <3>2. ahead' = ahead \/ (ahead[w] > 0 /\ ahead' = [ahead EXCEPT ![w] = ahead[w] - 1])
      BY DEF TypeOK
    <3>. QED BY ONLY <3>1, <3>2
  <2>4. SemaphoresOK
    BY DEF TypeOK
  <2>. QED BY ONLY <2>1, <2>2, <2>3, <2>4 DEF SemaphoresOK
<1>1. TypeOK'
  BY <1>s DEF TypeOK, Exists, Step
<1>2. Earned'
  <2>. USE DEF Earned
  <2>1. BusyHasCopy' /\ HandledIsCompleted' /\ RetryEarned' /\ DeadEarned'
    BY DEF BusyHasCopy, Busy, HandledIsCompleted, RetryEarned, DeadEarned, TypeOK
  <2>2. RetriesCounted'
    BY DEF RetriesCounted, Live, Busy, TypeOK
  <2>3. DeadLettersEarned'
    BY DEF DeadLettersEarned, InDeadLetters
  <2>. QED BY <2>1, <2>2, <2>3
<1>3. AllSafe'
  <2>1. \A d \in Copy : Safe(d) => Safe(d)'
    BY DEF Safe, Exists, Unacked, Busy, TypeOK
  <2>. QED BY <2>1 DEF AllSafe
<1>4. Quiet'
  <2>1. RoomForActive'
    BY ActiveGrows DEF Quiet
  <2>2. InflightAtWork'
    BY DEF Quiet, InflightAtWork, TypeOK
  <2>3. ClosingIsQuiet'
    BY DEF Quiet, ClosingIsQuiet, HandlersOf, TypeOK
  <2>. QED BY <2>1, <2>2, <2>3 DEF Quiet
<1>. QED BY <1>1, <1>2, <1>3, <1>4

(* A failure is counted before the copy's header is.                       *)
LEMMA FailIndInv ==
  ASSUME IndInv, NEW h \in Handler, step[h] \in {"handling", "handled"},
         NEW o \in Outcome, Fail(h, o),
         UNCHANGED <<brokerVars, copy, valid, procVars, inflight, faults>>,
         completed' = completed
  PROVE  IndInv'
<1>. USE DEF IndInv, Fail, brokerVars, procVars
<1>0. /\ copy[h] \in Copy /\ copy[h].retries <= MaxRetries
      /\ copy[h].msg \in Message /\ copy[h].retries \in Nat
      /\ copy[h].retries <= failures[copy[h].msg]
  BY DEF Earned, BusyHasCopy, Busy, RetriesCounted, Live, Copy
<1>1. step' \in [Handler -> Step] /\ step'[h] \in {"retry", "dead", "reject"}
      /\ \A k \in Handler \ {h} : step'[k] = step[k]
  BY DEF TypeOK, Step, AfterTransient
<1>2. /\ failures' \in [Message -> 0..(MaxRetries + 1)]
      /\ \A m \in Message : failures[m] <= failures'[m]
      /\ refused \subseteq refused' /\ refused' \in SUBSET Message
  BY <1>0 DEF TypeOK
<1>3. TypeOK'
  BY <1>1, <1>2, SemaphoresKept DEF TypeOK, Exists
<1>4. Earned'
  <2>. USE DEF Earned
  <2>1. BusyHasCopy' /\ HandledIsCompleted'
    BY <1>0, <1>1 DEF BusyHasCopy, HandledIsCompleted, Busy
  <2>2. \A c \in Copy : Live(c)' => Live(c)
    BY <1>1 DEF Live, Busy
  <2>3. RetriesCounted'
    BY <1>2, <2>2 DEF RetriesCounted, Copy, TypeOK
  <2>4. step'[h] = "retry" => copy[h].retries + 1 <= MaxRetries
                              /\ copy[h].retries + 1 <= failures'[copy[h].msg]
    BY <1>0 DEF AfterTransient, Exhausted, TypeOK
  <2>5. step'[h] = "dead" =>
           copy[h].msg \in refused' \/ failures'[copy[h].msg] > MaxRetries
    BY <1>0 DEF AfterTransient, Exhausted, TypeOK
  <2>6. \A k \in Handler : step[k] = "retry" => copy[k].msg \in Message /\ copy[k].retries \in Nat
    BY DEF BusyHasCopy, Busy, Copy
  <2>7. RetryEarned'
    <3>. SUFFICES ASSUME NEW k \in Handler, step'[k] = "retry", k # h
                  PROVE  copy[k].retries + 1 <= MaxRetries
                         /\ copy[k].retries + 1 <= failures'[copy[k].msg]
      BY <2>4 DEF RetryEarned
    <3>. QED BY <1>1, <1>2, <2>6 DEF RetryEarned, TypeOK
  <2>8. \A k \in Handler : step[k] = "dead" => copy[k].msg \in Message
    BY DEF BusyHasCopy, Busy, Copy
  <2>9. DeadEarned'
    <3>. SUFFICES ASSUME NEW k \in Handler, step'[k] = "dead", k # h
                  PROVE  copy[k].msg \in refused' \/ failures'[copy[k].msg] > MaxRetries
      BY <2>5 DEF DeadEarned
    <3>. QED BY <1>1, <1>2, <2>8 DEF DeadEarned, TypeOK
  <2>10. DeadLettersEarned'
    BY <1>2 DEF DeadLettersEarned, InDeadLetters, TypeOK
  <2>. QED BY <2>1, <2>3, <2>7, <2>9, <2>10
<1>5. AllSafe'
  <2>1. \A d \in Copy : Safe(d) => Safe(d)'
    BY <1>1 DEF Safe, Exists, Unacked, Busy
  <2>. QED BY <2>1 DEF AllSafe
<1>6. Quiet'
  BY <1>1, ActiveShrinks DEF Quiet, InflightAtWork, ClosingIsQuiet, HandlersOf, TypeOK
<1>. QED BY <1>3, <1>4, <1>5, <1>6

LEMMA HandleIndInv ==
  ASSUME IndInv, NEW h \in Handler, NEW o \in Outcome,
         Handle(h, o)
  PROVE  IndInv'
<1>1. CASE o # "handled"
  BY <1>1, FailIndInv DEF Handle
<1>2. CASE o = "handled"
  <2>. USE <1>2 DEF IndInv, Handle, brokerVars, procVars
  <2>0. copy[h] \in Copy /\ copy[h].msg \in Message
    BY DEF Earned, BusyHasCopy, Busy, Copy
  <2>1. TypeOK'
    BY <2>0, SemaphoresKept DEF TypeOK, Exists, Step
  <2>2. Earned'
    <3>. USE DEF Earned
    <3>1. BusyHasCopy' /\ RetryEarned' /\ DeadEarned'
      BY DEF BusyHasCopy, Busy, RetryEarned, DeadEarned, TypeOK
    <3>2. HandledIsCompleted'
      BY DEF HandledIsCompleted, TypeOK
    <3>3. RetriesCounted'
      BY DEF RetriesCounted, Live, Busy, TypeOK
    <3>4. DeadLettersEarned'
      BY DEF DeadLettersEarned, InDeadLetters
    <3>. QED BY <3>1, <3>2, <3>3, <3>4
  <2>3. AllSafe'
    <3>1. \A d \in Copy : Safe(d) => Safe(d)' \/ d.msg \in completed'
      BY DEF Safe, Exists, Unacked, Busy, TypeOK
    <3>. QED BY <3>1 DEF AllSafe
  <2>4. Quiet'
    BY ActiveShrinks DEF Quiet, InflightAtWork, ClosingIsQuiet, HandlersOf, TypeOK
  <2>. QED BY <2>1, <2>2, <2>3, <2>4
<1>. QED BY <1>1, <1>2

(* The copy is in its new queue before the old one may go.                 *)
LEMMA RepublishIndInv ==
  ASSUME IndInv, NEW h \in Handler, NEW r \in PublishResult, Republish(h, r)
  PROVE  IndInv'
<1>. USE DEF IndInv, Republish, procVars, history
<1>. DEFINE c == copy[h]
<1>0. /\ c \in Copy /\ c.retries <= MaxRetries /\ c.retries \in Nat /\ c.msg \in Message
      /\ step[h] = "retry" => Retried(c) \in Copy /\ Retried(c).retries <= MaxRetries
                              /\ Retried(c).msg = c.msg
                              /\ Retried(c).retries = c.retries + 1
  BY DEF Earned, BusyHasCopy, Busy, Copy, RetryEarned, Retried
<1>1. faults' \in 0..MaxFaults
  BY DEF TypeOK
<1>2. step' \in [Handler -> Step] /\ step'[h] \in {"moved", "reject"}
      /\ \A k \in Handler \ {h} : step'[k] = step[k]
  BY DEF TypeOK, AfterPublish, Step
<1>3. /\ dead' \in [Copy -> Nat]
      /\ \A d \in Copy : dead'[d] >= dead[d]
      /\ \A d \in Copy : dead'[d] > 0 => dead[d] > 0 \/ (d = c /\ step[h] = "dead")
  BY <1>0 DEF TypeOK
<1>4. /\ retrying' \in [Copy -> Nat]
      /\ \A d \in Copy : retrying'[d] >= retrying[d]
      /\ \A d \in Copy : retrying'[d] > 0 =>
            retrying[d] > 0 \/ (d = Retried(c) /\ step[h] = "retry")
  BY <1>0 DEF TypeOK
<1>5. step'[h] = "moved" => \/ dead'[c] > 0
                            \/ Retried(c) \in Copy /\ Retried(c).msg = c.msg /\ retrying'[Retried(c)] > 0
  BY <1>0 DEF AfterPublish, TypeOK
<1>6. TypeOK'
  <2>1. \A d \in Copy : d.retries > MaxRetries => ~Exists(d)'
    <3>. SUFFICES ASSUME NEW d \in Copy, d.retries > MaxRetries, Exists(d)'
                  PROVE  FALSE
      OBVIOUS
    <3>1. d.retries \in Nat /\ ~Exists(d)
      BY DEF TypeOK, Copy
    <3>2. d = c \/ (step[h] = "retry" /\ d = Retried(c))
      BY <3>1, <1>3, <1>4 DEF Exists
    <3>. QED BY <3>1, <3>2, <1>0
  <2>. QED BY <1>1, <1>2, <1>3, <1>4, <2>1, SemaphoresKept DEF TypeOK
<1>7. Earned'
  <2>. USE DEF Earned
  <2>1. BusyHasCopy' /\ HandledIsCompleted' /\ RetryEarned' /\ DeadEarned'
    BY <1>0, <1>2 DEF BusyHasCopy, Busy, HandledIsCompleted, RetryEarned, DeadEarned
  <2>2. RetriesCounted'
    <3>. SUFFICES ASSUME NEW d \in Copy, Live(d)'
                  PROVE  d.retries <= failures[d.msg]
      BY DEF RetriesCounted
    <3>1. CASE Live(d)
      BY <3>1 DEF RetriesCounted
    <3>2. CASE ~Live(d)
      <4>1. d = Retried(c) /\ step[h] = "retry"
        BY <3>2, <1>2, <1>4 DEF Live, Busy
      <4>. QED BY <4>1, <1>0 DEF RetryEarned
    <3>. QED BY <3>1, <3>2
  <2>3. DeadLettersEarned'
    BY <1>0, <1>3 DEF DeadLettersEarned, InDeadLetters, DeadEarned, Copy
  <2>. QED BY <2>1, <2>2, <2>3
<1>8. AllSafe'
  <2>1. \A d \in Copy : Exists(d) => Exists(d)'
    BY <1>3, <1>4 DEF Exists, TypeOK
  <2>2. \A d \in Copy : Safe(d) => Safe(d)' \/ (d = c /\ step'[h] = "moved")
    BY <2>1, <1>2 DEF Safe, Unacked, Busy
  <2>3. step'[h] = "moved" => \E d \in Copy : d.msg = c.msg /\ Safe(d)'
    BY <1>0, <1>5 DEF Safe, Exists
  <2>. QED BY <2>2, <2>3 DEF AllSafe
<1>9. Quiet'
  BY <1>2, ActiveShrinks DEF Quiet, InflightAtWork, ClosingIsQuiet, HandlersOf, TypeOK
<1>. QED BY <1>6, <1>7, <1>8, <1>9

LEMMA SettleIndInv ==
  ASSUME IndInv, NEW h \in Handler, Settle(h)
  PROVE  IndInv'
<1>. USE DEF IndInv, Settle, Idle, procVars, history
<1>0. /\ queue' \in [Copy -> Nat]
      /\ \A c \in Copy : queue[c] > 0 => queue'[c] > 0
      /\ \A c \in Copy : queue'[c] > 0 =>
            queue[c] > 0 \/ (step[h] = "reject" /\ Unacked(h) /\ copy[h] = c)
      /\ step[h] = "reject" /\ Unacked(h) /\ copy[h] \in Copy => queue'[copy[h]] > 0
  BY ReturnedCopies DEF TypeOK
<1>1. TypeOK'
  <2>1. \A c \in Copy : c.retries \in Nat
    BY DEF Copy
  <2>2. Unacked(h) => copy[h] \in Copy /\ copy[h].retries <= MaxRetries
    BY DEF Earned, BusyHasCopy, Unacked
  <2>3. \A c \in Copy : Exists(c)' => Exists(c) \/ (Unacked(h) /\ copy[h] = c)
    BY <1>0 DEF Exists
  <2>4. \A c \in Copy : c.retries > MaxRetries => ~Exists(c)'
    BY <2>1, <2>2, <2>3 DEF TypeOK
  <2>. QED BY <1>0, <2>4, SemaphoresKept DEF TypeOK, Step
<1>2. Earned'
  <2>. USE DEF Earned
  <2>1. BusyHasCopy' /\ HandledIsCompleted' /\ RetryEarned' /\ DeadEarned'
    BY DEF BusyHasCopy, Busy, HandledIsCompleted, RetryEarned, DeadEarned, TypeOK
  <2>2. \A c \in Copy : Live(c)' => Live(c)
    BY <1>0 DEF Live, Busy, Unacked, TypeOK
  <2>3. RetriesCounted' /\ DeadLettersEarned'
    BY <2>2 DEF RetriesCounted, DeadLettersEarned, InDeadLetters
  <2>. QED BY <2>1, <2>3
<1>3. AllSafe'
  <2>1. \A d \in Copy : Safe(d) => Safe(d)'
    <3>. SUFFICES ASSUME NEW d \in Copy, Safe(d) PROVE Safe(d)'
      OBVIOUS
    <3>1. CASE Exists(d)
      BY <3>1, <1>0 DEF Safe, Exists
    <3>2. CASE ~Exists(d)
      <4>1. PICK k \in Handler : /\ Unacked(k) /\ copy[k] = d
                                 /\ step[k] \notin {"handled", "moved"}
        BY <3>2 DEF Safe
      <4>2. CASE k = h
        BY <4>1, <4>2, <1>0 DEF Safe, Exists
      <4>3. CASE k # h
        BY <4>1, <4>3 DEF Safe, Unacked, Busy, TypeOK
      <4>. QED BY <4>2, <4>3
    <3>. QED BY <3>1, <3>2
  <2>. QED BY <2>1 DEF AllSafe
<1>4. Quiet'
  BY ActiveShrinks DEF Quiet, InflightAtWork, ClosingIsQuiet, HandlersOf, TypeOK
<1>. QED BY <1>1, <1>2, <1>3, <1>4

LEMMA AckRaisesIndInv ==
  ASSUME IndInv, NEW h \in Handler, AckRaises(h)
  PROVE  IndInv'
<1>1. CASE step[h] = "handled"
  BY <1>1, FailIndInv DEF AckRaises, Outcome
<1>2. CASE step[h] = "moved"
  <2>. USE <1>2 DEF IndInv, AckRaises, brokerVars, procVars
  <2>1. TypeOK'
    BY SemaphoresKept DEF TypeOK, Exists, Step
  <2>2. Earned'
    <3>. USE DEF Earned
    <3>1. BusyHasCopy' /\ HandledIsCompleted' /\ RetryEarned' /\ DeadEarned'
      BY DEF BusyHasCopy, Busy, HandledIsCompleted, RetryEarned, DeadEarned, TypeOK
    <3>2. RetriesCounted' /\ DeadLettersEarned'
      BY DEF RetriesCounted, Live, Busy, DeadLettersEarned, InDeadLetters, TypeOK
    <3>. QED BY <3>1, <3>2
  <2>3. AllSafe'
    <3>1. \A d \in Copy : Safe(d) => Safe(d)'
      BY DEF Safe, Exists, Unacked, Busy, TypeOK
    <3>. QED BY <3>1 DEF AllSafe
  <2>4. Quiet'
    BY ActiveShrinks DEF Quiet, InflightAtWork, ClosingIsQuiet, HandlersOf, TypeOK
  <2>. QED BY <2>1, <2>2, <2>3, <2>4
<1>. QED BY <1>1, <1>2 DEF AckRaises

-----------------------------------------------------------------------------
(* The broker and the processes                                            *)

LEMMA RetryExpiresIndInv ==
  ASSUME IndInv, NEW c \in Copy, RetryExpires(c)
  PROVE  IndInv'
<1>. USE DEF IndInv, RetryExpires, taskVars, procVars, history
<1>1. TypeOK'
  BY SemaphoresKept DEF TypeOK, Exists
<1>2. Earned'
  <2>. USE DEF Earned
  <2>1. BusyHasCopy' /\ HandledIsCompleted' /\ RetryEarned' /\ DeadEarned'
    BY DEF BusyHasCopy, Busy, HandledIsCompleted, RetryEarned, DeadEarned
  <2>2. RetriesCounted' /\ DeadLettersEarned'
    BY DEF RetriesCounted, Live, Busy, DeadLettersEarned, InDeadLetters, TypeOK
  <2>. QED BY <2>1, <2>2
<1>3. AllSafe'
  <2>1. \A d \in Copy : Safe(d) => Safe(d)'
    BY DEF Safe, Exists, Unacked, Busy, TypeOK
  <2>. QED BY <2>1 DEF AllSafe
<1>4. Quiet'
  BY ActiveShrinks DEF Quiet, InflightAtWork, ClosingIsQuiet, HandlersOf
<1>. QED BY <1>1, <1>2, <1>3, <1>4

LEMMA ConnectionLostIndInv ==
  ASSUME IndInv, NEW w \in Worker, ConnectionLost(w)
  PROVE  IndInv'
<1>. USE DEF IndInv, ConnectionLost, procVars, history
<1>. DEFINE H == HandlersOf(w)
<1>0. /\ queue' \in [Copy -> Nat]
      /\ \A c \in Copy : queue'[c] > 0 <=>
            queue[c] > 0 \/ \E h \in H : Unacked(h) /\ copy[h] = c
  <2>1. H \in SUBSET Handler
    BY DEF HandlersOf
  <2>. QED BY <2>1, ReturnedCopies
<1>h. H \subseteq Handler
  BY DEF HandlersOf
<1>. HIDE DEF H
<1>1. TypeOK'
  <2>1. \A c \in Copy : c.retries > MaxRetries => ~Exists(c)'
    BY <1>0, <1>h DEF TypeOK, Exists, Earned, BusyHasCopy, Unacked, Copy
  <2>2. faults' \in 0..MaxFaults /\ valid' \in [Handler -> BOOLEAN]
    BY DEF TypeOK
  <2>. QED BY <1>0, <2>1, <2>2, SemaphoresKept DEF TypeOK
<1>2. Earned'
  <2>. USE DEF Earned
  <2>1. BusyHasCopy' /\ HandledIsCompleted' /\ RetryEarned' /\ DeadEarned'
    BY DEF BusyHasCopy, Busy, HandledIsCompleted, RetryEarned, DeadEarned
  <2>2. \A c \in Copy : Live(c)' => Live(c)
    BY <1>0, <1>h DEF Live, Busy, Unacked
  <2>3. RetriesCounted' /\ DeadLettersEarned'
    BY <2>2 DEF RetriesCounted, DeadLettersEarned, InDeadLetters
  <2>. QED BY <2>1, <2>3
<1>3. AllSafe'
  <2>1. \A d \in Copy : Safe(d) => Safe(d)'
    <3>. SUFFICES ASSUME NEW d \in Copy, Safe(d) PROVE Safe(d)'
      OBVIOUS
    <3>1. CASE Exists(d)
      BY <3>1, <1>0 DEF Safe, Exists
    <3>2. CASE ~Exists(d)
      <4>1. PICK k \in Handler : /\ Unacked(k) /\ copy[k] = d
                                 /\ step[k] \notin {"handled", "moved"}
        BY <3>2 DEF Safe
      <4>2. CASE k \in H
        BY <4>1, <4>2, <1>0 DEF Safe, Exists
      <4>3. CASE k \notin H
        <5>1. Unacked(k)'
          BY <4>1, <4>3 DEF Unacked, Busy, TypeOK, H
        <5>. QED BY <4>1, <5>1 DEF Safe
      <4>. QED BY <4>2, <4>3
    <3>. QED BY <3>1, <3>2
  <2>. QED BY <2>1 DEF AllSafe
<1>4. Quiet'
  BY ActiveShrinks DEF Quiet, InflightAtWork, ClosingIsQuiet, HandlersOf
<1>. QED BY <1>1, <1>2, <1>3, <1>4

(* A process that ends, killed or not, gives back what it had not          *)
(* acknowledged.                                                           *)
LEMMA EndedIndInv ==
  ASSUME IndInv, NEW w \in Worker, Ended(w), faults' \in 0..MaxFaults
  PROVE  IndInv'
<1>. USE DEF IndInv, Ended, Idle, history
<1>. DEFINE H == HandlersOf(w)
<1>0. /\ queue' \in [Copy -> Nat]
      /\ \A c \in Copy : queue'[c] > 0 <=>
            queue[c] > 0 \/ \E h \in H : Unacked(h) /\ copy[h] = c
  <2>1. H \in SUBSET Handler
    BY DEF HandlersOf
  <2>. QED BY <2>1, ReturnedCopies
<1>h. H \subseteq Handler
  BY DEF HandlersOf
<1>s. /\ step' = [h \in Handler |-> IF h \in H THEN "idle" ELSE step[h]]
      /\ copy' = [h \in Handler |-> IF h \in H THEN NoCopy ELSE copy[h]]
      /\ valid' = [h \in Handler |-> valid[h] /\ h \notin H]
      /\ inflight' = inflight \ H
  OBVIOUS
<1>. HIDE DEF H
<1>1. TypeOK'
  <2>1. \A c \in Copy : c.retries > MaxRetries => ~Exists(c)'
    BY <1>0, <1>h DEF TypeOK, Exists, Earned, BusyHasCopy, Unacked, Copy
  <2>2. step' \in [Handler -> Step] /\ copy' \in [Handler -> Copy \cup {NoCopy}]
        /\ valid' \in [Handler -> BOOLEAN] /\ inflight' \in SUBSET Handler
    BY <1>s DEF TypeOK, Step
  <2>3. room' \in [Worker -> 0..Concurrency] /\ line' \in [Worker -> Seq(Handler)]
        /\ ahead' \in [Worker -> Nat]
    BY DEF TypeOK, SemaphoresOK
  <2>4. phase' \in [Worker -> {"running", "draining", "closing", "overdue"}]
    BY DEF TypeOK, SemaphoresOK
  <2>5. SemaphoresOK'
    BY <2>3, <2>4 DEF SemaphoresOK
  <2>. QED BY <1>0, <2>1, <2>2, <2>5 DEF TypeOK
<1>2. Earned'
  <2>. USE DEF Earned
  <2>1. BusyHasCopy' /\ HandledIsCompleted' /\ RetryEarned' /\ DeadEarned'
    BY <1>s DEF BusyHasCopy, Busy, HandledIsCompleted, RetryEarned, DeadEarned
  <2>2. \A c \in Copy : Live(c)' => Live(c)
    BY <1>0, <1>h, <1>s DEF Live, Busy, Unacked
  <2>3. RetriesCounted' /\ DeadLettersEarned'
    BY <2>2 DEF RetriesCounted, DeadLettersEarned, InDeadLetters
  <2>. QED BY <2>1, <2>3
<1>3. AllSafe'
  <2>1. \A d \in Copy : Safe(d) => Safe(d)'
    <3>. SUFFICES ASSUME NEW d \in Copy, Safe(d) PROVE Safe(d)'
      OBVIOUS
    <3>1. CASE Exists(d)
      BY <3>1, <1>0 DEF Safe, Exists
    <3>2. CASE ~Exists(d)
      <4>1. PICK k \in Handler : /\ Unacked(k) /\ copy[k] = d
                                 /\ step[k] \notin {"handled", "moved"}
        BY <3>2 DEF Safe
      <4>2. CASE k \in H
        BY <4>1, <4>2, <1>0 DEF Safe, Exists
      <4>3. CASE k \notin H
        BY <4>1, <4>3, <1>s DEF Safe, Unacked, Busy, TypeOK
      <4>. QED BY <4>2, <4>3
    <3>. QED BY <3>1, <3>2
  <2>. QED BY <2>1 DEF AllSafe
<1>4. Quiet'
  <2>1. InflightAtWork'
    BY <1>s DEF Quiet, InflightAtWork, TypeOK
  <2>2. ClosingIsQuiet'
    BY <1>s DEF Quiet, ClosingIsQuiet, HandlersOf, TypeOK, SemaphoresOK
  <2>3. RoomForActive'
    <3>. SUFFICES ASSUME NEW v \in Worker
                  PROVE  Cardinality(Active(v)') <= room'[v]
      BY DEF RoomForActive
    <3>1. CASE v = w
      <4>1. Active(v)' = {} /\ room'[v] = Concurrency
        BY <3>1, <1>s DEF Active, HandlersOf, H, TypeOK, SemaphoresOK
      <4>. QED BY <4>1, FS_EmptySet
    <3>2. CASE v # w
      <4>1. Active(v)' = Active(v) /\ room'[v] = room[v]
        BY <3>2, <1>s DEF Active, HandlersOf, H, TypeOK, SemaphoresOK
      <4>. QED BY <4>1 DEF Quiet, RoomForActive
    <3>. QED BY <3>1, <3>2
  <2>. QED BY <2>1, <2>2, <2>3 DEF Quiet
<1>. QED BY <1>1, <1>2, <1>3, <1>4

(* A shutdown, until the connection is closed, moves no message.           *)
LEMMA ShutdownIndInv ==
  ASSUME IndInv, NEW w \in Worker,
         Shutdown(w) \/ DrainTakes(w) \/ Drained(w) \/ DrainTimesOut(w)
  PROVE  IndInv'
<1>. USE DEF IndInv, Shutdown, DrainTakes, Drained, DrainTimesOut
<1>0. UNCHANGED <<brokerVars, taskVars, history>>
  OBVIOUS
<1>. USE DEF brokerVars, taskVars, history
<1>1. TypeOK'
  <2>0. Cardinality(Active(w)) \in Nat /\ Len(line[w]) \in Nat
    BY ActiveCounted DEF TypeOK, SemaphoresOK
  <2>1. room' \in [Worker -> 0..Concurrency] /\ ahead' \in [Worker -> Nat]
        /\ line' = line
    <3>1. room[w] \in 0..Concurrency /\ Concurrency \in Nat
      BY DEF TypeOK, SemaphoresOK
    <3>2. CASE Shutdown(w)
      BY <2>0, <3>2 DEF TypeOK, SemaphoresOK
    <3>3. CASE DrainTakes(w)
      <4>1. room[w] - 1 \in 0..Concurrency
        BY <2>0, <3>1, <3>3 DEF Free
      <4>. QED BY <2>0, <3>3, <4>1 DEF TypeOK, SemaphoresOK
    <3>4. CASE Drained(w) \/ DrainTimesOut(w)
      BY <3>4 DEF TypeOK, SemaphoresOK
    <3>. QED BY <3>2, <3>3, <3>4
  <2>2. phase' \in [Worker -> {"running", "draining", "closing", "overdue"}]
    BY DEF TypeOK, SemaphoresOK
  <2>3. faults' \in 0..MaxFaults /\ inflight' \in SUBSET Handler
    BY DEF TypeOK, Active, HandlersOf
  <2>4. SemaphoresOK'
    BY <2>1, <2>2 DEF TypeOK, SemaphoresOK
  <2>. QED BY <1>0, <2>3, <2>4 DEF TypeOK, Exists
<1>2. Earned'
  BY <1>0 DEF Earned, BusyHasCopy, Busy, HandledIsCompleted, RetriesCounted, Live,
     RetryEarned, DeadEarned, DeadLettersEarned, InDeadLetters
<1>3. AllSafe'
  BY <1>0 DEF AllSafe, Safe, Exists, Unacked, Busy
<1>4. InflightAtWork'
  BY <1>0 DEF Quiet, InflightAtWork, Active
<1>5. ClosingIsQuiet'
  <2>. SUFFICES ASSUME NEW v \in Worker, phase'[v] = "closing"
                PROVE  HandlersOf(v) \cap inflight' = {}
    BY DEF ClosingIsQuiet, HandlersOf
  <2>1. CASE Shutdown(w)
    <3>1. phase[v] = "closing" /\ v # w
      BY <2>1 DEF TypeOK, SemaphoresOK
    <3>2. HandlersOf(v) \cap Active(w) = {}
      BY <3>1 DEF HandlersOf, Active
    <3>. QED BY <2>1, <3>1, <3>2 DEF Quiet, ClosingIsQuiet
  <2>2. CASE Drained(w)
    <3>1. Active(w) = {} => HandlersOf(w) \cap inflight = {}
      BY DEF Active, HandlersOf, Quiet, InflightAtWork
    <3>2. Active(w) = {}
      BY <2>2, ActiveCounted DEF Quiet, RoomForActive
    <3>. QED BY <2>2, <3>1, <3>2 DEF Quiet, ClosingIsQuiet, TypeOK, SemaphoresOK
  <2>3. CASE DrainTakes(w) \/ DrainTimesOut(w)
    BY <2>3 DEF Quiet, ClosingIsQuiet, TypeOK, SemaphoresOK
  <2>. QED BY <2>1, <2>2, <2>3
<1>6. RoomForActive'
  <2>. SUFFICES ASSUME NEW v \in Worker
                PROVE  Cardinality(Active(v)) <= room'[v]
    BY <1>0 DEF RoomForActive, Active, HandlersOf
  <2>1. Cardinality(Active(v)) <= room[v] /\ room[v] \in 0..Concurrency
        /\ Cardinality(Active(v)) \in Nat /\ Len(line[v]) \in Nat
    BY ActiveCounted DEF Quiet, RoomForActive, TypeOK, SemaphoresOK
  <2>. QED BY <2>1 DEF Free, TypeOK, SemaphoresOK
<1>. QED BY <1>1, <1>2, <1>3, <1>4, <1>5, <1>6 DEF Quiet

LEMMA StutterIndInv ==
  ASSUME IndInv, UNCHANGED vars
  PROVE  IndInv'
<1>. USE DEF IndInv, vars, brokerVars, taskVars, procVars, history
<1>1. TypeOK'
  BY SemaphoresKept DEF TypeOK, Exists
<1>2. Earned'
  BY DEF Earned, BusyHasCopy, Busy, HandledIsCompleted, RetriesCounted, Live,
     RetryEarned, DeadEarned, DeadLettersEarned, InDeadLetters
<1>3. AllSafe' /\ Quiet'
  BY DEF AllSafe, Safe, Exists, Unacked, Busy, Quiet, InflightAtWork,
     ClosingIsQuiet, RoomForActive, Active, HandlersOf
<1>. QED BY <1>1, <1>2, <1>3

(* The inductive invariant holds in every reachable state of Consumer.     *)
THEOREM ConsumerInductive == Spec => []IndInv
<1>1. IndInv /\ [Next]_vars => IndInv'
  <2>. SUFFICES ASSUME IndInv, [Next]_vars PROVE IndInv'
    OBVIOUS
  <2>1. CASE \E h \in Handler : Run(h)
    BY <2>1, StartIndInv, HandleIndInv, RepublishIndInv, SettleIndInv,
       AckRaisesIndInv DEF Run
  <2>2. CASE \E h \in Handler, c \in Copy : Deliver(h, c)
    BY <2>2, DeliverIndInv
  <2>3. CASE \E c \in Copy : RetryExpires(c)
    BY <2>3, RetryExpiresIndInv
  <2>4. ASSUME NEW w \in Worker, ConnectionLost(w) \/ Crash(w) \/ Shutdown(w) \/ Stop(w)
        PROVE  IndInv'
    <3>1. CASE Crash(w) \/ Close(w)
      <4>1. faults' \in 0..MaxFaults
        BY <3>1 DEF IndInv, TypeOK, Crash, Close
      <4>. QED BY <3>1, <4>1, EndedIndInv DEF Crash, Close
    <3>2. CASE ConnectionLost(w)
      BY <3>2, ConnectionLostIndInv
    <3>3. CASE Shutdown(w) \/ DrainTakes(w) \/ Drained(w) \/ DrainTimesOut(w)
      BY <3>3, ShutdownIndInv
    <3>. QED BY <2>4, <3>1, <3>2, <3>3 DEF Stop
  <2>5. CASE UNCHANGED vars
    BY <2>5, StutterIndInv
  <2>. QED BY <2>1, <2>2, <2>3, <2>4, <2>5 DEF Next
<1>. QED BY <1>1, InitIndInv, PTL DEF Spec

(* Type correctness; no copy counts more than max_retries retries.         *)
THEOREM ConsumerTypeOK == Spec => []TypeOK
  BY ConsumerInductive, PTL DEF IndInv

(* The last copy of an unhandled message never disappears.                 *)
THEOREM ConsumerNothingLost == Spec => []NothingLost
<1>1. AllSafe => NothingLost
  BY DEF AllSafe, NothingLost, Safe, Kept
<1>. QED BY <1>1, ConsumerInductive, PTL DEF IndInv

(* Only unprocessable or exhausted messages are dead-lettered.             *)
THEOREM ConsumerDeadLettersEarned == Spec => []DeadLettersEarned
  BY ConsumerInductive, PTL DEF IndInv, Earned

(* A drain that ends in time interrupts none of the work it found, and     *)
(* none that began before it ended.                                        *)
THEOREM ConsumerDrainSparesRunningWork == Spec => DrainSparesRunningWork
<1>1. IndInv => \A w \in Worker : phase[w] = "closing" => HandlersOf(w) \cap inflight = {}
  BY DEF IndInv, Quiet, ClosingIsQuiet
<1>2. IndInv /\ [Next]_vars =>
         [\A w \in Worker : phase[w] = "closing" /\ phase'[w] = "running"
              => HandlersOf(w) \cap inflight = {}]_vars
  BY <1>1
<1>. QED BY <1>2, ConsumerInductive, PTL DEF Spec, DrainSparesRunningWork
-----------------------------------------------------------------------------
(* Duplicates.                                                             *)

Stored(c) == queue[c] + retrying[c] + dead[c]

\* What has been published again and waits for its ack is somebody else's.
Holding(h) == step[h] \notin {"idle", "moved"}

\* A message is in one place: in one queue, once, or with one handler.
OnePlace ==
    /\ \A c \in Copy : Stored(c) <= 1
    /\ \A c, d \in Copy : c.msg = d.msg /\ Stored(c) > 0 /\ Stored(d) > 0 => c = d
    /\ \A c \in Copy, h \in Handler : Stored(c) > 0 /\ Holding(h) => copy[h].msg # c.msg
    /\ \A h, k \in Handler :
          Holding(h) /\ Holding(k) /\ copy[h].msg = copy[k].msg => h = k

\* Without a fault no delivery tag goes bad and no process stops.
Calm == /\ \A h \in Handler : Busy(h) => valid[h]
        /\ \A w \in Worker : phase[w] = "running"

CalmOnePlace == faults = 0 => Calm /\ OnePlace

LEMMA InitOnePlace == Init => CalmOnePlace
<1>. SUFFICES ASSUME Init PROVE Calm /\ OnePlace
  BY DEF CalmOnePlace
<1>1. \A h \in Handler : ~Holding(h) /\ ~Busy(h)
  BY DEF Init, Holding, Busy
<1>2. \A c \in Copy : Stored(c) = IF c.retries = 0 THEN 1 ELSE 0
  BY DEF Init, Stored
<1>3. \A c, d \in Copy : c.msg = d.msg /\ c.retries = 0 /\ d.retries = 0 => c = d
  BY DEF Copy
<1>4. OnePlace
  BY <1>1, <1>2, <1>3 DEF OnePlace
<1>5. Calm
  BY <1>1 DEF Init, Calm
<1>. QED BY <1>4, <1>5

LEMMA StoredType ==
  ASSUME TypeOK, NEW c \in Copy
  PROVE  /\ Stored(c) \in Nat
         /\ queue[c] > 0 => Stored(c) > 0
         /\ retrying[c] > 0 => Stored(c) > 0
  BY DEF TypeOK, Stored

(* A message goes from a queue to a handler, or back as the same copy or   *)
(* the next one; the three lemmas say that it stays in one place.          *)
LEMMA TakenOnePlace ==
  ASSUME TypeOK, OnePlace, NEW h \in Handler, NEW c \in Copy,
         ~Holding(h), Stored(c) > 0, Stored(c)' = Stored(c) - 1,
         \A d \in Copy : d # c => Stored(d)' = Stored(d),
         copy'[h] = c,
         \A k \in Handler : k # h => copy'[k] = copy[k] /\ (Holding(k)' <=> Holding(k))
  PROVE  OnePlace'
<1>. DEFINE now(d) == Stored(d)
            next(d) == Stored(d)'
<1>1. \A d \in Copy : now(d) \in Nat
  BY StoredType
<1>2. now(c) = 1 /\ next(c) = 0
  BY <1>1 DEF OnePlace
<1>3. \A d \in Copy : d.msg = c.msg => next(d) = 0
  BY <1>1, <1>2 DEF OnePlace
<1>4. \A k \in Handler : k # h /\ Holding(k)' => copy'[k].msg # c.msg
  BY <1>2 DEF OnePlace
<1>. QED BY <1>1, <1>2, <1>3, <1>4 DEF OnePlace

LEMMA ReleasedOnePlace ==
  ASSUME TypeOK, OnePlace, NEW h \in Handler, NEW c \in Copy,
         Holding(h), copy[h].msg = c.msg, ~Holding(h)',
         Stored(c)' = Stored(c) + 1,
         \A d \in Copy : d # c => Stored(d)' = Stored(d),
         \A k \in Handler : k # h => copy'[k] = copy[k] /\ (Holding(k)' <=> Holding(k))
  PROVE  OnePlace'
<1>1. \A d \in Copy : Stored(d) \in Nat
  BY StoredType
<1>2. \A d \in Copy : d.msg = c.msg => Stored(d) = 0
  BY <1>1 DEF OnePlace
<1>3. \A k \in Handler : k # h /\ Holding(k) => copy[k].msg # c.msg
  BY DEF OnePlace
<1>. QED BY <1>1, <1>2, <1>3 DEF OnePlace

LEMMA KeptOnePlace ==
  ASSUME OnePlace,
         \A d \in Copy : Stored(d)' = Stored(d),
         \A k \in Handler : Holding(k)' => Holding(k) /\ copy'[k] = copy[k]
  PROVE  OnePlace'
  BY DEF OnePlace

LEMMA RetriedCopy ==
  ASSUME NEW c \in Copy, c.retries + 1 \in 0..(MaxRetries + 1)
  PROVE  Retried(c) \in Copy /\ Retried(c).msg = c.msg
  BY DEF Copy, Retried

LEMMA HandlerOnePlace ==
  ASSUME IndInv, faults = 0, Calm, OnePlace, NEW h \in Handler, Run(h)
  PROVE  CalmOnePlace'
<1>. USE DEF IndInv, TypeOK, brokerVars, taskVars, procVars, history
<1>0. \A r \in {"retry", "dead"} : step[h] = r => copy[h] \in Copy /\ Holding(h)
  BY DEF Earned, BusyHasCopy, Busy, Holding
<1>1. CASE Start(h) \/ \E o \in Outcome : Handle(h, o)
  <2>1. /\ UNCHANGED <<queue, retrying, dead, copy, valid, phase>>
        /\ Busy(h) /\ Holding(h)
        /\ \A k \in Handler : k # h => step'[k] = step[k]
    BY <1>1 DEF Start, Handle, Fail, Busy, Holding
  <2>2. Calm'
    BY <2>1 DEF Calm, Busy
  <2>3. OnePlace'
    BY <2>1, KeptOnePlace DEF Stored, Holding
  <2>. QED BY <2>2, <2>3 DEF CalmOnePlace
<1>2. ASSUME NEW r \in PublishResult, Republish(h, r), faults' = 0
      PROVE  Calm' /\ OnePlace'
  <2>1. r = "confirmed"
    BY <1>2 DEF Republish
  <2>2. /\ UNCHANGED <<queue, copy, valid, phase>>
        /\ step' = [step EXCEPT ![h] = "moved"]
    BY <1>2, <2>1 DEF Republish, AfterPublish
  <2>3. copy[h] \in Copy /\ Holding(h) /\ Busy(h)
    BY <1>0, <1>2 DEF Republish, Busy
  <2>4. Calm'
    BY <2>2, <2>3 DEF Calm, Busy
  <2>5. ~Holding(h)' /\ \A k \in Handler : k # h => (Holding(k)' <=> Holding(k))
    BY <2>2 DEF Holding
  <2>6. CASE step[h] = "dead"
    <3>1. dead' = [dead EXCEPT ![copy[h]] = @ + 1] /\ UNCHANGED retrying
      BY <1>2, <2>1, <2>6 DEF Republish
    <3>2. /\ Stored(copy[h])' = Stored(copy[h]) + 1
          /\ \A d \in Copy : d # copy[h] => Stored(d)' = Stored(d)
      BY <2>2, <2>3, <3>1 DEF Stored
    <3>. QED BY <2>2, <2>3, <2>4, <2>5, <3>2, ReleasedOnePlace
  <2>7. CASE step[h] = "retry"
    <3>0. copy[h].retries + 1 \in 0..(MaxRetries + 1)
      BY <2>3, <2>7 DEF Copy, Earned, RetryEarned
    <3>1. PICK c \in Copy : c = Retried(copy[h]) /\ c.msg = copy[h].msg
      BY <2>3, <3>0, RetriedCopy
    <3>2. retrying' = [retrying EXCEPT ![c] = @ + 1] /\ UNCHANGED dead
      BY <1>2, <2>1, <2>7, <3>1 DEF Republish
    <3>3. /\ Stored(c)' = Stored(c) + 1
          /\ \A d \in Copy : d # c => Stored(d)' = Stored(d)
      BY <2>2, <3>1, <3>2 DEF Stored
    <3>. QED BY <2>2, <2>3, <2>4, <2>5, <3>1, <3>3, ReleasedOnePlace
  <2>. QED BY <1>2, <2>6, <2>7 DEF Republish
<1>3. CASE Settle(h)
  <2>1. /\ UNCHANGED <<retrying, dead, phase>>
        /\ step' = [step EXCEPT ![h] = "idle"]
        /\ \A k \in Handler : k # h => copy'[k] = copy[k] /\ valid'[k] = valid[k]
    BY <1>3 DEF Settle, Idle
  <2>2. Calm'
    BY <2>1 DEF Calm, Busy
  <2>3. ~Holding(h)' /\ \A k \in Handler : k # h => (Holding(k)' <=> Holding(k))
    BY <2>1 DEF Holding
  <2>4. CASE step[h] # "reject"
    <3>1. queue' = queue
      BY <1>3, <2>4 DEF Settle
    <3>. QED BY <2>1, <2>2, <2>3, <3>1, KeptOnePlace DEF CalmOnePlace, Stored
  <2>5. CASE step[h] = "reject"
    <3>1. PICK c \in Copy : c = copy[h] /\ Holding(h) /\ Unacked(h)
      BY <2>5 DEF Earned, BusyHasCopy, Busy, Holding, Unacked, Calm
    <3>2. /\ {k \in {h} : Unacked(k) /\ copy[k] = c} = {h}
          /\ \A d \in Copy : d # c =>
                {k \in {h} : Unacked(k) /\ copy[k] = d} = {}
      BY <3>1
    <3>3. /\ Returned({h})[c] = queue[c] + 1
          /\ \A d \in Copy : d # c => Returned({h})[d] = queue[d] + 0
      <4>1. Cardinality({h}) = 1 /\ Cardinality({}) = 0
        BY FS_Singleton, FS_EmptySet, Zenon
      <4>. QED BY <3>1, <3>2, <4>1 DEF Returned
    <3>4. /\ Stored(c)' = Stored(c) + 1
          /\ \A d \in Copy : d # c => Stored(d)' = Stored(d)
      <4>1. queue' = Returned({h})
        BY <1>3, <2>5 DEF Settle
      <4>2. \A d \in Copy : /\ queue[d] \in Nat /\ retrying[d] \in Nat /\ dead[d] \in Nat
                           /\ retrying'[d] = retrying[d] /\ dead'[d] = dead[d]
        BY <2>1
      <4>3. queue'[c] = queue[c] + 1 /\ \A d \in Copy : d # c => queue'[d] = queue[d]
        <5>1. /\ Returned({h})[c] = queue[c] + 1
              /\ \A d \in Copy : d # c => Returned({h})[d] = queue[d]
          <6>1. \A d \in Copy : queue[d] + 0 = queue[d]
            BY <4>2
          <6>. QED BY ONLY <3>3, <6>1
        <5>. QED BY <4>1, <5>1
      <4>. QED BY <4>2, <4>3 DEF Stored
    <3>. QED BY <2>1, <2>2, <2>3, <3>1, <3>4, ReleasedOnePlace DEF CalmOnePlace
  <2>. QED BY <2>4, <2>5
<1>4. CASE AckRaises(h)
  BY <1>4 DEF AckRaises, Calm, Busy
<1>. QED BY <1>1, <1>2, <1>3, <1>4 DEF Run, CalmOnePlace

LEMMA BrokerOnePlace ==
  ASSUME IndInv, faults = 0, Calm, OnePlace, NEW c \in Copy,
         RetryExpires(c) \/ \E h \in Handler : Deliver(h, c)
  PROVE  CalmOnePlace'
<1>. USE DEF IndInv, TypeOK, brokerVars, taskVars, procVars, history
<1>1. CASE RetryExpires(c)
  <2>1. \A d \in Copy : Stored(d)' = Stored(d)
    BY <1>1 DEF RetryExpires, Stored
  <2>2. OnePlace'
    BY <1>1, <2>1, KeptOnePlace DEF RetryExpires, Holding
  <2>. QED BY <1>1, <2>2 DEF RetryExpires, CalmOnePlace, Calm, Busy
<1>2. ASSUME NEW h \in Handler, Deliver(h, c)
      PROVE  CalmOnePlace'
  <2>1. /\ Stored(c) > 0 /\ Stored(c)' = Stored(c) - 1
        /\ \A d \in Copy : d # c => Stored(d)' = Stored(d)
    BY <1>2, StoredType DEF Deliver, Stored
  <2>2. /\ ~Holding(h) /\ copy'[h] = c
        /\ \A k \in Handler : k # h => copy'[k] = copy[k] /\ (Holding(k)' <=> Holding(k))
    BY <1>2 DEF Deliver, Holding
  <2>3. Calm'
    BY <1>2 DEF Deliver, Calm, Busy
  <2>. QED BY <2>1, <2>2, <2>3, TakenOnePlace DEF CalmOnePlace
<1>. QED BY <1>1, <1>2

LEMMA NextOnePlace ==
  ASSUME IndInv, IndInv', CalmOnePlace, [Next]_vars
  PROVE  CalmOnePlace'
<1>0. faults \in Nat
  BY DEF IndInv, TypeOK
<1>1. CASE faults # 0
  <2>1. ASSUME NEW h \in Handler, Run(h) \/ \E c \in Copy : Deliver(h, c)
        PROVE  faults' \in {faults, faults + 1}
    BY <2>1 DEF Run, Start, Handle, Republish, Settle, AckRaises, Deliver
  <2>2. ASSUME NEW w \in Worker, ConnectionLost(w) \/ Crash(w) \/ Shutdown(w) \/ Stop(w)
        PROVE  faults' \in {faults, faults + 1}
    BY <2>2 DEF ConnectionLost, Crash, Shutdown, Stop, DrainTakes, Drained, DrainTimesOut, Close
  <2>3. faults' \in {faults, faults + 1}
    BY <2>1, <2>2 DEF Next, RetryExpires, vars
  <2>. QED BY <1>0, <1>1, <2>3 DEF CalmOnePlace
<1>2. CASE faults = 0
  <2>. USE <1>2 DEF CalmOnePlace
  <2>1. CASE \E h \in Handler : Run(h)
    BY <2>1, HandlerOnePlace
  <2>2. CASE \E c \in Copy : RetryExpires(c) \/ \E h \in Handler : Deliver(h, c)
    BY <2>2, BrokerOnePlace
  <2>3. CASE \E w \in Worker : ConnectionLost(w) \/ Crash(w) \/ Shutdown(w)
    BY <2>3 DEF ConnectionLost, Crash, Shutdown
  <2>4. CASE \E w \in Worker : Stop(w)
    BY <2>4 DEF Stop, DrainTakes, Drained, DrainTimesOut, Close, Calm
  <2>5. CASE UNCHANGED vars
    BY <2>5 DEF vars, brokerVars, taskVars, procVars, Calm, Busy, OnePlace,
       Stored, Holding
  <2>. QED BY <2>1, <2>2, <2>3, <2>4, <2>5 DEF Next
<1>. QED BY <1>1, <1>2

(* As long as nothing has failed, neither the retry queue nor a reject nor *)
(* the dead-letter exchange leaves two copies of one message.              *)
THEOREM ConsumerNoDuplicateWithoutFault == Spec => []NoDuplicateWithoutFault
<1>1. IndInv /\ CalmOnePlace => NoDuplicateWithoutFault
  <2>. SUFFICES ASSUME IndInv, OnePlace
                PROVE  \A c, d \in Copy :
                          /\ Stock(c) <= 1
                          /\ c.msg = d.msg /\ Stock(c) > 0 /\ Stock(d) > 0 => c = d
    BY DEF CalmOnePlace, NoDuplicateWithoutFault
  <2>. DEFINE H(c) == {h \in Handler : /\ copy[h] = c
                                        /\ step[h] \notin {"idle", "moved"}}
  <2>1. ASSUME NEW c \in Copy
        PROVE  Stock(c) = Stored(c) + Cardinality(H(c)) /\ Stored(c) \in Nat
    BY StoredType DEF Stock, Stored, IndInv
  <2>2. ASSUME NEW c \in Copy
        PROVE  \/ H(c) = {} /\ Cardinality(H(c)) = 0
               \/ /\ \E h \in Handler : Holding(h) /\ copy[h] = c
                  /\ Cardinality(H(c)) = 1
    <3>1. CASE H(c) = {}
      BY <3>1, FS_EmptySet, Zenon
    <3>2. CASE H(c) # {}
      <4>1. PICK h \in Handler : h \in H(c)
        BY <3>2
      <4>2. H(c) = {h}
        BY <4>1 DEF OnePlace, Holding
      <4>3. Cardinality({h}) = 1
        BY FS_Singleton, Zenon
      <4>. QED BY <4>1, <4>2, <4>3 DEF Holding
    <3>. QED BY <3>1, <3>2
  <2>. HIDE DEF H
  <2>. QED BY <2>1, <2>2 DEF OnePlace
<1>. QED BY <1>1, InitOnePlace, NextOnePlace, ConsumerInductive, PTL DEF Spec
=============================================================================
