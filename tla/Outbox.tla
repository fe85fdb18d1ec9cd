------------------------------- MODULE Outbox -------------------------------
(***************************************************************************)
(* The table notification_outbox and everything that writes it:            *)
(*                                                                         *)
(*  - the account services (registration, activation resend, password      *)
(*    reset) insert one PENDING row in the transaction of the request;     *)
(*  - an expiry producer (one task of the expiry job per alert) inserts    *)
(*    the row if it is missing, claims it, publishes to RabbitMQ and       *)
(*    records the outcome, all inside ONE transaction that it may commit   *)
(*    or lose;                                                             *)
(*  - a sweeper (one per worker process) claims a batch in a transaction,  *)
(*    publishes outside any transaction and writes all outcomes back in a  *)
(*    second transaction.                                                  *)
(*                                                                         *)
(* A row is (status, attempts, due): due abstracts next_retry_at, FALSE    *)
(* while it lies in the future.  copies counts what the broker accepted:   *)
(* a publish that raises may have reached the broker (a lost confirm).     *)
(***************************************************************************)
EXTENDS Naturals, FiniteSets

CONSTANTS Event,         \* logical events: one event_id, at most one row
          AccountEvent,  \* those an account service records
          NoEvent,       \* what an idle producer is working on
          Producer,      \* expiry publishing tasks, of any number of jobs
          Sweeper,       \* worker processes
          MaxAttempts,   \* max_attempts of claim_for_send and claim_one
          BatchLimit,    \* limit of claim_for_send
          MaxRollbacks,  \* bound: producer transactions lost per event
          MaxAborts      \* bound: sweeps cut short

ASSUME OutboxAssumption ==
    /\ AccountEvent \subseteq Event
    /\ NoEvent \notin Event
    /\ MaxAttempts \in Nat \ {0}
    /\ BatchLimit \in Nat \ {0}
    /\ MaxRollbacks \in Nat
    /\ MaxAborts \in Nat

VARIABLES status,     \* status column; "ABSENT" when there is no committed row
          attempts,   \* attempt_count column
          due,        \* next_retry_at is null or past
          copies,     \* copies of the event the broker accepted
          tx,         \* the open transaction of each producer
          todo,       \* per sweeper: claimed, not yet published
          sent,       \* per sweeper: published, outcome not yet written
          failed,     \* per sweeper: publish raised, outcome not yet written
          rollbacks,  \* producer transactions lost, per event
          aborts      \* sweeps cut short

rowVars == <<status, attempts, due>>
sweepVars == <<todo, sent, failed>>
vars == <<status, attempts, due, copies, tx, todo, sent, failed,
          rollbacks, aborts>>

Status == {"ABSENT", "PENDING", "SENDING", "SENT", "FAILED"}

\* A producer between claim_one and the end of its transaction: the event,
\* and what it will commit ("claimed" while the publish is still pending).
Tx == [event : Event \cup {NoEvent}, result : {"claimed", "SENT", "FAILED"}]
NoTx == [event |-> NoEvent, result |-> "claimed"]

\* How a call of broker.publish can end: confirmed, raised without reaching
\* the broker, or raised although the broker has the message.
Outcome == {"confirmed", "rejected", "unconfirmed"}

Init == /\ status = [e \in Event |-> "ABSENT"]
        /\ attempts = [e \in Event |-> 0]
        /\ due = [e \in Event |-> TRUE]
        /\ copies = [e \in Event |-> 0]
        /\ tx = [p \in Producer |-> NoTx]
        /\ todo = [s \in Sweeper |-> {}]
        /\ sent = [s \in Sweeper |-> {}]
        /\ failed = [s \in Sweeper |-> {}]
        /\ rollbacks = [e \in Event |-> 0]
        /\ aborts = 0

-----------------------------------------------------------------------------
(* Helpers                                                                 *)

\* A producer's open transaction holds the row lock (or the uncommitted
\* unique key) of its event.
Locked(e) == \E p \in Producer : tx[p].event = e

\* Mutants of Eligible: one attempt too many, and no retry of failed rows.
EligibleOffByOne(e) == /\ status[e] \in {"PENDING", "FAILED"}
                       /\ due[e]
                       /\ attempts[e] <= MaxAttempts
EligibleFirstTry(e) == status[e] = "PENDING" /\ attempts[e] < MaxAttempts

\* The WHERE clause that claim_for_send and claim_one share.
Eligible(e) == /\ status[e] \in {"PENDING", "FAILED"}
               /\ due[e]
               /\ attempts[e] < MaxAttempts

\* Mutant of Claimable: the row lock of an open transaction is ignored.
ClaimableUnlocked(e) == Eligible(e)

\* What FOR UPDATE SKIP LOCKED leaves of the eligible rows.
Claimable(e) == Eligible(e) /\ ~Locked(e)

\* Mutant of Charged: a claim that does not count as an attempt.
ChargedNothing(e) == attempts[e]

\* Every claim is charged to the row before its publish is tried.
Charged(e) == attempts[e] + 1

Recorded(outcome) == IF outcome = "confirmed" THEN "SENT" ELSE "FAILED"

Batch(s) == todo[s] \cup sent[s] \cup failed[s]

Accepted(e, outcome) ==
    copies' = IF outcome = "rejected" THEN copies
                                      ELSE [copies EXCEPT ![e] = @ + 1]

-----------------------------------------------------------------------------
(* Account services                                                        *)

\* The request's transaction commits its user change together with the row.
Enqueue(e) ==
    /\ e \in AccountEvent
    /\ status[e] = "ABSENT"
    /\ status' = [status EXCEPT ![e] = "PENDING"]
    /\ UNCHANGED <<attempts, due, copies, tx, sweepVars, rollbacks, aborts>>

-----------------------------------------------------------------------------
(* Expiry producers                                                        *)

\* ensure, then claim_one: both wait for a transaction that holds the row.
\* When the row is sent, exhausted, claimed or waiting the task returns and
\* commits nothing, which is a stuttering step.
ProducerClaim(p, e) ==
    /\ e \in Event \ AccountEvent
    /\ tx[p] = NoTx
    /\ ~Locked(e)
    /\ status[e] = "ABSENT" \/ Eligible(e)
    /\ tx' = [tx EXCEPT ![p] = [event |-> e, result |-> "claimed"]]
    /\ UNCHANGED <<rowVars, copies, sweepVars, rollbacks, aborts>>

\* broker.publish inside the transaction; an exception becomes FAILED.
ProducerPublish(p, outcome) ==
    /\ tx[p].event # NoEvent
    /\ tx[p].result = "claimed"
    /\ Accepted(tx[p].event, outcome)
    /\ tx' = [tx EXCEPT ![p].result = Recorded(outcome)]
    /\ UNCHANGED <<rowVars, sweepVars, rollbacks, aborts>>

\* The commit makes the claim and the outcome visible at once.
ProducerCommit(p) ==
    LET e == tx[p].event IN
    /\ e # NoEvent
    /\ tx[p].result # "claimed"
    /\ status' = [status EXCEPT ![e] = tx[p].result]
    /\ attempts' = [attempts EXCEPT ![e] = Charged(e)]
    /\ due' = [due EXCEPT ![e] = tx[p].result = "SENT"]
    /\ tx' = [tx EXCEPT ![p] = NoTx]
    /\ UNCHANGED <<copies, sweepVars, rollbacks, aborts>>

\* The ten-second timeout, a crash of the job or a failed commit: the row is
\* as it was before, whatever the broker has seen.
ProducerRollback(p) ==
    LET e == tx[p].event IN
    /\ e # NoEvent
    /\ rollbacks[e] < MaxRollbacks
    /\ rollbacks' = [rollbacks EXCEPT ![e] = @ + 1]
    /\ tx' = [tx EXCEPT ![p] = NoTx]
    /\ UNCHANGED <<rowVars, copies, sweepVars, aborts>>

-----------------------------------------------------------------------------
(* Sweepers: sweep_outbox_once                                             *)

\* The claim transaction takes up to BatchLimit claimable rows; which ones
\* (the oldest) does not matter here, so any full batch will do.
SweepClaim(s) ==
    /\ Batch(s) = {}
    /\ \E batch \in SUBSET {e \in Event : Claimable(e)} :
          /\ batch # {} /\ IsFiniteSet(batch)
          /\ \/ Cardinality(batch) = BatchLimit
             \/ /\ Cardinality(batch) < BatchLimit
                /\ \A e \in Event : Claimable(e) => e \in batch
          /\ status' = [e \in Event |-> IF e \in batch THEN "SENDING"
                                                       ELSE status[e]]
          /\ attempts' = [e \in Event |-> IF e \in batch THEN Charged(e)
                                                         ELSE attempts[e]]
          /\ todo' = [todo EXCEPT ![s] = batch]
    /\ UNCHANGED <<due, copies, tx, sent, failed, rollbacks, aborts>>

\* One turn of the publish loop.
SweepPublish(s, e, outcome) ==
    /\ e \in todo[s]
    /\ Accepted(e, outcome)
    /\ todo' = [todo EXCEPT ![s] = @ \ {e}]
    /\ IF Recorded(outcome) = "SENT"
       THEN sent' = [sent EXCEPT ![s] = @ \cup {e}] /\ UNCHANGED failed
       ELSE failed' = [failed EXCEPT ![s] = @ \cup {e}] /\ UNCHANGED sent
    /\ UNCHANGED <<rowVars, tx, rollbacks, aborts>>

\* Mutant of FinalStatus: only the successes are written back.
FinalStatusOfSent(s, e) == IF e \in sent[s] THEN "SENT" ELSE status[e]

FinalStatus(s, e) == IF e \in sent[s] THEN "SENT"
                     ELSE IF e \in failed[s] THEN "FAILED"
                     ELSE status[e]

\* The bulk UPDATE by id: it looks at no column of the rows it overwrites.
SweepFinalize(s) ==
    /\ Batch(s) # {}
    /\ todo[s] = {}
    /\ \A e \in Batch(s) : ~Locked(e)
    /\ status' = [e \in Event |-> FinalStatus(s, e)]
    /\ due' = [e \in Event |-> IF e \in sent[s] THEN TRUE
                               ELSE IF e \in failed[s] THEN FALSE
                               ELSE due[e]]
    /\ sent' = [sent EXCEPT ![s] = {}]
    /\ failed' = [failed EXCEPT ![s] = {}]
    /\ UNCHANGED <<attempts, copies, tx, todo, rollbacks, aborts>>

\* The process dies, shutdown cancels the sweeper task, or the finalize
\* transaction fails (the loop logs it and sleeps): the outcomes are gone.
SweepAbort(s) ==
    /\ Batch(s) # {}
    /\ aborts < MaxAborts
    /\ aborts' = aborts + 1
    /\ todo' = [todo EXCEPT ![s] = {}]
    /\ sent' = [sent EXCEPT ![s] = {}]
    /\ failed' = [failed EXCEPT ![s] = {}]
    /\ UNCHANGED <<rowVars, copies, tx, rollbacks>>

\* next_retry_at passes (60 s for a producer, 1 to 16 minutes for a sweeper).
BackoffElapses(e) ==
    /\ ~due[e]
    /\ due' = [due EXCEPT ![e] = TRUE]
    /\ UNCHANGED <<status, attempts, copies, tx, sweepVars, rollbacks, aborts>>

-----------------------------------------------------------------------------

Next ==
    \/ \E e \in Event : Enqueue(e) \/ BackoffElapses(e)
    \/ \E p \in Producer : \/ \E e \in Event : ProducerClaim(p, e)
                           \/ \E o \in Outcome : ProducerPublish(p, o)
                           \/ ProducerCommit(p)
                           \/ ProducerRollback(p)
    \/ \E s \in Sweeper : \/ SweepClaim(s)
                          \/ \E e \in Event, o \in Outcome : SweepPublish(s, e, o)
                          \/ SweepFinalize(s)
                          \/ SweepAbort(s)

Spec == Init /\ [][Next]_vars

\* run_sweeper_loop never stops sweeping, every publish call and every open
\* transaction ends, and time passes.  Nothing forces a request, an expiry
\* task or a failure to happen.
Fairness ==
    /\ \A e \in Event : WF_vars(BackoffElapses(e))
    /\ \A p \in Producer :
          WF_vars((\E o \in Outcome : ProducerPublish(p, o)) \/ ProducerCommit(p))
    /\ \A s \in Sweeper :
          /\ WF_vars(SweepClaim(s))
          /\ WF_vars(\E e \in Event, o \in Outcome : SweepPublish(s, e, o))
          /\ WF_vars(SweepFinalize(s))

FairSpec == Spec /\ Fairness

-----------------------------------------------------------------------------
(* Properties                                                              *)

TypeOK ==
    /\ status \in [Event -> Status]
    /\ attempts \in [Event -> 0..MaxAttempts]
    /\ due \in [Event -> BOOLEAN]
    /\ copies \in [Event -> Nat]
    /\ tx \in [Producer -> Tx]
    /\ todo \in [Sweeper -> SUBSET Event]
    /\ sent \in [Sweeper -> SUBSET Event]
    /\ failed \in [Sweeper -> SUBSET Event]
    /\ rollbacks \in [Event -> 0..MaxRollbacks]
    /\ aborts \in 0..MaxAborts

\* The comment of publish_expiry_event ("This prevents concurrent publishers
\* for the same event"): at any time at most one sweeper batch or producer
\* transaction works on an event.
SinglePublisher ==
    \A e \in Event :
       /\ \A s, t \in Sweeper : e \in Batch(s) /\ e \in Batch(t) => s = t
       /\ \A p, q \in Producer : tx[p].event = e /\ tx[q].event = e => p = q
       /\ \A s \in Sweeper : e \in Batch(s) => ~Locked(e)

\* A row says SENT only when the broker has the message, across every
\* interleaving of the claim, publish and finalize transactions.
SentWasPublished == \A e \in Event : status[e] = "SENT" => copies[e] > 0

\* Duplicates are bounded: retries never put more than MaxAttempts copies of
\* an event in the broker, plus one for each producer transaction that was
\* lost after it had published.
CopiesBounded == \A e \in Event : copies[e] <= MaxAttempts + rollbacks[e]

\* Rows that say SENDING while nobody is sending them.
Orphans == {e \in Event : /\ status[e] = "SENDING"
                          /\ \A s \in Sweeper : e \notin Batch(s)}

\* What one aborted sweep can strand: no more than the batch it had claimed,
\* and nothing is stranded in any other way.
OrphansBounded == Cardinality(Orphans) <= aborts * BatchLimit

\* A row that has been sent is never written again, although finalize_results
\* overwrites by id without looking at the status, and never published again.
SentIsFinal ==
    [][\A e \in Event : status[e] = "SENT" =>
          /\ status'[e] = "SENT"
          /\ attempts'[e] = attempts[e]
          /\ copies'[e] = copies[e]]_vars

Settled(e) == \/ status[e] = "SENT"
              \/ status[e] = "FAILED" /\ attempts[e] = MaxAttempts

\* "Events are persisted first, then published. Guarantees no lost events":
\* a recorded event is eventually sent, or given up after MaxAttempts tries,
\* unless the sweeper that has claimed it died: every other interleaving of
\* claims, failures, backoffs, rolled-back requests and aborted sweeps of other
\* events leaves it moving.
SettledUnlessStranded ==
    \A e \in Event : status[e] # "ABSENT" ~> Settled(e) \/ e \in Orphans

\* The outbox implements its contract: a row is owed until it is sent or has
\* used up its attempts.
StageOf(e) == IF status[e] = "ABSENT" THEN "absent"
              ELSE IF status[e] = "SENT" THEN "delivered"
              ELSE IF Settled(e) THEN "abandoned"
              ELSE "owed"

Contract == INSTANCE OutboxContract WITH stage <- [e \in Event |-> StageOf(e)]

\* Every step of the outbox is a step its contract allows, or changes nothing
\* the contract can see.
ImplementsContract == Contract!CSpec

-----------------------------------------------------------------------------
(* The inductive invariant behind SinglePublisher, SentWasPublished,       *)
(* CopiesBounded and the refinement.                                       *)

\* A batch consists of SENDING rows, each in one of its three lists.
BatchesAreSending ==
    \A s \in Sweeper :
       /\ \A e \in Batch(s) : status[e] = "SENDING"
       /\ todo[s] \cap sent[s] = {}
       /\ todo[s] \cap failed[s] = {}
       /\ sent[s] \cap failed[s] = {}

\* A producer's transaction works on a row it may claim, which therefore
\* nobody else is sending.
LockedRowsAreOpen ==
    \A p \in Producer : LET e == tx[p].event IN
       e # NoEvent => /\ status[e] \in {"ABSENT", "PENDING", "FAILED"}
                      /\ attempts[e] < MaxAttempts

\* Success is recorded, in memory or in the row, only after a copy.
SuccessHasCopy ==
    /\ SentWasPublished
    /\ \A s \in Sweeper : \A e \in sent[s] : copies[e] > 0
    /\ \A p \in Producer : tx[p].event # NoEvent /\ tx[p].result = "SENT"
                            => copies[tx[p].event] > 0

\* A producer has published and not yet committed or rolled back.
Published(e) ==
    \E p \in Producer : tx[p].event = e /\ tx[p].result # "claimed"

\* Every copy is paid for by an attempt, a lost transaction, or a transaction
\* about to commit its attempt; a claim that is still to be published has
\* paid already.
CopiesAccounted ==
    \A e \in Event :
       /\ copies[e] <= attempts[e] + rollbacks[e] + (IF Published(e) THEN 1 ELSE 0)
       /\ \A s \in Sweeper : e \in todo[s] => copies[e] < attempts[e] + rollbacks[e]

IndInv ==
    /\ TypeOK
    /\ SinglePublisher
    /\ BatchesAreSending
    /\ LockedRowsAreOpen
    /\ \A e \in Event : status[e] = "ABSENT" => attempts[e] = 0
    /\ SuccessHasCopy
    /\ CopiesAccounted
=============================================================================
