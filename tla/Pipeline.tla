------------------------------ MODULE Pipeline ------------------------------
(***************************************************************************)
(* From the transaction that records an event to its recipients: the       *)
(* outbox, RabbitMQ and the delivery table together.                       *)
(*                                                                         *)
(* The two tables meet only at messages.  A publish that reaches the       *)
(* broker, whatever the publisher learns of it, puts one more message of   *)
(* the event into the queue, and a consumer that takes a message knows     *)
(* only its event_id.  Nothing goes back: the worker never looks at the    *)
(* outbox, and an event may be handled before its own transaction has      *)
(* committed, or although it was rolled back.                              *)
(*                                                                         *)
(* Consumer.tla has what becomes of a message that is not handled: it is   *)
(* kept, doubled or put into the dead-letter queue.                        *)
(***************************************************************************)
EXTENDS Delivery

CONSTANTS AccountEvent,     \* events an account service records
          Producer,         \* expiry publishing tasks
          Publisher,        \* outbox sweepers
          PublishAttempts,  \* max_attempts of the outbox
          BatchLimit,       \* limit of the outbox's claim_for_send
          MaxRollbacks,     \* bound: producer transactions lost per event
          MaxAborts,        \* bound: outbox sweeps cut short
          MaxDoubles        \* bound: messages the broker holds twice

VARIABLES outStatus,    \* notification_outbox: status,
          outAttempts,  \* attempt_count,
          outDue,       \* and whether next_retry_at has passed
          copies,       \* messages the broker has accepted, per event
          tx,           \* the open transaction of each producer
          outTodo,      \* per publisher: claimed, not yet published
          outSent,      \* per publisher: published, not yet written
          outFailed,    \* per publisher: failed, not yet written
          rollbacks,    \* producer transactions lost, per event
          aborts,       \* outbox sweeps cut short
          dead,         \* events with a message in the dead-letter queue
          doubles       \* messages doubled so far

Out == INSTANCE Outbox
         WITH Sweeper <- Publisher,
              MaxAttempts <- PublishAttempts,
              status <- outStatus,
              attempts <- outAttempts,
              due <- outDue,
              todo <- outTodo,
              sent <- outSent,
              failed <- outFailed

outboxVars == <<outStatus, outAttempts, outDue, copies, tx, outTodo, outSent,
                outFailed, rollbacks, aborts>>
deliveryVars == <<rowVars, taskVars, holder, sends, faults, slow>>
pipelineVars == <<outboxVars, deliveryVars, ready, dead, doubles>>

\* The outbox is the only source of messages.
ASSUME PipelineAssumption == /\ Out!OutboxAssumption
                             /\ Messages = 0
                             /\ MaxDoubles \in Nat

PipelineInit == /\ Out!Init
                /\ Init
                /\ dead = {}
                /\ doubles = 0

-----------------------------------------------------------------------------

\* What a step of the outbox has published.
Queued(e) == copies'[e] - copies[e]

\* An account service, an expiry producer or an outbox sweeper.
Publishing ==
    /\ Out!Next
    /\ ready' = [e \in Event |-> ready[e] + Queued(e)]
    /\ UNCHANGED <<deliveryVars, dead, doubles>>

\* A consumer task, a delivery sweeper, or the end of their process.
Handling ==
    /\ Next
    /\ UNCHANGED <<outboxVars, dead, doubles>>

\* A message that failed is published again, to the retry or the dead-letter
\* exchange; that publish raises although the broker has it, and the message is
\* rejected, which requeues it.
Doubled(e) ==
    /\ ready[e] > 0
    /\ doubles < MaxDoubles
    /\ doubles' = doubles + 1
    /\ ready' = [ready EXCEPT ![e] = @ + 1]
    /\ UNCHANGED <<outboxVars, deliveryVars, dead>>

\* The message cannot be processed, or has failed more often than max_retries:
\* it goes to the dead-letter queue, with rows of its event or without.
DeadLetter(e) ==
    /\ ready[e] > 0
    /\ ready' = [ready EXCEPT ![e] = @ - 1]
    /\ dead' = dead \cup {e}
    /\ UNCHANGED <<outboxVars, deliveryVars, doubles>>

PipelineNext == \/ Publishing
                \/ Handling
                \/ \E e \in Event : Doubled(e) \/ DeadLetter(e)

PipelineSpec == PipelineInit /\ [][PipelineNext]_pipelineVars

\* Nothing makes an ingest succeed: with broker retries off, the default, a
\* message that keeps failing is requeued without a count, and stays in `ready`.
FairPipelineSpec == PipelineSpec /\ Out!Fairness /\ Progress

-----------------------------------------------------------------------------
(* Properties                                                              *)

PipelineTypeOK == /\ Out!TypeOK
                  /\ TypeOK
                  /\ dead \in SUBSET Event
                  /\ doubles \in 0..MaxDoubles

\* An event the broker has accepted is never forgotten at the hand-over: a
\* message of it still waits, or lies in the dead-letter queue, or every
\* delivery of the event has its row.  In particular an outbox row that says
\* SENT, and an event whose producer was rolled back after it had published.
NothingSlips ==
    \A e \in Event : copies[e] > 0 =>
        \/ ready[e] > 0
        \/ e \in dead
        \/ \A d \in RowsOf(e) : status[d] # "ABSENT"

\* What the pipeline's contract sees of a delivery: its row, and while that is
\* not settled, what the outbox and the broker know of its event.
FateOf(d) ==
    LET e == EventOf[d] IN
    IF StageOf(d) \in {"sent", "exhausted"} THEN StageOf(d)
    ELSE IF copies[e] > 0 THEN "owed"
    ELSE CASE Out!StageOf(e) = "absent" -> "unknown"
           [] Out!StageOf(e) = "abandoned" -> "unpublished"
           [] OTHER -> "owed"

EndToEnd == INSTANCE PipelineContract
              WITH fate <- [d \in Delivery |-> FateOf(d)],
                   reached <- sends

\* The pipeline keeps its contract from end to end: with publishers, brokers,
\* claimers and processes that fail at any point, the final fates are final
\* and true, and copies of an event never add to its attempts.
ImplementsEndToEnd == EndToEnd!CSpec

\* A message of the event waits, and no transaction has written the row yet.
NotIngested(d) == ready[EventOf[d]] > 0 /\ status[d] = "ABSENT"

\* Each recorded or published delivery is eventually sent or given up, except
\* where one of the parts is known to stop: a message whose ingest fails for
\* ever and is requeued each time, an outbox row stranded by an aborted sweep, a
\* message that was dead-lettered, a crash in the last attempt.
EventuallyDecided ==
    \A d \in Delivery :
       \/ <>[]NotIngested(d)
       \/ (FateOf(d) = "owed")
             ~> \/ FateOf(d) # "owed"
                \/ EventOf[d] \in Out!Orphans \cup dead
                \/ faults > 0 /\ attempts[d] = MaxAttempts
=============================================================================
