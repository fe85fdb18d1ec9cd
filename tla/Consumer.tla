------------------------------ MODULE Consumer ------------------------------
(***************************************************************************)
(* What on_message does with a RabbitMQ message: acknowledge it, publish   *)
(* it to the retry queue or to the dead-letter queue and then acknowledge  *)
(* it, or reject it back to the main queue.                                *)
(*                                                                         *)
(* The broker holds copies of messages in the main queue, the TTL retry    *)
(* queue and the dead-letter queue.  A copy carries its x-retry-count      *)
(* header.  A handler works on an unacknowledged copy; when the connection *)
(* of its worker is lost the broker puts that copy back into the queue,    *)
(* while the handler goes on with a delivery tag that is no longer good.   *)
(*                                                                         *)
(* What happens inside the handler's transactions is the subject of module *)
(* Delivery; here a handler ends well, with an exception that             *)
(* _is_unprocessable calls permanent, with the exception of a body that is *)
(* JSON and no object (raised before the headers it would be retried with  *)
(* are read), or with any other exception.                                 *)
(*                                                                         *)
(* A worker that is told to stop waits for its handlers, up to a time      *)
(* limit, and then closes the connection.  It goes on receiving meanwhile: *)
(* stop_consuming has no consumer tag to cancel.  The semaphore is a queue  *)
(* (asyncio serves its waiters in their order), in which the drain stands   *)
(* again and again, once for every permit, behind what has come meanwhile.  *)
(***************************************************************************)
EXTENDS Naturals, FiniteSets, Sequences

CONSTANTS Message,        \* the messages published to the exchange
          NoCopy,         \* what an idle handler works on
          Handler,        \* tasks that run on_message
          Worker,         \* processes, one connection each
          WorkerOf,       \* the process of a handler
          OutcomesOf,     \* the ways the handling of a message may end
          MaxRetries,     \* cfg.max_retries
          BrokerRetries,  \* the processes with cfg.use_broker_retries
          Concurrency,    \* cfg.worker_concurrency
          MaxFaults       \* bound: lost connections and failed publishes

Outcome == {"handled", "transient", "permanent", "garbled"}

ASSUME ConsumerAssumption ==
    /\ IsFiniteSet(Handler)
    /\ WorkerOf \in [Handler -> Worker]
    /\ OutcomesOf \in [Message -> SUBSET Outcome]
    /\ MaxRetries \in Nat
    /\ BrokerRetries \in SUBSET Worker
    /\ Concurrency \in Nat \ {0}
    /\ MaxFaults \in Nat

Copy == [msg : Message, retries : 0..(MaxRetries + 1)]

ASSUME NoCopyAssumption == NoCopy \notin Copy

VARIABLES queue,      \* copies waiting in the main queue
          retrying,   \* copies waiting in the retry queue
          dead,       \* copies in the dead-letter queue
          step,       \* per handler: how far on_message is
          copy,       \* per handler: the copy it handles
          valid,      \* per handler: its delivery tag is still good
          phase,      \* per process: "running", "draining", then "closing" or,
                      \* when the drain has timed out, "overdue"
          room,       \* per process: permits of its semaphore that drain has not taken
          line,       \* per process: the handlers that wait for a permit, in order
          ahead,      \* per process: how many of them its drain stands behind
          inflight,   \* handlers that were at work when their process was told to
                      \* stop, or began before its drain had ended (history)
          completed,  \* messages some handler has handled well (history)
          refused,    \* messages found unprocessable (history)
          failures,   \* other failures of a message, up to MaxRetries + 1 (history)
          faults      \* lost connections and failed publishes so far

brokerVars == <<queue, retrying, dead>>
taskVars == <<step, copy, valid>>
procVars == <<phase, room, line, ahead>>
history == <<completed, refused, failures>>
vars == <<brokerVars, taskVars, procVars, inflight, history, faults>>

HandlersOf(w) == {h \in Handler : WorkerOf[h] = w}

\* idle; received, waiting for the semaphore; handling the event; handled it,
\* about to acknowledge; about to publish to the retry or dead-letter exchange;
\* published, about to acknowledge; about to reject.
Step == {"idle", "waiting", "handling", "handled", "retry", "dead", "moved", "reject"}

Init == /\ queue = [c \in Copy |-> IF c.retries = 0 THEN 1 ELSE 0]
        /\ retrying = [c \in Copy |-> 0]
        /\ dead = [c \in Copy |-> 0]
        /\ step = [h \in Handler |-> "idle"]
        /\ copy = [h \in Handler |-> NoCopy]
        /\ valid = [h \in Handler |-> FALSE]
        /\ phase = [w \in Worker |-> "running"]
        /\ room = [w \in Worker |-> Concurrency]
        /\ line = [w \in Worker |-> <<>>]
        /\ ahead = [w \in Worker |-> 0]
        /\ inflight = {}
        /\ completed = {}
        /\ refused = {}
        /\ failures = [m \in Message |-> 0]
        /\ faults = 0

-----------------------------------------------------------------------------
(* Helpers                                                                 *)

Busy(h) == step[h] # "idle"

\* Mutant of Active: the permit is back before the message is settled.
ActiveUnsettled(w) ==
    {h \in HandlersOf(w) : step[h] \notin {"idle", "waiting", "handled", "moved"}}

\* The handlers that hold a permit.
Active(w) == {h \in HandlersOf(w) : step[h] \notin {"idle", "waiting"}}

Free(w) == Cardinality(Active(w)) < room[w]

Unacked(h) == Busy(h) /\ valid[h]

Idle(H) ==
    /\ step' = [h \in Handler |-> IF h \in H THEN "idle" ELSE step[h]]
    /\ copy' = [h \in Handler |-> IF h \in H THEN NoCopy ELSE copy[h]]
    /\ valid' = [h \in Handler |-> valid[h] /\ h \notin H]
    /\ inflight' = inflight \ H

Returned(H) ==
    [c \in Copy |->
        queue[c] + Cardinality({h \in H : Unacked(h) /\ copy[h] = c})]

\* Mutant of Exhausted: one retry too few.
ExhaustedEarly(c) == c.retries + 2 > MaxRetries

\* The incremented retry count is beyond max_retries.
Exhausted(c) == c.retries + 1 > MaxRetries

\* Mutant of Retried: the header is copied as it is.
RetriedSame(c) == c

\* The copy published for a retry carries the incremented x-retry-count.
Retried(c) == [c EXCEPT !.retries = @ + 1]

\* Whether the except branch gets as far as publishing a retry: the process
\* retries through the broker, and dict(headers) finds headers bound.
Retriable(h, outcome) == WorkerOf[h] \in BrokerRetries /\ outcome # "garbled"

\* Where the except branch goes with a failure that is not permanent.
AfterTransient(h, outcome) == IF Exhausted(copy[h]) THEN "dead"
                              ELSE IF Retriable(h, outcome) THEN "retry"
                              ELSE "reject"

\* Mutants of AfterPublish: an exception of the publish is swallowed, and a
\* copy is rejected although it was published.
AfterPublishAlways(result) == "moved"
AfterPublishReject(result) == "reject"

\* The acknowledgement comes only after the publish has succeeded.
AfterPublish(result) == IF result = "confirmed" THEN "moved" ELSE "reject"

Fail(h, outcome) ==
    LET c == copy[h] IN
    /\ step' = [step EXCEPT ![h] = IF outcome = "permanent" THEN "dead"
                                   ELSE AfterTransient(h, outcome)]
    /\ IF outcome = "permanent"
       THEN refused' = refused \cup {c.msg} /\ UNCHANGED failures
       ELSE /\ failures' = [failures EXCEPT ![c.msg] =
                               IF @ > MaxRetries THEN @ ELSE @ + 1]
            /\ UNCHANGED refused

-----------------------------------------------------------------------------
(* on_message                                                              *)

\* A task that finds a permit free and nobody in line starts at once.
Deliver(h, c) ==
    LET w == WorkerOf[h]
        served == Free(w) /\ line[w] = <<>> /\ phase[w] # "draining"
    IN
    /\ step[h] = "idle"
    /\ queue[c] > 0
    /\ queue' = [queue EXCEPT ![c] = @ - 1]
    /\ step' = [step EXCEPT ![h] = IF served THEN "handling" ELSE "waiting"]
    /\ line' = IF served THEN line ELSE [line EXCEPT ![w] = Append(@, h)]
    /\ copy' = [copy EXCEPT ![h] = c]
    /\ valid' = [valid EXCEPT ![h] = TRUE]
    /\ UNCHANGED <<retrying, dead, phase, room, ahead, inflight, history, faults>>

\* async with self._process_sem, for the first in line; while its process
\* drains, one that the drain stands behind.
Start(h) ==
    LET w == WorkerOf[h] IN
    /\ step[h] = "waiting" /\ Free(w)
    /\ line[w] # <<>> /\ Head(line[w]) = h
    /\ step' = [step EXCEPT ![h] = "handling"]
    /\ line' = [line EXCEPT ![w] = Tail(@)]
    /\ IF phase[w] = "draining"
       THEN /\ ahead[w] > 0
            /\ ahead' = [ahead EXCEPT ![w] = @ - 1]
            /\ inflight' = inflight \cup {h}
       ELSE UNCHANGED <<ahead, inflight>>
    /\ UNCHANGED <<brokerVars, copy, valid, phase, room, history, faults>>

\* Prepare, send and finalize, up to the acknowledgement or the exception.
Handle(h, outcome) ==
    /\ step[h] = "handling"
    /\ outcome \in OutcomesOf[copy[h].msg]
    /\ IF outcome = "handled"
       THEN /\ step' = [step EXCEPT ![h] = "handled"]
            /\ completed' = completed \cup {copy[h].msg}
            /\ UNCHANGED <<refused, failures>>
       ELSE Fail(h, outcome) /\ UNCHANGED completed
    /\ UNCHANGED <<brokerVars, copy, valid, procVars, inflight, faults>>

\* _publish_retry and _send_to_dlq.  The publish may raise, and may then have
\* reached the broker or not.
Republish(h, result) ==
    LET c == copy[h] IN
    /\ step[h] \in {"retry", "dead"}
    /\ IF result = "confirmed" THEN UNCHANGED faults
       ELSE faults < MaxFaults /\ faults' = faults + 1
    /\ IF result = "rejected" THEN UNCHANGED <<retrying, dead>>
       ELSE IF step[h] = "dead"
       THEN dead' = [dead EXCEPT ![c] = @ + 1] /\ UNCHANGED retrying
       ELSE /\ retrying' = [retrying EXCEPT ![Retried(c)] = @ + 1]
            /\ UNCHANGED dead
    /\ step' = [step EXCEPT ![h] = AfterPublish(result)]
    /\ UNCHANGED <<queue, copy, valid, procVars, inflight, history>>

\* ack or reject(requeue=True) with a good delivery tag; the last step also
\* stands for a bad tag that goes unnoticed or makes on_message raise.
Settle(h) ==
    /\ step[h] \in {"handled", "moved", "reject"}
    /\ queue' = IF step[h] = "reject" THEN Returned({h}) ELSE queue
    /\ Idle({h})
    /\ UNCHANGED <<retrying, dead, procVars, history, faults>>

\* An ack that raises lands in the except branch like any other exception:
\* after a publish it is followed by a reject, after a success it counts as a
\* failure of the message.
AckRaises(h) ==
    /\ step[h] \in {"handled", "moved"}
    /\ ~valid[h]
    /\ IF step[h] = "handled" THEN Fail(h, "transient")
       ELSE step' = [step EXCEPT ![h] = "reject"] /\ UNCHANGED <<refused, failures>>
    /\ UNCHANGED <<brokerVars, copy, valid, procVars, inflight, completed, faults>>

-----------------------------------------------------------------------------
(* The broker and the processes                                            *)

\* The TTL of the retry queue dead-letters the copy back to the main queue.
RetryExpires(c) ==
    /\ retrying[c] > 0
    /\ retrying' = [retrying EXCEPT ![c] = @ - 1]
    /\ queue' = [queue EXCEPT ![c] = @ + 1]
    /\ UNCHANGED <<dead, taskVars, procVars, inflight, history, faults>>

\* The connection drops and connect_robust restores it: the broker requeues
\* what was not acknowledged, the handlers go on.
ConnectionLost(w) ==
    /\ faults < MaxFaults
    /\ faults' = faults + 1
    /\ \E h \in HandlersOf(w) : Unacked(h)
    /\ queue' = Returned(HandlersOf(w))
    /\ valid' = [h \in Handler |-> valid[h] /\ h \notin HandlersOf(w)]
    /\ UNCHANGED <<retrying, dead, step, copy, procVars, inflight, history>>

\* The process ends with its handlers, and is started again.
Ended(w) ==
    /\ queue' = Returned(HandlersOf(w))
    /\ Idle(HandlersOf(w))
    /\ phase' = [phase EXCEPT ![w] = "running"]
    /\ room' = [room EXCEPT ![w] = Concurrency]
    /\ line' = [line EXCEPT ![w] = <<>>]
    /\ ahead' = [ahead EXCEPT ![w] = 0]
    /\ UNCHANGED <<retrying, dead, history>>

Crash(w) ==
    /\ faults < MaxFaults
    /\ faults' = faults + 1
    /\ \E h \in HandlersOf(w) : Busy(h)
    /\ Ended(w)

\* SIGTERM, or a background task that raised.  drain takes at once the permits
\* that are neither held nor due to somebody in line, and then gets in line.
Shutdown(w) ==
    LET due == Cardinality(Active(w)) + Len(line[w]) IN
    /\ phase[w] = "running"
    /\ faults < MaxFaults
    /\ faults' = faults + 1
    /\ phase' = [phase EXCEPT ![w] = "draining"]
    /\ room' = [room EXCEPT ![w] = IF due < Concurrency THEN due ELSE Concurrency]
    /\ ahead' = [ahead EXCEPT ![w] = Len(line[w])]
    /\ inflight' = inflight \cup Active(w)
    /\ UNCHANGED <<brokerVars, taskVars, line, history>>

\* drain's turn: it has one more permit, and stands in line for the next behind
\* all that have come since.
DrainTakes(w) ==
    /\ phase[w] = "draining" /\ ahead[w] = 0 /\ Free(w)
    /\ room' = [room EXCEPT ![w] = @ - 1]
    /\ ahead' = [ahead EXCEPT ![w] = Len(line[w])]
    /\ UNCHANGED <<brokerVars, taskVars, phase, line, inflight, history, faults>>

\* drain has every permit, and returns them: what has been received meanwhile
\* starts.
Drained(w) ==
    /\ phase[w] = "draining" /\ room[w] = 0
    /\ phase' = [phase EXCEPT ![w] = "closing"]
    /\ room' = [room EXCEPT ![w] = Concurrency]
    /\ ahead' = [ahead EXCEPT ![w] = 0]
    /\ UNCHANGED <<brokerVars, taskVars, line, inflight, history, faults>>

\* wait_for cancels drain, and the permits it has taken are not returned.
DrainTimesOut(w) ==
    /\ phase[w] = "draining" /\ room[w] > 0
    /\ phase' = [phase EXCEPT ![w] = "overdue"]
    /\ ahead' = [ahead EXCEPT ![w] = 0]
    /\ UNCHANGED <<brokerVars, taskVars, room, line, inflight, history, faults>>

\* The connection is closed and the event loop ends, with all its tasks.
Close(w) ==
    /\ phase[w] \in {"closing", "overdue"}
    /\ Ended(w)
    /\ UNCHANGED faults

Stop(w) == DrainTakes(w) \/ Drained(w) \/ DrainTimesOut(w) \/ Close(w)

PublishResult == {"confirmed", "rejected", "unconfirmed"}

Run(h) == \/ Start(h)
          \/ \E o \in Outcome : Handle(h, o)
          \/ \E r \in PublishResult : Republish(h, r)
          \/ Settle(h)
          \/ AckRaises(h)

Next == \/ \E h \in Handler : Run(h) \/ \E c \in Copy : Deliver(h, c)
        \/ \E c \in Copy : RetryExpires(c)
        \/ \E w \in Worker : ConnectionLost(w) \/ Crash(w) \/ Shutdown(w) \/ Stop(w)

Spec == Init /\ [][Next]_vars

\* RabbitMQ delivers what waits in its queue to a consumer that is connected,
\* retry TTLs pass, a handler that is not killed comes to its end, and so does
\* a shutdown.
Fairness ==
    /\ \A c \in Copy : SF_vars(\E h \in Handler : Deliver(h, c))
    /\ \A c \in Copy : WF_vars(RetryExpires(c))
    /\ \A h \in Handler : WF_vars(Run(h))
    /\ \A w \in Worker : WF_vars(Stop(w))

FairSpec == Spec /\ Fairness

-----------------------------------------------------------------------------
(* Properties                                                              *)

\* No copy ever carries a count beyond max_retries.
Exists(c) == queue[c] > 0 \/ retrying[c] > 0 \/ dead[c] > 0

SemaphoresOK ==
    /\ phase \in [Worker -> {"running", "draining", "closing", "overdue"}]
    /\ room \in [Worker -> 0..Concurrency]
    /\ line \in [Worker -> Seq(Handler)]
    /\ ahead \in [Worker -> Nat]

TypeOK ==
    /\ queue \in [Copy -> Nat]
    /\ retrying \in [Copy -> Nat]
    /\ dead \in [Copy -> Nat]
    /\ \A c \in Copy : c.retries > MaxRetries => ~Exists(c)
    /\ step \in [Handler -> Step]
    /\ copy \in [Handler -> Copy \cup {NoCopy}]
    /\ valid \in [Handler -> BOOLEAN]
    /\ SemaphoresOK
    /\ inflight \in SUBSET Handler
    /\ completed \in SUBSET Message
    /\ refused \in SUBSET Message
    /\ failures \in [Message -> 0..(MaxRetries + 1)]
    /\ faults \in 0..MaxFaults

\* A copy that will be handled again, or is kept for an operator.
Kept(c) == Exists(c) \/ \E h \in Handler : Unacked(h) /\ copy[h] = c

\* A message leaves the broker only when it was handled: lost connections,
\* crashes and publishes that fail or go unconfirmed never make the last copy
\* of an unhandled message disappear.
NothingLost ==
    \A m \in Message : m \in completed \/ \E c \in Copy : c.msg = m /\ Kept(c)

InDeadLetters(m) == \E c \in Copy : c.msg = m /\ dead[c] > 0

\* A message gets into the dead-letter queue only if it was unprocessable or
\* has failed more often than max_retries, whatever its duplicates went
\* through.
DeadLettersEarned ==
    \A m \in Message : InDeadLetters(m) => m \in refused \/ failures[m] > MaxRetries

\* Copies the worker has not finished with; a copy that was published again
\* and waits for its acknowledgement no longer counts.
Stock(c) == queue[c] + retrying[c] + dead[c]
            + Cardinality({h \in Handler : /\ copy[h] = c
                                           /\ step[h] \notin {"idle", "moved"}})

\* Retrying through the broker does not multiply messages: until something
\* fails there is at most one copy of a message.
NoDuplicateWithoutFault ==
    faults = 0 =>
       \A c, d \in Copy : /\ Stock(c) <= 1
                          /\ c.msg = d.msg /\ Stock(c) > 0 /\ Stock(d) > 0 => c = d

\* A shutdown that did not have to give up waiting interrupts no message whose
\* handling had begun before the drain ended, although messages that were
\* received later get permits before it.
DrainSparesRunningWork ==
    [][\A w \in Worker :
          phase[w] = "closing" /\ phase'[w] = "running"
              => HandlersOf(w) \cap inflight = {}]_vars

\* A message that goes back to the main queue without a count, not because a
\* publish has failed: its process does not retry through the broker, or its
\* body is no object.
GivenBack(m) ==
    \E h \in Handler :
        /\ step[h] = "reject" /\ copy[h].msg = m
        /\ WorkerOf[h] \in BrokerRetries => "garbled" \in OutcomesOf[m]

\* "Messages go to DLQ after max retries": every message is handled or ends
\* up in the dead-letter queue, unless it is given back again and again, for
\* ever, for one of the two reasons for which nobody counts.
EventuallyResolved ==
    \A m \in Message : \/ <>(m \in completed \/ InDeadLetters(m))
                       \/ []<>GivenBack(m)
=============================================================================
