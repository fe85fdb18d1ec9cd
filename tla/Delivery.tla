------------------------------ MODULE Delivery ------------------------------
(***************************************************************************)
(* The table notification_deliveries and the claimers that work it off.    *)
(* A worker process runs consumer tasks (one per RabbitMQ message it is    *)
(* handling) and one sweeper task; all of them write the same worker_id.   *)
(* Each claims rows of one event in a transaction, sends outside any       *)
(* transaction, and finalizes in a second transaction that touches only    *)
(* rows still SENDING under its worker_id.                                 *)
(*                                                                         *)
(* A row is (status, attempts, due, owner, live): due is FALSE while       *)
(* next_retry_at lies in the future, live is TRUE while lock_expires_at    *)
(* does.  Its PENDING state is not visible: the transaction that inserts   *)
(* the rows of an event claims them too (claim_limit, 1000, is never       *)
(* reached by the subscriptions of one home).                              *)
(***************************************************************************)
EXTENDS Naturals, FiniteSets

CONSTANTS Event,         \* notification events
          NoEvent,       \* what an idle claimer is working on
          Delivery,      \* deliveries: one per (event, channel, recipient)
          EventOf,       \* the event of a delivery
          ChannelOf,     \* the channel of a delivery
          Worker,        \* worker processes; a restart has a fresh worker_id
          NoWorker,      \* locked_by IS NULL
          Consumer,      \* message handler tasks
          Sweeper,       \* sweeper tasks
          WorkerOf,      \* the process a task runs in
          SendOutcome,   \* how sender.send may end
          MaxAttempts,   \* max_attempts column
          Messages,      \* copies of each event's message in the queue
          MaxFaults,     \* bound: crashes and failed finalize transactions
          MaxSlow        \* bound: leases that run out on a working claimer

Claimer == Consumer \cup Sweeper

Channel == {"EMAIL", "IN_APP", "PUSH", "SMS"}

ASSUME DeliveryAssumption ==
    /\ NoEvent \notin Event
    /\ NoWorker \notin Worker
    /\ IsFiniteSet(Claimer)
    /\ Consumer \cap Sweeper = {}
    /\ EventOf \in [Delivery -> Event]
    /\ ChannelOf \in [Delivery -> Channel]
    /\ WorkerOf \in [Claimer -> Worker]
    /\ SendOutcome \subseteq {"sent", "failed", "unsure"}
    /\ MaxAttempts \in Nat \ {0}
    /\ Messages \in Nat
    /\ MaxFaults \in Nat
    /\ MaxSlow \in Nat

VARIABLES status,    \* status column; "ABSENT" when there is no row
          attempts,  \* attempt_count column
          due,       \* next_retry_at is null or past
          owner,     \* locked_by column
          live,      \* lock_expires_at is in the future
          doing,     \* per claimer: the event it is working on
          todo,      \* per claimer: claimed, not yet sent
          ok,        \* per claimer: sent, outcome not yet written
          bad,       \* per claimer: failed, outcome not yet written
          holder,    \* the claimer that last claimed a delivery (history)
          sends,     \* times a delivery reached its recipient (history)
          ready,     \* per event: messages waiting in the queue
          faults,    \* crashes and failed finalizes so far
          slow       \* leases lost by a working claimer so far

rowVars == <<status, attempts, due, owner, live>>
taskVars == <<doing, todo, ok, bad>>
vars == <<rowVars, taskVars, holder, sends, ready, faults, slow>>

Status == {"ABSENT", "SENDING", "SENT", "FAILED"}

RowsOf(e) == {d \in Delivery : EventOf[d] = e}

Init == /\ status = [d \in Delivery |-> "ABSENT"]
        /\ attempts = [d \in Delivery |-> 0]
        /\ due = [d \in Delivery |-> TRUE]
        /\ owner = [d \in Delivery |-> NoWorker]
        /\ live = [d \in Delivery |-> FALSE]
        /\ doing = [c \in Claimer |-> NoEvent]
        /\ todo = [c \in Claimer |-> {}]
        /\ ok = [c \in Claimer |-> {}]
        /\ bad = [c \in Claimer |-> {}]
        /\ holder = [d \in Delivery |-> NoWorker]
        /\ sends = [d \in Delivery |-> 0]
        /\ ready = [e \in Event |-> Messages]
        /\ faults = 0
        /\ slow = 0

-----------------------------------------------------------------------------
(* Claims and results                                                      *)

\* Mutants of Retryable: one attempt too few, and leases taken over while they
\* are live.
RetryableOneShort(d) ==
    /\ attempts[d] + 1 < MaxAttempts
    /\ \/ status[d] = "FAILED" /\ due[d]
       \/ status[d] = "SENDING" /\ ~live[d]
RetryableLive(d) ==
    /\ attempts[d] < MaxAttempts
    /\ status[d] \in {"FAILED", "SENDING"}

\* The rows the sweeper looks for: failed and due, or an expired lease.
Retryable(d) ==
    /\ attempts[d] < MaxAttempts
    /\ \/ status[d] = "FAILED" /\ due[d]
       \/ status[d] = "SENDING" /\ ~live[d]

\* Mutant of ClaimSet: a message is taken for one that was handled before, and
\* inserts nothing.
ClaimSetOfKnown(c, e) == {d \in RowsOf(e) : Retryable(d)}

\* The rows of an event that claim_deliveries_to_send takes; for a consumer
\* the absent ones are inserted by the same transaction.
ClaimSet(c, e) ==
    {d \in RowsOf(e) : Retryable(d) \/ (c \in Consumer /\ status[d] = "ABSENT")}

\* Mutant of Charged: a claim that does not count as an attempt.
ChargedNothing(d) == attempts[d]

Charged(d) == attempts[d] + 1

Claim(c, e, S) ==
    /\ status' = [d \in Delivery |-> IF d \in S THEN "SENDING" ELSE status[d]]
    /\ attempts' = [d \in Delivery |-> IF d \in S THEN Charged(d) ELSE attempts[d]]
    /\ owner' = [d \in Delivery |-> IF d \in S THEN WorkerOf[c] ELSE owner[d]]
    /\ live' = [d \in Delivery |-> IF d \in S THEN TRUE ELSE live[d]]
    /\ holder' = [d \in Delivery |-> IF d \in S THEN c ELSE holder[d]]
    /\ doing' = [doing EXCEPT ![c] = e]
    /\ todo' = [todo EXCEPT ![c] = S]
    /\ UNCHANGED due

\* The worker builds senders for log, email and in-app only.
HasSender(d) == ChannelOf[d] \in {"EMAIL", "IN_APP"}

\* The sweeper never sends these: it writes a failure for them.
SweeperSkips(d) == ChannelOf[d] \in {"IN_APP", "PUSH"}

Sendable(c, d) == HasSender(d) /\ ~(c \in Sweeper /\ SweeperSkips(d))

\* Without a sender next_retry_at is null, so the row is due at once; every
\* other failure backs off.
RetriesAtOnce(c, d) == ~HasSender(d) /\ ~(c \in Sweeper /\ SweeperSkips(d))

\* Mutant of Owned: results are written by row id alone.
OwnedById(c, d) == TRUE

\* The WHERE clause of finalize_delivery_results.
Owned(c, d) == owner[d] = WorkerOf[c] /\ status[d] = "SENDING"

\* Mutant of Result: the outcome of a failed send is lost.
ResultOfClaim(c, d) == "SENT"

Result(c, d) == IF d \in ok[c] THEN "SENT" ELSE "FAILED"

\* What a claimer has claimed and not finalized.
Held(c) == todo[c] \cup ok[c] \cup bad[c]

Forget(C) ==
    /\ doing' = [c \in Claimer |-> IF c \in C THEN NoEvent ELSE doing[c]]
    /\ todo' = [c \in Claimer |-> IF c \in C THEN {} ELSE todo[c]]
    /\ ok' = [c \in Claimer |-> IF c \in C THEN {} ELSE ok[c]]
    /\ bad' = [c \in Claimer |-> IF c \in C THEN {} ELSE bad[c]]

\* The messages of tasks that end without an acknowledgement come back.
Unacked(C, e) == Cardinality({c \in C \cap Consumer : doing[c] = e})

Requeue(C) == ready' = [e \in Event |-> ready[e] + Unacked(C, e)]

-----------------------------------------------------------------------------
(* Actions                                                                 *)

\* on_message, first transaction: ingest the event and claim what there is
\* to send.  With nothing to send the message is acknowledged at once.
Prepare(c, e) ==
    /\ doing[c] = NoEvent
    /\ ready[e] > 0
    /\ ready' = [ready EXCEPT ![e] = @ - 1]
    /\ IF ClaimSet(c, e) # {}
       THEN Claim(c, e, ClaimSet(c, e)) /\ UNCHANGED <<ok, bad>>
       ELSE UNCHANGED <<rowVars, taskVars, holder>>
    /\ UNCHANGED <<sends, faults, slow>>

\* sweep_once, per event.
SweepClaim(c, e) ==
    /\ doing[c] = NoEvent
    /\ ClaimSet(c, e) # {}
    /\ Claim(c, e, ClaimSet(c, e))
    /\ UNCHANGED <<ok, bad, sends, ready, faults, slow>>

\* One delivery of send_claimed_deliveries: sent, failed, or failed after it
\* reached the recipient.
Send(c, d, outcome) ==
    /\ d \in todo[c]
    /\ Sendable(c, d)
    /\ todo' = [todo EXCEPT ![c] = @ \ {d}]
    /\ sends' = IF outcome = "failed" THEN sends
                                      ELSE [sends EXCEPT ![d] = @ + 1]
    /\ IF outcome = "sent"
       THEN ok' = [ok EXCEPT ![c] = @ \cup {d}] /\ UNCHANGED bad
       ELSE bad' = [bad EXCEPT ![c] = @ \cup {d}] /\ UNCHANGED ok
    /\ UNCHANGED <<rowVars, doing, holder, ready, faults, slow>>

\* No sender, or a channel the sweeper refuses: a failure without a send.
Refuse(c, d) ==
    /\ d \in todo[c]
    /\ ~Sendable(c, d)
    /\ todo' = [todo EXCEPT ![c] = @ \ {d}]
    /\ bad' = [bad EXCEPT ![c] = @ \cup {d}]
    /\ UNCHANGED <<rowVars, doing, ok, holder, sends, ready, faults, slow>>

\* finalize_delivery_results; a consumer then acknowledges its message.
Finalize(c) ==
    LET written == {d \in ok[c] \cup bad[c] : Owned(c, d)} IN
    /\ doing[c] # NoEvent
    /\ todo[c] = {}
    /\ status' = [d \in Delivery |->
                     IF d \in written THEN Result(c, d) ELSE status[d]]
    /\ due' = [d \in Delivery |->
                  IF d \notin written THEN due[d]
                  ELSE d \in ok[c] \/ RetriesAtOnce(c, d)]
    /\ owner' = [d \in Delivery |-> IF d \in written THEN NoWorker ELSE owner[d]]
    /\ live' = [d \in Delivery |-> live[d] /\ d \notin written]
    /\ Forget({c})
    /\ UNCHANGED <<attempts, holder, sends, ready, faults, slow>>

\* The finalize transaction fails: a consumer's message is retried through
\* the broker, a sweeper logs the error and starts over.
FinalizeFails(c) ==
    /\ doing[c] # NoEvent
    /\ todo[c] = {}
    /\ faults < MaxFaults
    /\ faults' = faults + 1
    /\ Forget({c})
    /\ Requeue({c})
    /\ UNCHANGED <<rowVars, holder, sends, slow>>

\* A process dies with all its tasks; its leases stay until they expire and
\* the broker redelivers what it had not acknowledged.
Crash(w) ==
    LET lost == {c \in Claimer : WorkerOf[c] = w} IN
    /\ faults < MaxFaults
    /\ \E c \in lost : doing[c] # NoEvent
    /\ faults' = faults + 1
    /\ Forget(lost)
    /\ Requeue(lost)
    /\ UNCHANGED <<rowVars, holder, sends, slow>>

\* The claimer of the latest claim of a delivery is still at work on it.
Working(d) == \E c \in Claimer : holder[d] = c /\ d \in Held(c)

\* 120 seconds after the claim, whether or not its claimer is done.
LeaseExpires(d) ==
    /\ live[d]
    /\ live' = [live EXCEPT ![d] = FALSE]
    /\ IF Working(d) THEN slow < MaxSlow /\ slow' = slow + 1
                     ELSE UNCHANGED slow
    /\ UNCHANGED <<status, attempts, due, owner, taskVars, holder, sends,
                   ready, faults>>

BackoffElapses(d) ==
    /\ ~due[d]
    /\ due' = [due EXCEPT ![d] = TRUE]
    /\ UNCHANGED <<status, attempts, owner, live, taskVars, holder, sends,
                   ready, faults, slow>>

Process(c) == \/ \E d \in Delivery, o \in SendOutcome : Send(c, d, o)
              \/ \E d \in Delivery : Refuse(c, d)
              \/ Finalize(c)

Next == \/ \E c \in Consumer, e \in Event : Prepare(c, e)
        \/ \E c \in Sweeper, e \in Event : SweepClaim(c, e)
        \/ \E c \in Claimer : Process(c) \/ FinalizeFails(c)
        \/ \E w \in Worker : Crash(w)
        \/ \E d \in Delivery : LeaseExpires(d) \/ BackoffElapses(d)

Spec == Init /\ [][Next]_vars

\* The sweeper loop never stops, a claimer that is not killed finishes its
\* batch, and time passes.  The leases of claimers that are at work need not
\* run out, nor need anything fail.
Progress ==
    /\ \A c \in Sweeper : WF_vars(\E e \in Event : SweepClaim(c, e))
    /\ \A c \in Claimer : WF_vars(Process(c))
    /\ \A d \in Delivery : /\ WF_vars(~Working(d) /\ LeaseExpires(d))
                           /\ WF_vars(BackoffElapses(d))

\* The queue is consumed, and the transaction that ingests an event succeeds in
\* the end.
Consumption == \A c \in Consumer : WF_vars(\E e \in Event : Prepare(c, e))

Fairness == Progress /\ Consumption

FairSpec == Spec /\ Fairness

-----------------------------------------------------------------------------
(* Properties                                                              *)

TypeOK ==
    /\ status \in [Delivery -> Status]
    /\ attempts \in [Delivery -> 0..MaxAttempts]
    /\ due \in [Delivery -> BOOLEAN]
    /\ owner \in [Delivery -> Worker \cup {NoWorker}]
    /\ live \in [Delivery -> BOOLEAN]
    /\ doing \in [Claimer -> Event \cup {NoEvent}]
    /\ todo \in [Claimer -> SUBSET Delivery]
    /\ ok \in [Claimer -> SUBSET Delivery]
    /\ bad \in [Claimer -> SUBSET Delivery]
    /\ holder \in [Delivery -> Claimer \cup {NoWorker}]
    /\ sends \in [Delivery -> Nat]
    /\ ready \in [Event -> Nat]
    /\ faults \in 0..MaxFaults
    /\ slow \in 0..MaxSlow

\* Every send is paid for by an attempt, those about to happen included: with
\* crashes, lost leases and late claimers, a recipient never gets a
\* notification more than MaxAttempts times.
SendsBounded ==
    \A d \in Delivery :
       sends[d] + Cardinality({c \in Claimer : d \in todo[c]}) <= attempts[d]

\* A row says SENT only when some claimer really sent it, even when the one
\* that wrote the row is not the one that sent.
SentWasSent == \A d \in Delivery : status[d] = "SENT" => sends[d] > 0

\* A row that is SENT stays SENT, whatever late claimers still write.
SentIsFinal ==
    [][\A d \in Delivery :
          status[d] = "SENT" =>
             status'[d] = "SENT" /\ attempts'[d] = attempts[d]]_vars

\* As long as no lease has run out on a working claimer, a delivery is in the
\* hands of one claimer at most: crashes, retried messages, duplicate messages
\* and sweepers never make two of them send it at the same time.
OneClaimerPerDelivery ==
    slow = 0 =>
       \A d \in Delivery : \A c, k \in Claimer :
          d \in Held(c) /\ d \in Held(k) => c = k

\* What the contract of this table sees of a row.
StageOf(d) ==
    CASE status[d] = "ABSENT" -> "absent"
      [] status[d] = "SENT" -> "sent"
      [] status[d] = "FAILED" /\ attempts[d] = MaxAttempts -> "exhausted"
      [] OTHER -> "owed"

Contract == INSTANCE DeliveryContract
              WITH stage <- [d \in Delivery |-> StageOf(d)],
                   tries <- attempts,
                   reached <- sends

\* Every claim, send, result, crash and lost lease is a step the contract
\* allows, or one it cannot see: a row that is sent or has used its attempts
\* is never claimed, charged or rewritten again, and no outcome is written
\* that did not happen.
ImplementsContract == Contract!CSpec

Settled(d) == \/ status[d] = "SENT"
              \/ status[d] = "FAILED" /\ attempts[d] = MaxAttempts

\* Every delivery is eventually sent or fails for good.  After a crash or a
\* failed finalize it may instead stay SENDING, but not before its last
\* attempt: leases that nobody releases run out and somebody tries again.
EventuallySettled ==
    \A d \in Delivery :
       (status[d] # "ABSENT")
          ~> (Settled(d) \/ (faults > 0 /\ attempts[d] = MaxAttempts))

\* "Worker crash mid-delivery (DB lease expires, another worker retries)": when
\* senders work, a delivery that was started is eventually sent.
CrashRecovered ==
    \A d \in Delivery : (status[d] # "ABSENT") ~> (status[d] = "SENT")
=============================================================================
