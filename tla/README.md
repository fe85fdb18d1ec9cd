# Verification of the Family Inventory backend

TLA+ models of the parts of this repository in which several requests, tasks,
processes or stores work on the same data: the notification pipeline from the
outbox to the bell in the browser, the expiry job, accounts, homes with their
categories and items, and the listings that are read page by page. Outbox and
deliveries are modelled apart and composed into one pipeline. TLC checks all of
them on small instances; TLAPS proves their safety properties, the pipeline's
included, for all values of their constants.

Run everything inside this directory:

    tlc -workers 2 -config MCOutbox.cfg MCOutbox     # one model-checking run
    tlapm OutboxProofs.tla                           # the proofs of a component

## The system

| component | state | operations | hard behaviour |
|---|---|---|---|
| notification outbox (`outbox_repository.py`, `sweeper.py`) | one row per `event_id`: status, attempt_count, next_retry_at | insert, ensure, claim_for_send, claim_one, publish, finalize | a publish is not transactional; crash between claim and finalize |
| expiry job (`inventory_expiry_job.py`, `expiry_service.py`) | alert rows: published_at, publish_attempts | register alerts, fetch, publish concurrently, mark | overlapping runs, 10 s timeout inside a transaction |
| notification consumer (`consumer.py`, `brokers.py`) | main, retry and dead-letter queues; x-retry-count header; a semaphore per process | on_message: prepare, send, finalize, then ack, retry, dead-letter or requeue | redelivery, unconfirmed publishes, lost connections |
| worker process (`worker/__main__.py`) | tasks of consumer and sweeper | start, drain, cancel, close | messages that arrive and start while the process stops |
| ingest and subscriptions (`ingest.py`, `subscription.py`) | events, subscriptions, members | check and write of a subscription; event to delivery rows in one transaction | edits between publication and ingest, a membership that ends between check and write, duplicates in one statement |
| deliveries (`handlers.py`, `sweeper.py`, `channels.py`) | one row per (event, channel, recipient): status, attempt_count, next_retry_at, locked_by, lock_expires_at | claim with lease, send, finalize | leases that run out under a working claimer, crashes, duplicates |
| inbox and realtime (`inbox.py`, `realtime.py`, `router.py`, `NotificationBell.tsx`) | in_app_notifications, Redis channels, the page's list | store once, push, load, mark read | HTTP answer and push race for a list of 20; pumps of a WebSocket |
| accounts (`user_service.py`, `auth_service.py`, `token_service.py`, `user_cleanup_job.py`) | users, Redis tokens and cooldowns | register, activate, resend, log in, reset, clean up | Redis and database written separately |
| homes (`homes/`, `homeuser/`) | homes, memberships with roles | create, add, change, remove, delete | two sets of routes with different rules |
| categories and items (`household_categories/`, `inventory/`) | rows, foreign keys, row locks | create, lock, move, delete | concurrent deletes and inserts, deadlocks over rows and unique keys |
| pagination (`pagination.py`, listings) | none | count, then fetch by offset | rows that come and go between the pages |
| products, external lookup | product rows | find-or-create | race on a barcode |

An account service or the expiry job records an event in the **outbox**; a
sweeper or the job publishes it to RabbitMQ; the **consumer** takes the message;
**ingest** turns the event into **deliveries**, which are claimed and sent;
sweepers retry what failed; an in-app delivery becomes an **inbox** row and is
pushed to the page. The modules follow that path and meet at the messages:
`copies` in Outbox is what the broker accepted, `queue` in Consumer what it
holds, `queued` in Notices what waits to be ingested, `ready` in Delivery how
often an event's message is handled, `sends` in Inbox how often the sender is
called. Pipeline joins Outbox and Delivery there, so that their messages are the
same ones. Household and Paging stand apart; a member who leaves a home is
`RemoveMember` in Notices and a membership change in Household.

### What makes each component correct

| component | properties | where |
|---|---|---|
| outbox | one publisher per row; SENT is final; copies are bounded; what no crash has stranded settles; the contract | Outbox |
| expiry job | a published alert has its event; attempts are bounded and published_at is final, with overlapping runs too; alerts settle | ExpiryJob |
| consumer, worker process | no message is lost; only exhausted or invalid ones are dead-lettered; no duplicate without a fault; every message is resolved, unless it is given back uncounted for ever; a drain that ends in time interrupts nothing that began before its end | Consumer |
| subscriptions | an acknowledged alert has reached its steady subscribers; no mail is dropped as out of date that its account waits for; a removal freezes subscriptions, but for requests admitted before | Notices |
| deliveries | one claimer per row while leases are kept; sends are bounded; SENT means sent and is final; the contract; every delivery settles | Delivery |
| inbox and realtime | a page without a gap misses a row only when its list is full of later ones; what is shown as read is read, unless a PATCH failed; handlers without a page end with the next push | Inbox |
| accounts | the newest link works, once; older ones never do, and a link that does not work stays so; mails are bounded by windows; nobody who logged in loses the account | Accounts |
| homes, categories, items | items stay in categories of their home; a checked insert fails on no foreign key to category or home; deadlocks need a request that comes to the home last, or homes that swap names; owners are stable | Household |
| pagination | without ties, a walk misses no more rows than were removed (or inserted between a page's two statements) and repeats none without inserts; without removals and memberless homes, linked pages have rows | Paging |

## The modules

### OutboxContract and Outbox

`OutboxContract` says what the outbox promises: an event is absent, owed,
delivered or abandoned; delivered needs a copy in the broker; the last two are
final and no copy follows them.

`Outbox` is the table with its writers. A row is `status`, `attempts`
(attempt_count) and `due` (whether next_retry_at has passed). Account services
insert a row in their own transaction (`Enqueue`). An expiry producer holds the
row lock from `ProducerClaim` (ensure and claim_one) to `ProducerCommit` or
`ProducerRollback`, publishing in between; its open transaction is `tx`. A
producer that finds nothing to claim commits nothing and is a stuttering step. A
sweeper commits its claim (`SweepClaim`), publishes row by row outside any
transaction (`SweepPublish`) and writes all results by id (`SweepFinalize`);
`SweepAbort` is a crash, a cancelled task or a failed finalize. A publish ends
confirmed, rejected, or unconfirmed (raised although the broker has the
message).

### ExpiryJob

Alerts are `open` or `published` (published_at) with their publish_attempts. A
run of the job registers today's alerts (`Register`), then for each type fetches
a batch (`Fetch`), publishes its alerts one by one (`Publish`) and marks the
results (`Mark`) until a fetch finds nothing or MaxBatches is reached
(`GiveUp`). A run that registers nothing returns at once: a stuttering step.
`Publish` stands for a whole transaction of module Outbox's producer: what
matters here is whether it commits an event of the day it runs on, or raises.
The fetch's row locks are gone when it commits, so overlapping runs may hold the
same alert; a fetch may also find a row locked and pass it over (SKIP LOCKED).
Users edit dates and delete items, days pass, and runs abort.

### Consumer

The fate of messages in `on_message`, and the shutdown of the process. A copy of
a message carries its x-retry-count. `Deliver` and `Start` (the semaphore),
`Handle` (prepare, send and finalize in one, with four ways to end),
`Republish` (to the retry or dead-letter exchange) and `Settle` (ack or reject)
are the steps between which a connection may be lost or the process may die.
`valid` says whether the delivery tag is still good; an ack with a bad tag may
raise, and then the code's except branch runs (`AckRaises`). A failed message is
retried through the broker or, by a process without broker retries (the
default), rejected back without a count. So is, with broker retries too, a body
that is JSON and no object ("garbled"): it raises before `headers` is bound, and
the retry fails on `dict(headers)` (`Retriable`).

`Shutdown` is the stop signal: `stop_consuming` has no consumer tag to cancel
(run_forever drops it), so messages go on arriving. `drain` takes the
semaphore's permits one by one (`DrainTakes`, `room`). The semaphore serves its
waiters in their order, and after each permit drain stands in line again, behind
the handlers that came meanwhile (`line`, `ahead`), so handlers begin during a
drain. It ends with all permits (`Drained`) or gives up (`DrainTimesOut`);
`Close` closes the connection, whose unacknowledged copies return to the queue,
and starts the process anew. The retry queue is
declared by every publisher's `RabbitMQBroker.connect`, so it exists before the
first message does, and routing is not modelled. `failures` saturates at
MaxRetries + 1.

### Notices

Subscriptions of one home, keyed by user, topic and channel, and what becomes of
an event's messages. A request reads the membership, and the row it is about,
with plain SELECTs (`Admit`), and writes later in the same READ COMMITTED
transaction (`CreateSubscription`, `UpdateSubscription`, `DeleteSubscription`)
or not at all (`Refuse`); between the two the member may be removed, and other
requests may move or delete the row. `RemoveMember` leaves the subscriptions
behind, as the code does. `IngestAlert` is the whole
transaction of `handle_inventory_event`: record the event, resolve the enabled
subscriptions of the topic and the wildcard, insert all rows in one statement;
when two subscriptions resolve to one (channel, recipient) that statement
fails (`Clash`) and the message can only be retried or dead-lettered
(`DeadLetterAlert`). Any other failure that lasts, a database outage say,
dead-letters a message as well; `dead` keeps the reason. `IngestAccountMail`
sends activation and reset mails to accounts that still wait for them, and drops
the others as out of date. `steady` is a history variable: who was subscribed
all the time.

### DeliveryContract and Delivery

`DeliveryContract` says what the table promises without leases, claimers or
processes: a delivery is absent, owed, sent or exhausted; attempts are charged
one at a time and never to one that is sent or exhausted; nothing reaches a
recipient without an attempt of its own; sent needs at least one arrival and
exhausted all attempts, and both are final. It does not promise that a sent
delivery is never sent again: a late claimer may still spend an attempt it was
charged for.

`Delivery` is the table with its claimers. `Prepare` is the
transaction of `prepare_event_deliveries`: it inserts the missing rows of the
event and claims everything claimable, so PENDING never survives a step.
`SweepClaim`, `Send`, `Refuse` (no sender for the channel, or a channel the
sweeper refuses), `Finalize` and `FinalizeFails` follow the code. `owner`
is locked_by and names a *process*; `holder` is a history variable that
names the task, which is what makes the missing fence visible. `Crash` kills a
process with all its tasks; the broker redelivers what they had not
acknowledged. `sends` counts what reached a recipient: an SMTP failure may
happen before or after that. The log channel behaves like e-mail and is left
out of the instances.

### PipelineContract and Pipeline

`PipelineContract` says what a notification is owed from end to end, without
outbox, broker, messages, rows or leases: a delivery is unknown, owed, sent,
exhausted or unpublished (the outbox gave its event up before anything reached
the broker). The last three are final, an unpublished event reaches nobody, and
no recipient is reached more often than there are attempts to send, however
often the event was published.

`Pipeline` extends Delivery, brings in Outbox as the instance `Out`, and joins
their steps. `Publishing` is a step of the outbox whose new copies become
messages in the queue; `Handling` is a step of consumers and sweepers, which
never look at the outbox; `Doubled` and `DeadLetter` are what Consumer shows to
become of messages that fail. The messages that Delivery is given at random when
it is checked alone (Messages) come from the outbox here. `FateOf` maps both
tables to the contract. What the two halves cannot say apart is what happens
between them: an event is handled before its producer commits, or although that
transaction was rolled back; it is published again while its rows are being
sent; it is acknowledged because every row is already claimed.

### Inbox

One user's inbox from the sender to one page. `Store` is the transaction of
`InAppSender.send` (insert once, then fetch); `Publish` follows its commit and
may fail (`PublishFails`). `Connect` subscribes the page's WebSocket handler;
`Drop` and `Reload` lose the page while the handler may stay behind, counted in
`ghosts`, until a send to the dead socket fails; `RedisLost` ends one pump while
the handler awaits the other. The page's load is three steps (`Reload`,
`AnswerLoad`, `ReceiveLoad`), and its answer replaces the list, whatever was
pushed since. The list is short: the answer has the MaxItems newest rows
(`FirstOf`), and a push is put in front and cuts the list to MaxItems
(`Pushed`). `place` is an item's place in it, by its last push. `BeginMarking`,
`MarkRead`, `MarkFails` and `EndMarking` are markAll with its PATCHes; several
may overlap. `gap` is a history variable: a connection, a message or a push
before the answer was lost.

### Accounts

The users table and Redis. A request is two steps: what it does to Redis (a
cooldown key, or the check of an activation token), remembered in `task`, and
the transaction that locks or inserts the row; `RollBack` and `Abandon` end it
between or instead, and then what it wrote to Redis stays. A row has a hash of
its newest activation and reset token with their expiry; `redis` and `holder`
are the token keys with the payload behind them. The clean-up job deletes any
set of rows that may be old enough; keys and links expire at any time.
Rows from before the activation hash was introduced start without one
(`Legacy`). `newest`, `uses` and `credit` are history variables.

### Household

Homes, members, categories and items, with PostgreSQL's row locks. A request
reads and checks without locks (`Begin`, with the checks of its route in
`Admitted`), takes the locks of its plan one by one (`Acquire`; the plan is
`Locks`) and commits (one action per kind). A row that is gone when its lock is
granted ends the request. FOR KEY SHARE, an UPDATE's lock and FOR UPDATE
conflict as PostgreSQL says. The keys of unique indexes are locked like rows
("name" for the name of a home, "entry" for the name of a category or the user
of a membership within a home): who enters a key waits for a transaction that
has entered it or given it up. A circle of waiting requests is broken by
`AbortDeadlock`. The settings routes lock the home first and re-read the
caller's membership under that lock; an inventory write locks the category
first, and the home through its foreign key; the INSERT of a category or of a
membership through /homeuser enters its key first, and then comes to the home
(`InsertLocks`); the deletion of a home gives up the home's name and locks its
members, items and categories in the order of the cascades. Which category has
which name is left open: a key that is entered may be taken (`MayBeTaken`). The
INSERT of a home enters the one key of a row nobody else knows yet, and then
waits for nothing of this model: `CreateHome` stays one step.

### Paging

`apply_pagination` and the admin listing of homes, walked by a client that
follows the `next` links: `CountRows` and `FetchRows` are the two statements of
a page, between which rows are inserted and removed. Rows are ordered by one key
only, so rows with equal keys come in any order. The admin listing counts homes
but pages over member rows (`Count`). `steady`, `shown`, `blank` and the
variables of `writes` are history variables: what the walk met, and which
changes it met.

## The runs

| run | instance | properties |
|---|---|---|
| outbox_safety | 3 events (2 of accounts), 2 producers, 2 sweepers, 2 attempts, batches of 2, 1 rollback per event, 1 aborted sweep, fair | SinglePublisher, CopiesBounded, OrphansBounded, SettledUnlessStranded, ImplementsContract |
| delivery_safety | 2 processes with a consumer and a sweeper each, an e-mail and an in-app delivery, 2 messages, 2 attempts, 1 fault, 1 lost lease, fair | SendsBounded, OneClaimerPerDelivery, ImplementsContract, EventuallySettled |
| consumer_safety | a process with two handlers and broker retries on, one with a single handler and retries off, 2 permits each, a message that may end in any way and one that is no object, 1 retry, 1 fault or shutdown, fair | NothingLost, DeadLettersEarned, NoDuplicateWithoutFault, EventuallyResolved, DrainSparesRunningWork |
| expiry_safety | 1 item, 2 days, 2 overlapping runs, 2 attempts, batches of 1, 2 batches per type, 1 edit, 1 aborted run, 1 locked row, fair | PublishedHasEvent, AttemptsBounded, PublishedIsFinal, AlertsSettle |
| accounts | 2 addresses that share a cooldown key, 2 usernames, 2 requests at a time, 3 links, 2 windows, 2 accounts | LatestLinkWorks, MailsBounded, SessionsHaveTheirUser, OnlyNewestLinkOnce, DeadLinksStayDead |
| household | 2 homes, 2 categories, 1 item, an owner and an administrator, 1 category name, all thirteen kinds of request, 2 at a time | ItemsWellPlaced, PreCheckedInsert, DeadlocksNeedHomeLast, OwnersAreStable |
| notices | 2 members, 4 subscriptions, 2 topics and the wildcard, an alert or a mail, 2 messages of it, 3 requests or changes of members | SteadySubscribersReached, WaitingAccountsGetMail, RemovalFreezes |
| inbox | 3 notifications, 2 of them there from the start, a list of 2, 1 send, 1 lost connection or reload, 2 calls of markAll at a time, fair | NothingMissed, ShownReadIsRead, GhostsEnd |
| paging | 4 rows, 4 keys, pages of 1 to 3, 1 home without members, 3 inserts or removals | MissedOnlyByChanges, RepeatedOnlyByInserts, LinkedPagesHaveRows |
| pipeline | an expiry event with an e-mail and an in-app delivery; a producer, an outbox sweeper, a consumer and a delivery sweeper; 2 attempts on both sides; 1 rollback, 1 aborted sweep, 1 crash, 1 doubled message; a send ends sent or unsure; fair | NothingSlips, ImplementsEndToEnd, EventuallyDecided |
| delivery_in_app_lost | in-app, 1 crash, senders that work, fair | CrashRecovered fails |
| notices_clash | as notices, with 1 member and 2 subscriptions: a topic and the wildcard on one channel | SubscribersReached fails |

Bounds. Two of each kind of actor show every pairwise race; a third event lets
one batch be full while something is left over. Two attempts are the least at
which the first and the last attempt differ. One message would be enough for the
consumer, whose messages meet only at the semaphore while its duplicates do
compete; the second is the one that no retry counts. With two handlers a message
that arrives during a drain gets its permit before the drain has them all; the
other process, whose retries are off, takes over what a connection gives back.
One item has up to three alerts in two days, enough for batches to compete and
for old alerts to meet new ones. Three notifications for a list of two are the
least that cut it, by the answer and by a push; the one that is sent may be the
new one, which is created between the other two, or an old one, whose send is a
repeated one. The page's two calls of markAll overlap on lists that differ by
that push; further sends and longer lists are left to the proof. Three links are
an activation, its successor and a reset; two accounts let an address be
registered again after the clean-up. Two requests on two homes reach every pair
of locks; longer circles of waiting requests are left to the proof. Two
subscriptions of a user on one channel are the least that clash, as are two
users on the log channel. Four rows on pages of one to three have a last page
that is full and one that is not. The pipeline has one actor of each kind, since
delivery_safety and outbox_safety have the races within one table; no lease of a
working claimer runs out there (MaxSlow is 0) and a send that raises has reached
its recipient all the same (the outcomes are sent and unsure); delivery_safety
varies both. MaxRollbacks, MaxAborts, MaxFaults, MaxEdits, MaxSkips, MaxSlow,
MaxDoubles, MaxDrops, MaxMarks, MaxChanges, MaxWrites, MaxTokens, MaxWindows and
MaxAccounts bound how often the environment acts, never what the code may do.
Deadlock checking is off: all these systems come to rest when everything is
settled or the bounds are reached.

Type invariants are proved for every component. So are properties that follow
from the contracts the runs check: that what is SENT was published
(`SentWasPublished` of Outbox) or sent (`SentWasSent` of Delivery), and that SENT
is final (`SentIsFinal` of both). `SoonestFirst` of ExpiryJob is a theorem only:
it needs two items, and the run has one.

Mutants. Operators named like the definition they replace (`EligibleOffByOne`,
`CategoryModeNone`) are plausible bugs; each checked property fails for one of
them.

### What the failing runs say

- In-app deliveries do not survive a crash: only sweepers retry them, and
  sweepers refuse them.
- A user who subscribes to a topic and to the wildcard on one channel makes the
  ingest of the home's alerts fail on every attempt. The run has that user only;
  the statement is one for all members, who get nothing either, and on the log
  channel, whose recipient is always stdout, two users clash in the same way.

### What the passing runs say in passing

Some properties name an exception, and the exception is a behaviour of the code
that a reader should know.

- The outbox "guarantees no lost events", says the repository's README, but a
  sweeper that dies between claim and finalize strands its rows: nothing selects
  SENDING outbox rows. `OrphansBounded` bounds the damage to one batch per
  aborted sweep, and `SettledUnlessStranded` shows that all else settles.
- A crash in the last attempt leaves a delivery SENDING for ever
  (`EventuallySettled`).
- An event may be sent although its producer was rolled back: `PipelineContract`
  has it owed from its publication on, with or without an outbox row.
- A run of the expiry job looks at the first `limit` candidates, registered or
  not; the others wait. They have at least as much time left (`SoonestFirst`).
- Finalize is fenced by worker_id, which all tasks of a process share: a late
  result may end a newer claim of its own process. No attempt and no SENT row is
  lost by it.
- After an aborted run of the expiry job, the runs of the rest of the day find
  nothing new to register and return before they publish what is pending
  (`AlertsSettle`).
- "Messages go to DLQ after max retries", says the repository's README (line
  101). With the default BROKER_MANAGED_RETRIES (off) a failing message is
  requeued without a count and circles for ever; with broker retries on, so does
  a body that is JSON and no object. `EventuallyResolved` names both.
- Consuming does not stop before the drain, although `__main__.py` says so:
  messages that arrive meanwhile may start during the drain, which then waits for
  them too, or as it ends, just before the connection closes, and are redelivered
  (`DrainSparesRunningWork` speaks of all that began before its end).
- The comment at inventory/services/service.py:91-93 expects that "a concurrent
  delete between that check and this insert can still raise an IntegrityError".
  As far as the category is concerned it cannot, and neither can it for the home:
  `lock_for_inventory` holds the category FOR KEY SHARE until the commit, and the
  deletion of the home needs that category (`PreCheckedInsert`, which is proved).
  The comment is right about products at most, which are checked without a lock
  and are not modelled; the `except` branch is harmless.
- Deadlocks are possible, and PostgreSQL aborts one side (40P01): between an inventory write and
  the settings of its home; between the creation of a category and a rename to
  the same name, or an addition of one user through both sets of routes; and
  between two homes that take each other's names (`DeadlocksNeedHomeLast`).
- A removed member keeps the subscriptions and the notifications, and cannot
  end them; a request that read the membership before the removal still writes
  after it (`RemovalFreezes`).
- The bell shows 20 notifications; what a push cuts off comes back with another
  push of it or a reload only (`NothingMissed`).
- Through `/homeuser` the last owner of a home can be removed or demoted
  (`OwnersAreStable`).
- A WebSocket handler whose page has gone ends with the next push only
  (`GhostsEnd`).
- The admin listing pages over members, so a home may be split between pages,
  and counts homes, so its last members may have no page. The properties of
  Paging leave the second, and walks over rows with equal keys, out.

### Fairness

Outbox: the sweeper loop never ends and catches every exception, so a sweeper
that could claim, publish or finalize eventually does; an open transaction and a
publish call end (the 10 s timeout); backoffs elapse. Nothing forces a request,
a producer or a failure. Delivery: the queue is consumed, claimers that are
not killed finish, leases of claimers that are gone run out and backoffs elapse;
a lease of a working claimer need not run out. Consumer: a copy that can be
delivered again and again is delivered (strong fairness: RabbitMQ queues are
first in, first out), TTLs pass, handlers that are not killed end, and a
shutdown, once begun, ends (the drain has a time limit). ExpiryJob: the
cron container starts one run after another, and a run that is not aborted goes
on. Pipeline: that of Outbox, and of Delivery without the consumption of the
queue (`Progress`): nothing makes an ingest succeed, and with broker retries off
a message that fails is requeued for ever. `EventuallyDecided` names a message
that is never ingested as an exception. Delivery alone is about what follows the
ingest, and assumes it.
Inbox: after its commit the sender publishes or fails to; nothing forces the
page to do anything. Accounts, Household, Notices and Paging have safety
properties only: nothing forces a client to act.

## The proofs

All are about any sets and any limits that satisfy the named assumptions of the
module, and follow one pattern: an inductive invariant `IndInv`, a lemma per
action that it is preserved, and the properties from it. None of the properties
is inductive as it stands; what has to be added is what the code relies on.

`OutboxProofs`: `OutboxSinglePublisher`, `OutboxSentWasPublished`,
`OutboxCopiesBounded`, `OutboxSentIsFinal` and the refinement
`OutboxImplementsContract`. `IndInv` adds that a sweeper's batch consists of
SENDING rows in exactly one of its three lists (`BatchesAreSending`) and that a
producer's transaction works on a row it may claim (`LockedRowsAreOpen`), which
together keep claims apart; that a success remembered in memory has a copy
(`SuccessHasCopy`); and the accounting of copies against attempts, lost
transactions and the one publish that is not yet committed (`CopiesAccounted`).
`OutboxOrphansBounded` is a second induction on top of it: a batch is never
larger than the limit of its claim (`StrandedAccounted`), an abort turns one
batch into orphans, and no other step makes or ends one.

`ExpiryJobProofs`: `ExpiryPublishedHasEvent`, `ExpiryAttemptsBounded`,
`ExpiryPublishedIsFinal`. `PublishedHasEvent` needs that a success held in
memory already has its event (`SuccessAnnounced`) and that no alert is of a day
to come (`NoFutureAlert`), or the event could be older than the alert.
`AttemptsBounded` is inductive because it counts the runs that hold an alert.
`ExpirySoonestFirst` is about the limit of a registration: the candidates ahead
of an item are a subset of those ahead of any item that comes later
(`ForemostIsInitial`), so the first are registered first.

`DeliveryProofs`: `DeliverySendsBounded`, `DeliverySentWasSent`,
`DeliveryOneClaimerPerDelivery`, `DeliverySentIsFinal`. The key is that what a
task holds is leased to it while no lease was lost (`HeldIsLeased`), that a
success in memory was sent (`OkWasSent`), and that no row is waiting for two
sends at once without two attempts to pay for them; counting uses that there are
finitely many claimers. `DeliveryImplementsContract` is the refinement under
`StageOf`: a send that arrives is the contract's `Reach`, and the sum above is
what says that its attempt was charged (`SendIsCharged`); a claim is a `Record`
that charges what it takes and a result one that settles or keeps; crashes,
leases, backoffs and messages are invisible.

The second half of `DeliveryProofs` is about Pipeline: `PipelineTypes`,
`PipelineNothingSlips`, `PipelineRunsOutbox`, `PipelineKeepsDeliveryContract`
and `PipelineImplementsEndToEnd`. Both halves keep their inductive invariants:
Delivery's steps are the pipeline's `Handling`, and more messages disturb none
of its conjuncts; Outbox's lemmas are taken over through `Proven`, an instance
of `OutboxProofs` at the pipeline's variables, whose definitions are shown to be
those of `Out` (`SameInit`, `SameStep`, `SameTypeOK`, `SameStage`). What is
added at the hand-over is `NothingSlips` itself and `Sourced`: an event that has
a message, a task, a row or a dead letter (`Alive`) has a copy in the broker.
Therefore the projection to the outbox's variables is a behaviour of Outbox, the
projection to the table's one of DeliveryContract, and the two contracts compose
to PipelineContract: as long as nothing is published nothing can be sent, so an
event that is given up has reached nobody; once something is published, a step
of the outbox changes no fate (`PublishingAdvances`), and a step of the table
changes only those DeliveryContract allows (`HandlingAdvances`).

`ConsumerProofs`: `ConsumerNothingLost`, `ConsumerDeadLettersEarned`,
`ConsumerDrainSparesRunningWork`, `ConsumerNoDuplicateWithoutFault`. A message
is safe when it is handled or a copy of it is kept somewhere (`Safe`, `Kept`);
every retry count is covered by failures (`Earned`); and a process that closes
in time has no handler left of those that began before the drain ended, because
the drain's permits and the active handlers together never exceed the semaphore
(`RoomForActive`, with lemmas on cardinalities), whoever got a permit first.
Without a fault no tag goes bad (`Calm`), and then a message is in exactly one
place: one queue, once, or one handler (`OnePlace`). Every step takes it from a
queue to a handler, releases it to a queue or hands it on, which three lemmas
say once for all steps.

`NoticesProofs`: `NoticesSteadySubscribersReached`,
`NoticesWaitingAccountsGetMail`, `NoticesRemovalFreezes`. Only published events
have messages, rows and dead letters (`OnlyPublished`), and a key counted as
steady is on until the first acknowledgement (`SteadyAreOn`). A removal admits
no further request, and a write without an admitted request of the user's leaves
the user's keys alone.

`InboxProofs`: `InboxNothingMissed`, `InboxShownReadIsRead`. Without a gap every
row is in the list, in the answer or on its way, or was cut off by a list that
is full of later ones (`NothingForgotten`); all that
is under way has a row (`OnTheWayHasRow`) and says "read" only of rows that are
(`SeenReadIsRead`).

`AccountsProofs`: `AccountsLatestLinkWorks`, `AccountsOnlyNewestLinkOnce`,
`AccountsMailsBounded`, `AccountsSessionsHaveTheirUser`,
`AccountsDeadLinksStayDead`. `Core` ties the two stores together: which token a
row, a Redis key and a mail refer to; `TasksKnow` says what a request may rely
on between its two steps; `WindowsPaid` accounts for the windows of requests
that are still running. For the dead links, every step is one of a few things
that may happen to a row (`RowStep`: deleted, given a link nobody has yet, or
kept with its link, which is not renewed) and to the tokens (`TokenStep`: those
Redis has lost do not come back), and none of them makes a mailed link valid
(`ShownValid`).

`HouseholdProofs`: `HouseholdItemsWellPlaced`, `HouseholdPreCheckedInsert`,
`HouseholdDeadlocksNeedHomeLast`, `HouseholdOwnersAreStable`. `Locking`
says that a request holds only locks of its plan, the first of them first
(`LocksFit`, `InOrder`), that no two conflict (`NoConflicts`), and that a row
that is locked stays and stays where it was (`Stays`), because whoever removes a
row has it locked for update. For deadlocks: a request that waits with a lock in
its hand and does not come to the home last has its home locked
(`WaitingHolder`), so two of a circle have different homes. A wait across homes,
but for the names that homes want, is for a category the other holds
(`AcrossHomes`), and who holds one waits for no category itself: the circle does
not close unless it consists of home renames.

The second half of `HouseholdProofs` is about Paging, the walks over its
listings, for any rows, page sizes and numbers of changes: `PagingTypes`,
`PagingMissedOnlyByChanges`, `PagingRepeatedOnlyByInserts`,
`PagingLinkedPagesHaveRows`. A row's place is its rank, the number of rows
before it (`Rank`). Without ties a page shows exactly the rows whose ranks it
covers (`SliceOfRanks`), so nothing the client does has to be summed over pages:
what matters is which rows cross the offset the walk has reached. Each row
removed moves at most one other row across it (`FallBehind`: the rows that
crossed all rank between the first and the last of them); an insert only raises
ranks, which may show a row again and makes the walk miss none. The invariant
`WalkInv` says that the rows skipped are paid for by removals
(`SkippedByRemovals`); that without inserts what was shown is behind the offset
(`ShownAreBehind`); and, of the total a page has counted, that it misses only
rows that were inserted since (`CountCoversRows`) and that without removals the
rows it counted are still there (`CountHasRows`, `LinkReachesRows`).

Each of them also proves the type invariant (`...TypeOK`, `PagingTypes`).

Only model-checked: liveness under fairness (SettledUnlessStranded,
EventuallySettled, EventuallyResolved, EventuallyDecided, AlertsSettle,
GhostsEnd), which is out of the prover's reach. Every other property of the
passing runs is a theorem.

## Not modelled

- The product catalog and the external lookup: a find-or-create on a unique
  barcode and an HTTP client. Nothing it writes is changed by the other
  components, and no route deactivates a product yet, so the one race it has
  does no harm.
- Texts and formatting of messages, SMTP, JWT encoding, password hashing.
- The web client except for the notification bell: the other pages show what
  they fetched.
- The command line, configuration, migrations and deployment: they run alone.
- Code without a caller: `ensure_event_exists`, `bulk_upsert_deliveries`,
  `upsert_subscription`, `apply_pagination_without_class`.
- In Household a batch of items is one item, which category or home has which
  name is left out (the waits on the unique indexes are not), products are left
  out, and expiry dates are ExpiryJob's.
- In Inbox the count of unread notifications beside the bell.

## Next

1. Consumer in the pipeline: `Doubled` and `DeadLetter` stand for the paths on
   which it publishes; with its queues and retry counts the dead letters of the
   pipeline would have to be earned, too.
2. The expiry job in front of the pipeline: its `Publish` is a transaction of the
   outbox's producer.
3. The product catalog, once a route deactivates products.
