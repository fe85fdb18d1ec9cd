----------------------------- MODULE ExpiryJob -----------------------------
(***************************************************************************)
(* run_inventory_expiry_job and the table inventory_expiry_alerts.         *)
(*                                                                         *)
(* A run registers an alert for each item that expires soon or has         *)
(* expired, at most one per item, type and day, and at most Limit of a     *)
(* type.  Unless there was nothing to register it then works off each type *)
(* in batches: it fetches unpublished alerts of any day, hands each to     *)
(* publish_expiry_event in a transaction of its own, and writes down what  *)
(* succeeded and what failed.  The scheduler starts one run after another; *)
(* a run started by hand may overlap with them, and users go on editing    *)
(* and deleting items.                                                     *)
(*                                                                         *)
(* What becomes of a recorded event is the subject of module Outbox.       *)
(***************************************************************************)
EXTENDS Naturals, FiniteSets

CONSTANTS Item,         \* inventory items, numbered in the order of creation
          Job,          \* processes that run the job
          Window,       \* days: how far ahead an item expires soon
          Limit,        \* alerts registered per type, alerts per batch
          MaxAttempts,  \* max_attempts of get_unpublished_alerts_with_items
          MaxBatches,   \* MAX_BATCHES
          Dates,        \* the expiry dates users enter
          NoDate,       \* expiry_date IS NULL
          Deleted,      \* the row of the item is gone
          LastDay,      \* bound: days
          MaxEdits,     \* bound: edits and deletions
          MaxFaults,    \* bound: runs that end early
          MaxSkips      \* bound: fetches that find a row locked

ASSUME ExpiryAssumption ==
    /\ Item \subseteq Nat /\ IsFiniteSet(Item)
    /\ IsFiniteSet(Job)
    /\ Dates \subseteq Nat /\ NoDate \notin Nat /\ Deleted \notin Nat
    /\ NoDate # Deleted
    /\ Window \in Nat /\ LastDay \in Nat
    /\ Limit \in Nat \ {0} /\ MaxAttempts \in Nat \ {0}
    /\ MaxBatches \in Nat \ {0}
    /\ MaxEdits \in Nat /\ MaxFaults \in Nat /\ MaxSkips \in Nat

Type == {"expiring_soon", "expired"}

\* Alerts and events alike are identified by an item, a type and a day: the
\* unique constraint of the one, the uuid5 of the other.
Alert == [item : Item, type : Type, day : 0..LastDay]

VARIABLES today,       \* date.today()
          expiry,      \* expiry_date of an item
          alert,       \* published_at of an alert: unset is open
          attempts,    \* publish_attempts of an alert
          recorded,    \* events with a committed outbox row
          phase,       \* per job: the type it is publishing
          batches,     \* per job: batches_processed
          todo,        \* per job: alerts of the batch still to publish
          dated,       \* per job: those fetched with an expiry date
          good,        \* per job: published_ids
          failed,      \* per job: failed_ids
          dropped,     \* alerts published without an event (history)
          gaveUp,      \* some loop has used up its batches (history)
          edits, faults, skips

itemVars == <<today, expiry, edits>>
alertVars == <<alert, attempts>>
runVars == <<phase, batches, gaveUp>>
batchVars == <<todo, dated, good, failed>>
eventVars == <<recorded, dropped>>
vars == <<itemVars, alertVars, runVars, batchVars, eventVars, faults, skips>>

Init == /\ today = 0
        /\ expiry \in [Item -> Dates \cup {NoDate}]
        /\ alert = [a \in Alert |-> "absent"]
        /\ attempts = [a \in Alert |-> 0]
        /\ recorded = {} /\ dropped = {}
        /\ phase = [j \in Job |-> "idle"]
        /\ batches = [j \in Job |-> 0]
        /\ todo = [j \in Job |-> {}]
        /\ dated = [j \in Job |-> {}]
        /\ good = [j \in Job |-> {}]
        /\ failed = [j \in Job |-> {}]
        /\ gaveUp = FALSE
        /\ edits = 0 /\ faults = 0 /\ skips = 0

-----------------------------------------------------------------------------
(* Registration                                                            *)

HasDate(i) == expiry[i] \notin {NoDate, Deleted}

Candidate(i, type) ==
    /\ HasDate(i)
    /\ IF type = "expired" THEN expiry[i] < today
                           ELSE expiry[i] \in today..(today + Window)

\* ORDER BY expiry_date, created_at.
Before(i, k) == expiry[i] < expiry[k] \/ (expiry[i] = expiry[k] /\ i < k)

Foremost(type) ==
    LET C == {i \in Item : Candidate(i, type)} IN
    {i \in C : Cardinality({k \in C : Before(k, i)}) < Limit}

\* ON CONFLICT DO NOTHING keeps what earlier runs of the day registered.
Unregistered ==
    {a \in Alert : /\ a.day = today
                   /\ a.item \in Foremost(a.type)
                   /\ alert[a] = "absent"}

-----------------------------------------------------------------------------
(* Publishing                                                              *)

\* Mutants of Fetchable: failed alerts are left alone, and are retried without
\* end.
FetchableFresh(a) == alert[a] = "open" /\ attempts[a] = 0
FetchableAlways(a) == alert[a] = "open"

Fetchable(a) == alert[a] = "open" /\ attempts[a] < MaxAttempts

\* A batch of what is not locked: as many as Limit allows, oldest day first.
Batches(pool) ==
    {S \in SUBSET pool :
        /\ Cardinality(S) = IF Cardinality(pool) < Limit THEN Cardinality(pool)
                                                         ELSE Limit
        /\ \A a \in S, b \in pool \ S : a.day <= b.day}

After(type) == IF type = "expiring_soon" THEN "expired" ELSE "idle"

\* Mutant of Successful: an exception counts as a success.
SuccessfulAlways(outcome) == TRUE

Successful(outcome) == outcome = "committed"

\* Mutant of Markable: results are written by id alone.
MarkableById(a) == alert[a] # "absent"

\* WHERE published_at IS NULL.
Markable(a) == alert[a] = "open"

BetweenBatches(j) ==
    phase[j] \in Type /\ todo[j] = {} /\ good[j] = {} /\ failed[j] = {}

EndLoop(j) == /\ phase' = [phase EXCEPT ![j] = After(@)]
              /\ batches' = [batches EXCEPT ![j] = 0]

-----------------------------------------------------------------------------
(* A run                                                                   *)

\* The first transaction.  A run that registers nothing returns, which is a
\* stuttering step.
Register(j) ==
    /\ phase[j] = "idle"
    /\ Unregistered # {}
    /\ alert' = [a \in Alert |-> IF a \in Unregistered THEN "open" ELSE alert[a]]
    /\ phase' = [phase EXCEPT ![j] = "expiring_soon"]
    /\ UNCHANGED <<itemVars, attempts, batches, gaveUp, batchVars, eventVars, faults, skips>>

\* SELECT ... FOR UPDATE SKIP LOCKED: rows of alerts that another job is
\* marking, or of items a user is editing, are passed over.  With nothing to
\* publish the loop ends.
Fetch(j, locked) ==
    LET pool == {a \in Alert : a.type = phase[j] /\ Fetchable(a)} \ locked IN
    /\ BetweenBatches(j)
    /\ batches[j] < MaxBatches
    /\ IF locked = {} THEN UNCHANGED skips
                      ELSE skips < MaxSkips /\ skips' = skips + 1
    /\ \E S \in Batches(pool) :
          IF S = {} THEN EndLoop(j) /\ UNCHANGED <<todo, dated>>
          ELSE /\ todo' = [todo EXCEPT ![j] = S]
               /\ dated' = [dated EXCEPT ![j] = {a \in S : HasDate(a.item)}]
               /\ batches' = [batches EXCEPT ![j] = @ + 1]
               /\ UNCHANGED phase
    /\ UNCHANGED <<itemVars, alertVars, gaveUp, good, failed, eventVars, faults>>

\* The loop stops although there may be more.
GiveUp(j) ==
    /\ BetweenBatches(j)
    /\ batches[j] = MaxBatches
    /\ EndLoop(j)
    /\ gaveUp' = TRUE
    /\ UNCHANGED <<itemVars, alertVars, batchVars, eventVars, faults, skips>>

\* _publish_one: the event is that of the day it is published on, the item
\* that of the fetch; without a date there is no event.  An exception, the
\* timeout or a failed commit leaves no row.
Publish(j, a, outcome) ==
    /\ a \in todo[j]
    /\ todo' = [todo EXCEPT ![j] = @ \ {a}]
    /\ IF Successful(outcome)
       THEN good' = [good EXCEPT ![j] = @ \cup {a}] /\ UNCHANGED failed
       ELSE failed' = [failed EXCEPT ![j] = @ \cup {a}] /\ UNCHANGED good
    /\ CASE outcome = "raised" -> UNCHANGED eventVars
         [] outcome = "committed" /\ a \in dated[j] ->
               recorded' = recorded \cup {[a EXCEPT !.day = today]} /\ UNCHANGED dropped
         [] OTHER -> dropped' = dropped \cup {a} /\ UNCHANGED recorded
    /\ UNCHANGED <<itemVars, alertVars, runVars, dated, faults, skips>>

\* mark_alerts_published and mark_alerts_failed, in one transaction.
Mark(j) ==
    /\ todo[j] = {}
    /\ good[j] \cup failed[j] # {}
    /\ alert' = [a \in Alert |-> IF a \in good[j] /\ Markable(a)
                                 THEN "published" ELSE alert[a]]
    /\ attempts' = [a \in Alert |-> IF a \in good[j] \cup failed[j] /\ Markable(a)
                                    THEN attempts[a] + 1 ELSE attempts[a]]
    /\ good' = [good EXCEPT ![j] = {}]
    /\ failed' = [failed EXCEPT ![j] = {}]
    /\ dated' = [dated EXCEPT ![j] = {}]
    /\ UNCHANGED <<itemVars, runVars, todo, eventVars, faults, skips>>

\* The process dies, or a fetch or mark transaction raises out of the run.
Abort(j) ==
    /\ phase[j] # "idle"
    /\ faults < MaxFaults
    /\ faults' = faults + 1
    /\ phase' = [phase EXCEPT ![j] = "idle"]
    /\ batches' = [batches EXCEPT ![j] = 0]
    /\ todo' = [todo EXCEPT ![j] = {}]
    /\ dated' = [dated EXCEPT ![j] = {}]
    /\ good' = [good EXCEPT ![j] = {}]
    /\ failed' = [failed EXCEPT ![j] = {}]
    /\ UNCHANGED <<itemVars, alertVars, gaveUp, eventVars, skips>>

-----------------------------------------------------------------------------
(* Users and time                                                          *)

\* update_item
Edit(i, date) ==
    /\ expiry[i] \notin {Deleted, date}
    /\ edits < MaxEdits
    /\ edits' = edits + 1
    /\ expiry' = [expiry EXCEPT ![i] = date]
    /\ UNCHANGED <<today, alertVars, runVars, batchVars, eventVars, faults, skips>>

\* delete_item; the alerts of the item go with it.
Delete(i) ==
    /\ expiry[i] # Deleted
    /\ edits < MaxEdits
    /\ edits' = edits + 1
    /\ expiry' = [expiry EXCEPT ![i] = Deleted]
    /\ alert' = [a \in Alert |-> IF a.item = i THEN "absent" ELSE alert[a]]
    /\ attempts' = [a \in Alert |-> IF a.item = i THEN 0 ELSE attempts[a]]
    /\ UNCHANGED <<today, runVars, batchVars, eventVars, faults, skips>>

Midnight ==
    /\ today < LastDay
    /\ today' = today + 1
    /\ UNCHANGED <<expiry, edits, alertVars, runVars, batchVars, eventVars,
                   faults, skips>>

Continue(j) ==
    \/ Fetch(j, {})
    \/ GiveUp(j)
    \/ \E a \in todo[j], outcome \in {"committed", "raised"} : Publish(j, a, outcome)
    \/ Mark(j)

Next ==
    \/ \E j \in Job : \/ Register(j) \/ Continue(j) \/ Abort(j)
                      \/ \E a \in Alert : /\ a.type = phase[j] /\ Fetchable(a)
                                          /\ Fetch(j, {a})
    \/ \E i \in Item : Delete(i) \/ \E d \in Dates \cup {NoDate} : Edit(i, d)
    \/ Midnight

Spec == Init /\ [][Next]_vars

\* The scheduler starts a run after each run, and a run that does not die
\* goes on; nobody has to edit anything and the day need not end.
Fairness == \A j \in Job : WF_vars(Register(j)) /\ WF_vars(Continue(j))

FairSpec == Spec /\ Fairness

-----------------------------------------------------------------------------
(* Properties                                                              *)

Batch(j) == todo[j] \cup good[j] \cup failed[j]

TypeOK ==
    /\ today \in 0..LastDay
    /\ expiry \in [Item -> Dates \cup {NoDate, Deleted}]
    /\ alert \in [Alert -> {"absent", "open", "published"}]
    /\ attempts \in [Alert -> Nat]
    /\ recorded \in SUBSET Alert
    /\ dropped \in SUBSET Alert
    /\ gaveUp \in BOOLEAN
    /\ phase \in [Job -> Type \cup {"idle"}]
    /\ batches \in [Job -> 0..MaxBatches]
    /\ todo \in [Job -> SUBSET Alert]
    /\ dated \in [Job -> SUBSET Alert]
    /\ good \in [Job -> SUBSET Alert]
    /\ failed \in [Job -> SUBSET Alert]
    /\ edits \in 0..MaxEdits
    /\ faults \in 0..MaxFaults
    /\ skips \in 0..MaxSkips
    /\ \A j \in Job : \A a \in Batch(j) : a.type = phase[j]

\* The event of an alert is safe in the outbox, or there was none to record.
Announced(a) ==
    \/ a \in dropped
    \/ \E e \in recorded : e.item = a.item /\ e.type = a.type /\ e.day >= a.day

\* An alert is marked published only when its event, of that day or a later
\* one, is safe in the outbox, or when its item had no date: exceptions,
\* timeouts, aborted and overlapping runs never swallow an alert.
PublishedHasEvent == \A a \in Alert : alert[a] = "published" => Announced(a)

\* The runs that have an alert in their batch.
Holders(a) == {j \in Job : a \in Batch(j)}

\* publish_attempts passes max_attempts only by overlapping runs that fetched
\* the alert at the same time, once per further run.
AttemptsBounded ==
    \A a \in Alert :
       attempts[a] + Cardinality(Holders(a)) < MaxAttempts + Cardinality(Job)

\* Once published an alert is never written again, whatever an overlapping
\* run that fetched it earlier still has to report.
PublishedIsFinal ==
    [][\A a \in Alert : alert[a] = "published" =>
          \/ alert'[a] = "published" /\ attempts'[a] = attempts[a]
          \/ expiry'[a.item] = Deleted]_vars

\* The limit of a registration keeps back the items that have more time left,
\* never one that expires sooner than an item that gets its alert, whatever
\* earlier runs of the day have registered and users have changed since.
SoonestFirst ==
    [][\A a \in Alert, k \in Item :
          /\ alert[a] = "absent" /\ alert'[a] # "absent"
          /\ Candidate(k, a.type) /\ expiry[k] < expiry[a.item]
          => alert'[[a EXCEPT !.item = k]] # "absent"]_vars

\* Why PublishedHasEvent holds: alerts of days to come do not exist, so the
\* event of a success is never older than its alert.
NoFutureAlert ==
    /\ \A a \in Alert : alert[a] # "absent" => a.day <= today
    /\ \A j \in Job : \A a \in Batch(j) : a.day <= today

SuccessAnnounced == \A j \in Job : \A a \in good[j] : Announced(a)

IndInv == /\ TypeOK
          /\ NoFutureAlert
          /\ SuccessAnnounced
          /\ PublishedHasEvent
          /\ AttemptsBounded

Pending(a) == alert[a] = "open" /\ attempts[a] < MaxAttempts

SomePending == \E a \in Alert : Pending(a)

\* While no run is aborted, uses up its batches or finds a row locked, all
\* alerts, of whatever day, are eventually published or fail for good.
AlertsSettle ==
    SomePending ~> (~SomePending \/ faults > 0 \/ skips > 0 \/ gaveUp)
=============================================================================
