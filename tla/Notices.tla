------------------------------ MODULE Notices ------------------------------
(***************************************************************************)
(* Who is notified: the subscriptions of one home, and the transaction     *)
(* that turns an event into delivery rows.                                 *)
(*                                                                         *)
(* Members edit their subscriptions while events wait in RabbitMQ, where   *)
(* an event may be present more than once.  A request reads the membership *)
(* (and the subscription) first and writes later, in a READ COMMITTED      *)
(* transaction that locks nothing it has read.  The worker resolves the    *)
(* recipients when it ingests a message, with one INSERT for all of them.  *)
(* Consumer.tla has the broker's side of a message and Delivery.tla what   *)
(* happens to a delivery row once it exists.                               *)
(***************************************************************************)
EXTENDS Integers, FiniteSets

CONSTANTS User,          \* accounts that may belong to the home
          Applicant,     \* accounts that events of the users module are about
          Topic,         \* inventory topics
          Wildcard,      \* the topic "inventory.item.*"
          Key,           \* subscriptions looked at: [user, topic, channel]
          Alert,         \* inventory events
          AccountMail,   \* activation and password reset events
          About,         \* an Alert's topic, an AccountMail's user and kind
          MaxEvents,     \* bound: events published
          MaxCopies,     \* bound: messages of one event at a time
          MaxChanges     \* bound: requests about subscriptions, changes of members

Channel == {"email", "sms", "push", "log", "in_app"}
Event == Alert \cup AccountMail
Status == {"waiting", "active", "gone"}

\* Requests between their membership check and their write; of a subscription
\* that exists the key is its present one.
Request == [op : {"create", "update", "delete"}, key : Key]

\* Why a message is in the dead-letter queue: its recipients clash, its user is
\* gone, or it failed often enough for some other reason (x-dlq-reason).
DeadLetter == [event : Event, reason : {"clash", "unknown", "failure"}]

ASSUME NoticesAssumption ==
    /\ Wildcard \notin Topic
    /\ Key \subseteq [user : User, topic : Topic \cup {Wildcard}, channel : Channel]
    /\ Alert \cap AccountMail = {}
    /\ \A e \in Alert : About[e] \in Topic
    /\ \A e \in AccountMail :
          About[e] \in [user : Applicant, kind : {"activation", "reset"}]
    /\ MaxEvents \in Nat
    /\ MaxCopies \in Nat \ {0}
    /\ MaxChanges \in Nat

VARIABLES member,     \* users with a row in home_users
          subs,       \* per key: "none" (no row), "off" or "on"
          admitted,   \* requests that have passed their checks
          account,    \* per applicant: its status
          queued,     \* per event: its messages in RabbitMQ
          published,  \* events that were published
          events,     \* rows of notification_events
          rows,       \* rows of notification_deliveries
          dead,       \* messages in the dead-letter queue, duplicates as one
          done,       \* events with an acknowledged message (history)
          steady,     \* per event: keys that were on from its publication to its
                      \* first acknowledgement (history)
          changes     \* changes so far

history == <<done, steady>>
vars == <<member, subs, admitted, account, queued, published, events, rows, dead, history,
          changes>>

Init ==
    /\ member = User
    /\ subs \in [Key -> {"none", "on"}]
    /\ admitted = {}
    /\ account \in [Applicant -> {"waiting", "active"}]
    /\ queued = [e \in Event |-> 0]
    /\ published = {}
    /\ events = {}
    /\ rows = {}
    /\ dead = {}
    /\ done = {}
    /\ steady = [e \in Event |-> {}]
    /\ changes = 0

-----------------------------------------------------------------------------
(* Recipients                                                              *)

\* Mutant of Matches: wildcard subscriptions are not looked up.
MatchesExact(k, e) == k.topic = About[e]

Matches(k, e) == k.topic \in {About[e], Wildcard}

\* An address, "stdout", or the user's id; users have no phone number and
\* subscriptions get no target, so SMS reaches nobody.
Targets(k) ==
    CASE k.channel = "email" -> {<<"email", k.user>>}
      [] k.channel = "sms" -> {}
      [] k.channel = "log" -> {<<"log", "stdout">>}
      [] OTHER -> {<<k.channel, k.user>>}

Enabled(s, e) == {k \in Key : s[k] = "on" /\ Matches(k, e)}

\* Two subscriptions name the same target, so that the INSERT ... ON CONFLICT
\* DO UPDATE would touch a row twice: PostgreSQL refuses the statement.
Clash(s, e) == \E k, l \in Enabled(s, e) : k # l /\ Targets(k) \cap Targets(l) # {}

Delivery(e, targets) == {[event |-> e, target |-> t] : t \in targets}

\* History: what the owners of the subscriptions expect of an alert.
Subscribed(s, e) ==
    {k \in Key : s[k] = "on" /\ (k.topic = Wildcard \/ k.topic = About[e])}

\* The history of an edit.
Follow(s) == steady' = [e \in Event |-> {k \in steady[e] : s[k] = "on" \/ e \in done}]

-----------------------------------------------------------------------------
(* Subscriptions and members                                               *)

Change == changes < MaxChanges /\ changes' = changes + 1

\* Mutant of MayEdit: the membership is not asked for.
MayEditOwn(k, op) == op = "create" \/ subs[k] # "none"

\* A request asks for the caller's membership; update and delete find the row
\* first, and it is the caller's.
MayEdit(k, op) ==
    /\ k.user \in member
    /\ op = "create" \/ subs[k] # "none"

Admit(k, op) ==
    /\ MayEdit(k, op)
    /\ Change
    /\ admitted' = admitted \cup {[op |-> op, key |-> k]}
    /\ UNCHANGED <<member, subs, account, queued, published, events, rows, dead,
                   history>>

\* What the other requests hold when k's row has gone to l, or has gone
\* altogether: those then find no row to write and end.
Others(r) == admitted \ {r}
Holds(q, k) == q.op # "create" /\ q.key = k
Moved(Q, k, l) == {IF Holds(q, k) THEN [q EXCEPT !.key = l] ELSE q : q \in Q}
Removed(Q, k) == {q \in Q : ~Holds(q, k)}

Store(s) ==
    /\ subs' = s
    /\ Follow(s)
    /\ UNCHANGED <<member, account, queued, published, events, rows, dead, done,
                   changes>>

\* A second row for the same home, user, topic and channel is a 409.
CreateSubscription(r, enabled) ==
    /\ r.op = "create"
    /\ subs[r.key] = "none"
    /\ admitted' = Others(r)
    /\ Store([subs EXCEPT ![r.key] = enabled])

\* The topic or channel changes (the row moves to another key), or enabled.
UpdateSubscription(r, l, enabled) ==
    /\ r.op = "update"
    /\ l.user = r.key.user
    /\ r.key = l \/ subs[l] = "none"
    /\ admitted' = Moved(Others(r), r.key, l)
    /\ Store([subs EXCEPT ![r.key] = "none", ![l] = enabled])

DeleteSubscription(r) ==
    /\ r.op = "delete"
    /\ admitted' = Removed(Others(r), r.key)
    /\ Store([subs EXCEPT ![r.key] = "none"])

\* A 409, or a transaction that fails otherwise: nothing is written.
Refuse(r) ==
    /\ admitted' = Others(r)
    /\ UNCHANGED <<member, subs, account, queued, published, events, rows, dead,
                   history, changes>>

\* remove_user_from_home deletes the row of home_users and nothing else.
RemoveMember(u) ==
    /\ u \in member
    /\ Change
    /\ member' = member \ {u}
    /\ UNCHANGED <<subs, admitted, account, queued, published, events, rows, dead,
                   history>>

AddMember(u) ==
    /\ u \notin member
    /\ Change
    /\ member' = member \cup {u}
    /\ UNCHANGED <<subs, admitted, account, queued, published, events, rows, dead,
                   history>>

\* The account is activated, or the clean-up deletes it.
AccountChanges(u) ==
    /\ account[u] = "waiting"
    /\ \E s \in {"active", "gone"} : account' = [account EXCEPT ![u] = s]
    /\ UNCHANGED <<member, subs, admitted, queued, published, events, rows, dead,
                   history, changes>>

-----------------------------------------------------------------------------
(* Events                                                                  *)

\* The account is still in the state the mail is for.
Addressed(e) ==
    account[About[e].user] = IF About[e].kind = "activation" THEN "waiting"
                                                             ELSE "active"

\* A producer publishes: account mails are asked for by an account in that state.
Publish(e) ==
    /\ e \notin published /\ Cardinality(published) < MaxEvents
    /\ e \in AccountMail => Addressed(e)
    /\ published' = published \cup {e}
    /\ queued' = [queued EXCEPT ![e] = 1]
    /\ steady' = [steady EXCEPT ![e] =
                     IF e \in Alert THEN Subscribed(subs, e) ELSE {}]
    /\ UNCHANGED <<member, subs, admitted, account, events, rows, dead, done, changes>>

\* Published or delivered again: outbox, expiry job and broker are all
\* at-least-once.
Duplicate(e) ==
    /\ e \in published
    /\ queued[e] < MaxCopies
    /\ queued' = [queued EXCEPT ![e] = @ + 1]
    /\ UNCHANGED <<member, subs, admitted, account, published, events, rows, dead,
                   history, changes>>

Acknowledge(e) ==
    /\ queued[e] > 0
    /\ queued' = [queued EXCEPT ![e] = @ - 1]
    /\ done' = done \cup {e}

\* INSERT ... ON CONFLICT DO NOTHING, or an INSERT whose unique violation is
\* caught in a savepoint.
Record(e) == events' = events \cup {e}

\* handle_inventory_event: the event's row unless it is there, and a PENDING
\* row per recipient; rows that exist stay as they are.
IngestAlert(e) ==
    /\ e \in Alert
    /\ ~Clash(subs, e)
    /\ Acknowledge(e)
    /\ Record(e)
    /\ rows' = rows \cup Delivery(e, UNION {Targets(k) : k \in Enabled(subs, e)})
    /\ UNCHANGED <<member, subs, admitted, account, published, dead, steady, changes>>

\* A message that fails for good, or more often than max_retries: nothing of
\* its transactions stays, not even the event's row.
SendToDlq(e, reason) ==
    /\ queued[e] > 0
    /\ queued' = [queued EXCEPT ![e] = @ - 1]
    /\ dead' = dead \cup {[event |-> e, reason |-> reason]}
    /\ UNCHANGED <<member, subs, admitted, account, published, events, rows, history,
                   changes>>

\* The INSERT of clashing recipients fails on every attempt; anything else that
\* goes on failing, the database say, may come first.
DeadLetterAlert(e, reason) ==
    /\ e \in Alert
    /\ reason = "failure" \/ (reason = "clash" /\ Clash(subs, e))
    /\ SendToDlq(e, reason)

\* Mutant of StillWanted: one test, the reset's, for both kinds of mail.
StillWantedActive(e) == account[About[e].user] = "active"

StillWanted(e) ==
    \/ About[e].kind = "activation" /\ account[About[e].user] # "active"
    \/ About[e].kind = "reset" /\ account[About[e].user] = "active"

\* handle_account_email_event, for a user that exists.
IngestAccountMail(e) ==
    /\ e \in AccountMail
    /\ account[About[e].user] # "gone"
    /\ Acknowledge(e)
    /\ Record(e)
    /\ rows' = IF StillWanted(e)
               THEN rows \cup Delivery(e, {<<"email", About[e].user>>})
               ELSE rows
    /\ UNCHANGED <<member, subs, admitted, account, published, dead, steady, changes>>

\* No such user: a ValueError, which is not retried; or any failure that lasts.
DeadLetterAccountMail(e, reason) ==
    /\ e \in AccountMail
    /\ reason = "failure" \/ (reason = "unknown" /\ account[About[e].user] = "gone")
    /\ SendToDlq(e, reason)

Worker == \E e \in Event :
             \/ IngestAlert(e) \/ IngestAccountMail(e)
             \/ \E reason \in {"clash", "unknown", "failure"} :
                   DeadLetterAlert(e, reason) \/ DeadLetterAccountMail(e, reason)

Write(r) == \/ \E s \in {"on", "off"} : \/ CreateSubscription(r, s)
                                        \/ \E l \in Key : UpdateSubscription(r, l, s)
            \/ DeleteSubscription(r)
            \/ Refuse(r)

Edit == \/ \E k \in Key, op \in {"create", "update", "delete"} : Admit(k, op)
        \/ \E r \in admitted : Write(r)

Next == \/ Edit
        \/ \E u \in User : RemoveMember(u) \/ AddMember(u)
        \/ \E u \in Applicant : AccountChanges(u)
        \/ \E e \in Event : Publish(e) \/ Duplicate(e)
        \/ Worker

Spec == Init /\ [][Next]_vars

-----------------------------------------------------------------------------
(* Properties                                                              *)

TypeOK ==
    /\ member \in SUBSET User
    /\ subs \in [Key -> {"none", "off", "on"}]
    /\ admitted \in SUBSET Request
    /\ account \in [Applicant -> Status]
    /\ queued \in [Event -> 0..MaxCopies]
    /\ published \in SUBSET Event
    /\ events \in SUBSET published
    /\ dead \in SUBSET DeadLetter
    /\ done \in SUBSET published
    /\ steady \in [Event -> SUBSET Key]
    /\ changes \in 0..MaxChanges
    /\ \A r \in rows : r.event \in events

\* Once a message of an alert has been acknowledged, each subscription that was
\* on from the publication until then has its delivery row: in whatever order
\* its copies are ingested, dead-lettered and edited around, and also when its
\* owner has been removed from the home in the meantime.
SteadySubscribersReached ==
    \A e \in Alert \cap done :
        \A k \in steady[e] : Delivery(e, Targets(k)) \subseteq rows

InFlight(u) == {r \in admitted : r.key.user = u}

\* A removed member's subscriptions stay as they were at the removal, which
\* does not end them: the owner, who alone may change them, gets no request
\* admitted any more until added again.  The requests that were admitted before
\* may still write after the removal.
RemovalFreezes ==
    [][\A u \in User : u \notin member' /\ InFlight(u) = {} =>
          /\ InFlight(u)' = {}
          /\ \A k \in Key : k.user = u => subs'[k] = subs[k]]_vars

\* A mail whose account is still in the state it was asked for is never
\* acknowledged as out of date: the account has its delivery row.
WaitingAccountsGetMail ==
    \A e \in AccountMail \cap done : Addressed(e) =>
        Delivery(e, {<<"email", About[e].user>>}) \subseteq rows

\* "Inventory recipients are resolved from enabled subscriptions"
\* (docs/architecture.md): an alert whose messages are all gone from the queue,
\* none of them after a failure of something else, has a delivery for every
\* subscription that was on all the time.
SubscribersReached ==
    \A e \in published \cap Alert :
        queued[e] = 0 /\ [event |-> e, reason |-> "failure"] \notin dead =>
            \A k \in steady[e] : Delivery(e, Targets(k)) \subseteq rows
=============================================================================
