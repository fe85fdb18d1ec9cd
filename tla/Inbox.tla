------------------------------- MODULE Inbox -------------------------------
(***************************************************************************)
(* The in-app inbox of one user, from the sender to the bell of one page.  *)
(*                                                                         *)
(* The worker stores a row and then publishes it to Redis; a WebSocket     *)
(* handler of the API forwards what it hears to the page; the page loads   *)
(* the inbox once over HTTP and merges what is pushed into its list.  The  *)
(* two ways race, and the list is short: the load asks for the MaxItems    *)
(* newest rows, and each push is put in front and may cut the last one     *)
(* off.  Opening the bell marks what it shows as read.  Other pages of the *)
(* user mark rows as well.                                                 *)
(***************************************************************************)
EXTENDS Integers, Sequences, FiniteSets

CONSTANTS Event,      \* events with an in-app delivery to the user
          Old,        \* those whose row exists from the start
          None,       \* no row, no item
          CreatedAt,  \* per event: created_at of its row
          MaxItems,   \* length of the bell's list, and of the answer
          MaxSends,   \* bound: calls of InAppSender.send
          MaxDrops,   \* bound: lost connections and page reloads
          MaxMarks    \* bound: calls of markAll that run at the same time

State == {"unread", "read"}

ASSUME InboxAssumption ==
    /\ None \notin Event \cup State
    /\ Old \subseteq Event
    /\ CreatedAt \in [Event -> Nat]
    /\ IsFiniteSet(Event)
    /\ MaxItems \in Nat
    /\ MaxSends \in Nat
    /\ MaxDrops \in Nat
    /\ MaxMarks \in Nat

Item == Event \X State

\* A pushed item, and which publication it is.
Message == Event \X State \X Nat

List == [Event -> State \cup {None}]
Nothing == [e \in Event |-> None]
Unmoved == [e \in Event |-> 0]
Shows(items) == {e \in Event : items[e] # None}

VARIABLES inbox,      \* per event: its row of in_app_notifications
          sends,      \* sends so far
          push,       \* rows that were committed and are about to be published
          pubs,       \* publications so far
          published,  \* per event: its last publication, 0 for none (history)
          handler,    \* the page's WebSocket handler: "none", "pumping", or
                      \* "deaf" once its Redis connection was lost
          ghosts,     \* handlers whose page has gone
          wire,       \* messages sent to the page, not received yet
          list,       \* what the bell shows
          place,      \* per event: its last push since the list was loaded, 0
                      \* for none; the list has the latest first
          load,       \* the page's inbox request: "asked", "answered" or "done"
          answer,     \* the rows of its answer
          open,       \* the bell is open
          marking,    \* running calls of markAll: [items, todo]
          drops,      \* connections lost so far
          unpushed,   \* a publication has failed since the last send (history)
          unmarked,   \* events a PATCH failed for (history)
          gap         \* the page may have missed a push (history)

server == <<inbox, sends, push, pubs, published>>
conn == <<handler, ghosts, wire>>
page == <<list, place, load, answer, open, marking>>
vars == <<server, conn, page, drops, unpushed, unmarked, gap>>

Init ==
    /\ inbox = [e \in Event |-> IF e \in Old THEN "unread" ELSE None]
    /\ sends = 0
    /\ push = {} /\ pubs = 0 /\ published = [e \in Event |-> 0]
    /\ handler = "none" /\ ghosts = 0 /\ wire = <<>>
    /\ list = Nothing /\ place = Unmoved /\ load = "asked" /\ answer = Nothing
    /\ open = FALSE /\ marking = {}
    /\ drops = 0
    /\ unpushed = FALSE /\ unmarked = {} /\ gap = FALSE

-----------------------------------------------------------------------------
(* The sender                                                              *)

\* INSERT ... ON CONFLICT (user, event) DO NOTHING, then the row is fetched.
Stored(row) == IF row = None THEN "unread" ELSE row

Row(e) == inbox'[e]

\* The transaction of InAppSender.send; the delivery may be sent again.
Store(e) ==
    /\ sends < MaxSends
    /\ sends' = sends + 1
    /\ inbox' = [inbox EXCEPT ![e] = Stored(@)]
    /\ push' = push \cup {<<e, Row(e)>>}
    /\ unpushed' = FALSE
    /\ UNCHANGED <<pubs, published, conn, page, drops, unmarked, gap>>

\* Mutant of Heard: a failing send does not end the handler.
HeardForever(m) ==
    /\ wire' = IF handler = "pumping" THEN Append(wire, m) ELSE wire
    /\ UNCHANGED ghosts

\* Every handler of the user's channel forwards the message; where the page
\* has gone, send_json raises, which ends the handler.
Heard(m) ==
    /\ wire' = IF handler = "pumping" THEN Append(wire, m) ELSE wire
    /\ ghosts' = 0

Publish(p) ==
    /\ p \in push
    /\ push' = push \ {p}
    /\ pubs' = pubs + 1
    /\ published' = [published EXCEPT ![p[1]] = pubs + 1]
    /\ Heard(<<p[1], p[2], pubs + 1>>)
    /\ UNCHANGED <<inbox, sends, handler, page, drops, unpushed, unmarked, gap>>

\* Logged and forgotten; or the worker stops between commit and publish.
PublishFails(p) ==
    /\ p \in push
    /\ push' = push \ {p}
    /\ unpushed' = TRUE
    /\ gap' = TRUE
    /\ UNCHANGED <<inbox, sends, pubs, published, conn, page, drops, unmarked>>

-----------------------------------------------------------------------------
(* The WebSocket handler                                                   *)

\* connect(), also five seconds after the connection was lost.
Connect ==
    /\ handler = "none"
    /\ handler' = "pumping"
    /\ UNCHANGED <<server, ghosts, wire, page, drops, unpushed, unmarked, gap>>

\* The page's connection ends.  A handler that still hears Redis waits for its
\* pump, which nobody cancels; a deaf one returns.
Disconnect ==
    /\ drops < MaxDrops
    /\ drops' = drops + 1
    /\ handler' = "none"
    /\ ghosts' = IF handler = "pumping" THEN ghosts + 1 ELSE ghosts
    /\ wire' = <<>>

Drop ==
    /\ handler # "none"
    /\ Disconnect
    /\ gap' = TRUE
    /\ UNCHANGED <<server, page, unpushed, unmarked>>

\* The handlers' Redis connection ends.  The one of the page keeps the socket
\* open and silent; the page does not notice.
RedisLost ==
    /\ handler = "pumping" /\ drops < MaxDrops
    /\ handler' = "deaf"
    /\ ghosts' = 0
    /\ drops' = drops + 1
    /\ gap' = TRUE
    /\ UNCHANGED <<server, wire, page, unpushed, unmarked>>

-----------------------------------------------------------------------------
(* The bell                                                                *)

\* The page is opened anew: it asks for the inbox and connects.
Reload ==
    /\ Disconnect
    /\ list' = Nothing /\ place' = Unmoved /\ load' = "asked" /\ answer' = Nothing
    /\ open' = FALSE /\ marking' = {}
    /\ gap' = FALSE
    /\ UNCHANGED <<server, unpushed, unmarked>>

\* S is what is left of X when it is cut to MaxItems by the order given.
FirstOf(S, X, Above(_, _)) ==
    /\ S \subseteq X
    /\ S = X \/ Cardinality(S) = MaxItems
    /\ Cardinality(S) <= MaxItems
    /\ \A f \in S, e \in X \ S : Above(f, e)

Newer(f, e) == CreatedAt[f] >= CreatedAt[e]

\* list_inbox runs on the server: ORDER BY created_at DESC LIMIT MaxItems.  What
\* is stored before the handler has subscribed and after this is neither
\* answered nor pushed.
AnswerLoad ==
    /\ load = "asked"
    /\ load' = "answered"
    /\ \E S \in SUBSET Shows(inbox) :
          /\ FirstOf(S, Shows(inbox), Newer)
          /\ answer' = [e \in Event |-> IF e \in S THEN inbox[e] ELSE None]
    /\ gap' = (gap \/ handler # "pumping")
    /\ UNCHANGED <<server, conn, list, place, open, marking, drops,
                   unpushed, unmarked>>

LoadFails ==
    /\ load = "asked"
    /\ load' = "done"
    /\ gap' = TRUE
    /\ UNCHANGED <<server, conn, list, place, answer, open, marking, drops,
                   unpushed, unmarked>>

\* setNotifications(data): what was pushed before the answer came is gone.
ReceiveLoad ==
    /\ load = "answered"
    /\ list' = answer /\ place' = Unmoved
    /\ load' = "done" /\ answer' = Nothing
    /\ gap' = (gap \/ ~(Shows(list) \subseteq Shows(answer)))
    /\ UNCHANGED <<server, conn, open, marking, drops, unpushed,
                   unmarked>>

\* Mutant of Pushed: the slice drops the item that came in.
PushedLast(e, s) ==
    /\ place' = [place EXCEPT ![e] = Head(wire)[3]]
    /\ list' = IF Cardinality(Shows(list) \cup {e}) > MaxItems
               THEN list
               ELSE [list EXCEPT ![e] = s]

\* The order of the list: the last pushed first, then what was loaded.
Ahead(f, e) == place'[f] > place'[e] \/ (place'[f] = place'[e] /\ Newer(f, e))

\* [incoming, ...the others].slice(0, MaxItems)
Pushed(e, s) ==
    /\ place' = [place EXCEPT ![e] = Head(wire)[3]]
    /\ \E S \in SUBSET (Shows(list) \cup {e}) :
          /\ FirstOf(S, Shows(list) \cup {e}, Ahead)
          /\ list' = [f \in Event |-> IF f \notin S THEN None
                                     ELSE IF f = e THEN s ELSE list[f]]

\* onmessage: the item replaces the one with its id.
Receive ==
    /\ wire # <<>>
    /\ wire' = Tail(wire)
    /\ Pushed(Head(wire)[1], Head(wire)[2])
    /\ UNCHANGED <<server, handler, ghosts, load, answer, open, marking, drops,
                   unpushed, unmarked, gap>>

ToggleOpen ==
    /\ open' = ~open
    /\ UNCHANGED <<server, conn, list, place, load, answer, marking, drops,
                   unpushed, unmarked, gap>>

Unread == {e \in Event : list[e] = "unread"}

\* Mutant of Shown: the items are shown as read before they are.
ShownAtOnce(items) == [e \in Event |-> IF e \in items THEN "read" ELSE list[e]]

Shown(items) == list

\* The effect of [open, notifications]: a PATCH for every unread item shown.
\* The effect runs again whenever the list changes, so calls overlap.
BeginMarking ==
    /\ open /\ Unread # {}
    /\ Cardinality(marking) < MaxMarks
    /\ marking' = marking \cup {[items |-> Unread, todo |-> Unread]}
    /\ list' = Shown(Unread)
    /\ UNCHANGED <<server, conn, place, load, answer, open, drops, unpushed,
                   unmarked, gap>>

\* A click on an item: one PATCH, and the bell closes.
Click(e) ==
    /\ open /\ e \in Unread
    /\ Cardinality(marking) < MaxMarks
    /\ marking' = marking \cup {[items |-> {e}, todo |-> {e}]}
    /\ open' = FALSE
    /\ UNCHANGED <<server, conn, list, place, load, answer, drops, unpushed,
                   unmarked, gap>>

\* mark_read of one row.
MarkRead(m, e) ==
    /\ m \in marking /\ e \in m.todo
    /\ inbox' = [inbox EXCEPT ![e] = "read"]
    /\ marking' = (marking \ {m}) \cup {[m EXCEPT !.todo = @ \ {e}]}
    /\ UNCHANGED <<sends, push, pubs, published, conn, list, place, load, answer, open, drops,
                   unpushed, unmarked, gap>>

\* A PATCH fails; markAll catches it and goes on as if it had succeeded.
MarkFails(m, e) ==
    /\ m \in marking /\ e \in m.todo
    /\ marking' = (marking \ {m}) \cup {[m EXCEPT !.todo = @ \ {e}]}
    /\ unmarked' = unmarked \cup {e}
    /\ UNCHANGED <<server, conn, list, place, load, answer, open, drops,
                   unpushed, gap>>

Marked(m) ==
    [e \in Event |-> IF e \in m.items /\ list[e] # None THEN "read" ELSE list[e]]

\* Every PATCH has been answered.
EndMarking(m) ==
    /\ m \in marking /\ m.todo = {}
    /\ marking' = marking \ {m}
    /\ list' = Marked(m)
    /\ UNCHANGED <<server, conn, place, load, answer, open, drops, unpushed,
                   unmarked, gap>>

\* Another page of the user marks a row.
MarkElsewhere(e) ==
    /\ inbox[e] = "unread"
    /\ inbox' = [inbox EXCEPT ![e] = "read"]
    /\ UNCHANGED <<sends, push, pubs, published, conn, page, drops, unpushed,
                   unmarked, gap>>

Mark == \E m \in marking : \/ EndMarking(m)
                           \/ \E e \in Event : MarkRead(m, e) \/ MarkFails(m, e)

Next == \/ \E e \in Event : Store(e) \/ Click(e) \/ MarkElsewhere(e)
        \/ \E p \in Item : Publish(p) \/ PublishFails(p)
        \/ Connect \/ Drop \/ RedisLost
        \/ Reload \/ AnswerLoad \/ LoadFails \/ ReceiveLoad \/ Receive
        \/ ToggleOpen \/ BeginMarking \/ Mark

Spec == Init /\ [][Next]_vars

\* The worker goes on after its commit; Redis answers or fails.
Fairness == WF_vars(\E p \in Item : Publish(p) \/ PublishFails(p))

FairSpec == Spec /\ Fairness

-----------------------------------------------------------------------------
(* Properties                                                              *)

TypeOK ==
    /\ inbox \in List
    /\ sends \in 0..MaxSends
    /\ push \in SUBSET Item
    /\ pubs \in Nat
    /\ published \in [Event -> 0..pubs]
    /\ handler \in {"none", "pumping", "deaf"}
    /\ ghosts \in 0..MaxDrops
    /\ wire \in Seq(Message)
    /\ list \in List
    /\ place \in [Event -> 0..pubs]
    /\ load \in {"asked", "answered", "done"}
    /\ answer \in List
    /\ open \in BOOLEAN
    /\ marking \in SUBSET [items : SUBSET Event, todo : SUBSET Event]
    /\ drops \in 0..MaxDrops
    /\ unpushed \in BOOLEAN
    /\ unmarked \in SUBSET Event
    /\ gap \in BOOLEAN
    /\ \A e \in Event : list[e] # None => inbox[e] # None

\* f was created or last published after e.
Later(f, e) == published[f] > published[e] \/ Newer(f, e)

\* A page whose handler had subscribed before its inbox was read, and which has
\* lost neither a message, the connection nor what came before the answer,
\* misses a row only when its list is full of later ones, once all that was
\* published has arrived: whatever it marks meanwhile, nothing else drops out.
NothingMissed ==
    ~gap /\ load = "done" /\ push = {} /\ wire = <<>> =>
        \A e \in Shows(inbox) \ Shows(list) :
            /\ Cardinality(Shows(list)) = MaxItems
            /\ \A f \in Shows(list) : Later(f, e)

\* An item is shown as read only when the row is read, unless a PATCH for it
\* failed: not because a push, a repeated send or an answer came late.
ShownReadIsRead ==
    \A e \in Event : list[e] = "read" => inbox[e] = "read" \/ e \in unmarked

\* The handlers whose page has gone end when a notification is published for
\* their user, the only event that ends them while Redis stays up.
GhostsEnd == ghosts > 0 /\ push # {} /\ ~unpushed ~> ghosts = 0 \/ unpushed
=============================================================================
