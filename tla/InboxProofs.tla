---------------------------- MODULE InboxProofs ----------------------------
(***************************************************************************)
(* Proofs about Inbox, for any events, lengths of the list, sends, lost    *)
(* connections and marks.                                                  *)
(***************************************************************************)
EXTENDS Inbox, FiniteSetTheorems, TLAPS

USE InboxAssumption

\* Every handler whose page has gone was lost with a connection.
GhostsWereLost == ghosts <= drops

\* What is under way, and what a mark is about, has a row.
HasRow(e) == inbox[e] # None

OnTheWayHasRow ==
    /\ \A p \in push : HasRow(p[1])
    /\ \A i \in 1..Len(wire) : HasRow(wire[i][1])
    /\ \A e \in Event : answer[e] # None => HasRow(e)
    /\ \A m \in marking : m.todo \subseteq m.items /\ \A e \in m.items : HasRow(e)

\* What is read wherever it is seen was read in the row, or a mark of it failed.
Read(e) == inbox[e] = "read" \/ e \in unmarked

SeenReadIsRead ==
    /\ \A p \in push : p[2] = "read" => Read(p[1])
    /\ \A i \in 1..Len(wire) : wire[i][2] = "read" => Read(wire[i][1])
    /\ \A e \in Event : answer[e] = "read" => Read(e)
    /\ \A m \in marking : \A e \in m.items \ m.todo : Read(e)

\* The page will still be told of e.
InWire(e) == \E i \in 1..Len(wire) : wire[i][1] = e
Coming(e) == (\E p \in push : p[1] = e) \/ InWire(e)

\* The wire has the publications in their order, and all of them from its first
\* message on.
WireInOrder ==
    /\ handler = "none" => wire = <<>>
    /\ \A i \in 1..Len(wire) :
          /\ wire[i][3] \in 1..pubs
          /\ wire[i][3] <= published[wire[i][1]]
          /\ \A j \in 1..Len(wire) : i < j => wire[i][3] < wire[j][3]
          /\ \A e \in Event : place[e] < wire[i][3]
    /\ handler # "deaf" =>
          \A i \in 1..Len(wire), e \in Event : published[e] >= wire[i][3] =>
              \E j \in i..Len(wire) : wire[j][1] = e

\* Without a gap, what was published after a message that has been received has
\* been received as well, or is on the wire.
HeardInOrder ==
    /\ \A e \in Event : place[e] <= published[e]
    /\ ~gap => handler # "deaf"
    /\ ~gap /\ handler = "none" => \A e \in Event : place[e] = 0
    /\ ~gap => \A f, e \in Event :
          place[f] > 0 /\ published[e] >= place[f] => place[e] >= place[f] \/ InWire(e)

AnswerIsShort == Cardinality(Shows(answer)) <= MaxItems

\* A row that has made way for later ones.
Displaced(items, e) ==
    /\ Cardinality(Shows(items)) = MaxItems
    /\ \A f \in Shows(items) : Later(f, e)

\* Without a gap each row is in the list, in the answer or on its way, or later
\* ones have taken its place; and the page's handler listens from the answer on.
Reached(e) ==
    \/ Coming(e)
    \/ list[e] # None \/ Displaced(list, e)
    \/ load = "answered" /\ (answer[e] # None \/ Displaced(answer, e))

NothingForgotten ==
    ~gap /\ load # "asked" =>
        handler = "pumping" /\ \A e \in Event : HasRow(e) => Reached(e)

\* What is seen of the rows, and what the page has been told of.
RowInv == /\ TypeOK
          /\ GhostsWereLost
          /\ OnTheWayHasRow
          /\ SeenReadIsRead
          /\ ShownReadIsRead

PageInv == /\ WireInOrder
           /\ HeardInOrder
           /\ AnswerIsShort
           /\ NothingForgotten

IndInv == RowInv /\ PageInv

-----------------------------------------------------------------------------
(* Sequences                                                               *)

LEMMA AppendedWire ==
  ASSUME NEW s \in Seq(Message), NEW p \in Message
  PROVE  /\ Append(s, p) \in Seq(Message)
         /\ Len(Append(s, p)) = Len(s) + 1
         /\ \A i \in 1..Len(s) : Append(s, p)[i] = s[i]
         /\ Append(s, p)[Len(s) + 1] = p
OBVIOUS

LEMMA TailOfWire ==
  ASSUME NEW s \in Seq(Message), s # <<>>
  PROVE  /\ Tail(s) \in Seq(Message)
         /\ Len(Tail(s)) = Len(s) - 1
         /\ 1 \in 1..Len(s) /\ Head(s) = s[1] /\ Head(s) \in Message
         /\ \A i \in 1..Len(Tail(s)) : i + 1 \in 1..Len(s) /\ Tail(s)[i] = s[i + 1]
         /\ \A i \in 1..Len(s) : i # 1 => i - 1 \in 1..Len(Tail(s)) /\ Tail(s)[i - 1] = s[i]
OBVIOUS

LEMMA ItemParts ==
  ASSUME NEW p \in Item
  PROVE  p[1] \in Event /\ p[2] \in State /\ p = <<p[1], p[2]>>
BY DEF Item

LEMMA MessageParts ==
  ASSUME NEW m \in Message
  PROVE  m[1] \in Event /\ m[2] \in State /\ m[3] \in Nat
BY DEF Message

LEMMA AboutEvents ==
  ASSUME TypeOK
  PROVE  /\ \A p \in push : p[1] \in Event
         /\ \A i \in 1..Len(wire) : wire[i][1] \in Event
         /\ \A m \in marking : m.items \subseteq Event /\ m.todo \subseteq Event
<1>1. \A p \in push : p[1] \in Event
  BY ItemParts DEF TypeOK
<1>2. \A i \in 1..Len(wire) : wire[i] \in Message
  BY DEF TypeOK
<1>3. \A m \in marking : m.items \subseteq Event /\ m.todo \subseteq Event
  BY DEF TypeOK
<1>. QED BY <1>1, <1>2, <1>3, MessageParts

-----------------------------------------------------------------------------
(* The rows and what is seen of them, by action                            *)

LEMMA StorePreserves ==
  ASSUME IndInv, NEW e \in Event, Store(e)
  PROVE  RowInv'
<1>. USE DEF IndInv, RowInv
<1>. DEFINE p == <<e, inbox'[e]>>
<1>1. /\ inbox' = [inbox EXCEPT ![e] = Stored(inbox[e])] /\ push' = push \cup {p}
      /\ UNCHANGED <<conn, page, unmarked, gap>>
  BY DEF Store, Row
<1>2. inbox'[e] \in State /\ HasRow(e)' /\ p[1] = e /\ p[2] = inbox'[e] /\ p \in Item
  BY <1>1 DEF TypeOK, List, State, Stored, HasRow, Item
<1>3. \A f \in Event : (HasRow(f) => HasRow(f)') /\ (Read(f) => Read(f)')
  <2>1. inbox[e] = "read" => inbox'[e] = "read"
    BY <1>1 DEF TypeOK, List, Stored, State
  <2>2. \A f \in Event : f # e => inbox'[f] = inbox[f]
    BY <1>1 DEF TypeOK, List
  <2>. QED BY <1>1, <1>2, <2>1, <2>2 DEF HasRow, Read
<1>4. \A f \in Event : f # e => inbox'[f] = inbox[f]
  BY <1>1 DEF TypeOK, List
<1>5. /\ \A q \in push : q[1] \in Event
      /\ \A i \in 1..Len(wire) : wire[i][1] \in Event
      /\ \A m \in marking : m.items \subseteq Event /\ m.todo \subseteq Event
  BY AboutEvents
<1>. HIDE DEF p
<1>6. TypeOK'
  <2>1. inbox' \in List /\ push' \in SUBSET Item /\ sends' \in 0..MaxSends
    BY <1>1, <1>2, <1>4 DEF Store, TypeOK, List
  <2>2. \A f \in Event : list'[f] # None => inbox'[f] # None
    BY <1>1, <1>3 DEF TypeOK, HasRow, page
  <2>. QED BY <2>1, <2>2 DEF Store, TypeOK, conn, page
<1>7. GhostsWereLost'
  BY DEF Store, Stored, Row, server, conn, page, GhostsWereLost, TypeOK
<1>8. OnTheWayHasRow'
  BY <1>1, <1>2, <1>3, <1>5 DEF OnTheWayHasRow, conn, page
<1>9. SeenReadIsRead'
  <2>1. p[2] = "read" => Read(e)'
    BY <1>2 DEF Read
  <2>. QED BY <1>1, <1>2, <1>3, <1>5, <2>1 DEF SeenReadIsRead, conn, page
<1>10. ShownReadIsRead'
  BY <1>1, <1>3 DEF ShownReadIsRead, Read, page
<1>. QED BY <1>6, <1>7, <1>8, <1>9, <1>10

LEMMA PublishPreserves ==
  ASSUME IndInv, NEW p \in Item, Publish(p)
  PROVE  RowInv'
<1>. USE DEF IndInv, RowInv
<1>1. TypeOK'
  <2>1. <<p[1], p[2], pubs + 1>> \in Message
    BY ItemParts DEF TypeOK, Message
  <2>2. wire' \in Seq(Message) /\ ghosts' \in 0..MaxDrops
    BY <2>1, AppendedWire DEF Publish, Heard, TypeOK
  <2>3. pubs' = pubs + 1 /\ published' \in [Event -> 0..pubs'] /\ place' \in [Event -> 0..pubs']
    <3>1. /\ pubs' = pubs + 1 /\ pubs \in Nat /\ p[1] \in Event
          /\ published' = [published EXCEPT ![p[1]] = pubs + 1] /\ place' = place
      BY ItemParts DEF Publish, TypeOK, page
    <3>2. 0..pubs \subseteq 0..pubs' /\ pubs + 1 \in 0..pubs'
      BY <3>1
    <3>. QED BY <3>1, <3>2 DEF TypeOK
  <2>4. push' \in SUBSET Item
    BY DEF Publish, TypeOK
  <2>. QED BY <2>2, <2>3, <2>4 DEF Publish, TypeOK, page
<1>2. GhostsWereLost'
  BY DEF Publish, Heard, server, conn, page, GhostsWereLost, TypeOK
<1>3. OnTheWayHasRow'
  BY DEF Publish, Heard, server, conn, page, OnTheWayHasRow, HasRow, TypeOK
<1>4. SeenReadIsRead'
  BY DEF Publish, Heard, server, conn, page, SeenReadIsRead, Read, TypeOK
<1>5. ShownReadIsRead'
  BY DEF Publish, Heard, server, conn, page, SeenReadIsRead, ShownReadIsRead,
     Read, TypeOK
<1>. QED BY <1>1, <1>2, <1>3, <1>4, <1>5

LEMMA PublishFailsPreserves ==
  ASSUME IndInv, NEW p \in Item, PublishFails(p)
  PROVE  RowInv'
<1>. USE DEF IndInv, RowInv
<1>1. TypeOK'
  BY DEF PublishFails, server, conn, page, TypeOK, List, Item, Message, State,
     OnTheWayHasRow, HasRow
<1>2. GhostsWereLost'
  BY DEF PublishFails, server, conn, page, GhostsWereLost, TypeOK
<1>3. OnTheWayHasRow'
  BY DEF PublishFails, server, conn, page, OnTheWayHasRow, HasRow, TypeOK
<1>4. SeenReadIsRead'
  BY DEF PublishFails, server, conn, page, SeenReadIsRead, Read, TypeOK
<1>5. ShownReadIsRead'
  BY DEF PublishFails, server, conn, page, SeenReadIsRead, ShownReadIsRead, Read,
     TypeOK
<1>. QED BY <1>1, <1>2, <1>3, <1>4, <1>5

LEMMA ConnectPreserves ==
  ASSUME IndInv, Connect
  PROVE  RowInv'
<1>. USE DEF IndInv, RowInv
<1>1. TypeOK'
  BY DEF Connect, server, conn, page, TypeOK, List, Item, Message, State, OnTheWayHasRow,
     HasRow
<1>2. GhostsWereLost'
  BY DEF Connect, server, conn, page, GhostsWereLost, TypeOK
<1>3. OnTheWayHasRow'
  BY DEF Connect, server, conn, page, OnTheWayHasRow, HasRow, TypeOK
<1>4. SeenReadIsRead'
  BY DEF Connect, server, conn, page, SeenReadIsRead, Read, TypeOK
<1>5. ShownReadIsRead'
  BY DEF Connect, server, conn, page, SeenReadIsRead, ShownReadIsRead, Read, TypeOK
<1>. QED BY <1>1, <1>2, <1>3, <1>4, <1>5

LEMMA DropPreserves ==
  ASSUME IndInv, Drop
  PROVE  RowInv'
<1>. USE DEF IndInv, RowInv
<1>1. TypeOK'
  <2>1. drops' \in 0..MaxDrops /\ ghosts' \in 0..MaxDrops /\ wire' \in Seq(Message)
    BY DEF Drop, Disconnect, TypeOK, GhostsWereLost
  <2>. QED BY <2>1 DEF Drop, Disconnect, TypeOK, server, page
<1>2. GhostsWereLost'
  BY DEF Drop, Disconnect, server, conn, page, GhostsWereLost, TypeOK
<1>3. OnTheWayHasRow'
  BY DEF Drop, Disconnect, server, conn, page, OnTheWayHasRow, HasRow, TypeOK
<1>4. SeenReadIsRead'
  BY DEF Drop, Disconnect, server, conn, page, SeenReadIsRead, Read, TypeOK
<1>5. ShownReadIsRead'
  BY DEF Drop, Disconnect, server, conn, page, SeenReadIsRead, ShownReadIsRead,
     Read, TypeOK
<1>. QED BY <1>1, <1>2, <1>3, <1>4, <1>5

LEMMA RedisLostPreserves ==
  ASSUME IndInv, RedisLost
  PROVE  RowInv'
<1>. USE DEF IndInv, RowInv
<1>1. TypeOK'
  BY DEF RedisLost, server, conn, page, TypeOK, List, Item, Message, State, OnTheWayHasRow,
     HasRow
<1>2. GhostsWereLost'
  BY DEF RedisLost, server, conn, page, GhostsWereLost, TypeOK
<1>3. OnTheWayHasRow'
  BY DEF RedisLost, server, conn, page, OnTheWayHasRow, HasRow, TypeOK
<1>4. SeenReadIsRead'
  BY DEF RedisLost, server, conn, page, SeenReadIsRead, Read, TypeOK
<1>5. ShownReadIsRead'
  BY DEF RedisLost, server, conn, page, SeenReadIsRead, ShownReadIsRead, Read, TypeOK
<1>. QED BY <1>1, <1>2, <1>3, <1>4, <1>5

LEMMA ReloadPreserves ==
  ASSUME IndInv, Reload
  PROVE  RowInv'
<1>. USE DEF IndInv, RowInv
<1>1. TypeOK'
  <2>1. drops' \in 0..MaxDrops /\ ghosts' \in 0..MaxDrops /\ wire' \in Seq(Message)
    BY DEF Reload, Disconnect, TypeOK, GhostsWereLost
  <2>2. Nothing \in List /\ \A e \in Event : Nothing[e] = None
    BY DEF Nothing, List
  <2>3. place' \in [Event -> 0..pubs']
    BY DEF Reload, Unmoved, server, TypeOK
  <2>. QED BY <2>1, <2>2, <2>3 DEF Reload, Disconnect, TypeOK, server
<1>2. GhostsWereLost'
  BY DEF Reload, Disconnect, Nothing, server, conn, page, GhostsWereLost, TypeOK
<1>3. OnTheWayHasRow'
  BY DEF Reload, Disconnect, Nothing, server, conn, page, OnTheWayHasRow, HasRow,
     TypeOK
<1>4. SeenReadIsRead'
  <2>1. \A e \in Event : Nothing[e] # "read"
    BY DEF Nothing, State
  <2>. QED BY <2>1 DEF Reload, Disconnect, SeenReadIsRead, Read, server
<1>5. ShownReadIsRead'
  <2>1. \A e \in Event : Nothing[e] # "read"
    BY DEF Nothing, State
  <2>. QED BY <2>1 DEF Reload, ShownReadIsRead
<1>. QED BY <1>1, <1>2, <1>3, <1>4, <1>5

LEMMA AnswerLoadPreserves ==
  ASSUME IndInv, AnswerLoad
  PROVE  RowInv'
<1>. USE DEF IndInv, RowInv
<1>1. TypeOK'
  BY DEF AnswerLoad, server, conn, page, TypeOK, List, Item, Message, State,
     OnTheWayHasRow, HasRow
<1>2. GhostsWereLost'
  BY DEF AnswerLoad, server, conn, page, GhostsWereLost, TypeOK
<1>3. OnTheWayHasRow'
  BY DEF AnswerLoad, server, conn, page, OnTheWayHasRow, HasRow, TypeOK
<1>4. SeenReadIsRead'
  <2>1. \A e \in Event : answer'[e] = "read" => inbox[e] = "read"
    BY DEF AnswerLoad, State
  <2>. QED BY <2>1 DEF AnswerLoad, SeenReadIsRead, Read, server, conn
<1>5. ShownReadIsRead'
  BY DEF AnswerLoad, server, conn, page, SeenReadIsRead, ShownReadIsRead, Read, TypeOK
<1>. QED BY <1>1, <1>2, <1>3, <1>4, <1>5

LEMMA LoadFailsPreserves ==
  ASSUME IndInv, LoadFails
  PROVE  RowInv'
<1>. USE DEF IndInv, RowInv
<1>1. TypeOK'
  BY DEF LoadFails, server, conn, page, TypeOK, List, Item, Message, State, OnTheWayHasRow,
     HasRow
<1>2. GhostsWereLost'
  BY DEF LoadFails, server, conn, page, GhostsWereLost, TypeOK
<1>3. OnTheWayHasRow'
  BY DEF LoadFails, server, conn, page, OnTheWayHasRow, HasRow, TypeOK
<1>4. SeenReadIsRead'
  BY DEF LoadFails, server, conn, page, SeenReadIsRead, Read, TypeOK
<1>5. ShownReadIsRead'
  BY DEF LoadFails, server, conn, page, SeenReadIsRead, ShownReadIsRead, Read, TypeOK
<1>. QED BY <1>1, <1>2, <1>3, <1>4, <1>5

LEMMA ReceiveLoadPreserves ==
  ASSUME IndInv, ReceiveLoad
  PROVE  RowInv'
<1>. USE DEF IndInv, RowInv
<1>1. TypeOK'
  <2>1. Nothing \in List /\ gap' \in BOOLEAN
    BY DEF Nothing, List, ReceiveLoad, TypeOK
  <2>2. place' \in [Event -> 0..pubs']
    BY DEF ReceiveLoad, Unmoved, server, TypeOK
  <2>. QED BY <2>1, <2>2 DEF ReceiveLoad, TypeOK, OnTheWayHasRow, HasRow, server, conn
<1>2. GhostsWereLost'
  BY DEF ReceiveLoad, server, conn, page, GhostsWereLost, TypeOK
<1>3. OnTheWayHasRow'
  <2>1. \A e \in Event : Nothing[e] = None
    BY DEF Nothing
  <2>. QED BY <2>1 DEF ReceiveLoad, OnTheWayHasRow, HasRow, server, conn
<1>4. SeenReadIsRead'
  <2>1. \A e \in Event : Nothing[e] # "read"
    BY DEF Nothing, State
  <2>. QED BY <2>1 DEF ReceiveLoad, SeenReadIsRead, Read, server, conn
<1>5. ShownReadIsRead'
  BY DEF ReceiveLoad, server, conn, page, SeenReadIsRead, ShownReadIsRead, Read,
     TypeOK
<1>. QED BY <1>1, <1>2, <1>3, <1>4, <1>5

\* What a received message does to the list.
LEMMA ReceivedList ==
  ASSUME TypeOK, Receive
  PROVE  /\ wire # <<>> /\ wire \in Seq(Message) /\ wire' = Tail(wire)
         /\ 1 \in 1..Len(wire) /\ wire[1] \in Message /\ Head(wire) = wire[1]
         /\ wire[1][1] \in Event /\ wire[1][2] \in State
         /\ place' = [place EXCEPT ![wire[1][1]] = wire[1][3]]
         /\ list' \in List
         /\ \A f \in Shows(list') :
               list'[f] = IF f = wire[1][1] THEN wire[1][2] ELSE list[f]
         /\ Shows(list') \subseteq Shows(list) \cup {wire[1][1]}
         /\ \/ Shows(list') = Shows(list) \cup {wire[1][1]}
            \/ Cardinality(Shows(list')) = MaxItems
         /\ Cardinality(Shows(list')) <= MaxItems
         /\ \A f \in Shows(list'), e \in (Shows(list) \cup {wire[1][1]}) \ Shows(list') :
               Ahead(f, e)
<1>. USE DEF TypeOK
<1>1. /\ wire # <<>> /\ wire \in Seq(Message) /\ wire' = Tail(wire)
      /\ Pushed(Head(wire)[1], Head(wire)[2])
  BY DEF Receive
<1>2. 1 \in 1..Len(wire) /\ Head(wire) = wire[1] /\ wire[1] \in Message
  BY <1>1, TailOfWire
<1>3. wire[1][1] \in Event /\ wire[1][2] \in State
  BY <1>2, MessageParts
<1>. DEFINE m == Head(wire)
            X == Shows(list) \cup {m[1]}
<1>4. PICK S \in SUBSET X :
         /\ S = X \/ Cardinality(S) = MaxItems
         /\ Cardinality(S) <= MaxItems
         /\ \A f \in S, e \in X \ S : Ahead(f, e)
         /\ list' = [f \in Event |-> IF f \notin S THEN None
                                    ELSE IF f = m[1] THEN m[2] ELSE list[f]]
  BY <1>1 DEF Pushed, FirstOf
<1>5. place' = [place EXCEPT ![m[1]] = m[3]]
  BY <1>1 DEF Pushed
<1>6. m = wire[1]
  BY <1>2
<1>. HIDE DEF m
<1>7. X \subseteq Event /\ m[1] \in Event /\ m[2] \in State
  BY <1>3, <1>6 DEF Shows
<1>8. Shows(list') = S
  BY <1>4, <1>7 DEF Shows, State
<1>9. list' \in List
  BY <1>4, <1>7 DEF List
<1>10. \A f \in Shows(list') : list'[f] = IF f = m[1] THEN m[2] ELSE list[f]
  BY <1>4, <1>7, <1>8
<1>. QED BY <1>1, <1>2, <1>3, <1>4, <1>5, <1>6, <1>8, <1>9, <1>10

LEMMA ReceivePreserves ==
  ASSUME IndInv, Receive
  PROVE  RowInv'
<1>. USE DEF IndInv, RowInv
<1>1. UNCHANGED <<inbox, sends, push, pubs, published, handler, ghosts, load, answer,
                  open, marking, drops, unpushed, unmarked, gap>>
  BY DEF Receive, server
<1>2. /\ wire \in Seq(Message) /\ wire' = Tail(wire) /\ wire # <<>>
      /\ wire[1] \in Message /\ 1 \in 1..Len(wire)
  BY ReceivedList
<1>3. wire' \in Seq(Message) /\ \A i \in 1..Len(wire') :
                                    i + 1 \in 1..Len(wire) /\ wire'[i] = wire[i + 1]
  BY <1>2, TailOfWire
<1>4. \A f \in Shows(list') : f = wire[1][1] \/ f \in Shows(list)
  BY ReceivedList
<1>5. TypeOK'
  <2>1. place' \in [Event -> 0..pubs']
    <3>1. wire[1][3] \in 0..pubs
      BY <1>2 DEF PageInv, WireInOrder, TypeOK
    <3>. QED BY <1>1, <3>1, ReceivedList DEF TypeOK
  <2>2. list' \in List
    BY ReceivedList
  <2>3. \A e \in Event : list'[e] # None => inbox'[e] # None
    BY <1>1, <1>2, <1>4 DEF Shows, TypeOK, OnTheWayHasRow, HasRow
  <2>. QED BY <1>1, <1>3, <2>1, <2>2, <2>3 DEF TypeOK
<1>6. GhostsWereLost'
  BY <1>1 DEF GhostsWereLost
<1>7. OnTheWayHasRow'
  <2>1. \A i \in 1..Len(wire') : HasRow(wire'[i][1])
    BY <1>3 DEF OnTheWayHasRow
  <2>. QED BY <1>1, <2>1 DEF OnTheWayHasRow, HasRow
<1>8. SeenReadIsRead'
  <2>1. \A i \in 1..Len(wire') : wire'[i][2] = "read" => Read(wire'[i][1])
    BY <1>3 DEF SeenReadIsRead
  <2>. QED BY <1>1, <2>1 DEF SeenReadIsRead, Read
<1>9. ShownReadIsRead'
  <2>. SUFFICES ASSUME NEW e \in Event, list'[e] = "read" PROVE Read(e)
    BY <1>1 DEF ShownReadIsRead, Read
  <2>1. e \in Shows(list')
    BY DEF Shows, State
  <2>2. CASE e = wire[1][1]
    BY <1>2, <2>1, <2>2, ReceivedList DEF SeenReadIsRead
  <2>3. CASE e # wire[1][1]
    BY <2>1, <2>3, ReceivedList DEF ShownReadIsRead, Read
  <2>. QED BY <2>2, <2>3
<1>. QED BY <1>5, <1>6, <1>7, <1>8, <1>9

LEMMA ToggleOpenPreserves ==
  ASSUME IndInv, ToggleOpen
  PROVE  RowInv'
<1>. USE DEF IndInv, RowInv
<1>1. TypeOK'
  BY DEF ToggleOpen, server, conn, page, TypeOK, List, Item, Message, State,
     OnTheWayHasRow, HasRow
<1>2. GhostsWereLost'
  BY DEF ToggleOpen, server, conn, page, GhostsWereLost, TypeOK
<1>3. OnTheWayHasRow'
  BY DEF ToggleOpen, server, conn, page, OnTheWayHasRow, HasRow, TypeOK
<1>4. SeenReadIsRead'
  BY DEF ToggleOpen, server, conn, page, SeenReadIsRead, Read, TypeOK
<1>5. ShownReadIsRead'
  BY DEF ToggleOpen, server, conn, page, SeenReadIsRead, ShownReadIsRead, Read, TypeOK
<1>. QED BY <1>1, <1>2, <1>3, <1>4, <1>5

LEMMA BeginMarkingPreserves ==
  ASSUME IndInv, BeginMarking
  PROVE  RowInv'
<1>. USE DEF IndInv, RowInv
<1>. DEFINE k == [items |-> Unread, todo |-> Unread]
<1>1. /\ marking' = marking \cup {k} /\ k.items = Unread /\ k.todo = Unread
      /\ Unread \subseteq Event
  BY DEF BeginMarking, Unread
<1>2. \A f \in Unread : HasRow(f)
  BY DEF Unread, HasRow, TypeOK, State
<1>3. TypeOK'
  BY DEF BeginMarking, Shown, Unread, server, conn, page, TypeOK, List, Item,
     State, OnTheWayHasRow, HasRow
<1>4. GhostsWereLost'
  BY DEF BeginMarking, Shown, Unread, server, conn, page, GhostsWereLost, TypeOK
<1>5. OnTheWayHasRow'
  BY <1>1, <1>2 DEF BeginMarking, OnTheWayHasRow, HasRow, server, conn
<1>6. SeenReadIsRead'
  BY DEF BeginMarking, Shown, Unread, server, conn, page, SeenReadIsRead, Read, TypeOK
<1>7. ShownReadIsRead'
  BY DEF BeginMarking, Shown, Unread, server, conn, page, SeenReadIsRead,
     ShownReadIsRead, Read, TypeOK
<1>. QED BY <1>3, <1>4, <1>5, <1>6, <1>7

LEMMA ClickPreserves ==
  ASSUME IndInv, NEW e \in Event, Click(e)
  PROVE  RowInv'
<1>. USE DEF IndInv, RowInv
<1>. DEFINE k == [items |-> {e}, todo |-> {e}]
<1>1. /\ marking' = marking \cup {k} /\ k.items = {e} /\ k.todo = {e}
      /\ {e} \subseteq Event
  BY DEF Click, Unread
<1>2. \A f \in Unread : HasRow(f)
  BY DEF Unread, HasRow, TypeOK, State
<1>3. TypeOK'
  <2>1. k \in [items : SUBSET Event, todo : SUBSET Event]
    OBVIOUS
  <2>. HIDE DEF k
  <2>. QED BY <1>1, <2>1 DEF Click, TypeOK, server, conn
<1>4. GhostsWereLost'
  BY DEF Click, Unread, server, conn, page, GhostsWereLost, TypeOK
<1>5. OnTheWayHasRow'
  BY <1>1, <1>2 DEF Click, OnTheWayHasRow, HasRow, server, conn
<1>6. SeenReadIsRead'
  BY DEF Click, Unread, server, conn, page, SeenReadIsRead, Read, TypeOK
<1>7. ShownReadIsRead'
  BY DEF Click, Unread, server, conn, page, SeenReadIsRead, ShownReadIsRead, Read,
     TypeOK
<1>. QED BY <1>3, <1>4, <1>5, <1>6, <1>7

\* A call of markAll that is done with one PATCH is still a call.
LEMMA RestOfMarking ==
  ASSUME TypeOK, NEW m \in marking, NEW e \in Event,
         marking' = (marking \ {m}) \cup {[m EXCEPT !.todo = @ \ {e}]}
  PROVE  marking' \in SUBSET [items : SUBSET Event, todo : SUBSET Event]
<1>1. m \in [items : SUBSET Event, todo : SUBSET Event]
  BY DEF TypeOK
<1>2. [m EXCEPT !.todo = @ \ {e}] \in [items : SUBSET Event, todo : SUBSET Event]
  BY <1>1
<1>. QED BY <1>2 DEF TypeOK

LEMMA MarkReadPreserves ==
  ASSUME IndInv, NEW m \in marking, NEW e \in Event, MarkRead(m, e)
  PROVE  RowInv'
<1>. USE DEF IndInv, RowInv
<1>. DEFINE k == [m EXCEPT !.todo = @ \ {e}]
<1>1. /\ e \in m.todo /\ m.todo \subseteq m.items /\ m.items \subseteq Event
      /\ m \in [items : SUBSET Event, todo : SUBSET Event]
  BY DEF MarkRead, OnTheWayHasRow, TypeOK
<1>2. /\ marking' = (marking \ {m}) \cup {k}
      /\ k.items = m.items /\ k.todo = m.todo \ {e}
  BY <1>1 DEF MarkRead
<1>3. inbox'[e] = "read" /\ \A f \in Event : f # e => inbox'[f] = inbox[f]
  BY DEF MarkRead, TypeOK, List
<1>4. HasRow(e) /\ HasRow(e)' /\ Read(e)'
  BY <1>1, <1>3 DEF OnTheWayHasRow, HasRow, Read, State
<1>5. \A f \in Event : (HasRow(f)' <=> HasRow(f)) /\ (Read(f) => Read(f)')
  BY <1>3, <1>4 DEF HasRow, Read, MarkRead
<1>6. /\ \A p \in push : p[1] \in Event
      /\ \A i \in 1..Len(wire) : wire[i][1] \in Event
      /\ \A j \in marking : j.items \subseteq Event /\ j.todo \subseteq Event
  BY AboutEvents
<1>7. UNCHANGED <<push, conn, list, load, answer, gap>>
  BY DEF MarkRead
<1>. HIDE DEF k
<1>8. TypeOK'
  <2>1. marking' \in SUBSET [items : SUBSET Event, todo : SUBSET Event]
    BY RestOfMarking DEF MarkRead
  <2>2. inbox' \in List
    BY DEF MarkRead, TypeOK, List, State
  <2>3. \A f \in Event : list'[f] # None => inbox'[f] # None
    BY <1>3, <1>4, <1>7 DEF TypeOK, HasRow
  <2>4. /\ UNCHANGED <<sends, push, pubs, published, conn, list, place, load, answer, open, drops>>
        /\ UNCHANGED <<unpushed, unmarked, gap>>
    BY DEF MarkRead
  <2>. QED BY <2>1, <2>2, <2>3, <2>4 DEF conn, TypeOK
<1>9. GhostsWereLost'
  BY DEF MarkRead, server, conn, page, GhostsWereLost, TypeOK
<1>10. OnTheWayHasRow'
  BY <1>1, <1>2, <1>5, <1>6, <1>7 DEF OnTheWayHasRow, conn
<1>11. SeenReadIsRead'
  BY <1>1, <1>2, <1>4, <1>5, <1>6, <1>7 DEF SeenReadIsRead, conn
<1>12. ShownReadIsRead'
  BY DEF MarkRead, server, conn, page, SeenReadIsRead, ShownReadIsRead, Read, TypeOK
<1>. QED BY <1>8, <1>9, <1>10, <1>11, <1>12

LEMMA MarkFailsPreserves ==
  ASSUME IndInv, NEW m \in marking, NEW e \in Event, MarkFails(m, e)
  PROVE  RowInv'
<1>. USE DEF IndInv, RowInv
<1>1. TypeOK'
  <2>1. marking' \in SUBSET [items : SUBSET Event, todo : SUBSET Event]
    BY RestOfMarking DEF MarkFails
  <2>. QED BY <2>1 DEF MarkFails, server, conn, TypeOK
<1>2. GhostsWereLost'
  BY DEF MarkFails, server, conn, page, GhostsWereLost, TypeOK
<1>3. OnTheWayHasRow'
  BY DEF MarkFails, server, conn, page, OnTheWayHasRow, HasRow, TypeOK
<1>4. SeenReadIsRead'
  <2>1. \A f \in Event : Read(f) => Read(f)'
    BY DEF MarkFails, server, Read
  <2>2. Read(e)'
    BY DEF MarkFails, Read
  <2>3. /\ \A p \in push : p[1] \in Event
        /\ \A i \in 1..Len(wire) : wire[i][1] \in Event
        /\ \A j \in marking : j.items \subseteq Event
    BY AboutEvents
  <2>4. \A j \in marking' : \A f \in j.items \ j.todo : f = e \/ Read(f)
    <3>. DEFINE k == [m EXCEPT !.todo = @ \ {e}]
    <3>1. m \in [items : SUBSET Event, todo : SUBSET Event]
      BY DEF TypeOK
    <3>2. k.items = m.items /\ k.todo = m.todo \ {e}
      BY <3>1
    <3>3. \A j \in marking' : j \in marking \/ j = k
      BY DEF MarkFails
    <3>. QED BY <3>2, <3>3 DEF SeenReadIsRead
  <2>5. \A j \in marking' : j.items \subseteq Event
    BY DEF MarkFails, TypeOK
  <2>. QED BY <2>1, <2>2, <2>3, <2>4, <2>5 DEF MarkFails, SeenReadIsRead, server, conn
<1>5. ShownReadIsRead'
  BY DEF MarkFails, server, conn, page, SeenReadIsRead, ShownReadIsRead, Read, TypeOK
<1>. QED BY <1>1, <1>2, <1>3, <1>4, <1>5

LEMMA EndMarkingPreserves ==
  ASSUME IndInv, NEW m \in marking, EndMarking(m)
  PROVE  RowInv'
<1>. USE DEF IndInv, RowInv
<1>1. TypeOK'
  BY DEF EndMarking, Marked, server, conn, page, TypeOK, List, Item, Message, State,
     OnTheWayHasRow, HasRow
<1>2. GhostsWereLost'
  BY DEF EndMarking, Marked, server, conn, page, GhostsWereLost, TypeOK
<1>3. OnTheWayHasRow'
  BY DEF EndMarking, Marked, server, conn, page, OnTheWayHasRow, HasRow, TypeOK
<1>4. SeenReadIsRead'
  BY DEF EndMarking, Marked, server, conn, page, SeenReadIsRead, Read, TypeOK
<1>5. ShownReadIsRead'
  BY DEF EndMarking, Marked, server, conn, page, SeenReadIsRead, ShownReadIsRead,
     Read, TypeOK
<1>. QED BY <1>1, <1>2, <1>3, <1>4, <1>5

LEMMA MarkElsewherePreserves ==
  ASSUME IndInv, NEW e \in Event, MarkElsewhere(e)
  PROVE  RowInv'
<1>. USE DEF IndInv, RowInv
<1>1. inbox'[e] = "read" /\ \A f \in Event : f # e => inbox'[f] = inbox[f]
  BY DEF MarkElsewhere, TypeOK, List
<1>2. \A f \in Event : HasRow(f)' <=> HasRow(f)
  BY <1>1 DEF HasRow, MarkElsewhere, State
<1>3. /\ \A p \in push : p[1] \in Event
      /\ \A i \in 1..Len(wire) : wire[i][1] \in Event
      /\ \A m \in marking : m.items \subseteq Event
  BY AboutEvents
<1>4. TypeOK'
  BY DEF MarkElsewhere, server, conn, page, TypeOK, List, Item, Message, State,
     OnTheWayHasRow, HasRow
<1>5. GhostsWereLost'
  BY DEF MarkElsewhere, server, conn, page, GhostsWereLost, TypeOK
<1>6. OnTheWayHasRow'
  BY <1>2, <1>3 DEF MarkElsewhere, OnTheWayHasRow, conn, page
<1>7. SeenReadIsRead'
  BY DEF MarkElsewhere, server, conn, page, SeenReadIsRead, Read, TypeOK
<1>8. ShownReadIsRead'
  BY DEF MarkElsewhere, server, conn, page, SeenReadIsRead, ShownReadIsRead, Read,
     TypeOK
<1>. QED BY <1>4, <1>5, <1>6, <1>7, <1>8

-----------------------------------------------------------------------------
(* What the page has been told of, by action                               *)

\* Neither the wire nor the places change.
LEMMA OrderFrame ==
  ASSUME IndInv, UNCHANGED <<pubs, published, handler, wire, place>>, gap => gap'
  PROVE  WireInOrder' /\ HeardInOrder'
BY DEF IndInv, RowInv, PageInv, TypeOK, WireInOrder, HeardInOrder, InWire

LEMMA DisplacedFrame ==
  ASSUME NEW e, UNCHANGED published
  PROVE  /\ Shows(list') = Shows(list) => (Displaced(list, e) => Displaced(list, e)')
         /\ answer' = answer => (Displaced(answer, e) => Displaced(answer, e)')
BY DEF Displaced, Later, Newer

\* Marking, opening and closing the bell: its items stay.
LEMMA BellFrame ==
  ASSUME IndInv, Shows(list') = Shows(list), gap' = gap,
         UNCHANGED <<push, pubs, published, handler, wire, place, load, answer>>,
         \A e \in Event : HasRow(e)' => HasRow(e)
  PROVE  PageInv'
<1>. USE DEF IndInv, PageInv
<1>1. WireInOrder' /\ HeardInOrder'
  BY OrderFrame
<1>2. AnswerIsShort'
  BY DEF AnswerIsShort, Shows
<1>3. NothingForgotten'
  <2>. SUFFICES ASSUME NEW e \in Event, HasRow(e), Reached(e) PROVE Reached(e)'
    BY DEF NothingForgotten
  <2>1. list[e] # None => list'[e] # None
    BY DEF Shows
  <2>. QED BY <2>1, DisplacedFrame DEF Reached, Coming, InWire
<1>. QED BY <1>1, <1>2, <1>3

LEMMA StorePage ==
  ASSUME IndInv, NEW e \in Event, Store(e)
  PROVE  PageInv'
<1>. USE DEF IndInv, PageInv, Store, conn, page
<1>1. WireInOrder' /\ HeardInOrder'
  BY OrderFrame
<1>2. AnswerIsShort'
  BY DEF AnswerIsShort, Shows
<1>3. NothingForgotten'
  <2>1. Coming(e)'
    <3>. DEFINE p == <<e, Row(e)>>
    <3>1. p \in push' /\ p[1] = e
      OBVIOUS
    <3>. QED BY <3>1 DEF Coming
  <2>2. ASSUME NEW f \in Event, f # e, HasRow(f)' PROVE HasRow(f)
    BY <2>2 DEF HasRow, RowInv, TypeOK, List
  <2>3. ASSUME NEW f \in Event, Reached(f) PROVE Reached(f)'
    BY <2>3, DisplacedFrame DEF Reached, Coming, InWire
  <2>. QED BY <2>1, <2>2, <2>3 DEF NothingForgotten, Reached
<1>. QED BY <1>1, <1>2, <1>3

\* A row that is published is on the wire; the others' are later at most.
LEMMA PublishPage ==
  ASSUME IndInv, NEW p \in Item, Publish(p)
  PROVE  PageInv'
<1>. USE DEF IndInv, RowInv, PageInv
<1>. DEFINE m == <<p[1], p[2], pubs + 1>>
<1>1. /\ pubs' = pubs + 1 /\ pubs \in Nat
      /\ published' = [published EXCEPT ![p[1]] = pubs + 1]
      /\ wire' = IF handler = "pumping" THEN Append(wire, m) ELSE wire
      /\ p[1] \in Event /\ push' = push \ {p}
      /\ UNCHANGED <<inbox, handler, page, gap>>
  BY ItemParts DEF Publish, Heard, TypeOK
<1>2. m[1] = p[1] /\ m[3] = pubs + 1 /\ m \in Message
  BY <1>1, ItemParts DEF Message
<1>. HIDE DEF m
<1>3. /\ published'[p[1]] = pubs + 1
      /\ \A e \in Event : /\ e # p[1] => published'[e] = published[e]
                         /\ published[e] \in 0..pubs /\ published[e] <= published'[e]
                         /\ place[e] \in 0..pubs
  BY <1>1 DEF TypeOK
<1>4. CASE handler = "pumping"
  <2>0. /\ wire' \in Seq(Message) /\ Len(wire') = Len(wire) + 1 /\ Len(wire) \in Nat
        /\ \A i \in 1..Len(wire) : wire'[i] = wire[i]
        /\ wire'[Len(wire) + 1] = m
    BY <1>1, <1>2, <1>4, AppendedWire DEF TypeOK
  <2>1. InWire(p[1])' /\ \A e \in Event : InWire(e) => InWire(e)'
    BY <1>2, <2>0 DEF InWire
  <2>2. WireInOrder'
    <3>1. \A i \in 1..Len(wire) : wire[i][1] \in Event
      BY MessageParts DEF TypeOK
    <3>2. ASSUME NEW i \in 1..Len(wire')
          PROVE  /\ wire'[i][3] \in 1..pubs'
                 /\ wire'[i][3] <= published'[wire'[i][1]]
                 /\ \A e \in Event : place'[e] < wire'[i][3]
      <4>1. CASE i = Len(wire) + 1
        BY <1>1, <1>2, <1>3, <2>0, <4>1 DEF page
      <4>2. CASE i \in 1..Len(wire)
        BY <1>1, <1>3, <2>0, <3>1, <4>2 DEF page, WireInOrder
      <4>. QED BY <2>0, <4>1, <4>2
    <3>3. ASSUME NEW i \in 1..Len(wire'), NEW j \in 1..Len(wire'), i < j
          PROVE  wire'[i][3] < wire'[j][3]
      <4>1. i \in 1..Len(wire) /\ (j \in 1..Len(wire) \/ j = Len(wire) + 1)
        BY <2>0, <3>3
      <4>. QED BY <1>1, <1>2, <2>0, <3>3, <4>1 DEF WireInOrder
    <3>4. ASSUME NEW i \in 1..Len(wire'), NEW e \in Event,
                 published'[e] >= wire'[i][3]
          PROVE  \E j \in i..Len(wire') : wire'[j][1] = e
      <4>1. CASE e = p[1]
        BY <1>2, <2>0, <4>1
      <4>2. CASE e # p[1] /\ i \in 1..Len(wire)
        <5>1. published[e] >= wire[i][3]
          BY <1>3, <2>0, <3>4, <4>2
        <5>2. PICK j \in i..Len(wire) : wire[j][1] = e
          BY <1>4, <4>2, <5>1 DEF WireInOrder
        <5>. QED BY <2>0, <4>2, <5>2
      <4>3. CASE e # p[1] /\ i = Len(wire) + 1
        BY <1>1, <1>2, <1>3, <2>0, <3>4, <4>3
      <4>. QED BY <2>0, <4>1, <4>2, <4>3
    <3>5. handler' # "none"
      BY <1>1, <1>4
    <3>. QED BY <3>2, <3>3, <3>4, <3>5 DEF WireInOrder
  <2>3. HeardInOrder'
    <3>1. ASSUME ~gap', NEW f \in Event, NEW e \in Event, place'[f] > 0,
                 published'[e] >= place'[f]
          PROVE  place'[e] >= place'[f] \/ InWire(e)'
      BY <1>1, <1>3, <2>1, <3>1 DEF HeardInOrder, page
    <3>2. \A e \in Event : place'[e] <= published'[e]
      BY <1>1, <1>3 DEF HeardInOrder, page
    <3>. QED BY <1>1, <1>4, <3>1, <3>2 DEF HeardInOrder, page
  <2>4. NothingForgotten'
    <3>. SUFFICES ASSUME NEW e \in Event, HasRow(e), Reached(e) PROVE Reached(e)'
      BY <1>1 DEF NothingForgotten, HasRow, page
    <3>1. CASE e = p[1]
      BY <2>1, <3>1 DEF Reached, Coming
    <3>2. CASE e # p[1]
      <4>1. Coming(e) => Coming(e)'
        BY <1>1, <2>1, <3>2 DEF Coming
      <4>2. \A f \in Event : Later(f, e) => Later(f, e)'
        BY <1>1, <1>3, <3>2 DEF Later, Newer
      <4>. QED BY <1>1, <4>1, <4>2 DEF Reached, Displaced, Shows, page
    <3>. QED BY <3>1, <3>2
  <2>5. AnswerIsShort'
    BY <1>1 DEF AnswerIsShort, Shows, page
  <2>. QED BY <2>2, <2>3, <2>4, <2>5
<1>5. CASE handler # "pumping"
  <2>1. wire' = wire /\ handler' = handler
    BY <1>1, <1>5
  <2>2. WireInOrder'
    <3>1. \A i \in 1..Len(wire) : wire[i][1] \in Event
      BY MessageParts DEF TypeOK
    <3>2. handler = "none" => Len(wire) = 0
      BY DEF WireInOrder
    <3>. QED BY <1>1, <1>3, <1>5, <2>1, <3>1, <3>2 DEF WireInOrder, page, TypeOK
  <2>3. HeardInOrder'
    BY <1>1, <1>3, <1>5, <2>1 DEF HeardInOrder, page, TypeOK
  <2>4. NothingForgotten'
    BY <1>1, <1>5 DEF NothingForgotten, page
  <2>5. AnswerIsShort'
    BY <1>1 DEF AnswerIsShort, Shows, page
  <2>. QED BY <2>2, <2>3, <2>4, <2>5
<1>. QED BY <1>4, <1>5

LEMMA PublishFailsPage ==
  ASSUME IndInv, NEW p \in Item, PublishFails(p)
  PROVE  PageInv'
<1>. USE DEF IndInv, PageInv, PublishFails, conn, page
<1>1. WireInOrder' /\ HeardInOrder'
  BY OrderFrame
<1>2. AnswerIsShort' /\ NothingForgotten'
  BY DEF AnswerIsShort, NothingForgotten, Shows
<1>. QED BY <1>1, <1>2

LEMMA ConnectPage ==
  ASSUME IndInv, Connect
  PROVE  PageInv'
<1>. USE DEF IndInv, RowInv, PageInv, Connect, server, page
<1>1. WireInOrder' /\ HeardInOrder'
  <2>1. wire' = wire /\ Len(wire) = 0
    BY DEF WireInOrder
  <2>. QED BY <2>1 DEF WireInOrder, HeardInOrder, InWire
<1>2. AnswerIsShort' /\ NothingForgotten'
  BY DEF AnswerIsShort, NothingForgotten, Shows
<1>. QED BY <1>1, <1>2

LEMMA DropPage ==
  ASSUME IndInv, Drop
  PROVE  PageInv'
<1>. USE DEF IndInv, PageInv, Drop, Disconnect, server, page
<1>1. WireInOrder' /\ HeardInOrder'
  <2>1. wire' = <<>> /\ Len(wire') = 0
    OBVIOUS
  <2>. QED BY <2>1 DEF WireInOrder, HeardInOrder
<1>2. AnswerIsShort' /\ NothingForgotten'
  BY DEF AnswerIsShort, NothingForgotten, Shows
<1>. QED BY <1>1, <1>2

LEMMA RedisLostPage ==
  ASSUME IndInv, RedisLost
  PROVE  PageInv'
<1>. USE DEF IndInv, PageInv, RedisLost, server, page
<1>1. WireInOrder' /\ HeardInOrder'
  BY DEF WireInOrder, HeardInOrder
<1>2. AnswerIsShort' /\ NothingForgotten'
  BY DEF AnswerIsShort, NothingForgotten, Shows
<1>. QED BY <1>1, <1>2

LEMMA ReloadPage ==
  ASSUME IndInv, Reload
  PROVE  PageInv'
<1>. USE DEF IndInv, RowInv, PageInv, Reload, Disconnect, server
<1>1. WireInOrder' /\ HeardInOrder'
  <2>1. wire' = <<>> /\ Len(wire') = 0 /\ handler' = "none"
    OBVIOUS
  <2>2. \A e \in Event : place'[e] = 0 /\ published'[e] \in Nat
    BY DEF Unmoved, TypeOK
  <2>. QED BY <2>1, <2>2 DEF WireInOrder, HeardInOrder
<1>2. AnswerIsShort'
  <2>1. Shows(answer') = {}
    BY DEF Shows, Nothing
  <2>. QED BY <2>1, FS_EmptySet DEF AnswerIsShort
<1>3. NothingForgotten'
  BY DEF NothingForgotten
<1>. QED BY <1>1, <1>2, <1>3

\* A row that the answer has no room for is older than those it has.
LEMMA AnswerLoadPage ==
  ASSUME IndInv, AnswerLoad
  PROVE  PageInv'
<1>. USE DEF IndInv, RowInv, PageInv, AnswerLoad, server, conn
<1>1. WireInOrder' /\ HeardInOrder'
  BY OrderFrame DEF TypeOK
<1>2. PICK S \in SUBSET Shows(inbox) :
         /\ S = Shows(inbox) \/ Cardinality(S) = MaxItems
         /\ Cardinality(S) <= MaxItems
         /\ \A f \in S, e \in Shows(inbox) \ S : Newer(f, e)
         /\ answer' = [e \in Event |-> IF e \in S THEN inbox[e] ELSE None]
  BY DEF FirstOf
<1>3. Shows(answer') = S
  BY <1>2 DEF Shows
<1>4. AnswerIsShort'
  BY <1>2, <1>3 DEF AnswerIsShort, Shows
<1>5. NothingForgotten'
  <2>. SUFFICES ASSUME NEW e \in Event, HasRow(e)
                PROVE  answer'[e] # None \/ Displaced(answer, e)'
    BY DEF NothingForgotten, Reached, HasRow
  <2>1. e \in Shows(inbox)
    BY DEF Shows, HasRow
  <2>2. CASE e \in S
    BY <1>3, <2>2 DEF Shows
  <2>3. CASE e \notin S
    <3>1. Cardinality(S) = MaxItems /\ \A f \in S : Newer(f, e)
      BY <1>2, <2>1, <2>3
    <3>2. \A f \in S : Later(f, e)'
      BY <3>1 DEF Later, Newer
    <3>. QED BY <1>3, <3>1, <3>2 DEF Displaced, Shows
  <2>. QED BY <2>2, <2>3
<1>. QED BY <1>1, <1>4, <1>5

LEMMA LoadFailsPage ==
  ASSUME IndInv, LoadFails
  PROVE  PageInv'
<1>. USE DEF IndInv, PageInv, LoadFails, server, conn
<1>1. WireInOrder' /\ HeardInOrder'
  BY OrderFrame
<1>2. AnswerIsShort' /\ NothingForgotten'
  BY DEF AnswerIsShort, NothingForgotten, Shows
<1>. QED BY <1>1, <1>2

\* A full list that the answer has all of is the answer.
LEMMA ReceiveLoadPage ==
  ASSUME IndInv, ReceiveLoad
  PROVE  PageInv'
<1>. USE DEF IndInv, RowInv, PageInv, ReceiveLoad, server, conn
<1>1. WireInOrder' /\ HeardInOrder'
  <2>1. \A e \in Event : place'[e] = 0 /\ published'[e] \in Nat
    BY DEF Unmoved, TypeOK
  <2>2. \A i \in 1..Len(wire) : wire[i][3] \in 1..pubs
    BY DEF WireInOrder
  <2>. QED BY <2>1, <2>2 DEF WireInOrder, HeardInOrder, TypeOK
<1>2. AnswerIsShort'
  <2>1. Shows(answer') = {}
    BY DEF Shows, Nothing
  <2>. QED BY <2>1, FS_EmptySet DEF AnswerIsShort
<1>3. ASSUME ~gap' PROVE NothingForgotten'
  <2>1. Shows(list) \subseteq Shows(answer) /\ ~gap /\ load = "answered"
    BY <1>3 DEF TypeOK
  <2>. SUFFICES ASSUME NEW e \in Event, HasRow(e), Reached(e) PROVE Reached(e)'
    BY <2>1 DEF NothingForgotten, HasRow
  <2>2. Coming(e) => Coming(e)'
    BY DEF Coming, InWire
  <2>3. Shows(list') = Shows(answer)
    OBVIOUS
  <2>4. list[e] # None => answer[e] # None
    BY <2>1 DEF Shows
  <2>5. Displaced(answer, e) => Displaced(list, e)'
    BY DEF Displaced, Later, Newer
  <2>6. Displaced(list, e) => Displaced(answer, e)
    <3>1. SUFFICES ASSUME Displaced(list, e) PROVE Shows(answer) = Shows(list)
      BY DEF Displaced
    <3>2. IsFiniteSet(Shows(answer))
      BY FS_Subset DEF Shows
    <3>3. Cardinality(Shows(list)) = MaxItems /\ Cardinality(Shows(answer)) <= MaxItems
      BY <3>1 DEF Displaced, AnswerIsShort
    <3>4. IsFiniteSet(Shows(list))
      BY <2>1, <3>2, FS_Subset
    <3>5. /\ Cardinality(Shows(answer)) \in Nat
          /\ Cardinality(Shows(list)) \in Nat
      BY <3>2, <3>4, FS_CardinalityType
    <3>6. /\ Cardinality(Shows(list)) <= Cardinality(Shows(answer))
          /\ Cardinality(Shows(list)) = Cardinality(Shows(answer)) =>
                Shows(answer) = Shows(list)
      BY <2>1, <3>2, FS_Subset
    <3>. QED BY <3>3, <3>5, <3>6
  <2>. QED BY <2>2, <2>4, <2>5, <2>6 DEF Reached
<1>4. NothingForgotten'
  BY <1>3, Zenon DEF NothingForgotten
<1>. QED BY <1>1, <1>2, <1>4

\* Whatever the list cuts off is behind what it keeps, and what is behind there
\* was published or created before.
LEMMA ReceivePage ==
  ASSUME IndInv, Receive
  PROVE  PageInv'
<1>. USE DEF IndInv, RowInv, PageInv
<1>. DEFINE g == wire[1][1]
            n == wire[1][3]
            X == Shows(list) \cup {g}
<1>1. UNCHANGED <<inbox, push, pubs, published, handler, load, answer, gap>>
  BY DEF Receive, server
<1>2. /\ wire # <<>> /\ wire \in Seq(Message) /\ wire' = Tail(wire)
      /\ 1 \in 1..Len(wire) /\ g \in Event
  BY ReceivedList
<1>3. /\ wire' \in Seq(Message) /\ Len(wire') = Len(wire) - 1 /\ Len(wire) \in Nat
      /\ \A i \in 1..Len(wire') : i + 1 \in 1..Len(wire) /\ wire'[i] = wire[i + 1]
      /\ \A i \in 1..Len(wire) : i # 1 => i - 1 \in 1..Len(wire') /\ wire'[i - 1] = wire[i]
  BY <1>2, TailOfWire
<1>4. place'[g] = n /\ \A e \in Event : e # g => place'[e] = place[e]
  BY <1>2, ReceivedList DEF TypeOK
<1>5. /\ n \in 1..pubs /\ n <= published[g] /\ pubs \in Nat
      /\ \A e \in Event : place[e] < n /\ place[e] \in 0..pubs /\ published[e] \in 0..pubs
  BY <1>2 DEF WireInOrder, TypeOK
<1>. HIDE DEF g, n
<1>6. \A e \in Event : InWire(e) /\ e # g => InWire(e)'
  BY <1>2, <1>3 DEF InWire, g
<1>7. WireInOrder'
  <2>1. \A i \in 1..Len(wire') :
           /\ wire'[i][3] \in 1..pubs'
           /\ wire'[i][3] <= published'[wire'[i][1]]
    BY <1>1, <1>3 DEF WireInOrder
  <2>5. ASSUME NEW i \in 1..Len(wire'), NEW j \in 1..Len(wire'), i < j
        PROVE  wire'[i][3] < wire'[j][3]
    <3>1. i + 1 < j + 1
      BY <2>5
    <3>. QED BY <1>3, <3>1 DEF WireInOrder
  <2>2. ASSUME NEW i \in 1..Len(wire'), NEW e \in Event
        PROVE  place'[e] < wire'[i][3]
    <3>1. i + 1 \in 1..Len(wire) /\ wire'[i] = wire[i + 1] /\ 1 < i + 1
      BY <1>3
    <3>2. n < wire[i + 1][3]
      BY <1>2, <3>1 DEF WireInOrder, n
    <3>. QED BY <1>4, <3>1, <3>2 DEF WireInOrder
  <2>3. ASSUME handler' # "deaf", NEW i \in 1..Len(wire'), NEW e \in Event,
               published'[e] >= wire'[i][3]
        PROVE  \E j \in i..Len(wire') : wire'[j][1] = e
    <3>1. i + 1 \in 1..Len(wire) /\ published[e] >= wire[i + 1][3]
      BY <1>1, <1>3, <2>3
    <3>2. PICK j \in (i + 1)..Len(wire) : wire[j][1] = e
      BY <1>1, <2>3, <3>1 DEF WireInOrder
    <3>3. j \in 1..Len(wire) /\ j # 1 /\ j - 1 \in i..Len(wire')
      BY <1>3, <3>2
    <3>. QED BY <1>3, <3>2, <3>3
  <2>4. handler' # "none"
    BY <1>1, <1>2 DEF WireInOrder
  <2>. QED BY <2>1, <2>2, <2>3, <2>4, <2>5 DEF WireInOrder
<1>8. HeardInOrder'
  <2>1. \A e \in Event : place'[e] <= published'[e]
    BY <1>1, <1>4, <1>5 DEF HeardInOrder
  <2>2. handler' # "none"
    BY <1>1, <1>2 DEF WireInOrder
  <2>3. ASSUME ~gap', NEW f \in Event, NEW e \in Event, place'[f] > 0,
               published'[e] >= place'[f]
        PROVE  place'[e] >= place'[f] \/ InWire(e)'
    <3>1. handler # "deaf"
      BY <1>1, <2>3 DEF HeardInOrder
    <3>2. CASE e = g
      BY <1>4, <1>5, <3>2
    <3>3. CASE e # g /\ f = g
      <4>1. published[e] >= wire[1][3]
        BY <1>1, <1>4, <2>3, <3>3 DEF n
      <4>2. InWire(e)
        BY <1>2, <3>1, <4>1 DEF WireInOrder, InWire
      <4>. QED BY <1>6, <3>3, <4>2
    <3>4. CASE e # g /\ f # g
      BY <1>1, <1>4, <1>6, <2>3, <3>4 DEF HeardInOrder
    <3>. QED BY <3>2, <3>3, <3>4
  <2>. QED BY <1>1, <2>1, <2>2, <2>3 DEF HeardInOrder
<1>9. AnswerIsShort'
  BY <1>1 DEF AnswerIsShort, Shows
<1>10. /\ Shows(list') \subseteq X
       /\ Shows(list') = X \/ Cardinality(Shows(list')) = MaxItems
       /\ Cardinality(Shows(list')) <= MaxItems
       /\ \A f \in Shows(list'), e \in X \ Shows(list') : Ahead(f, e)
  BY ReceivedList DEF g
<1>11. ASSUME ~gap', load # "asked", NEW e \in Event, HasRow(e)
       PROVE  Reached(e)'
  \* What is before e for a message received since comes later than e.
  <2>1. ASSUME NEW f \in Event, place'[f] > place'[e], ~Coming(e)'
        PROVE  Later(f, e)'
    <3>1. ~InWire(e)' /\ place'[f] > 0
      BY <1>4, <1>5, <2>1 DEF Coming
    <3>2. ~(published'[e] >= place'[f])
      BY <1>4, <1>5, <1>8, <1>11, <2>1, <3>1 DEF HeardInOrder
    <3>3. place'[f] <= published'[f]
      BY <1>8 DEF HeardInOrder
    <3>. QED BY <1>1, <1>4, <1>5, <3>2, <3>3 DEF Later
  <2>2. CASE e \in X
    <3>1. SUFFICES ASSUME ~Coming(e)', e \notin Shows(list')
                   PROVE  Displaced(list, e)'
      BY DEF Reached, Shows
    <3>2. Cardinality(Shows(list')) = MaxItems
      BY <1>10, <2>2, <3>1
    <3>3. ASSUME NEW f \in Shows(list') PROVE Later(f, e)'
      <4>1. f \in Event
        BY DEF Shows
      <4>2. Ahead(f, e)
        BY <1>10, <2>2, <3>1
      <4>. QED BY <2>1, <3>1, <4>1, <4>2 DEF Ahead, Later, Newer
    <3>. QED BY <3>2, <3>3 DEF Displaced, Shows
  <2>3. CASE e \notin X /\ Displaced(list, e)
    <3>1. SUFFICES ASSUME ~Coming(e)' PROVE Displaced(list, e)'
      BY DEF Reached
    <3>2. Cardinality(Shows(list')) = MaxItems
      <4>1. CASE Shows(list') = X
        <5>1. IsFiniteSet(X) /\ Shows(list) \in SUBSET X
          BY <1>2, FS_Subset DEF Shows
        <5>2. Cardinality(Shows(list)) <= Cardinality(X) /\ Cardinality(X) \in Nat
          BY <5>1, FS_Subset, FS_CardinalityType
        <5>. QED BY <1>10, <2>3, <4>1, <5>2 DEF Displaced
      <4>. QED BY <1>10, <4>1
    <3>3. ASSUME NEW f \in Shows(list') PROVE Later(f, e)'
      <4>1. CASE f = g
        BY <1>2, <1>4, <1>5, <2>1, <2>3, <3>1, <4>1
      <4>2. CASE f # g
        BY <1>1, <1>10, <2>3, <4>2 DEF Displaced, Later, Newer
      <4>. QED BY <4>1, <4>2
    <3>. QED BY <3>2, <3>3 DEF Displaced, Shows
  <2>4. CASE e \notin X /\ ~Displaced(list, e)
    <3>1. e # g /\ list[e] = None
      BY <2>4 DEF Shows
    <3>2. \/ Coming(e)
          \/ load = "answered" /\ (answer[e] # None \/ Displaced(answer, e))
      BY <1>1, <1>11, <2>4, <3>1 DEF NothingForgotten, Reached
    <3>3. Coming(e) => Coming(e)'
      BY <1>1, <1>6, <3>1 DEF Coming
    <3>. QED BY <1>1, <3>2, <3>3, DisplacedFrame DEF Reached
  <2>. QED BY <2>2, <2>3, <2>4
<1>12. NothingForgotten'
  BY <1>1, <1>11 DEF NothingForgotten, HasRow
<1>. QED BY <1>7, <1>8, <1>9, <1>12

LEMMA BellPage ==
  ASSUME IndInv,
         \/ ToggleOpen \/ BeginMarking \/ Mark
         \/ \E e \in Event : Click(e) \/ MarkElsewhere(e)
  PROVE  PageInv'
<1>. USE DEF server, conn, page
<1>1. CASE ToggleOpen \/ BeginMarking \/ \E e \in Event : Click(e)
  <2>1. /\ list' = list /\ gap' = gap
        /\ UNCHANGED <<inbox, push, pubs, published, handler, wire, place, load, answer>>
    BY <1>1 DEF ToggleOpen, BeginMarking, Shown, Click
  <2>. QED BY <2>1, BellFrame DEF Shows, HasRow
<1>2. CASE \E e \in Event : MarkElsewhere(e)
  <2>1. /\ list' = list /\ gap' = gap
        /\ UNCHANGED <<push, pubs, published, handler, wire, place, load, answer>>
    BY <1>2 DEF MarkElsewhere
  <2>2. \A e \in Event : HasRow(e)' => HasRow(e)
    BY <1>2 DEF MarkElsewhere, HasRow, IndInv, RowInv, TypeOK, List, State
  <2>. QED BY <2>1, <2>2, BellFrame DEF Shows
<1>3. ASSUME NEW m \in marking, EndMarking(m) PROVE PageInv'
  <2>1. /\ list' = Marked(m) /\ gap' = gap
        /\ UNCHANGED <<inbox, push, pubs, published, handler, wire, place, load, answer>>
    BY <1>3 DEF EndMarking
  <2>2. Shows(list') = Shows(list)
    BY <2>1 DEF Marked, Shows, State
  <2>. QED BY <2>1, <2>2, BellFrame DEF HasRow
<1>4. ASSUME NEW m \in marking, NEW e \in Event, MarkRead(m, e) \/ MarkFails(m, e)
      PROVE  PageInv'
  <2>1. /\ list' = list /\ gap' = gap
        /\ UNCHANGED <<push, pubs, published, handler, wire, place, load, answer>>
    BY <1>4 DEF MarkRead, MarkFails
  <2>2. HasRow(e)
    BY <1>4 DEF MarkRead, MarkFails, IndInv, RowInv, OnTheWayHasRow
  <2>3. \A f \in Event : HasRow(f)' => HasRow(f)
    BY <1>4, <2>2 DEF MarkRead, MarkFails, HasRow, IndInv, RowInv, TypeOK, List
  <2>. QED BY <2>1, <2>3, BellFrame DEF Shows
<1>. QED BY <1>1, <1>2, <1>3, <1>4 DEF Mark

-----------------------------------------------------------------------------
(* Theorems                                                                *)

LEMMA InitIndInv == Init => IndInv
<1>. SUFFICES ASSUME Init PROVE IndInv
  OBVIOUS
<1>1. TypeOK
  <2>1. /\ inbox \in List /\ Nothing \in List
        /\ \A e \in Event : Nothing[e] = None
    BY DEF Init, List, State, Nothing
  <2>2. <<>> \in Seq(Message) /\ {} \in SUBSET Item
    OBVIOUS
  <2>3. /\ sends \in 0..MaxSends /\ ghosts \in 0..MaxDrops /\ drops \in 0..MaxDrops
        /\ pubs = 0 /\ published \in [Event -> 0..pubs] /\ place \in [Event -> 0..pubs]
    BY DEF Init, Unmoved
  <2>4. list \in List /\ answer \in List /\ \A e \in Event : list[e] = None
    BY <2>1 DEF Init
  <2>5. wire \in Seq(Message) /\ push \in SUBSET Item
    BY <2>2 DEF Init
  <2>6. /\ marking \in SUBSET [items : SUBSET Event, todo : SUBSET Event]
        /\ unpushed = FALSE /\ unmarked \in SUBSET Event
    BY DEF Init
  <2>7. /\ handler = "none" /\ load = "asked" /\ open = FALSE /\ gap = FALSE
    BY DEF Init
  <2>. QED BY <2>1, <2>3, <2>4, <2>5, <2>6, <2>7 DEF TypeOK
<1>2. GhostsWereLost
  BY DEF Init, GhostsWereLost
<1>3. OnTheWayHasRow /\ SeenReadIsRead
  BY DEF Init, OnTheWayHasRow, SeenReadIsRead, Nothing, State
<1>4. ShownReadIsRead
  BY DEF Init, ShownReadIsRead, Nothing, State
<1>5. NothingForgotten
  BY DEF Init, NothingForgotten
<1>6. WireInOrder /\ HeardInOrder
  <2>1. wire = <<>> /\ Len(wire) = 0 /\ handler = "none"
    BY DEF Init
  <2>2. \A e \in Event : place[e] = 0 /\ published[e] = 0
    BY DEF Init, Unmoved
  <2>. QED BY <2>1, <2>2 DEF WireInOrder, HeardInOrder
<1>7. AnswerIsShort
  <2>1. Shows(answer) = {}
    BY DEF Init, Nothing, Shows
  <2>. QED BY <2>1, FS_EmptySet DEF AnswerIsShort
<1>. QED BY <1>1, <1>2, <1>3, <1>4, <1>5, <1>6, <1>7 DEF IndInv, RowInv, PageInv

LEMMA StepIndInv == IndInv /\ [Next]_vars => IndInv'
<1>. SUFFICES ASSUME IndInv, [Next]_vars PROVE IndInv'
  OBVIOUS
<1>1. CASE UNCHANGED vars
  <2>. USE DEF IndInv, vars, server, conn, page
  <2>1. RowInv'
    BY <1>1 DEF RowInv, TypeOK, GhostsWereLost, OnTheWayHasRow, SeenReadIsRead,
       ShownReadIsRead, HasRow, Read
  <2>2. PageInv'
    BY <1>1, BellFrame DEF Shows, HasRow
  <2>. QED BY <2>1, <2>2
<1>2. CASE \E e \in Event : Store(e) \/ Click(e) \/ MarkElsewhere(e)
  BY <1>2, StorePreserves, ClickPreserves, MarkElsewherePreserves, StorePage,
     BellPage DEF IndInv
<1>3. CASE \E p \in Item : Publish(p) \/ PublishFails(p)
  BY <1>3, PublishPreserves, PublishFailsPreserves, PublishPage, PublishFailsPage
     DEF IndInv
<1>4. CASE Connect \/ Drop \/ RedisLost \/ Reload
  BY <1>4, ConnectPreserves, DropPreserves, RedisLostPreserves, ReloadPreserves,
     ConnectPage, DropPage, RedisLostPage, ReloadPage DEF IndInv
<1>5. CASE AnswerLoad \/ LoadFails \/ ReceiveLoad \/ Receive
  BY <1>5, AnswerLoadPreserves, LoadFailsPreserves, ReceiveLoadPreserves,
     ReceivePreserves, AnswerLoadPage, LoadFailsPage, ReceiveLoadPage, ReceivePage
     DEF IndInv
<1>6. CASE ToggleOpen \/ BeginMarking
  BY <1>6, ToggleOpenPreserves, BeginMarkingPreserves, BellPage DEF IndInv
<1>7. CASE Mark
  BY <1>7, EndMarkingPreserves, MarkReadPreserves, MarkFailsPreserves, BellPage
     DEF Mark, IndInv
<1>. QED BY <1>1, <1>2, <1>3, <1>4, <1>5, <1>6, <1>7 DEF Next

\* The invariant behind the others: whatever is under way belongs to a stored
\* row and says of it what is true, and without a gap no row is forgotten.
THEOREM InboxInductive == Spec => []IndInv
<1>. QED BY InitIndInv, StepIndInv, PTL DEF Spec

\* The stores, the connection and the page keep their shape, and the bell
\* shows stored rows only.
THEOREM InboxTypeOK == Spec => []TypeOK
<1>1. IndInv => TypeOK
  BY DEF IndInv, RowInv
<1>. QED BY InboxInductive, <1>1, PTL

\* An item the bell shows as read is read, or a PATCH for it failed.
THEOREM InboxShownReadIsRead == Spec => []ShownReadIsRead
<1>1. IndInv => ShownReadIsRead
  BY DEF IndInv, RowInv
<1>. QED BY InboxInductive, <1>1, PTL

\* A page without a gap misses a row only when its list is full of later ones,
\* once all that was published arrived.
THEOREM InboxNothingMissed == Spec => []NothingMissed
<1>1. IndInv => NothingMissed
  <2>. SUFFICES ASSUME IndInv, ~gap, load = "done", push = {}, wire = <<>>,
                       NEW e \in Shows(inbox) \ Shows(list)
                PROVE  Displaced(list, e)
    BY DEF NothingMissed, Displaced
  <2>1. e \in Event /\ HasRow(e) /\ list[e] = None
    BY DEF Shows, HasRow
  <2>2. Len(wire) = 0
    OBVIOUS
  <2>3. ~Coming(e)
    BY <2>2 DEF Coming, InWire
  <2>. QED BY <2>1, <2>3 DEF IndInv, PageInv, NothingForgotten, Reached
<1>. QED BY InboxInductive, <1>1, PTL
=============================================================================
