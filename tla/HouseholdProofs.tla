-------------------------- MODULE HouseholdProofs --------------------------
(***************************************************************************)
(* Proofs about Household, for any homes, categories, items, users and     *)
(* requests: what a request has locked stays, so what it checked under its *)
(* locks still holds when it commits.                                      *)
(*                                                                         *)
(* And about Paging, the walks over its listings, for any rows and bounds: *)
(* a row's rank, the number of rows before it, grows by inserts alone and  *)
(* falls by removals alone; a page shows the ranks between its offsets.    *)
(***************************************************************************)
EXTENDS Household, Paging, FiniteSetTheorems, TLAPS

\* Whatever a table refers to has had its id given out.
IdsAreUsed ==
    /\ homes \subseteq used
    /\ \A c \in Category : homeOf[c] # None => c \in used
    /\ \A i \in Item : items[i] # None => i \in used

\* The item of a request was its home's, and ids are not given twice.
ItemsAreNamed ==
    \A r \in Request :
        request[r] # None /\ request[r].kind \in {"update item", "delete item"} =>
            /\ request[r].item \in used
            /\ items[request[r].item] # None =>
                  items[request[r].item].home = request[r].home

\* The locks of a request in the order it takes them, if it takes one, two or
\* three.
FirstLock(p) ==
    CASE p.kind \in {"add item", "update item"} -> <<<<"category", p.category>>, "key share">>
      [] p.kind = "delete item" -> <<<<"item", p.item>>, "update">>
      [] p.kind = "create category" -> <<<<"entry", <<p.home, p.name>>>>, "update">>
      [] p.kind = "homeuser add" -> <<<<"entry", <<p.home, p.member>>>>, "update">>
      [] p.kind = "homeuser member" -> <<<<"member", <<p.home, p.member>>>>, "update">>
      [] OTHER -> <<<<"home", p.home>>, "update">>

SecondLock(p) ==
    CASE p.kind \in {"add item", "create category", "homeuser add"} ->
            <<<<"home", p.home>>, "key share">>
      [] p.kind = "update item" -> <<<<"item", p.item>>, "no key update">>
      [] p.kind = "settings member" -> <<<<"member", <<p.home, p.member>>>>, "update">>
      [] p.kind = "settings add" -> <<<<"entry", <<p.home, p.member>>>>, "update">>
      [] p.kind = "rename home" -> <<<<"name", p.home>>, "update">>
      [] OTHER -> <<<<"category", p.category>>, "update">>

ThirdLock(p) ==
    IF p.kind = "rename home" THEN <<<<"name", p.other>>, "key share">>
    ELSE <<<<"entry", <<p.home, p.name>>>>, "update">>

One == {"delete item", "homeuser member", "settings home"}
Two == {"add item", "update item", "delete category", "settings member",
        "create category", "homeuser add", "settings add"}
Three == {"rename category", "rename home"}

\* What else the deletion of a home locks.
Cascade(p, l) ==
    /\ p.kind = "delete home" /\ l[2] = "update"
    /\ \/ l[1] = <<"name", p.home>>
       \/ \E u \in User : l[1] = <<"member", <<p.home, u>>>>
       \/ \E i \in Item : l[1] = <<"item", i>>
       \/ \E c \in Category : l[1] = <<"category", c>>

MayHold(p, l) ==
    \/ l = FirstLock(p)
    \/ p.kind \in Two \cup Three /\ l = SecondLock(p)
    \/ p.kind \in Three /\ l = ThirdLock(p)
    \/ Cascade(p, l)

\* A locked row stays, and stays where it was.
Stays(p, row) ==
    /\ ~Gone(p, row)
    /\ row[1] = "item" => items[row[2]].home = p.home

LocksFit ==
    \A r \in Request :
        /\ request[r] = None => held[r] = {}
        /\ \A l \in held[r] : MayHold(request[r], l) /\ Stays(request[r], l[1])

NoConflicts ==
    \A r, q \in Request : r # q =>
        \A l \in held[r], m \in held[q] : l[1] = m[1] => ~Conflict(l[2], m[2])

InOrder ==
    \A r \in Request :
        /\ held[r] # {} => FirstLock(request[r]) \in held[r]
        /\ request[r] # None /\ request[r].kind \in Three /\ ThirdLock(request[r]) \in held[r]
              => SecondLock(request[r]) \in held[r]

Locking == ItemsAreNamed /\ LocksFit /\ NoConflicts /\ InOrder

IndInv == TypeOK /\ IdsAreUsed /\ Locking /\ ItemsWellPlaced

-----------------------------------------------------------------------------
(* Payloads, rows and stages of locks                                      *)

LEMMA PayloadParts ==
  ASSUME NEW p \in Payload
  PROVE  /\ p # None /\ p.home \in Home
         /\ p.kind \in {"add item", "update item", "delete item",
                        "create category", "rename category", "delete category",
                        "delete home", "settings home", "rename home",
                        "settings member", "homeuser member",
                        "settings add", "homeuser add"}
         /\ p.kind \in {"update item", "delete item"} => p.item \in Item
         /\ p.kind \in {"add item", "update item", "rename category", "delete category"}
               => p.category \in Category
         /\ p.kind \in {"settings member", "homeuser member", "settings add", "homeuser add"}
               => p.member \in User /\ p.role \in NewRole
         /\ Adding(p.kind) => p.role # None
         /\ p.kind \in {"create category", "rename category"} => p.name \in Name
         /\ p.kind = "rename home" => p.other \in Home
BY NoneAssumption DEF Payload, Adding

LEMMA LocksOfOne ==
  ASSUME NEW p, p.kind \in One
  PROVE  Locks(p) = <<{FirstLock(p)}>>
BY DEF One, Locks, SettingsLocks, Settings, FirstLock

LEMMA LocksOfTwo ==
  ASSUME NEW p, p.kind \in Two
  PROVE  Locks(p) = <<{FirstLock(p)}, {SecondLock(p)}>>
BY DEF Two, Locks, WriteLocks, CategoryMode, SettingsLocks, InsertLocks, Settings,
   FirstLock, SecondLock

LEMMA LocksOfThree ==
  ASSUME NEW p, p.kind \in Three
  PROVE  Locks(p) = <<{FirstLock(p)}, {SecondLock(p)}, {ThirdLock(p)}>>
BY DEF Three, Locks, SettingsLocks, Settings, FirstLock, SecondLock, ThirdLock

LEMMA Pair ==
  ASSUME NEW x, NEW a, NEW b, x = <<a, b>>
  PROVE  x[1] = a /\ x[2] = b
OBVIOUS

LEMMA OneStage ==
  ASSUME NEW r \in Request, NEW A, Locks(request[r]) = <<A>>
  PROVE  Wanted(r) = A \ held[r]
<1>. DEFINE plan == <<A>>
            open == {n \in DOMAIN plan : ~(plan[n] \subseteq held[r])}
<1>1. DOMAIN plan = {1} /\ plan[1] = A
  OBVIOUS
<1>2. Wanted(r) = IF open = {} THEN {}
                  ELSE LET n == CHOOSE m \in open : \A k \in open : m <= k
                       IN plan[n] \ held[r]
  BY DEF Wanted
<1>3. CASE A \subseteq held[r]
  BY <1>1, <1>2, <1>3
<1>4. CASE ~(A \subseteq held[r])
  <2>1. open = {1}
    BY <1>1, <1>4
  <2>2. (CHOOSE m \in open : \A k \in open : m <= k) = 1
    BY <2>1
  <2>. QED BY <1>1, <1>2, <2>1, <2>2
<1>. QED BY <1>3, <1>4

LEMMA TwoStages ==
  ASSUME NEW r \in Request, NEW a, NEW b, Locks(request[r]) = <<{a}, {b}>>
  PROVE  Wanted(r) = (IF a \in held[r] THEN {b} ELSE {a}) \ held[r]
<1>. DEFINE plan == <<{a}, {b}>>
            open == {n \in DOMAIN plan : ~(plan[n] \subseteq held[r])}
            first == CHOOSE m \in open : \A k \in open : m <= k
<1>1. DOMAIN plan = {1, 2} /\ plan[1] = {a} /\ plan[2] = {b}
  OBVIOUS
<1>2. Wanted(r) = IF open = {} THEN {} ELSE plan[first] \ held[r]
  BY DEF Wanted
<1>. HIDE DEF plan
<1>3. CASE a \in held[r] /\ b \in held[r]
  BY <1>1, <1>2, <1>3
<1>4. CASE a \in held[r] /\ b \notin held[r]
  <2>1. open = {2}
    BY <1>1, <1>4
  <2>2. first = 2
    BY <2>1
  <2>. QED BY <1>1, <1>2, <1>4, <2>1, <2>2
<1>5. CASE a \notin held[r]
  <2>1. 1 \in open /\ open \subseteq {1, 2}
    BY <1>1, <1>5
  <2>2. first = 1
    BY <2>1
  <2>. QED BY <1>1, <1>2, <1>5, <2>1, <2>2
<1>. QED BY <1>3, <1>4, <1>5

LEMMA ThreeStages ==
  ASSUME NEW r \in Request, NEW a, NEW b, NEW c,
         Locks(request[r]) = <<{a}, {b}, {c}>>
  PROVE  Wanted(r) = (IF a \notin held[r] THEN {a} ELSE
                      IF b \notin held[r] THEN {b} ELSE {c}) \ held[r]
<1>. DEFINE plan == <<{a}, {b}, {c}>>
            open == {n \in DOMAIN plan : ~(plan[n] \subseteq held[r])}
            first == CHOOSE m \in open : \A k \in open : m <= k
<1>1. DOMAIN plan = {1, 2, 3} /\ plan[1] = {a} /\ plan[2] = {b} /\ plan[3] = {c}
  OBVIOUS
<1>2. Wanted(r) = IF open = {} THEN {} ELSE plan[first] \ held[r]
  BY DEF Wanted
<1>. HIDE DEF plan
<1>3. CASE a \in held[r] /\ b \in held[r] /\ c \in held[r]
  BY <1>1, <1>2, <1>3
<1>4. CASE a \in held[r] /\ b \in held[r] /\ c \notin held[r]
  <2>1. open = {3}
    BY <1>1, <1>4
  <2>2. first = 3
    BY <2>1
  <2>. QED BY <1>1, <1>2, <1>4, <2>1, <2>2
<1>5. CASE a \in held[r] /\ b \notin held[r]
  <2>1. 2 \in open /\ open \subseteq {2, 3}
    BY <1>1, <1>5
  <2>2. first = 2
    BY <2>1
  <2>. QED BY <1>1, <1>2, <1>5, <2>1, <2>2
<1>6. CASE a \notin held[r]
  <2>1. 1 \in open /\ open \subseteq {1, 2, 3}
    BY <1>1, <1>6
  <2>2. first = 1
    BY <2>1
  <2>. QED BY <1>1, <1>2, <1>6, <2>1, <2>2
<1>. QED BY <1>3, <1>4, <1>5, <1>6

LEMMA FiveStages ==
  ASSUME NEW r \in Request, NEW A, NEW B, NEW C, NEW D, NEW E,
         Locks(request[r]) = <<A, B, C, D, E>>
  PROVE  /\ Wanted(r) \subseteq (A \cup B \cup C \cup D \cup E) \ held[r]
         /\ ~(A \subseteq held[r]) => Wanted(r) = A \ held[r]
         /\ Wanted(r) = {} => A \cup B \cup C \cup D \cup E \subseteq held[r]
<1>. DEFINE plan == <<A, B, C, D, E>>
            open == {n \in DOMAIN plan : ~(plan[n] \subseteq held[r])}
            first == CHOOSE m \in open : \A k \in open : m <= k
<1>1. /\ DOMAIN plan = {1, 2, 3, 4, 5}
      /\ plan[1] = A /\ plan[2] = B /\ plan[3] = C /\ plan[4] = D /\ plan[5] = E
  OBVIOUS
<1>2. Wanted(r) = IF open = {} THEN {} ELSE plan[first] \ held[r]
  BY DEF Wanted
<1>. HIDE DEF plan
<1>3. open \subseteq {1, 2, 3, 4, 5}
  BY <1>1
<1>4. ASSUME open # {} PROVE first \in open
  <2>1. \E m \in open : \A k \in open : m <= k
    <3>1. CASE 1 \in open
      BY <1>3, <3>1
    <3>2. CASE 1 \notin open /\ 2 \in open
      BY <1>3, <3>2
    <3>3. CASE 1 \notin open /\ 2 \notin open /\ 3 \in open
      BY <1>3, <3>3
    <3>4. CASE 1 \notin open /\ 2 \notin open /\ 3 \notin open /\ 4 \in open
      BY <1>3, <3>4
    <3>5. CASE 1 \notin open /\ 2 \notin open /\ 3 \notin open /\ 4 \notin open
      BY <1>3, <1>4, <3>5
    <3>. QED BY <3>1, <3>2, <3>3, <3>4, <3>5
  <2>. QED BY <2>1
<1>5. ASSUME 1 \in open PROVE first = 1
  <2>1. \A k \in open : 1 <= k
    BY <1>3
  <2>2. \A m \in open : m <= 1 => m = 1
    BY <1>3
  <2>. QED BY <1>5, <2>1, <2>2
<1>6. Wanted(r) \subseteq (A \cup B \cup C \cup D \cup E) \ held[r]
  BY <1>1, <1>2, <1>3, <1>4
<1>7. ~(A \subseteq held[r]) => Wanted(r) = A \ held[r]
  BY <1>1, <1>2, <1>5
<1>8. Wanted(r) = {} => A \cup B \cup C \cup D \cup E \subseteq held[r]
  <2>1. ASSUME open # {} PROVE Wanted(r) # {}
    BY <1>1, <1>2, <1>4, <2>1
  <2>. QED BY <1>1, <2>1
<1>. QED BY <1>6, <1>7, <1>8

LEMMA MemberRow ==
  ASSUME NEW x \in Row, x[1] = "member"
  PROVE  x[2][1] \in Home /\ x[2][2] \in User /\ x = <<"member", <<x[2][1], x[2][2]>>>>
<1>1. x \in {"member"} \X (Home \X User)
  BY DEF Row
<1>. QED BY <1>1

LEMMA UpdateLocks ==
  ASSUME NEW row \in Row
  PROVE  <<row, "update">> \in Lock
BY DEF Lock, Mode

LEMMA RowsOfTables ==
  /\ \A h \in Home : <<"home", h>> \in Row
  /\ \A c \in Category : <<"category", c>> \in Row
  /\ \A i \in Item : <<"item", i>> \in Row
  /\ \A h \in Home, u \in User : <<"member", <<h, u>>>> \in Row
  /\ \A h \in Home : <<"name", h>> \in Row
  /\ \A h \in Home, k \in Name \cup User : <<"entry", <<h, k>>>> \in Row
BY DEF Row

LEMMA LockParts ==
  ASSUME NEW p \in Payload
  PROVE  /\ FirstLock(p) \in Lock
         /\ p.kind \in Two \cup Three => SecondLock(p) \in Lock
         /\ p.kind \in Three => ThirdLock(p) \in Lock
<1>0. \A row \in Row : \A m \in Mode : <<row, m>> \in Lock
  BY DEF Lock
<1>. USE <1>0, PayloadParts, RowsOfTables DEF Mode
<1>1. CASE p.kind \in {"add item", "update item"}
  BY <1>1 DEF FirstLock, SecondLock, Two, Three
<1>2. CASE p.kind \in One
  BY <1>2 DEF FirstLock, One, Two, Three
<1>3. CASE p.kind \in {"delete category", "settings member", "settings add"}
  BY <1>3 DEF FirstLock, SecondLock, Two, Three
<1>4. CASE p.kind \in {"create category", "homeuser add"}
  BY <1>4 DEF FirstLock, SecondLock, Two, Three
<1>5. CASE p.kind \in Three
  BY <1>5 DEF FirstLock, SecondLock, ThirdLock, Two, Three
<1>6. CASE p.kind = "delete home"
  BY <1>6 DEF FirstLock, Two, Three
<1>. QED BY <1>1, <1>2, <1>3, <1>4, <1>5, <1>6 DEF One, Three

\* What a request asks for next is what its payload names, first things first.
LEMMA WantedFits ==
  ASSUME TypeOK, NEW r \in Request, request[r] # None, NEW lock \in Wanted(r)
  PROVE  /\ lock \notin held[r] /\ lock \in Lock /\ MayHold(request[r], lock)
         /\ lock # FirstLock(request[r]) => FirstLock(request[r]) \in held[r]
         /\ request[r].kind \in Three /\ lock = ThirdLock(request[r])
               => SecondLock(request[r]) \in held[r]
         /\ Cascade(request[r], lock) /\ lock[1][1] = "item"
               => items[lock[1][2]].home = request[r].home
         /\ Cascade(request[r], lock) /\ lock[1][1] = "category"
               => homeOf[lock[1][2]] = request[r].home
<1>1. PICK p \in Payload : p = request[r]
  BY DEF TypeOK
<1>2. /\ FirstLock(p) \in Lock
      /\ p.kind \in Two \cup Three => SecondLock(p) \in Lock
      /\ p.kind \in Three => ThirdLock(p) \in Lock
  BY LockParts
<1>3. CASE p.kind \in One
  <2>1. Wanted(r) = {FirstLock(p)} \ held[r]
    BY <1>1, <1>3, LocksOfOne, OneStage
  <2>2. ~Cascade(p, lock) /\ p.kind \notin Three
    BY <1>3 DEF One, Cascade, Three
  <2>. QED BY <1>1, <1>2, <2>1, <2>2 DEF MayHold
<1>4. CASE p.kind \in Two
  <2>1. Wanted(r) = (IF FirstLock(p) \in held[r] THEN {SecondLock(p)} ELSE {FirstLock(p)})
                    \ held[r]
    BY <1>1, <1>4, LocksOfTwo, TwoStages
  <2>2. ~Cascade(p, lock) /\ p.kind \notin Three
    BY <1>4 DEF Two, Cascade, Three
  <2>. QED BY <1>1, <1>2, <1>4, <2>1, <2>2 DEF MayHold
<1>6. CASE p.kind \in Three
  <2>1. Wanted(r) = (IF FirstLock(p) \notin held[r] THEN {FirstLock(p)} ELSE
                     IF SecondLock(p) \notin held[r] THEN {SecondLock(p)} ELSE {ThirdLock(p)})
                    \ held[r]
    BY <1>1, <1>6, LocksOfThree, ThreeStages
  <2>2. ~Cascade(p, lock)
    BY <1>6 DEF Three, Cascade
  <2>3. /\ FirstLock(p)[1][1] = "home" /\ ThirdLock(p)[1][1] # "home"
        /\ SecondLock(p) # ThirdLock(p)
    BY <1>6 DEF Three, FirstLock, SecondLock, ThirdLock
  <2>. QED BY <1>1, <1>2, <1>6, <2>1, <2>2, <2>3 DEF MayHold
<1>5. CASE p.kind = "delete home"
  <2>. DEFINE A == {<<<<"home", p.home>>, "update">>}
              N == {<<<<"name", p.home>>, "update">>}
              B == {<<<<"member", <<p.home, u>>>>, "update">> : u \in MembersOf(p.home)}
              C == {<<<<"item", i>>, "update">> : i \in ItemsOf(p.home)}
              D == {<<<<"category", c>>, "update">> : c \in CategoriesOf(p.home)}
  <2>1. Locks(request[r]) = <<A, N, B, C, D>>
    BY <1>1, <1>5 DEF Locks, DeleteHomeLocks, Settings
  <2>2. A = {FirstLock(p)}
    BY <1>5 DEF FirstLock
  <2>3. /\ lock \in (A \cup N \cup B \cup C \cup D) \ held[r]
        /\ ~(A \subseteq held[r]) => lock \in A
    <3>. HIDE DEF A, N, B, C, D
    <3>. QED BY <2>1, FiveStages
  <2>4. /\ MembersOf(p.home) \subseteq User /\ ItemsOf(p.home) \subseteq Item
        /\ CategoriesOf(p.home) \subseteq Category
        /\ \A i \in ItemsOf(p.home) : items[i].home = p.home
        /\ \A c \in CategoriesOf(p.home) : homeOf[c] = p.home
    BY DEF MembersOf, ItemsOf, CategoriesOf
  <2>5. p.home \in Home
    BY PayloadParts
  <2>6. /\ lock \in Lock /\ MayHold(p, lock)
        /\ Cascade(p, lock) /\ lock[1][1] = "item" => items[lock[1][2]].home = p.home
        /\ Cascade(p, lock) /\ lock[1][1] = "category" => homeOf[lock[1][2]] = p.home
    <3>1. CASE lock \in A
      BY <1>2, <2>2, <3>1 DEF MayHold
    <3>5. CASE lock \in N
      <4>1. lock = <<<<"name", p.home>>, "update">>
        BY <3>5
      <4>2. lock[1] = <<"name", p.home>> /\ lock[2] = "update" /\ lock[1][1] = "name"
        BY <4>1
      <4>3. lock \in Lock
        BY <2>5, <4>1, RowsOfTables, UpdateLocks
      <4>4. Cascade(p, lock)
        BY <1>5, <4>2 DEF Cascade
      <4>. QED BY <4>2, <4>3, <4>4 DEF MayHold
    <3>2. CASE lock \in B
      <4>1. PICK u \in MembersOf(p.home) : lock = <<<<"member", <<p.home, u>>>>, "update">>
        BY <3>2
      <4>2. lock[1] = <<"member", <<p.home, u>>>> /\ lock[2] = "update" /\ u \in User
        BY <2>4, <4>1
      <4>3. <<"member", <<p.home, u>>>> \in Row
        BY <2>5, <4>2, RowsOfTables
      <4>4. lock \in Lock
        BY <4>1, <4>3, UpdateLocks
      <4>5. Cascade(p, lock)
        BY <1>5, <4>2 DEF Cascade
      <4>6. lock[1][1] = "member"
        BY <4>2
      <4>. QED BY <4>4, <4>5, <4>6 DEF MayHold
    <3>3. CASE lock \in C
      <4>1. PICK i \in ItemsOf(p.home) : lock = <<<<"item", i>>, "update">>
        BY <3>3
      <4>2. lock[1] = <<"item", i>> /\ lock[2] = "update" /\ i \in Item
        BY <2>4, <4>1
      <4>3. <<"item", i>> \in Row
        BY <2>5, <4>2, RowsOfTables
      <4>4. lock \in Lock
        BY <4>1, <4>3, UpdateLocks
      <4>5. Cascade(p, lock)
        BY <1>5, <4>2 DEF Cascade
      <4>6. lock[1][1] = "item" /\ lock[1][2] = i /\ items[i].home = p.home
        BY <2>4, <4>2
      <4>. QED BY <4>4, <4>5, <4>6 DEF MayHold
    <3>4. CASE lock \in D
      <4>1. PICK c \in CategoriesOf(p.home) : lock = <<<<"category", c>>, "update">>
        BY <3>4
      <4>2. lock[1] = <<"category", c>> /\ lock[2] = "update" /\ c \in Category
        BY <2>4, <4>1
      <4>3. <<"category", c>> \in Row
        BY <2>5, <4>2, RowsOfTables
      <4>4. lock \in Lock
        BY <4>1, <4>3, UpdateLocks
      <4>5. Cascade(p, lock)
        BY <1>5, <4>2 DEF Cascade
      <4>6. lock[1][1] = "category" /\ lock[1][2] = c /\ homeOf[c] = p.home
        BY <2>4, <4>2
      <4>. QED BY <4>4, <4>5, <4>6 DEF MayHold
    <3>. QED BY <2>3, <3>1, <3>2, <3>3, <3>4, <3>5
  <2>7. p.kind \notin Three
    BY <1>5 DEF Three
  <2>. QED BY <1>1, <2>2, <2>3, <2>6, <2>7
<1>. QED BY <1>3, <1>4, <1>5, <1>6, PayloadParts DEF One, Two, Three

\* A request that is ready has all the locks its kind takes.
LEMMA ReadyHolds ==
  ASSUME TypeOK, NEW r \in Request, NEW k, Ready(r, k)
  PROVE  /\ request[r] \in Payload /\ request[r].kind = k
         /\ FirstLock(request[r]) \in held[r]
         /\ k \in Two \cup Three => SecondLock(request[r]) \in held[r]
         /\ k = "delete home" =>
               LET h == request[r].home IN
               /\ \A u \in MembersOf(h) : <<<<"member", <<h, u>>>>, "update">> \in held[r]
               /\ \A i \in ItemsOf(h) : <<<<"item", i>>, "update">> \in held[r]
               /\ \A c \in CategoriesOf(h) : <<<<"category", c>>, "update">> \in held[r]
<1>. DEFINE p == request[r]
<1>1. p \in Payload /\ p.kind = k /\ Wanted(r) = {}
  BY DEF TypeOK, Ready
<1>2. CASE k \in One
  <2>1. Wanted(r) = {FirstLock(p)} \ held[r]
    BY <1>1, <1>2, LocksOfOne, OneStage
  <2>. QED BY <1>1, <1>2, <2>1 DEF One, Two, Three
<1>3. CASE k \in Two
  <2>1. Wanted(r) = (IF FirstLock(p) \in held[r] THEN {SecondLock(p)} ELSE {FirstLock(p)})
                    \ held[r]
    BY <1>1, <1>3, LocksOfTwo, TwoStages
  <2>. QED BY <1>1, <1>3, <2>1 DEF Two, Three
<1>5. CASE k \in Three
  <2>1. Wanted(r) = (IF FirstLock(p) \notin held[r] THEN {FirstLock(p)} ELSE
                     IF SecondLock(p) \notin held[r] THEN {SecondLock(p)} ELSE {ThirdLock(p)})
                    \ held[r]
    BY <1>1, <1>5, LocksOfThree, ThreeStages
  <2>. QED BY <1>1, <1>5, <2>1 DEF Three
<1>4. CASE k = "delete home"
  <2>. DEFINE A == {<<<<"home", p.home>>, "update">>}
              N == {<<<<"name", p.home>>, "update">>}
              B == {<<<<"member", <<p.home, u>>>>, "update">> : u \in MembersOf(p.home)}
              C == {<<<<"item", i>>, "update">> : i \in ItemsOf(p.home)}
              D == {<<<<"category", c>>, "update">> : c \in CategoriesOf(p.home)}
  <2>1. Locks(request[r]) = <<A, N, B, C, D>>
    BY <1>1, <1>4 DEF Locks, DeleteHomeLocks, Settings
  <2>2. A = {FirstLock(p)}
    BY <1>1, <1>4 DEF FirstLock
  <2>3. A \cup N \cup B \cup C \cup D \subseteq held[r]
    <3>. HIDE DEF A, N, B, C, D
    <3>. QED BY <1>1, <2>1, FiveStages
  <2>4. /\ \A u \in MembersOf(p.home) : <<<<"member", <<p.home, u>>>>, "update">> \in B
        /\ \A i \in ItemsOf(p.home) : <<<<"item", i>>, "update">> \in C
        /\ \A c \in CategoriesOf(p.home) : <<<<"category", c>>, "update">> \in D
    OBVIOUS
  <2>. HIDE DEF A, N, B, C, D
  <2>. QED BY <1>1, <1>4, <2>2, <2>3, <2>4 DEF Two, Three
<1>. QED BY <1>1, <1>2, <1>3, <1>4, <1>5, PayloadParts DEF One, Two, Three

-----------------------------------------------------------------------------
(* What is locked stays                                                    *)

LEMMA RealLocks ==
  ASSUME NEW p \in Payload, NEW l, MayHold(p, l)
  PROVE  l[2] # "none"
<1>1. /\ FirstLock(p)[2] # "none"
      /\ p.kind \in Two \cup Three => SecondLock(p)[2] # "none"
      /\ p.kind \in Three => ThirdLock(p)[2] # "none"
  BY DEF FirstLock, SecondLock, ThirdLock, Two, Three
<1>. QED BY <1>1 DEF MayHold, Cascade

\* Nobody else holds a lock on a row that is locked for its end.
LEMMA Exclusive ==
  ASSUME TypeOK, LocksFit, NoConflicts, NEW r \in Request, NEW q \in Request,
         r # q, NEW row, <<row, "update">> \in held[r], NEW m \in held[q]
  PROVE  m[1] # row
<1>1. request[q] \in Payload /\ MayHold(request[q], m)
  BY DEF TypeOK, LocksFit
<1>2. m[2] # "none"
  BY <1>1, RealLocks
<1>3. Conflict("update", m[2])
  BY <1>2 DEF Conflict
<1>. QED BY <1>3 DEF NoConflicts

LEMMA Ended ==
  ASSUME TypeOK, NEW r \in Request, End(r)
  PROVE  /\ request' \in [Request -> Payload \cup {None}]
         /\ held' \in [Request -> SUBSET Lock]
         /\ request'[r] = None /\ held'[r] = {}
         /\ \A q \in Request \ {r} : request'[q] = request[q] /\ held'[q] = held[q]
BY DEF TypeOK, End

\* The other requests go on as they were, and hold none of the rows gone.
Undisturbed(gone) ==
    \A q \in Request :
        \/ /\ request'[q] = request[q] /\ held'[q] = held[q]
           /\ \A l \in held[q] : l[1] \notin gone
        \/ request'[q] = None /\ held'[q] = {}

LEMMA Released ==
  ASSUME IndInv, NEW r \in Request, End(r), NEW gone,
         \A row \in gone : <<row, "update">> \in held[r]
  PROVE  Undisturbed(gone)
<1>1. TypeOK /\ LocksFit /\ NoConflicts
  BY DEF IndInv, Locking
<1>2. ASSUME NEW q \in Request, q # r, NEW l \in held[q] PROVE l[1] \notin gone
  BY <1>1, <1>2, Exclusive
<1>. QED BY <1>1, <1>2, Ended DEF Undisturbed

LEMMA LockingKept ==
  ASSUME IndInv, NEW gone, Undisturbed(gone),
         \A row \in Row : row \notin gone /\ Exists(row) => Exists(row)',
         \A c \in Category : homeOf[c] # None /\ homeOf'[c] # None
                                  => homeOf'[c] = homeOf[c],
         \A i \in Item : items[i] # None /\ items'[i] # None
                              => items'[i].home = items[i].home,
         used \subseteq used',
         \A i \in Item \cap used : items[i] = None => items'[i] = None
  PROVE  Locking'
<1>. USE DEF IndInv, Locking, Undisturbed
<1>1. ItemsAreNamed'
  <2>. SUFFICES ASSUME NEW r \in Request, request'[r] # None,
                       request'[r].kind \in {"update item", "delete item"}
                PROVE  /\ request'[r].item \in used'
                       /\ items'[request'[r].item] # None =>
                             items'[request'[r].item].home = request'[r].home
    BY DEF ItemsAreNamed
  <2>1. request'[r] = request[r] /\ request[r] \in Payload
    BY DEF TypeOK
  <2>2. request[r].item \in Item
    BY <2>1, PayloadParts
  <2>. DEFINE i == request[r].item
  <2>3. i \in used /\ (items[i] # None => items[i].home = request[r].home)
    BY <2>1 DEF ItemsAreNamed
  <2>4. items'[i] # None => items[i] # None
    BY <2>2, <2>3
  <2>5. items'[i] # None => items'[i].home = items[i].home
    BY <2>2, <2>4
  <2>. QED BY <2>1, <2>3, <2>4, <2>5
<1>2. LocksFit'
  <2>. SUFFICES ASSUME NEW r \in Request
                PROVE  /\ request'[r] = None => held'[r] = {}
                       /\ \A l \in held'[r] : MayHold(request'[r], l)
                                            /\ Stays(request[r], l[1])'
    BY DEF LocksFit
  <2>1. CASE held'[r] = {}
    BY <2>1
  <2>2. CASE request'[r] = request[r] /\ held'[r] = held[r]
             /\ \A l \in held[r] : l[1] \notin gone
    <3>1. ASSUME NEW l \in held[r] PROVE Stays(request[r], l[1])'
      <4>1. l[1] \in Row /\ l[1] \notin gone /\ Stays(request[r], l[1])
        BY <2>2 DEF LocksFit, TypeOK, Lock
      <4>2. Exists(l[1]) /\ Exists(l[1])'
        BY <4>1 DEF Stays, Gone
      <4>3. CASE l[1][1] = "category"
        <5>1. homeOf'[l[1][2]] = homeOf[l[1][2]]
          BY <4>1, <4>2, <4>3 DEF Exists, Row
        <5>. QED BY <2>2, <4>1, <4>2, <4>3, <5>1 DEF Stays, Gone
      <4>4. CASE l[1][1] = "item"
        <5>1. items'[l[1][2]].home = items[l[1][2]].home
          BY <4>1, <4>2, <4>4 DEF Exists, Row
        <5>. QED BY <2>2, <4>1, <4>2, <4>4, <5>1 DEF Stays, Gone
      <4>. QED BY <2>2, <4>2, <4>3, <4>4 DEF Stays, Gone
    <3>. QED BY <2>2, <3>1 DEF LocksFit
  <2>. QED BY <2>1, <2>2
<1>3. NoConflicts'
  BY DEF NoConflicts
<1>4. InOrder'
  BY DEF InOrder
<1>. QED BY <1>1, <1>2, <1>3, <1>4

-----------------------------------------------------------------------------
(* Beginning, waiting and giving up                                        *)

\* When no table changes, the tables' part of the invariant stays.
LEMMA TablesKept ==
  ASSUME IndInv, UNCHANGED tables
  PROVE  /\ IdsAreUsed' /\ ItemsWellPlaced'
         /\ \A row \in Row : Exists(row) => Exists(row)'
BY DEF IndInv, IdsAreUsed, ItemsWellPlaced, Exists, tables

LEMMA EndedTables ==
  ASSUME IndInv, NEW r \in Request, End(r), UNCHANGED tables
  PROVE  IndInv'
<1>1. TypeOK'
  BY Ended DEF IndInv, TypeOK, tables
<1>2. Undisturbed({})
  BY Ended DEF IndInv, Undisturbed
<1>3. Locking'
  BY <1>2, TablesKept, LockingKept DEF tables
<1>. QED BY <1>1, <1>3, TablesKept DEF IndInv

LEMMA BeginPreserves ==
  ASSUME IndInv, NEW r \in Request, request[r] = None,
         NEW p \in Payload, NEW by \in User, Begin(r, p, by)
  PROVE  IndInv'
<1>. USE DEF IndInv, Locking
<1>1. /\ request[r] = None /\ request' = [request EXCEPT ![r] = p]
      /\ UNCHANGED <<tables, held>>
  BY DEF Begin
<1>2. held'[r] = {} /\ request'[r] = p
  BY <1>1 DEF LocksFit, TypeOK
<1>3. \A q \in Request : q # r => request'[q] = request[q] /\ held'[q] = held[q]
  BY <1>1 DEF TypeOK
<1>4. TypeOK' /\ used' = used /\ items' = items
  BY <1>1 DEF TypeOK, tables
<1>5. ItemsAreNamed'
  <2>1. ASSUME p.kind \in {"update item", "delete item"}
        PROVE  /\ p.item \in used
               /\ items[p.item] # None => items[p.item].home = p.home
    <3>1. p.item \in ItemsOf(p.home)
      BY <2>1 DEF Begin, Admitted, Settings
    <3>. QED BY <3>1 DEF ItemsOf, IdsAreUsed
  <2>. SUFFICES ASSUME NEW q \in Request, request'[q] # None,
                       request'[q].kind \in {"update item", "delete item"}
                PROVE  /\ request'[q].item \in used'
                       /\ items'[request'[q].item] # None =>
                             items'[request'[q].item].home = request'[q].home
    BY DEF ItemsAreNamed
  <2>2. CASE q = r
    BY <1>2, <1>4, <2>1, <2>2
  <2>3. CASE q # r
    BY <1>3, <1>4, <2>3 DEF ItemsAreNamed
  <2>. QED BY <2>2, <2>3
<1>6. LocksFit'
  <2>. SUFFICES ASSUME NEW q \in Request
                PROVE  /\ request'[q] = None => held'[q] = {}
                       /\ \A l \in held'[q] : MayHold(request'[q], l)
                                            /\ Stays(request[q], l[1])'
    BY DEF LocksFit
  <2>1. CASE q = r
    BY <1>2, <2>1
  <2>2. CASE q # r
    BY <1>1, <1>3, <2>2 DEF LocksFit, Stays, Gone, Exists, tables
  <2>. QED BY <2>1, <2>2
<1>7. NoConflicts'
  BY <1>1 DEF NoConflicts
<1>8. InOrder'
  BY <1>2, <1>3 DEF InOrder
<1>. QED BY <1>1, <1>4, <1>5, <1>6, <1>7, <1>8, TablesKept

LEMMA AcquirePreserves ==
  ASSUME IndInv, NEW r \in Request, NEW lock, Acquire(r, lock)
  PROVE  IndInv'
<1>. USE DEF IndInv, Locking
<1>. DEFINE p == request[r]
<1>1. /\ p # None /\ lock \in Wanted(r) /\ UNCHANGED tables
      /\ \A q \in Request \ {r} : ~Blocks(q, lock)
  BY DEF Acquire
<1>2. CASE End(r)
  BY <1>1, <1>2, EndedTables
<1>3. CASE /\ ~Gone(p, lock[1])
           /\ held' = [held EXCEPT ![r] = @ \cup {lock}] /\ UNCHANGED request
  <2>1. held' = [held EXCEPT ![r] = @ \cup {lock}] /\ UNCHANGED request
    BY <1>3
  <2>2. /\ lock \in Lock /\ MayHold(p, lock)
        /\ lock # FirstLock(p) => FirstLock(p) \in held[r]
        /\ p.kind \in Three /\ lock = ThirdLock(p) => SecondLock(p) \in held[r]
        /\ Cascade(p, lock) /\ lock[1][1] = "item" => items[lock[1][2]].home = p.home
    BY <1>1, WantedFits
  <2>3. held'[r] = held[r] \cup {lock} /\ \A q \in Request : q # r => held'[q] = held[q]
    BY <2>1 DEF TypeOK
  <2>4. TypeOK'
    BY <1>1, <2>1, <2>2 DEF TypeOK, tables
  <2>5. ItemsAreNamed'
    BY <1>1, <2>1 DEF ItemsAreNamed, tables
  <2>6. Stays(p, lock[1])
    <3>1. ASSUME lock[1][1] = "item" PROVE items[lock[1][2]].home = p.home
      <4>1. CASE Cascade(p, lock)
        BY <2>2, <3>1, <4>1
      <4>2. CASE ~Cascade(p, lock)
        <5>1. p.kind \in {"update item", "delete item"} /\ lock[1][2] = p.item
          <6>1. CASE lock = FirstLock(p)
            BY <3>1, <6>1 DEF FirstLock
          <6>2. CASE p.kind \in Two \cup Three /\ lock = SecondLock(p)
            BY <3>1, <6>2 DEF SecondLock, Two, Three
          <6>3. CASE p.kind \in Three /\ lock = ThirdLock(p)
            BY <3>1, <6>3 DEF ThirdLock, Three
          <6>. QED BY <2>2, <4>2, <6>1, <6>2, <6>3 DEF MayHold
        <5>2. items[p.item] # None
          BY <1>3, <3>1, <5>1 DEF Gone, Exists
        <5>. QED BY <1>1, <5>1, <5>2 DEF ItemsAreNamed
      <4>. QED BY <4>1, <4>2
    <3>. QED BY <1>3, <3>1 DEF Stays
  <2>7. LocksFit'
    <3>. SUFFICES ASSUME NEW q \in Request
                  PROVE  /\ request'[q] = None => held'[q] = {}
                         /\ \A l \in held'[q] : MayHold(request'[q], l)
                                              /\ Stays(request[q], l[1])'
      BY DEF LocksFit
    <3>1. \A l : Stays(request[q], l)' <=> Stays(request[q], l)
      BY <1>1, <2>1 DEF Stays, Gone, Exists, tables
    <3>. QED BY <1>1, <2>1, <2>2, <2>3, <2>6, <3>1 DEF LocksFit
  <2>8. NoConflicts'
    <3>1. \A q \in Request \ {r} : \A m \in held[q] :
             m[1] = lock[1] => ~Conflict(m[2], lock[2])
      BY <1>1 DEF Blocks
    <3>2. \A m, n : Conflict(m, n) <=> Conflict(n, m)
      BY DEF Conflict
    <3>. QED BY <2>3, <3>1, <3>2 DEF NoConflicts
  <2>9. InOrder'
    BY <2>1, <2>2, <2>3 DEF InOrder
  <2>. QED BY <1>1, <2>4, <2>5, <2>7, <2>8, <2>9, TablesKept
<1>. QED BY <1>2, <1>3 DEF Acquire

-----------------------------------------------------------------------------
(* Commits                                                                 *)

\* A commit that removes only what its request has locked for that.
LEMMA CommitKeeps ==
  ASSUME IndInv, NEW r \in Request, End(r), NEW gone,
         \A row \in gone : <<row, "update">> \in held[r],
         \A row \in Row : row \notin gone /\ Exists(row) => Exists(row)',
         \A c \in Category : homeOf[c] # None /\ homeOf'[c] # None
                                  => homeOf'[c] = homeOf[c],
         \A i \in Item : items[i] # None /\ items'[i] # None
                              => items'[i].home = items[i].home,
         used \subseteq used',
         \A i \in Item \cap used : items[i] = None => items'[i] = None
  PROVE  Locking'
<1>1. Undisturbed(gone)
  BY Released
<1>. QED BY <1>1, LockingKept

LEMMA CommitKeepsAll ==
  ASSUME IndInv, NEW r \in Request, End(r),
         \A row \in Row : Exists(row) => Exists(row)',
         \A c \in Category : homeOf[c] # None => homeOf'[c] = homeOf[c],
         \A i \in Item : items[i] # None => items'[i].home = items[i].home,
         used \subseteq used',
         \A i \in Item \cap used : items[i] = None => items'[i] = None
  PROVE  Locking'
<1>1. Undisturbed({})
  BY Released
<1>. QED BY <1>1, LockingKept

LEMMA CommitKeepsBut ==
  ASSUME IndInv, NEW r \in Request, End(r), NEW row, <<row, "update">> \in held[r],
         \A x \in Row : x # row /\ Exists(x) => Exists(x)',
         \A c \in Category : homeOf[c] # None /\ homeOf'[c] # None
                                  => homeOf'[c] = homeOf[c],
         \A i \in Item : items[i] # None => items'[i] \in {None, items[i]},
         used' = used,
         \A i \in Item : items[i] = None => items'[i] = None
  PROVE  Locking'
<1>1. \A x \in {row} : <<x, "update">> \in held[r]
  OBVIOUS
<1>2. \A x \in Row : x \notin {row} /\ Exists(x) => Exists(x)'
  OBVIOUS
<1>. QED BY <1>1, <1>2, CommitKeeps

\* An item is only written with its category, and its home, locked.
LEMMA LockedCategory ==
  ASSUME IndInv, NEW r \in Request, request[r] # None, held[r] # {},
         request[r].kind \in {"add item", "update item"}
  PROVE  homeOf[request[r].category] = request[r].home
<1>. DEFINE p == request[r]
<1>1. FirstLock(p) \in held[r]
  BY DEF IndInv, Locking, InOrder
<1>2. Stays(p, FirstLock(p)[1])
  BY <1>1 DEF IndInv, Locking, LocksFit
<1>. DEFINE row == FirstLock(p)[1]
<1>3. row[1] = "category" /\ row[2] = p.category
  BY DEF FirstLock
<1>4. ~(row[1] = "category" /\ homeOf[row[2]] # p.home)
  BY <1>2 DEF Stays, Gone
<1>. QED BY <1>3, <1>4

LEMMA AddItemPreserves ==
  ASSUME IndInv, NEW r \in Request, AddItem(r)
  PROVE  IndInv'
<1>. USE DEF IndInv
<1>. DEFINE p == request[r]
<1>1. Ready(r, "add item") /\ End(r) /\ UNCHANGED <<homes, homeOf, role>>
  BY DEF AddItem
<1>2. /\ p \in Payload /\ p.kind = "add item"
      /\ FirstLock(p) \in held[r]
  BY <1>1, ReadyHolds
<1>3. p.home \in Home /\ p.category \in Category /\ p # None
  BY <1>2, PayloadParts
<1>4. homeOf[p.category] = p.home
  BY <1>2, <1>3, LockedCategory
<1>5. p.home \in homes
  BY <1>3, <1>4, NoneAssumption DEF TypeOK
<1>6. PICK i \in Item \ used :
         /\ items' = [items EXCEPT ![i] = [home |-> p.home, category |-> p.category]]
         /\ used' = used \cup {i}
  BY DEF AddItem
<1>7. /\ items'[i] = [home |-> p.home, category |-> p.category]
      /\ \A j \in Item : j # i => items'[j] = items[j]
      /\ items[i] = None
  BY <1>6 DEF TypeOK, IdsAreUsed
<1>8. TypeOK'
  BY <1>1, <1>3, <1>5, <1>6, Ended DEF TypeOK
<1>9. IdsAreUsed'
  BY <1>1, <1>6, <1>7 DEF IdsAreUsed
<1>10. Locking'
  <2>1. \A row \in Row : Exists(row) => Exists(row)'
    BY <1>1, <1>7 DEF Exists, Row
  <2>2. \A j \in Item : items[j] # None => items'[j].home = items[j].home
    BY <1>7
  <2>3. \A j \in Item \cap used : items[j] = None => items'[j] = None
    BY <1>6, <1>7
  <2>. QED BY <1>1, <1>6, <2>1, <2>2, <2>3, CommitKeepsAll
<1>11. ItemsWellPlaced'
  <2>1. items'[i].category = p.category /\ items'[i].home = p.home
    BY <1>7
  <2>. QED BY <1>1, <1>4, <1>7, <2>1 DEF ItemsWellPlaced
<1>. QED BY <1>8, <1>9, <1>10, <1>11

LEMMA UpdateItemPreserves ==
  ASSUME IndInv, NEW r \in Request, UpdateItem(r)
  PROVE  IndInv'
<1>. USE DEF IndInv
<1>. DEFINE p == request[r]
<1>1. /\ Ready(r, "update item") /\ End(r) /\ UNCHANGED <<homes, homeOf, role, used>>
      /\ items' = [items EXCEPT ![p.item].category = p.category]
  BY DEF UpdateItem
<1>2. /\ p \in Payload /\ p.kind = "update item"
      /\ FirstLock(p) \in held[r] /\ SecondLock(p) \in held[r]
  BY <1>1, ReadyHolds DEF Two
<1>3. p.home \in Home /\ p.category \in Category /\ p.item \in Item /\ p # None
  BY <1>2, PayloadParts
<1>4. homeOf[p.category] = p.home
  BY <1>2, <1>3, LockedCategory
<1>5. items[p.item] # None /\ items[p.item].home = p.home
  <2>1. Stays(p, SecondLock(p)[1])
    BY <1>2 DEF Locking, LocksFit
  <2>2. SecondLock(p)[1] = <<"item", p.item>>
    BY <1>2 DEF SecondLock
  <2>. QED BY <2>1, <2>2 DEF Stays, Gone, Exists
<1>6. items[p.item] \in [home : homes, category : Category]
  BY <1>3, <1>5 DEF TypeOK
<1>7. /\ items'[p.item] = [home |-> p.home, category |-> p.category]
      /\ \A j \in Item : j # p.item => items'[j] = items[j]
      /\ items' \in [Item -> [home : homes, category : Category] \cup {None}]
  BY <1>1, <1>3, <1>5, <1>6 DEF TypeOK
<1>8. TypeOK'
  BY <1>1, <1>7, Ended DEF TypeOK
<1>9. IdsAreUsed'
  BY <1>1, <1>5, <1>7 DEF IdsAreUsed
<1>10. Locking'
  <2>1. items'[p.item] # None
    BY <1>3, <1>7, NoneAssumption
  <2>2. \A row \in Row : Exists(row) => Exists(row)'
    BY <1>1, <1>7, <2>1 DEF Exists, Row
  <2>3. items'[p.item].home = items[p.item].home
    BY <1>5, <1>7
  <2>4. \A j \in Item : items[j] # None => items'[j].home = items[j].home
    BY <1>7, <2>3
  <2>5. \A j \in Item \cap used : items[j] = None => items'[j] = None
    BY <1>5, <1>7
  <2>. QED BY <1>1, <2>2, <2>4, <2>5, CommitKeepsAll
<1>11. ItemsWellPlaced'
  BY <1>1, <1>4, <1>7 DEF ItemsWellPlaced
<1>. QED BY <1>8, <1>9, <1>10, <1>11

LEMMA DeleteItemPreserves ==
  ASSUME IndInv, NEW r \in Request, DeleteItem(r)
  PROVE  IndInv'
<1>. USE DEF IndInv
<1>. DEFINE p == request[r]
<1>1. /\ Ready(r, "delete item") /\ End(r) /\ UNCHANGED <<homes, homeOf, role, used>>
      /\ items' = [items EXCEPT ![p.item] = None]
  BY DEF DeleteItem
<1>2. p \in Payload /\ p.kind = "delete item" /\ FirstLock(p) \in held[r]
  BY <1>1, ReadyHolds
<1>3. <<<<"item", p.item>>, "update">> \in held[r] /\ p.item \in Item
  BY <1>2, PayloadParts DEF FirstLock
<1>4. items'[p.item] = None /\ \A j \in Item : j # p.item => items'[j] = items[j]
  BY <1>1, <1>3 DEF TypeOK
<1>5. TypeOK'
  BY <1>1, Ended DEF TypeOK
<1>6. IdsAreUsed' /\ ItemsWellPlaced'
  BY <1>1, <1>4 DEF IdsAreUsed, ItemsWellPlaced
<1>7. Locking'
  <2>1. ASSUME NEW x \in Row, x # <<"item", p.item>>, Exists(x) PROVE Exists(x)'
    <3>1. CASE x[1] = "item"
      <4>1. x = <<"item", x[2]>> /\ x[2] \in Item
        BY <3>1 DEF Row
      <4>. QED BY <1>4, <2>1, <3>1, <4>1 DEF Exists
    <3>. QED BY <1>1, <2>1, <3>1 DEF Exists
  <2>2. \A j \in Item : items'[j] \in {None, items[j]}
    BY <1>4
  <2>. QED BY <1>1, <1>3, <2>1, <2>2, CommitKeepsBut
<1>. QED BY <1>5, <1>6, <1>7

LEMMA CreateCategoryPreserves ==
  ASSUME IndInv, NEW r \in Request, CreateCategory(r)
  PROVE  IndInv'
<1>. USE DEF IndInv
<1>. DEFINE p == request[r]
<1>1. Ready(r, "create category") /\ End(r) /\ UNCHANGED <<homes, items, role>>
  BY DEF CreateCategory
<1>2. p \in Payload /\ p.kind = "create category" /\ SecondLock(p) \in held[r]
  BY <1>1, ReadyHolds DEF Two
<1>3. p.home \in homes
  <2>1. Stays(p, SecondLock(p)[1])
    BY <1>2 DEF Locking, LocksFit
  <2>2. SecondLock(p)[1] = <<"home", p.home>>
    BY <1>2 DEF SecondLock
  <2>. QED BY <2>1, <2>2 DEF Stays, Gone, Exists
<1>4. PICK c \in Category \ used :
         homeOf' = [homeOf EXCEPT ![c] = p.home] /\ used' = used \cup {c}
  BY DEF CreateCategory
<1>5. /\ homeOf'[c] = p.home /\ homeOf[c] = None
      /\ \A d \in Category : d # c => homeOf'[d] = homeOf[d]
  BY <1>4 DEF TypeOK, IdsAreUsed
<1>6. TypeOK'
  BY <1>1, <1>3, <1>4, Ended DEF TypeOK
<1>7. IdsAreUsed'
  BY <1>1, <1>4, <1>5 DEF IdsAreUsed
<1>8. p.home # None /\ \A i \in Item : items[i] # None =>
         items[i].home # None /\ items[i].category \in Category
  BY <1>2, PayloadParts, NoneAssumption DEF TypeOK
<1>9. Locking'
  <2>1. \A row \in Row : Exists(row) => Exists(row)'
    BY <1>1, <1>5, <1>8 DEF Exists, Row
  <2>2. \A d \in Category : homeOf[d] # None => homeOf'[d] = homeOf[d]
    BY <1>5
  <2>. QED BY <1>1, <1>4, <2>1, <2>2, CommitKeepsAll
<1>10. ItemsWellPlaced'
  BY <1>1, <1>5, <1>8 DEF ItemsWellPlaced
<1>. QED BY <1>6, <1>7, <1>9, <1>10

LEMMA DeleteCategoryPreserves ==
  ASSUME IndInv, NEW r \in Request, DeleteCategory(r)
  PROVE  IndInv'
<1>. USE DEF IndInv
<1>. DEFINE p == request[r]
            c == p.category
<1>1. /\ Ready(r, "delete category") /\ End(r)
      /\ UNCHANGED <<homes, items, role, used>>
  BY DEF DeleteCategory
<1>2. CASE UNCHANGED homeOf
  BY <1>1, <1>2, EndedTables DEF tables
<1>3. CASE Uses(c) = {} /\ homeOf' = [homeOf EXCEPT ![c] = None]
  <2>1. p \in Payload /\ p.kind = "delete category" /\ SecondLock(p) \in held[r]
    BY <1>1, ReadyHolds DEF Two
  <2>2. <<<<"category", c>>, "update">> \in held[r] /\ c \in Category
    BY <2>1, PayloadParts DEF SecondLock
  <2>3. homeOf'[c] = None /\ \A d \in Category : d # c => homeOf'[d] = homeOf[d]
    BY <1>3, <2>2 DEF TypeOK
  <2>4. TypeOK'
    BY <1>1, <1>3, Ended DEF TypeOK
  <2>5. IdsAreUsed'
    BY <1>1, <2>3 DEF IdsAreUsed
  <2>6. Locking'
    <3>1. ASSUME NEW x \in Row, x # <<"category", c>>, Exists(x) PROVE Exists(x)'
      <4>1. CASE x[1] = "category"
        <5>1. x = <<"category", x[2]>> /\ x[2] \in Category
          BY <4>1 DEF Row
        <5>. QED BY <2>3, <3>1, <4>1, <5>1 DEF Exists
      <4>. QED BY <1>1, <3>1, <4>1 DEF Exists
    <3>2. \A d \in Category : homeOf'[d] \in {None, homeOf[d]}
      BY <2>3
    <3>. QED BY <1>1, <2>2, <3>1, <3>2, CommitKeepsBut
  <2>7. ItemsWellPlaced'
    <3>1. \A i \in Item : items[i] # None =>
             items[i].category \in Category /\ items[i].category # c
      BY <1>3 DEF TypeOK, Uses
    <3>. QED BY <1>1, <2>3, <3>1 DEF ItemsWellPlaced
  <2>. QED BY <2>4, <2>5, <2>6, <2>7
<1>. QED BY <1>2, <1>3 DEF DeleteCategory, Restricted

\* A membership is removed or changed by a request that has it locked.
LEMMA MemberPreserves ==
  ASSUME IndInv, NEW r \in Request, End(r),
         request[r] \in Payload,
         request[r].kind \in {"settings member", "homeuser member"},
         <<<<"member", <<request[r].home, request[r].member>>>>, "update">> \in held[r],
         role' = [role EXCEPT ![request[r].home][request[r].member] = request[r].role],
         UNCHANGED <<homes, homeOf, items, used>>
  PROVE  IndInv'
<1>. USE DEF IndInv
<1>. DEFINE h == request[r].home
            u == request[r].member
<1>1. h \in Home /\ u \in User /\ request[r].role \in Role \cup {None}
  BY PayloadParts DEF NewRole, Role
<1>2. \A g \in Home, v \in User : <<g, v>> # <<h, u>> => role'[g][v] = role[g][v]
  BY <1>1 DEF TypeOK
<1>3. TypeOK'
  BY <1>1, Ended DEF TypeOK
<1>4. IdsAreUsed' /\ ItemsWellPlaced'
  BY DEF IdsAreUsed, ItemsWellPlaced
<1>5. Locking'
  <2>1. ASSUME NEW x \in Row, x # <<"member", <<h, u>>>>, Exists(x) PROVE Exists(x)'
    <3>1. CASE x[1] = "member"
      <4>. DEFINE g == x[2][1]
                  v == x[2][2]
      <4>1. g \in Home /\ v \in User /\ x = <<"member", <<g, v>>>>
        BY <3>1, MemberRow
      <4>2. <<g, v>> # <<h, u>>
        BY <2>1, <4>1
      <4>3. role'[g][v] = role[g][v]
        BY <1>2, <4>1, <4>2
      <4>. QED BY <2>1, <4>1, <4>3 DEF Exists
    <3>. QED BY <2>1, <3>1 DEF Exists
  <2>. QED BY <2>1, CommitKeepsBut
<1>. QED BY <1>3, <1>4, <1>5

LEMMA SettingsMemberPreserves ==
  ASSUME IndInv, NEW r \in Request, SettingsMember(r)
  PROVE  IndInv'
<1>1. /\ Ready(r, "settings member") /\ End(r)
      /\ UNCHANGED <<homes, homeOf, items, used>>
  BY DEF SettingsMember
<1>2. CASE UNCHANGED role
  BY <1>1, <1>2, EndedTables DEF tables
<1>3. CASE role' = [role EXCEPT ![request[r].home][request[r].member] = request[r].role]
  <2>1. /\ request[r] \in Payload /\ request[r].kind = "settings member"
        /\ SecondLock(request[r]) \in held[r]
    BY <1>1, ReadyHolds DEF IndInv, Two
  <2>2. <<<<"member", <<request[r].home, request[r].member>>>>, "update">> \in held[r]
    BY <2>1 DEF SecondLock
  <2>. QED BY <1>1, <1>3, <2>1, <2>2, MemberPreserves
<1>. QED BY <1>2, <1>3 DEF SettingsMember

LEMMA HomeUserMemberPreserves ==
  ASSUME IndInv, NEW r \in Request, HomeUserMember(r)
  PROVE  IndInv'
<1>1. /\ Ready(r, "homeuser member") /\ End(r)
      /\ UNCHANGED <<homes, homeOf, items, used>>
      /\ role' = [role EXCEPT ![request[r].home][request[r].member] = request[r].role]
  BY DEF HomeUserMember
<1>2. /\ request[r] \in Payload /\ request[r].kind = "homeuser member"
      /\ FirstLock(request[r]) \in held[r]
  BY <1>1, ReadyHolds DEF IndInv
<1>3. <<<<"member", <<request[r].home, request[r].member>>>>, "update">> \in held[r]
  BY <1>2 DEF FirstLock
<1>. QED BY <1>1, <1>2, <1>3, MemberPreserves

LEMMA DeleteHomePreserves ==
  ASSUME IndInv, NEW r \in Request, DeleteHome(r)
  PROVE  IndInv'
<1>. USE DEF IndInv
<1>. DEFINE h == request[r].home
            gone == {<<"home", h>>}
                    \cup {<<"member", <<h, u>>>> : u \in MembersOf(h)}
                    \cup {<<"item", i>> : i \in ItemsOf(h)}
                    \cup {<<"category", c>> : c \in CategoriesOf(h)}
<1>1. /\ Ready(r, "delete home") /\ End(r) /\ used' = used
      /\ homes' = homes \ {h}
      /\ items' = [i \in Item |-> IF i \in ItemsOf(h) THEN None ELSE items[i]]
      /\ homeOf' = [c \in Category |-> IF homeOf[c] = h THEN None ELSE homeOf[c]]
      /\ role' = [role EXCEPT ![h] = [u \in User |-> None]]
  BY DEF DeleteHome
<1>2. /\ request[r] \in Payload /\ request[r].kind = "delete home"
      /\ FirstLock(request[r]) \in held[r]
      /\ \A u \in MembersOf(h) : <<<<"member", <<h, u>>>>, "update">> \in held[r]
      /\ \A i \in ItemsOf(h) : <<<<"item", i>>, "update">> \in held[r]
      /\ \A c \in CategoriesOf(h) : <<<<"category", c>>, "update">> \in held[r]
  BY <1>1, ReadyHolds
<1>3. h \in Home /\ <<<<"home", h>>, "update">> \in held[r]
  BY <1>2, PayloadParts DEF FirstLock
<1>4. TypeOK'
  <2>1. homes' \in SUBSET Home /\ homeOf' \in [Category -> homes' \cup {None}]
    BY <1>1 DEF TypeOK
  <2>2. items' \in [Item -> [home : homes', category : Category] \cup {None}]
    <3>. SUFFICES ASSUME NEW i \in Item
                  PROVE  items'[i] \in [home : homes', category : Category] \cup {None}
      BY <1>1
    <3>1. CASE items[i] = None \/ i \in ItemsOf(h)
      BY <1>1, <3>1
    <3>2. CASE items[i] # None /\ i \notin ItemsOf(h)
      <4>1. items[i] \in [home : homes, category : Category] /\ items[i].home # h
        BY <3>2 DEF TypeOK, ItemsOf
      <4>. QED BY <1>1, <3>2, <4>1
    <3>. QED BY <3>1, <3>2
  <2>3. role' \in [Home -> [User -> Role \cup {None}]]
    BY <1>1, <1>3 DEF TypeOK
  <2>. QED BY <1>1, <2>1, <2>2, <2>3, Ended DEF TypeOK
<1>5. /\ \A i \in Item : items'[i] # None => items'[i] = items[i] /\ i \notin ItemsOf(h)
      /\ \A c \in Category : homeOf'[c] # None => homeOf'[c] = homeOf[c]
  BY <1>1
<1>6. IdsAreUsed'
  BY <1>1, <1>5 DEF IdsAreUsed
<1>7. Locking'
  <2>1. \A row \in gone : <<row, "update">> \in held[r]
    BY <1>2, <1>3
  <2>2. ASSUME NEW x \in Row, x \notin gone, Exists(x) PROVE Exists(x)'
    <3>1. CASE x[1] = "home"
      <4>1. x = <<"home", x[2]>>
        BY <3>1 DEF Row
      <4>. QED BY <1>1, <2>2, <3>1, <4>1 DEF Exists
    <3>2. CASE x[1] = "category"
      <4>1. x = <<"category", x[2]>> /\ x[2] \in Category
        BY <3>2 DEF Row
      <4>2. homeOf[x[2]] # h
        BY <2>2, <4>1 DEF CategoriesOf
      <4>. QED BY <1>1, <2>2, <3>2, <4>1, <4>2 DEF Exists
    <3>3. CASE x[1] = "item"
      <4>1. x = <<"item", x[2]>> /\ x[2] \in Item
        BY <3>3 DEF Row
      <4>2. x[2] \notin ItemsOf(h)
        BY <2>2, <4>1
      <4>. QED BY <1>1, <2>2, <3>3, <4>1, <4>2 DEF Exists
    <3>4. CASE x[1] = "member"
      <4>. DEFINE g == x[2][1]
                  v == x[2][2]
      <4>1. g \in Home /\ v \in User /\ x = <<"member", <<g, v>>>>
        BY <3>4, MemberRow
      <4>2. role[g][v] # None
        BY <2>2, <3>4 DEF Exists
      <4>3. g # h
        BY <2>2, <4>1, <4>2 DEF MembersOf
      <4>4. role'[g] = role[g]
        BY <1>1, <4>1, <4>3 DEF TypeOK
      <4>. QED BY <3>4, <4>2, <4>4 DEF Exists
    <3>. QED BY <2>2, <3>1, <3>2, <3>3, <3>4 DEF Exists
  <2>. HIDE DEF gone
  <2>3. \A i \in Item : items[i] # None /\ items'[i] # None
                            => items'[i].home = items[i].home
    BY <1>5
  <2>4. \A c \in Category : homeOf[c] # None /\ homeOf'[c] # None
                                => homeOf'[c] = homeOf[c]
    BY <1>5
  <2>5. \A i \in Item \cap used : items[i] = None => items'[i] = None
    BY <1>5
  <2>6. used \subseteq used'
    BY <1>1
  <2>. QED BY <1>1, <2>1, <2>2, <2>3, <2>4, <2>5, <2>6, CommitKeeps
<1>8. ItemsWellPlaced'
  <2>. SUFFICES ASSUME NEW i \in Item, items'[i] # None
                PROVE  homeOf'[items'[i].category] = items'[i].home
    BY DEF ItemsWellPlaced
  <2>1. items'[i] = items[i] /\ items[i].home # h
    BY <1>5 DEF ItemsOf
  <2>2. items[i].category \in Category /\ homeOf[items[i].category] = items[i].home
    BY <2>1 DEF TypeOK, ItemsWellPlaced
  <2>. QED BY <1>1, <2>1, <2>2
<1>. QED BY <1>4, <1>6, <1>7, <1>8

\* Creating a home and adding a member remove nothing.
LEMMA CreateHomePreserves ==
  ASSUME IndInv, NEW h \in Home, NEW u \in User, CreateHome(h, u)
  PROVE  IndInv'
<1>. USE DEF IndInv
<1>1. /\ homes' = homes \cup {h} /\ used' = used \cup {h}
      /\ role' = [role EXCEPT ![h][u] = "owner"]
      /\ UNCHANGED <<homeOf, items, request, held>>
  BY DEF CreateHome
<1>2. TypeOK'
  <2>1. role' \in [Home -> [User -> Role \cup {None}]]
    BY <1>1 DEF TypeOK, Role
  <2>2. homeOf' \in [Category -> homes' \cup {None}]
    BY <1>1 DEF TypeOK
  <2>3. items' \in [Item -> [home : homes', category : Category] \cup {None}]
    BY <1>1 DEF TypeOK
  <2>. QED BY <1>1, <2>1, <2>2, <2>3 DEF TypeOK
<1>3. IdsAreUsed' /\ ItemsWellPlaced'
  BY <1>1 DEF IdsAreUsed, ItemsWellPlaced
<1>4. Locking'
  <2>1. \A g \in Home, v \in User : role[g][v] # None => role'[g][v] # None
    BY <1>1, NoneAssumption DEF TypeOK, Role
  <2>2. \A x \in Row : Exists(x) => Exists(x)'
    BY <1>1, <2>1, MemberRow DEF Exists
  <2>3. Undisturbed({})
    BY <1>1 DEF Undisturbed
  <2>. QED BY <1>1, <2>2, <2>3, LockingKept
<1>. QED BY <1>2, <1>3, <1>4

LEMMA AddMemberPreserves ==
  ASSUME IndInv, NEW r \in Request, AddMember(r)
  PROVE  IndInv'
<1>. USE DEF IndInv
<1>. DEFINE p == request[r]
<1>1. /\ Ready(r, "settings add") \/ Ready(r, "homeuser add")
      /\ role' = [role EXCEPT ![p.home][p.member] = p.role]
      /\ End(r) /\ UNCHANGED <<homes, homeOf, items, used>>
  BY DEF AddMember
<1>2. p \in Payload /\ Adding(p.kind)
  BY <1>1, ReadyHolds DEF Adding
<1>3. p.role \in Role /\ p.role # None
  BY <1>2, PayloadParts DEF Adding, NewRole, Role
<1>4. TypeOK'
  <2>1. role' \in [Home -> [User -> Role \cup {None}]]
    BY <1>1, <1>3 DEF TypeOK
  <2>. QED BY <1>1, <2>1, Ended DEF TypeOK
<1>5. IdsAreUsed' /\ ItemsWellPlaced'
  BY <1>1 DEF IdsAreUsed, ItemsWellPlaced
<1>6. Locking'
  <2>1. \A g \in Home, v \in User : role[g][v] # None => role'[g][v] # None
    BY <1>1, <1>3 DEF TypeOK
  <2>2. \A x \in Row : Exists(x) => Exists(x)'
    BY <1>1, <2>1, MemberRow DEF Exists
  <2>. QED BY <1>1, <2>2, CommitKeepsAll
<1>. QED BY <1>4, <1>5, <1>6

-----------------------------------------------------------------------------
(* Theorems                                                                *)

LEMMA InitIndInv == Init => IndInv
<1>. SUFFICES ASSUME Init PROVE IndInv
  OBVIOUS
<1>1. TypeOK
  <2>1. PICK o \in [homes -> User] :
           role = [h \in Home |-> [u \in User |->
                     IF h \in homes THEN IF u = o[h] THEN "owner" ELSE None
                     ELSE None]]
    BY DEF Init
  <2>2. role \in [Home -> [User -> Role \cup {None}]]
    BY <2>1 DEF Role
  <2>. QED BY <2>2 DEF Init, TypeOK
<1>2. IdsAreUsed /\ ItemsWellPlaced
  BY DEF Init, IdsAreUsed, ItemsWellPlaced
<1>3. Locking
  BY DEF Init, Locking, ItemsAreNamed, LocksFit, NoConflicts, InOrder
<1>. QED BY <1>1, <1>2, <1>3 DEF IndInv

LEMMA CommitPreserves ==
  ASSUME IndInv, NEW r \in Request, Commit(r)
  PROVE  IndInv'
<1>1. CASE RenameCategory(r) \/ SettingsHome(r)
  BY <1>1, EndedTables DEF RenameCategory, SettingsHome
<1>. QED BY <1>1, AddItemPreserves, UpdateItemPreserves, DeleteItemPreserves,
        CreateCategoryPreserves, DeleteCategoryPreserves, SettingsMemberPreserves,
        HomeUserMemberPreserves, AddMemberPreserves, DeleteHomePreserves DEF Commit

LEMMA StepIndInv == IndInv /\ [Next]_vars => IndInv'
<1>. SUFFICES ASSUME IndInv, [Next]_vars PROVE IndInv'
  OBVIOUS
<1>1. CASE UNCHANGED vars
  <2>1. UNCHANGED <<tables, request, held>>
    BY <1>1 DEF vars
  <2>2. Undisturbed({})
    BY <2>1 DEF Undisturbed
  <2>3. Locking'
    BY <2>1, <2>2, TablesKept, LockingKept DEF tables
  <2>4. TypeOK'
    BY <2>1 DEF IndInv, TypeOK, tables
  <2>. QED BY <2>1, <2>3, <2>4, TablesKept DEF IndInv
<1>2. CASE \E r \in Request : Advance(r)
  <2>1. PICK r \in Request : Advance(r)
    BY <1>2
  <2>2. CASE AbortDeadlock(r)
    BY <2>2, EndedTables DEF AbortDeadlock
  <2>. QED BY <2>1, <2>2, AcquirePreserves, CommitPreserves DEF Advance
<1>3. CASE \E r \in Request : /\ request[r] = None
                              /\ \E p \in Payload, by \in User : Begin(r, p, by)
  BY <1>3, BeginPreserves
<1>4. CASE \E h \in Home, u \in User : CreateHome(h, u)
  BY <1>4, CreateHomePreserves
<1>. QED BY <1>1, <1>2, <1>3, <1>4 DEF Next

\* The invariant behind the others: requests hold only locks of their plan, in
\* its order and without conflicts, and what they have locked stays in place.
THEOREM HouseholdInductive == Spec => []IndInv
<1>. QED BY InitIndInv, StepIndInv, PTL DEF Spec

\* Every table and every request keeps its shape; an item's home exists.
THEOREM HouseholdTypeOK == Spec => []TypeOK
<1>1. IndInv => TypeOK
  BY DEF IndInv
<1>. QED BY HouseholdInductive, <1>1, PTL

\* Items stay in categories of their own home, in any order of writes.
THEOREM HouseholdItemsWellPlaced == Spec => []ItemsWellPlaced
<1>1. IndInv => ItemsWellPlaced
  BY DEF IndInv
<1>. QED BY HouseholdInductive, <1>1, PTL

\* An insert that has its category locked has its home, too.
THEOREM HouseholdPreCheckedInsert == Spec => []PreCheckedInsert
<1>1. IndInv => PreCheckedInsert
  <2>. SUFFICES ASSUME IndInv, NEW r \in Request, request[r] # None,
                       request[r].kind = "add item", held[r] # {}
                PROVE  /\ request[r].home \in homes
                       /\ homeOf[request[r].category] = request[r].home
    BY DEF PreCheckedInsert
  <2>1. homeOf[request[r].category] = request[r].home
    BY LockedCategory
  <2>2. request[r].home \in Home /\ request[r].category \in Category
    BY PayloadParts DEF IndInv, TypeOK
  <2>. QED BY <2>1, <2>2, NoneAssumption DEF IndInv, TypeOK
<1>. QED BY HouseholdInductive, <1>1, PTL

\* Homes keep their owners, except through /homeuser.
THEOREM HouseholdOwnersAreStable == Spec => OwnersAreStable
<1>. DEFINE Stable(h, u) ==
        /\ role'[h][u] = "owner" => role[h][u] = "owner"
        /\ role[h][u] = "owner" /\ role'[h][u] # "owner" =>
              \E r \in Request : /\ request[r] # None /\ request'[r] = None
                                 /\ request[r].kind = "homeuser member"
<1>1. IndInv /\ [Next]_vars => [\A h \in homes \cap homes', u \in User : Stable(h, u)]_vars
  <2>. SUFFICES ASSUME IndInv, Next, NEW h \in homes \cap homes', NEW u \in User
                PROVE  Stable(h, u)
    OBVIOUS
  <2>1. h \in Home /\ TypeOK /\ IdsAreUsed
    BY DEF IndInv, TypeOK
  <2>2. CASE UNCHANGED role
    BY <2>2
  <2>3. ASSUME NEW r \in Request, SettingsMember(r), ~UNCHANGED role
        PROVE  Stable(h, u)
    <3>. DEFINE p == request[r]
    <3>1. /\ p \in Payload /\ p.kind = "settings member" /\ Editable(p)
          /\ role' = [role EXCEPT ![p.home][p.member] = p.role]
      BY <2>1, <2>3, ReadyHolds DEF SettingsMember
    <3>2. p.role # "owner" /\ role[p.home][p.member] # "owner"
      BY <3>1, PayloadParts, NoneAssumption DEF NewRole, Role, Editable
    <3>. QED BY <2>1, <3>1, <3>2 DEF TypeOK
  <2>4. ASSUME NEW r \in Request, HomeUserMember(r) PROVE Stable(h, u)
    <3>. DEFINE p == request[r]
    <3>1. /\ p \in Payload /\ p.kind = "homeuser member" /\ p # None
          /\ role' = [role EXCEPT ![p.home][p.member] = p.role]
      BY <2>1, <2>4, ReadyHolds DEF HomeUserMember, Ready
    <3>2. p.role # "owner"
      BY <3>1, PayloadParts, NoneAssumption DEF NewRole, Role
    <3>3. request'[r] = None
      BY <2>1, <2>4, Ended DEF HomeUserMember
    <3>. QED BY <2>1, <3>1, <3>2, <3>3 DEF TypeOK
  <2>5. ASSUME NEW r \in Request, DeleteHome(r) PROVE Stable(h, u)
    BY <2>1, <2>5 DEF DeleteHome, TypeOK
  <2>6. ASSUME NEW g \in Home, NEW v \in User, CreateHome(g, v) PROVE Stable(h, u)
    BY <2>1, <2>6 DEF CreateHome, TypeOK, IdsAreUsed
  <2>7. ASSUME NEW r \in Request, AddMember(r) PROVE Stable(h, u)
    <3>. DEFINE p == request[r]
    <3>1. /\ p \in Payload /\ Adding(p.kind) /\ role[p.home][p.member] = None
          /\ role' = [role EXCEPT ![p.home][p.member] = p.role]
      BY <2>1, <2>7, ReadyHolds DEF AddMember, Adding
    <3>2. p.role # "owner" /\ None # "owner"
      BY <3>1, PayloadParts, NoneAssumption DEF NewRole, Role, Adding
    <3>. QED BY <2>1, <3>1, <3>2 DEF TypeOK
  <2>8. ASSUME NEW r \in Request, Advance(r) PROVE Stable(h, u)
    <3>1. \/ UNCHANGED role \/ SettingsMember(r) \/ HomeUserMember(r)
          \/ AddMember(r) \/ DeleteHome(r)
      BY <2>8 DEF Advance, Acquire, AbortDeadlock, Commit, AddItem, UpdateItem,
         DeleteItem, CreateCategory, RenameCategory, DeleteCategory, SettingsHome, tables
    <3>. QED BY <2>2, <2>3, <2>4, <2>5, <2>7, <3>1
  <2>9. ASSUME NEW r \in Request, NEW p \in Payload, NEW by \in User, Begin(r, p, by)
        PROVE  Stable(h, u)
    BY <2>2, <2>9 DEF Begin, tables
  <2>. HIDE DEF Stable
  <2>. QED BY <2>6, <2>8, <2>9 DEF Next
<1>. QED BY HouseholdInductive, <1>1, PTL DEF Spec, OwnersAreStable

LEMMA CascadeRows ==
  ASSUME NEW p, NEW l, Cascade(p, l)
  PROVE  /\ l[1][1] \in {"name", "member", "item", "category"}
         /\ l[1][1] = "name" => l[1][2] = p.home
         /\ l[1][1] = "member" => l[1][2][1] = p.home
<1>1. CASE \E u \in User : l[1] = <<"member", <<p.home, u>>>>
  <2>1. PICK u \in User : l[1] = <<"member", <<p.home, u>>>>
    BY <1>1
  <2>2. l[1][1] = "member" /\ l[1][2] = <<p.home, u>>
    BY <2>1, Pair
  <2>3. l[1][2][1] = p.home
    BY <2>2, Pair
  <2>. QED BY <2>2, <2>3
<1>2. CASE \E i \in Item : l[1] = <<"item", i>>
  <2>1. l[1][1] = "item"
    BY <1>2, Pair
  <2>. QED BY <2>1
<1>3. CASE \E c \in Category : l[1] = <<"category", c>>
  <2>1. l[1][1] = "category"
    BY <1>3, Pair
  <2>. QED BY <2>1
<1>4. CASE l[1] = <<"name", p.home>>
  <2>1. l[1][1] = "name" /\ l[1][2] = p.home
    BY <1>4, Pair
  <2>. QED BY <2>1
<1>. QED BY <1>1, <1>2, <1>3, <1>4 DEF Cascade

\* A request that waits with a lock in its hand, and does not come to the home
\* last, has locked its home and waits for something else; what it asks for
\* last it does not hold.
LEMMA WaitingHolder ==
  ASSUME IndInv, NEW r \in Request, request[r] # None, held[r] # {},
         NEW lock \in Wanted(r), request[r].kind \notin HomeLast
  PROVE  /\ <<<<"home", request[r].home>>, "update">> \in held[r]
         /\ lock[1][1] # "home"
         /\ request[r].kind \in Three => ThirdLock(request[r]) \notin held[r]
         /\ request[r].kind \in {"rename category", "delete category"}
               /\ lock[1][1] = "category" => \A l \in held[r] : l[1][1] # "category"
<1>1. PICK p \in Payload : p = request[r]
  BY DEF IndInv, TypeOK
<1>2. /\ TypeOK /\ FirstLock(p) \in held[r]
      /\ \A l \in held[r] : MayHold(p, l)
      /\ p.kind \in Three /\ ThirdLock(p) \in held[r] => SecondLock(p) \in held[r]
  BY <1>1 DEF IndInv, Locking, InOrder, LocksFit
<1>3. p.kind \notin One
  <2>1. ASSUME p.kind \in One PROVE FALSE
    <3>1. Wanted(r) = {FirstLock(p)} \ held[r]
      BY <1>1, <2>1, LocksOfOne, OneStage
    <3>. QED BY <1>2, <3>1
  <2>. QED BY <2>1
<1>4. CASE p.kind \in Two
  <2>1. p.kind \in {"delete category", "settings member", "settings add"}
    BY <1>1, <1>4 DEF Two, HomeLast
  <2>2. lock = SecondLock(p) /\ lock \notin held[r]
    <3>1. Wanted(r) = (IF FirstLock(p) \in held[r] THEN {SecondLock(p)} ELSE {FirstLock(p)})
                      \ held[r]
      BY <1>1, <1>4, LocksOfTwo, TwoStages
    <3>. QED BY <1>2, <3>1
  <2>3. /\ FirstLock(p) = <<<<"home", p.home>>, "update">> /\ FirstLock(p)[1][1] = "home"
        /\ SecondLock(p)[1][1] # "home"
    BY <2>1 DEF FirstLock, SecondLock
  <2>4. \A l \in held[r] : l = FirstLock(p)
    BY <1>2, <2>1, <2>2 DEF MayHold, Cascade, Two, Three
  <2>5. p.kind \notin Three
    BY <2>1 DEF Three
  <2>. QED BY <1>1, <1>2, <2>2, <2>3, <2>4, <2>5
<1>5. CASE p.kind \in Three
  <2>1. /\ FirstLock(p) = <<<<"home", p.home>>, "update">> /\ FirstLock(p)[1][1] = "home"
        /\ SecondLock(p)[1][1] # "home" /\ ThirdLock(p)[1][1] \notin {"home", "category"}
    BY <1>5 DEF Three, FirstLock, SecondLock, ThirdLock
  <2>2. /\ lock \in {SecondLock(p), ThirdLock(p)} /\ lock \notin held[r]
        /\ ThirdLock(p) \notin held[r]
    <3>1. Wanted(r) = (IF FirstLock(p) \notin held[r] THEN {FirstLock(p)} ELSE
                       IF SecondLock(p) \notin held[r] THEN {SecondLock(p)} ELSE {ThirdLock(p)})
                      \ held[r]
      BY <1>1, <1>5, LocksOfThree, ThreeStages
    <3>. QED BY <1>2, <1>5, <3>1
  <2>3. lock[1][1] = "category" => \A l \in held[r] : l[1][1] # "category"
    <3>. SUFFICES ASSUME lock[1][1] = "category", NEW l \in held[r]
                  PROVE  l[1][1] # "category"
      OBVIOUS
    <3>1. lock = SecondLock(p)
      BY <2>1, <2>2
    <3>2. l = FirstLock(p)
      BY <1>2, <1>5, <2>2, <3>1 DEF MayHold, Cascade, Three
    <3>. QED BY <2>1, <3>2
  <2>. QED BY <1>1, <1>2, <2>1, <2>2, <2>3
<1>6. CASE p.kind = "delete home"
  <2>1. FirstLock(p) = <<<<"home", p.home>>, "update">>
    BY <1>6 DEF FirstLock
  <2>2. lock \notin held[r] /\ MayHold(p, lock)
    BY <1>1, <1>2, WantedFits
  <2>3. Cascade(p, lock)
    BY <1>2, <1>6, <2>2 DEF MayHold, Two, Three
  <2>4. lock[1][1] # "home"
    BY <2>3, CascadeRows
  <2>. QED BY <1>1, <1>2, <1>6, <2>1, <2>4 DEF Three
<1>. QED BY <1>1, <1>3, <1>4, <1>5, <1>6, PayloadParts DEF One, Two, Three

\* The row, or the entry, is the home's.
InHome(row, h) ==
    /\ row[1] \in {"home", "name"} => row[2] = h
    /\ row[1] \in {"member", "entry"} => row[2][1] = h
    /\ row[1] = "item" => items[row[2]].home = h
    /\ row[1] = "category" => homeOf[row[2]] = h

\* What a payload names is its home's, items and categories apart, and the name
\* that a home wants.
LEMMA LocksInHome ==
  ASSUME NEW p \in Payload, NEW l, MayHold(p, l),
         p.kind = "rename home" => l # ThirdLock(p)
  PROVE  /\ l[1][1] \in {"home", "name"} => l[1][2] = p.home
         /\ l[1][1] \in {"member", "entry"} => l[1][2][1] = p.home
<1>1. CASE l = FirstLock(p)
  BY <1>1 DEF FirstLock
<1>2. CASE p.kind \in Two \cup Three /\ l = SecondLock(p)
  BY <1>2 DEF SecondLock, Two, Three
<1>3. CASE p.kind \in Three /\ l = ThirdLock(p)
  BY <1>3 DEF ThirdLock, Three
<1>4. CASE Cascade(p, l)
  BY <1>4, CascadeRows
<1>. QED BY <1>1, <1>2, <1>3, <1>4 DEF MayHold

LEMMA HeldInHome ==
  ASSUME IndInv, NEW r \in Request, request[r] # None, NEW l \in held[r],
         request[r].kind = "rename home" => l # ThirdLock(request[r])
  PROVE  InHome(l[1], request[r].home)
<1>1. PICK p \in Payload : p = request[r]
  BY DEF IndInv, TypeOK
<1>2. MayHold(p, l) /\ Stays(p, l[1])
  BY <1>1 DEF IndInv, Locking, LocksFit
<1>3. /\ l[1][1] \in {"home", "name"} => l[1][2] = p.home
      /\ l[1][1] \in {"member", "entry"} => l[1][2][1] = p.home
  BY <1>1, <1>2, LocksInHome
<1>. QED BY <1>1, <1>2, <1>3 DEF InHome, Stays, Gone

\* Only a category may be asked for in another home.
LEMMA WantedInHome ==
  ASSUME IndInv, NEW r \in Request, request[r] # None, held[r] # {},
         NEW lock \in Wanted(r),
         request[r].kind \notin HomeLast \cup {"rename home"}
  PROVE  \/ InHome(lock[1], request[r].home)
         \/ /\ request[r].kind \in {"rename category", "delete category"}
            /\ lock[1][1] = "category"
<1>1. PICK p \in Payload : p = request[r]
  BY DEF IndInv, TypeOK
<1>2. /\ MayHold(p, lock) /\ lock \notin held[r]
      /\ Cascade(p, lock) /\ lock[1][1] = "item" => items[lock[1][2]].home = p.home
      /\ Cascade(p, lock) /\ lock[1][1] = "category" => homeOf[lock[1][2]] = p.home
  BY <1>1, WantedFits DEF IndInv
<1>3. /\ lock[1][1] \in {"home", "name"} => lock[1][2] = p.home
      /\ lock[1][1] \in {"member", "entry"} => lock[1][2][1] = p.home
  BY <1>1, <1>2, LocksInHome
<1>4. lock # FirstLock(p)
  BY <1>1, <1>2 DEF IndInv, Locking, InOrder
<1>5. CASE p.kind \in Two \cup Three /\ lock = SecondLock(p)
  <2>1. /\ lock[1][1] # "item"
        /\ lock[1][1] = "category" => p.kind \in {"rename category", "delete category"}
    BY <1>1, <1>5 DEF SecondLock, Two, Three, HomeLast
  <2>. QED BY <1>1, <1>3, <2>1 DEF InHome
<1>6. CASE p.kind \in Three /\ lock = ThirdLock(p)
  <2>1. lock[1][1] \notin {"item", "category"}
    BY <1>6 DEF ThirdLock
  <2>. QED BY <1>1, <1>3, <2>1 DEF InHome
<1>7. CASE Cascade(p, lock)
  BY <1>1, <1>2, <1>3, <1>7 DEF InHome
<1>. QED BY <1>2, <1>4, <1>5, <1>6, <1>7 DEF MayHold

\* Two requests that both wait, holding their homes, have different homes: one
\* can only wait for the other with a category of that other's home.
LEMMA AcrossHomes ==
  ASSUME IndInv, NEW r \in Request, NEW q \in Request, WaitsFor(r, q),
         request[q] # None, held[r] # {}, held[q] # {}, Wanted(q) # {},
         request[r].kind \notin HomeLast \cup {"rename home"},
         request[q].kind \notin HomeLast
  PROVE  /\ request[r].kind \in {"rename category", "delete category"}
         /\ \E lock \in Wanted(r) : lock[1][1] = "category"
         /\ \E l \in held[q] : l[1][1] = "category"
<1>1. request[r] # None /\ r # q
  BY DEF WaitsFor
<1>2. PICK lock \in Wanted(r), l \in held[q] : l[1] = lock[1]
  BY DEF WaitsFor, Blocks
<1>3. PICK next \in Wanted(q) : TRUE
  OBVIOUS
<1>4. /\ <<<<"home", request[r].home>>, "update">> \in held[r] /\ lock[1][1] # "home"
      /\ <<<<"home", request[q].home>>, "update">> \in held[q]
      /\ request[q].kind \in Three => ThirdLock(request[q]) \notin held[q]
  BY <1>1, <1>2, <1>3, WaitingHolder
<1>5. request[r].home # request[q].home
  BY <1>1, <1>4, Exclusive DEF IndInv, Locking
<1>6. InHome(l[1], request[q].home)
  <2>1. request[q].kind = "rename home" => l # ThirdLock(request[q])
    BY <1>2, <1>4 DEF Three
  <2>. QED BY <1>2, <2>1, HeldInHome
<1>7. ~InHome(lock[1], request[r].home)
  <2>1. l[1] \in Row
    <3>1. l \in Lock
      BY <1>2 DEF IndInv, TypeOK
    <3>. QED BY <3>1 DEF Lock
  <2>2. l[1][1] \in {"home", "name", "member", "entry", "item", "category"}
    BY <2>1 DEF Row
  <2>. QED BY <1>2, <1>5, <1>6, <2>2 DEF InHome
<1>. QED BY <1>1, <1>2, <1>7, WantedInHome

\* In a circle nobody is at the end of its plan.  If none came to the home last,
\* each holds its own; one that is no rename of a home waits for a category that
\* the next one holds, which then cannot wait for a category itself.
THEOREM HouseholdDeadlocksNeedHomeLast == Spec => []DeadlocksNeedHomeLast
<1>1. IndInv => DeadlocksNeedHomeLast
  <2>. SUFFICES ASSUME IndInv, NEW D \in SUBSET Request, Circle(D),
                       \A x \in D : request[x].kind \notin HomeLast,
                       NEW r \in D, request[r].kind # "rename home"
                PROVE  FALSE
    BY DEF DeadlocksNeedHomeLast
  <2>1. \A x \in D : request[x] # None /\ held[x] # {} /\ Wanted(x) # {}
    BY DEF Circle, WaitsFor, Blocks
  <2>2. PICK q \in D : WaitsFor(r, q)
    BY DEF Circle
  <2>3. PICK l \in held[q] : l[1][1] = "category"
    BY <2>1, <2>2, AcrossHomes
  <2>4. request[q].kind # "rename home"
    <3>1. PICK p \in Payload : p = request[q]
      BY <2>1 DEF IndInv, TypeOK
    <3>2. MayHold(p, l)
      BY <3>1 DEF IndInv, Locking, LocksFit
    <3>3. ASSUME p.kind = "rename home" PROVE l[1][1] # "category"
      <4>1. l \in {FirstLock(p), SecondLock(p), ThirdLock(p)}
        BY <3>2, <3>3 DEF MayHold, Cascade
      <4>2. FirstLock(p)[1][1] = "home"
        BY <3>3 DEF FirstLock
      <4>3. SecondLock(p)[1][1] = "name" /\ ThirdLock(p)[1][1] = "name"
        BY <3>3 DEF SecondLock, ThirdLock
      <4>. QED BY <4>1, <4>2, <4>3
    <3>. QED BY <2>3, <3>1, <3>3
  <2>5. PICK x \in D : WaitsFor(q, x)
    BY DEF Circle
  <2>6. /\ request[q].kind \in {"rename category", "delete category"}
        /\ \E lock \in Wanted(q) : lock[1][1] = "category"
    BY <2>1, <2>4, <2>5, AcrossHomes
  <2>. QED BY <2>1, <2>3, <2>6, WaitingHolder
<1>. QED BY HouseholdInductive, <1>1, PTL

-----------------------------------------------------------------------------
(* Paging: rows and their ranks                                            *)

USE PagingAssumption

\* The rows that come before a row, and so its place in the order.
Above(k, r) == {x \in Rows(k) : k[x] > k[r]}
Rank(k, r) == Cardinality(Above(k, r))

-----------------------------------------------------------------------------

\* Sets of rows are finite.
LEMMA SomeRows ==
  ASSUME NEW R \in SUBSET Entry
  PROVE  IsFiniteSet(R) /\ Cardinality(R) \in Nat
BY FS_Subset, FS_CardinalityType DEF PagingAssumption

\* A part of a set of rows has no more rows.
LEMMA FewerRows ==
  ASSUME NEW R \in SUBSET Entry, NEW S \in SUBSET R
  PROVE  Cardinality(S) <= Cardinality(R)
BY SomeRows, FS_Subset

\* Disjoint sets of rows add up.
LEMMA RowsApart ==
  ASSUME NEW R \in SUBSET Entry, NEW S \in SUBSET Entry, R \cap S = {}
  PROVE  Cardinality(R \cup S) = Cardinality(R) + Cardinality(S)
<1>1. /\ IsFiniteSet(R) /\ IsFiniteSet(S)
      /\ Cardinality(R) \in Nat /\ Cardinality(S) \in Nat
  BY SomeRows
<1>2. Cardinality(R \cup S) = Cardinality(R) + Cardinality(S) - Cardinality(R \cap S)
  BY <1>1, FS_Union
<1>3. Cardinality(R \cap S) = 0
  BY FS_EmptySet
<1>. QED BY <1>1, <1>2, <1>3

\* Of some rows, one has the least value of a column.
LEMMA LowestOf ==
  ASSUME NEW f \in [Entry -> Nat], NEW S \in SUBSET Entry, S # {}
  PROVE  \E x \in S : \A y \in S : f[x] <= f[y]
<1>. DEFINE T == {f[y] : y \in S}
<1>1. T \subseteq Nat /\ T # {}
  OBVIOUS
<1>2. PICK m \in T : \A n \in T : ~(<<n, m>> \in OpToRel(<, Nat))
  <2>. HIDE DEF T
  <2>. QED BY <1>1, NatLessThanWellFounded, WFMin
<1>3. \A n \in T : ~(n < m)
  BY <1>1, <1>2 DEF OpToRel
<1>4. PICK x \in S : m = f[x]
  OBVIOUS
<1>5. ASSUME NEW y \in S PROVE f[x] <= f[y]
  BY <1>3, <1>4
<1>. QED BY <1>5

\* Of some rows, one comes last in the order,
LEMMA LowestRow ==
  ASSUME NEW k \in [Entry -> 0..MaxKey], NEW S \in SUBSET Entry, S # {}
  PROVE  \E x \in S : \A y \in S : k[x] <= k[y]
<1>1. k \in [Entry -> Nat]
  BY DEF PagingAssumption
<1>. QED BY <1>1, LowestOf

\* and one comes first.
LEMMA HighestRow ==
  ASSUME NEW k \in [Entry -> 0..MaxKey], NEW S \in SUBSET Entry, S # {}
  PROVE  \E x \in S : \A y \in S : k[y] <= k[x]
<1>. DEFINE f == [r \in Entry |-> MaxKey - k[r]]
<1>1. f \in [Entry -> Nat]
  BY DEF PagingAssumption
<1>2. PICK x \in S : \A y \in S : f[x] <= f[y]
  <2>. HIDE DEF f
  <2>. QED BY <1>1, LowestOf
<1>3. ASSUME NEW y \in S PROVE k[y] <= k[x]
  <2>1. f[x] = MaxKey - k[x] /\ f[y] = MaxKey - k[y]
    OBVIOUS
  <2>2. MaxKey \in Nat /\ k[x] \in Nat /\ k[y] \in Nat
    BY DEF PagingAssumption
  <2>. QED BY <1>2, <2>1, <2>2
<1>. QED BY <1>3

\* Each row that is removed moves at most one other row across an offset.
LEMMA FallBehind ==
  ASSUME NEW k \in [Entry -> 0..MaxKey], ~Tied(k),
         NEW old \in SUBSET Rows(k),
         NEW k2 \in [Entry -> 0..MaxKey],
         k2 = [r \in Entry |-> IF r \in old THEN Absent ELSE k[r]],
         NEW off \in Nat, NEW N \in SUBSET Rows(k2),
         \A r \in N : Rank(k2, r) < off /\ off <= Rank(k, r)
  PROVE  Cardinality(N) <= Cardinality(old)
<1>1. /\ Rows(k) \in SUBSET Entry
      /\ Rows(k2) = Rows(k) \ old
      /\ \A r \in Rows(k2) : k2[r] = k[r]
  BY DEF Rows, Absent
<1>2. /\ old \in SUBSET Entry /\ N \in SUBSET Entry
      /\ Cardinality(old) \in Nat /\ Cardinality(N) \in Nat
  BY <1>1, SomeRows
<1>3. CASE N = {}
  BY <1>2, <1>3, FS_EmptySet
<1>4. CASE N # {}
  <2>1. PICK x \in N : \A y \in N : k[y] <= k[x]
    BY <1>2, <1>4, HighestRow
  <2>2. PICK z \in N : \A y \in N : k[z] <= k[y]
    BY <1>2, <1>4, LowestRow
  <2>. DEFINE A == Above(k2, x)
              B == Above(k2, z)
              D == Above(k, x)
              M == N \ {z}
  <2>3. \A r \in Entry : k[r] \in Nat
    BY DEF PagingAssumption
  <2>4. /\ A \in SUBSET Entry /\ B \in SUBSET Entry
        /\ D \in SUBSET Entry /\ M \in SUBSET Entry
    BY <1>1, <1>2 DEF Above
  <2>5. D \in SUBSET (A \cup old)
    BY <1>1, <2>1 DEF Above
  <2>6. A \cap old = {}
    BY <1>1 DEF Above
  <2>7. M \cap A = {}
    BY <1>1, <1>2, <2>1, <2>3, <2>4 DEF Above
  <2>8. M \in SUBSET B
    <3>. SUFFICES ASSUME NEW y \in M PROVE y \in B
      OBVIOUS
    <3>1. y \in Rows(k) /\ z \in Rows(k) /\ y # z
      BY <1>1
    <3>2. k[y] # k[z]
      BY <3>1 DEF Tied
    <3>3. k[z] <= k[y] /\ k[y] \in Nat /\ k[z] \in Nat
      BY <1>2, <2>2, <2>3
    <3>4. k[y] > k[z]
      BY <3>2, <3>3
    <3>. QED BY <1>1, <3>4 DEF Above
  <2>9. A \in SUBSET B
    <3>. SUFFICES ASSUME NEW y \in A PROVE y \in B
      OBVIOUS
    <3>1. y \in Rows(k2) /\ k[y] > k[x] /\ k[z] <= k[x]
      BY <1>1, <2>1, <2>2 DEF Above
    <3>2. k[y] \in Nat /\ k[x] \in Nat /\ k[z] \in Nat
      BY <1>2, <2>3, <2>4
    <3>3. k[y] > k[z]
      BY <3>1, <3>2
    <3>. QED BY <1>1, <3>1, <3>3 DEF Above
  <2>10. Rank(k2, z) < off /\ off <= Rank(k, x)
    OBVIOUS
  <2>11. Rank(k2, z) = Cardinality(B) /\ Rank(k, x) = Cardinality(D)
    BY DEF Rank
  <2>. HIDE DEF A, B, D
  <2>12. Cardinality(A \cup old) = Cardinality(A) + Cardinality(old)
    BY <1>2, <2>4, <2>6, RowsApart
  <2>13. Cardinality(D) <= Cardinality(A \cup old)
    BY <1>2, <2>4, <2>5, FewerRows
  <2>14. Cardinality(M) = Cardinality(N) - 1
    BY <1>2, SomeRows, FS_RemoveElement
  <2>. HIDE DEF M
  <2>15. Cardinality(M \cup A) = Cardinality(M) + Cardinality(A)
    BY <2>4, <2>7, RowsApart
  <2>16. Cardinality(M \cup A) <= Cardinality(B)
    BY <2>4, <2>8, <2>9, FewerRows
  <2>17. Cardinality(A) \in Nat /\ Cardinality(B) \in Nat /\ Cardinality(D) \in Nat
    BY <2>4, SomeRows
  <2>. QED BY <1>2, <2>10, <2>11, <2>12, <2>13, <2>14, <2>15, <2>16, <2>17
<1>. QED BY <1>3, <1>4

\* Rows that no page up to the counted total can hold.
LEMMA BeyondCount ==
  ASSUME NEW k \in [Entry -> 0..MaxKey],
         NEW n \in Nat, NEW m \in Nat, Cardinality(Rows(k)) <= n + m,
         NEW U \in SUBSET Rows(k), \A r \in U : Rank(k, r) >= n
  PROVE  Cardinality(U) <= m
<1>1. Rows(k) \in SUBSET Entry /\ U \in SUBSET Entry
  BY DEF Rows
<1>2. CASE U = {}
  BY <1>2, FS_EmptySet
<1>3. CASE U # {}
  <2>1. PICK x \in U : \A y \in U : k[y] <= k[x]
    BY <1>1, <1>3, HighestRow
  <2>. DEFINE A == Above(k, x)
  <2>2. A \in SUBSET Entry /\ A \in SUBSET Rows(k)
    BY <1>1 DEF Above
  <2>3. \A r \in Entry : k[r] \in Nat
    BY DEF PagingAssumption
  <2>4. U \cap A = {}
    BY <1>1, <2>1, <2>2, <2>3 DEF Above
  <2>5. Cardinality(A) >= n
    BY DEF Rank
  <2>. HIDE DEF A
  <2>6. Cardinality(U \cup A) = Cardinality(U) + Cardinality(A)
    BY <1>1, <2>2, <2>4, RowsApart
  <2>7. Cardinality(U \cup A) <= Cardinality(Rows(k))
    BY <1>1, <2>2, FewerRows
  <2>8. Cardinality(U) \in Nat /\ Cardinality(A) \in Nat /\ Cardinality(Rows(k)) \in Nat
    BY <1>1, <2>2, SomeRows
  <2>. QED BY <2>5, <2>6, <2>7, <2>8
<1>. QED BY <1>2, <1>3

\* A sorted result holds every row once.
LEMMA SortedOnto ==
  ASSUME NEW s \in Sorted
  PROVE  /\ s \in [1..Cardinality(Rows(key)) -> Rows(key)]
         /\ \A r \in Rows(key) : \E i \in 1..Cardinality(Rows(key)) : s[i] = r
         /\ \A i, j \in 1..Cardinality(Rows(key)) :
               i < j => s[i] # s[j] /\ key[s[i]] >= key[s[j]]
<1>. DEFINE n == Cardinality(Rows(key))
<1>1. Rows(key) \in SUBSET Entry
  BY DEF Rows
<1>2. n \in Nat /\ IsFiniteSet(Rows(key))
  BY <1>1, SomeRows
<1>3. /\ s \in [1..n -> Rows(key)]
      /\ \A i, j \in 1..n : i < j => s[i] # s[j] /\ key[s[i]] >= key[s[j]]
  BY DEF Sorted
<1>4. s \in Injection(1..n, Rows(key))
  <2>. HIDE DEF n
  <2>1. ASSUME NEW i \in 1..n, NEW j \in 1..n, s[i] = s[j] PROVE i = j
    <3>1. ~(i < j) /\ ~(j < i)
      BY <1>3, <2>1
    <3>2. i \in Nat /\ j \in Nat
      BY <1>2
    <3>. QED BY <3>1, <3>2
  <2>. QED BY <1>3, <2>1 DEF Injection, IsInjective
<1>5. Cardinality(1..n) = n
  <2>. HIDE DEF n
  <2>. QED BY <1>2, FS_Interval
<1>6. s \in Surjection(1..n, Rows(key))
  BY <1>2, <1>4, <1>5, FS_Injection
<1>. QED BY <1>3, <1>6 DEF Surjection

\* Without ties a row stands where its rank says.
LEMMA SortedRank ==
  ASSUME key \in [Entry -> 0..MaxKey], ~Tied(key),
         NEW s \in Sorted, NEW i \in 1..Cardinality(Rows(key))
  PROVE  Rank(key, s[i]) = i - 1
<1>. DEFINE n == Cardinality(Rows(key))
<1>1. Rows(key) \in SUBSET Entry /\ n \in Nat
  BY SomeRows DEF Rows
<1>. HIDE DEF n
<1>2. /\ s \in [1..n -> Rows(key)]
      /\ \A r \in Rows(key) : \E j \in 1..n : s[j] = r
      /\ \A h, j \in 1..n : h < j => s[h] # s[j] /\ key[s[h]] >= key[s[j]]
  BY SortedOnto DEF n
<1>3. i \in 1..n /\ i \in Nat /\ 1..(i - 1) \in SUBSET (1..n)
  BY <1>1 DEF n
<1>4. \A r \in Rows(key) : key[r] \in Nat
  BY <1>1 DEF PagingAssumption
<1>5. ASSUME NEW j \in 1..n
      PROVE  key[s[j]] > key[s[i]] <=> j < i
  <2>1. s[j] \in Rows(key) /\ s[i] \in Rows(key) /\ j \in Nat
    BY <1>1, <1>2, <1>3
  <2>2. key[s[j]] \in Nat /\ key[s[i]] \in Nat
    BY <1>4, <2>1
  <2>3. CASE j < i
    <3>1. s[j] # s[i] /\ key[s[j]] >= key[s[i]]
      BY <1>2, <1>3, <2>3
    <3>2. key[s[j]] # key[s[i]]
      BY <2>1, <3>1 DEF Tied
    <3>. QED BY <2>2, <2>3, <3>1, <3>2
  <2>4. CASE j = i
    BY <2>2, <2>4
  <2>5. CASE i < j
    <3>1. key[s[i]] >= key[s[j]]
      BY <1>2, <1>3, <2>5
    <3>. QED BY <1>3, <2>1, <2>2, <2>5, <3>1
  <2>. QED BY <1>3, <2>1, <2>3, <2>4, <2>5
<1>. DEFINE A == Above(key, s[i])
            f == [j \in 1..(i - 1) |-> s[j]]
<1>6. f \in [1..(i - 1) -> A]
  <2>1. ASSUME NEW j \in 1..(i - 1) PROVE s[j] \in A
    <3>1. j \in 1..n /\ j < i
      BY <1>3
    <3>2. s[j] \in Rows(key)
      BY <1>2, <3>1
    <3>. QED BY <1>5, <3>1, <3>2 DEF Above
  <2>. QED BY <2>1
<1>7. f \in Injection(1..(i - 1), A)
  <2>1. ASSUME NEW h \in 1..(i - 1), NEW j \in 1..(i - 1), f[h] = f[j] PROVE h = j
    <3>1. h \in 1..n /\ j \in 1..n /\ s[h] = s[j] /\ h \in Nat /\ j \in Nat
      BY <1>3, <2>1
    <3>2. ~(h < j) /\ ~(j < h)
      BY <1>2, <3>1
    <3>. QED BY <3>1, <3>2
  <2>. HIDE DEF f, A
  <2>. QED BY <1>6, <2>1 DEF Injection, IsInjective
<1>8. f \in Surjection(1..(i - 1), A)
  <2>1. ASSUME NEW r \in A PROVE \E j \in 1..(i - 1) : f[j] = r
    <3>1. r \in Rows(key) /\ key[r] > key[s[i]]
      BY DEF Above
    <3>2. PICK j \in 1..n : s[j] = r
      BY <1>2, <3>1
    <3>3. j < i
      BY <1>5, <3>1, <3>2
    <3>4. j \in 1..(i - 1)
      BY <1>1, <1>3, <3>3
    <3>. QED BY <3>2, <3>4
  <2>. HIDE DEF f, A
  <2>. QED BY <1>6, <2>1 DEF Surjection
<1>. HIDE DEF f, A
<1>9. ExistsBijection(1..(i - 1), A)
  BY <1>7, <1>8 DEF ExistsBijection, Bijection
<1>10. IsFiniteSet(1..(i - 1)) /\ Cardinality(1..(i - 1)) = i - 1
  BY <1>3, FS_Interval
<1>11. Cardinality(A) = i - 1
  BY <1>9, <1>10, FS_Bijection
<1>. QED BY <1>11 DEF A, Rank

-----------------------------------------------------------------------------
(* Pages                                                                   *)

\* Pages follow each other without a gap.
LEMMA NextOffset ==
  ASSUME size \in Nat, page \in Nat
  PROVE  Offset(page + 1) = Offset(page) + size
BY DEF Offset

\* Offsets start at 0.
LEMMA OffsetIsNatural ==
  ASSUME size \in Nat \ {0}, page \in Nat \ {0}
  PROVE  Offset(page) \in Nat
<1>. DEFINE p == page - 1
<1>1. p \in Nat
  OBVIOUS
<1>2. p * size \in Nat
  <2>. HIDE DEF p
  <2>. QED BY <1>1
<1>. QED BY <1>2 DEF Offset

\* A quotient, by its remainder.
LEMMA Quotient ==
  ASSUME NEW a \in Nat, NEW d \in Nat \ {0}
  PROVE  /\ a \div d \in Nat
         /\ (a \div d) * d <= a
         /\ a < (a \div d) * d + d
OBVIOUS

\* Multiples of a page size are a page apart.
LEMMA Multiples ==
  ASSUME NEW a \in Nat, NEW b \in Nat, NEW d \in Nat \ {0}
  PROVE  /\ a <= b => a * d <= b * d
         /\ a < b => a * d + d <= b * d
OBVIOUS

\* The `next` link is there exactly when the total reaches beyond the page.
LEMMA LinkMeansMore ==
  ASSUME size \in Nat \ {0}, page \in Nat \ {0}, NEW n \in Nat
  PROVE  HasNext(n) <=> Offset(page + 1) < n
<1>. DEFINE a == n + size - 1
            q == a \div size
<1>1. a \in Nat
  OBVIOUS
<1>2. q \in Nat /\ q * size <= a /\ a < q * size + size
  <2>. HIDE DEF a
  <2>. QED BY <1>1, Quotient
<1>3. HasNext(n) <=> page < q
  BY DEF HasNext, TotalPages
<1>4. Offset(page + 1) = page * size
  BY DEF Offset
<1>5. page * size \in Nat /\ q * size \in Nat
  <2>. HIDE DEF q
  <2>. QED BY <1>2
<1>. HIDE DEF q
<1>6. CASE page < q
  <2>1. page * size + size <= q * size
    BY <1>2, <1>6, Multiples
  <2>. QED BY <1>2, <1>3, <1>4, <1>5, <1>6, <2>1
<1>7. CASE ~(page < q)
  <2>1. q * size <= page * size
    BY <1>2, <1>7, Multiples
  <2>. QED BY <1>2, <1>3, <1>4, <1>5, <1>7, <2>1
<1>. QED BY <1>6, <1>7

\* More rows never make fewer pages.
LEMMA MorePages ==
  ASSUME size \in Nat \ {0}, NEW n \in Nat, NEW m \in Nat, n <= m
  PROVE  /\ TotalPages(n) \in Nat /\ TotalPages(m) \in Nat
         /\ TotalPages(n) <= TotalPages(m)
<1>. DEFINE a == n + size - 1
            b == m + size - 1
            q == a \div size
            t == b \div size
<1>1. a \in Nat /\ b \in Nat /\ a <= b
  OBVIOUS
<1>2. /\ q \in Nat /\ q * size <= a
      /\ t \in Nat /\ b < t * size + size
  <2>. HIDE DEF a, b
  <2>. QED BY <1>1, Quotient
<1>. HIDE DEF a, b, q, t
<1>3. q * size \in Nat /\ t * size \in Nat
  BY <1>2
<1>4. t < q => t * size + size <= q * size
  BY <1>2, Multiples
<1>5. q <= t
  BY <1>1, <1>2, <1>3, <1>4
<1>. QED BY <1>2, <1>5 DEF TotalPages, a, b, q, t

\* Without ties a page shows the rows whose ranks lie between its offsets.
LEMMA SliceOfRanks ==
  ASSUME key \in [Entry -> 0..MaxKey], ~Tied(key),
         size \in Nat \ {0}, page \in Nat \ {0}, NEW s \in Sorted
  PROVE  /\ Slice(s) \in SUBSET Rows(key)
         /\ \A r \in Rows(key) :
               r \in Slice(s) <=>
                  Offset(page) <= Rank(key, r) /\ Rank(key, r) < Offset(page + 1)
<1>. DEFINE n == Cardinality(Rows(key))
            off == Offset(page)
<1>1. Rows(key) \in SUBSET Entry /\ n \in Nat
  BY SomeRows DEF Rows
<1>2. /\ s \in [1..n -> Rows(key)]
      /\ \A r \in Rows(key) : \E j \in 1..n : s[j] = r
      /\ \A h, j \in 1..n : h < j => s[h] # s[j] /\ key[s[h]] >= key[s[j]]
  BY SortedOnto
<1>3. \A i \in 1..n : Rank(key, s[i]) = i - 1
  BY SortedRank
<1>4. off \in Nat /\ Offset(page + 1) = off + size
  BY OffsetIsNatural, NextOffset
<1>5. Slice(s) = {s[i] : i \in (1..n) \cap (off + 1 .. off + 1 + size - 1)}
  BY <1>2 DEF Slice, Limit
<1>. HIDE DEF n, off
<1>6. Slice(s) \in SUBSET Rows(key)
  BY <1>2, <1>5
<1>7. ASSUME NEW r \in Slice(s)
      PROVE  off <= Rank(key, r) /\ Rank(key, r) < off + size
  <2>1. PICK i \in (1..n) \cap (off + 1 .. off + 1 + size - 1) : r = s[i]
    BY <1>5
  <2>2. Rank(key, r) = i - 1 /\ i \in Int
    BY <1>3, <2>1
  <2>. QED BY <1>4, <2>1, <2>2
<1>8. ASSUME NEW r \in Rows(key), off <= Rank(key, r), Rank(key, r) < off + size
      PROVE  r \in Slice(s)
  <2>1. PICK i \in 1..n : r = s[i]
    BY <1>2
  <2>2. Rank(key, r) = i - 1 /\ i \in Int
    BY <1>3, <2>1
  <2>3. i \in off + 1 .. off + 1 + size - 1
    BY <1>4, <1>8, <2>2
  <2>. QED BY <1>5, <2>1, <2>3
<1>. QED BY <1>4, <1>6, <1>7, <1>8 DEF off

\* A page whose offset is within the listing shows something, ties or not.
LEMMA SliceHasRows ==
  ASSUME size \in Nat \ {0}, page \in Nat \ {0},
         NEW s \in Sorted, Offset(page) < Cardinality(Rows(key))
  PROVE  Slice(s) # {}
<1>. DEFINE n == Cardinality(Rows(key))
            i == Offset(page) + 1
<1>1. n \in Nat
  BY SomeRows DEF Rows
<1>2. s \in [1..n -> Rows(key)]
  BY DEF Sorted
<1>3. Offset(page) \in Nat
  BY OffsetIsNatural
<1>4. i \in 1..n /\ i \in i .. i + size - 1
  BY <1>1, <1>3
<1>5. Slice(s) = {s[j] : j \in (1..n) \cap (i .. i + size - 1)}
  BY <1>2 DEF Slice, Limit
<1>. QED BY <1>4, <1>5

-----------------------------------------------------------------------------
(* Writes                                                                  *)

\* Inserts move no row towards the front.
LEMMA InsertedRows ==
  ASSUME NEW k \in [Entry -> 0..MaxKey],
         NEW new \in SUBSET Entry, new # {}, new \cap Rows(k) = {},
         NEW c \in 1..MaxKey,
         NEW k2, k2 = [r \in Entry |-> IF r \in new THEN c ELSE k[r]]
  PROVE  /\ k2 \in [Entry -> 0..MaxKey]
         /\ Rows(k2) = Rows(k) \cup new
         /\ Cardinality(new) \in Nat \ {0}
         /\ Cardinality(Rows(k2)) = Cardinality(Rows(k)) + Cardinality(new)
         /\ \A r \in Rows(k) : Rank(k, r) <= Rank(k2, r)
         /\ Tied(k) => Tied(k2)
<1>1. k2 \in [Entry -> 0..MaxKey] /\ c # Absent
  BY DEF PagingAssumption, Absent
<1>2. Rows(k2) = Rows(k) \cup new /\ Rows(k) \in SUBSET Entry
  BY <1>1 DEF Rows
<1>3. \A r \in Rows(k) : k2[r] = k[r]
  BY <1>2
<1>4. Cardinality(new) \in Nat \ {0}
  BY SomeRows, FS_EmptySet
<1>5. Cardinality(Rows(k2)) = Cardinality(Rows(k)) + Cardinality(new)
  BY <1>2, RowsApart
<1>6. ASSUME NEW r \in Rows(k)
      PROVE  Rank(k, r) <= Rank(k2, r)
  <2>1. Above(k, r) \in SUBSET Above(k2, r) /\ Above(k2, r) \in SUBSET Entry
    BY <1>2, <1>3 DEF Above, Rows
  <2>. QED BY <2>1, FewerRows DEF Rank
<1>7. Tied(k) => Tied(k2)
  BY <1>2, <1>3 DEF Tied
<1>. QED BY <1>1, <1>2, <1>4, <1>5, <1>6, <1>7

\* Removals move no row towards the end, and tie none.
LEMMA RemovedRows ==
  ASSUME NEW k \in [Entry -> 0..MaxKey],
         NEW old \in SUBSET Rows(k), old # {},
         NEW k2, k2 = [r \in Entry |-> IF r \in old THEN Absent ELSE k[r]]
  PROVE  /\ k2 \in [Entry -> 0..MaxKey]
         /\ Rows(k2) = Rows(k) \ old
         /\ Cardinality(old) \in Nat \ {0}
         /\ Cardinality(Rows(k2)) <= Cardinality(Rows(k))
         /\ \A r \in Rows(k2) : Rank(k2, r) <= Rank(k, r)
         /\ Tied(k2) => Tied(k)
<1>1. k2 \in [Entry -> 0..MaxKey]
  BY DEF PagingAssumption, Absent
<1>2. Rows(k2) = Rows(k) \ old /\ Rows(k) \in SUBSET Entry
  BY DEF Rows, Absent
<1>3. \A r \in Rows(k2) : k2[r] = k[r]
  BY <1>2
<1>4. Cardinality(old) \in Nat \ {0}
  BY <1>2, SomeRows, FS_EmptySet
<1>5. Cardinality(Rows(k2)) <= Cardinality(Rows(k))
  BY <1>2, FewerRows
<1>6. ASSUME NEW r \in Rows(k2)
      PROVE  Rank(k2, r) <= Rank(k, r)
  <2>1. Above(k2, r) \in SUBSET Above(k, r) /\ Above(k, r) \in SUBSET Entry
    BY <1>2, <1>3 DEF Above, Rows
  <2>. QED BY <2>1, FewerRows DEF Rank
<1>7. Tied(k2) => Tied(k)
  BY <1>2, <1>3 DEF Tied
<1>. QED BY <1>1, <1>2, <1>4, <1>5, <1>6, <1>7

\* The count misses no row, and counts nothing but rows and memberless homes.
LEMMA CountedRows ==
  ASSUME PagingTypeOK
  PROVE  /\ Count \in Nat
         /\ Count <= Cardinality(Rows(key)) + bare
         /\ ~Tied(key) => Cardinality(Rows(key)) <= Count
<1>. DEFINE R == Rows(key)
            K == {key[r] : r \in R}
            f == [r \in R |-> key[r]]
<1>1. IsFiniteSet(R) /\ Cardinality(R) \in Nat /\ bare \in Nat
  BY SomeRows DEF Rows, PagingTypeOK, PagingAssumption
<1>2. f \in Surjection(R, K)
  BY DEF Surjection
<1>3. ~Tied(key) => f \in Injection(R, K)
  BY DEF Tied, Injection, IsInjective
<1>. HIDE DEF f, K
<1>4. /\ IsFiniteSet(K)
      /\ Cardinality(K) <= Cardinality(R)
      /\ Cardinality(K) = Cardinality(R) <=> f \in Injection(R, K)
  BY <1>1, <1>2, FS_Surjection
<1>5. Cardinality(K) \in Nat
  BY <1>4, FS_CardinalityType
<1>6. Count = IF kind = "homes" THEN Cardinality(K) + bare ELSE Cardinality(R)
  BY DEF Count, K
<1>. QED BY <1>1, <1>3, <1>4, <1>5, <1>6

-----------------------------------------------------------------------------
(* The invariant                                                           *)

\* The history misses no tie.
TiesNoted == Tied(key) => tied

\* The steady rows the walk has passed without showing them, which removals
\* moved there.
Skipped == {r \in steady : shown[r] = 0 /\ Rank(key, r) < Offset(page)}

SkippedByRemovals ==
    phase # "done" /\ ~tied => Cardinality(Skipped) <= removed

\* The count that decides about the next page misses only what came after it.
CountCoversRows ==
    phase = "rows" /\ ~tied => Cardinality(Rows(key)) <= total + torn

\* Without inserts, rows that were shown stay behind the walk.
ShownAreBehind ==
    phase # "done" /\ ~tied /\ inserted = 0 =>
        \A r \in Rows(key) : shown[r] > 0 => Rank(key, r) < Offset(page)

\* Without removals, a link was counted on rows that are still there.
LinkReachesRows ==
    phase # "done" /\ removed = 0 /\ bare = 0 /\ page > 1 =>
        Offset(page) < Cardinality(Rows(key))

CountHasRows ==
    phase = "rows" /\ removed = 0 /\ bare = 0 => total <= Cardinality(Rows(key))

WalkInv == /\ PagingTypeOK
          /\ TiesNoted
          /\ SkippedByRemovals
          /\ CountCoversRows
          /\ ShownAreBehind
          /\ LinkReachesRows
          /\ CountHasRows
          /\ MissedOnlyByChanges
          /\ RepeatedOnlyByInserts
          /\ LinkedPagesHaveRows

\* What the arithmetic needs of the types.
LEMMA WalkNumbers ==
  ASSUME PagingTypeOK
  PROVE  /\ size \in Nat \ {0} /\ page \in Nat \ {0} /\ total \in Nat
         /\ bare \in Nat /\ inserted \in Nat /\ torn \in Nat /\ removed \in Nat
         /\ Offset(page) \in Nat
         /\ Rows(key) \in SUBSET Entry /\ steady \in SUBSET Rows(key)
         /\ Cardinality(Rows(key)) \in Nat
         /\ \A r \in Entry : Rank(key, r) \in Nat
<1>1. Cardinality(Entry) \in Nat
  BY FS_CardinalityType DEF PagingAssumption
<1>2. /\ size \in Nat \ {0} /\ bare \in Nat
      /\ inserted \in Nat /\ torn \in Nat /\ removed \in Nat
  BY DEF PagingTypeOK, PagingAssumption
<1>3. page \in Nat \ {0}
  <2>1. TotalPages(Cardinality(Entry) + MaxBare) \in Nat
    <3>. DEFINE a == Cardinality(Entry) + MaxBare + size - 1
    <3>1. a \in Nat
      BY <1>1, <1>2 DEF PagingAssumption
    <3>2. a \div size \in Nat
      <4>. HIDE DEF a
      <4>. QED BY <1>2, <3>1, Quotient
    <3>. QED BY <3>2 DEF TotalPages
  <2>. QED BY <2>1 DEF PagingTypeOK
<1>4. total \in Nat
  BY <1>1 DEF PagingTypeOK, PagingAssumption
<1>5. Offset(page) \in Nat
  BY <1>2, <1>3, OffsetIsNatural
<1>6. Rows(key) \in SUBSET Entry /\ steady \in SUBSET Rows(key)
  BY DEF Rows, PagingTypeOK
<1>7. Cardinality(Rows(key)) \in Nat
  BY <1>6, SomeRows
<1>8. ASSUME NEW r \in Entry PROVE Rank(key, r) \in Nat
  <2>1. Above(key, r) \in SUBSET Entry
    BY <1>6 DEF Above
  <2>. QED BY <2>1, SomeRows DEF Rank
<1>. QED BY <1>2, <1>3, <1>4, <1>5, <1>6, <1>7, <1>8

\* Every action preserves the invariant.
LEMMA InitWalkInv == PagingInit => WalkInv
<1>. SUFFICES ASSUME PagingInit PROVE WalkInv
  OBVIOUS
<1>1. PagingTypeOK
  <2>1. Cardinality(Entry) \in Nat
    BY FS_CardinalityType DEF PagingAssumption
  <2>2. total \in 0..(Cardinality(Entry) + MaxBare) /\ bare \in 0..MaxBare
    BY <2>1 DEF PagingInit, PagingAssumption
  <2>3. tied \in BOOLEAN /\ blank \in BOOLEAN
    BY DEF PagingInit, Tied
  <2>4. /\ kind \in Listing /\ size \in 1..MaxSize /\ key \in [Entry -> 0..MaxKey]
        /\ page = 1 /\ phase \in {"count", "rows", "done"}
        /\ steady \subseteq Rows(key) /\ shown \in [Entry -> Nat]
        /\ inserted \in Nat /\ torn \in 0..inserted /\ removed \in Nat
    BY DEF PagingInit
  <2>. QED BY <2>2, <2>3, <2>4 DEF PagingTypeOK
<1>2. Offset(page) = 0
  BY <1>1, WalkNumbers DEF PagingInit, Offset
<1>3. SkippedByRemovals
  <2>1. \A r \in Entry : Rank(key, r) \in Nat
    BY <1>1, WalkNumbers
  <2>2. Skipped = {}
    BY <1>1, <1>2, <2>1 DEF Skipped, PagingTypeOK, Rows
  <2>. QED BY <2>2, FS_EmptySet DEF SkippedByRemovals, PagingInit
<1>4. ShownAreBehind /\ RepeatedOnlyByInserts
  BY DEF ShownAreBehind, RepeatedOnlyByInserts, PagingInit, Rows
<1>. QED BY <1>1, <1>3, <1>4 DEF WalkInv, PagingInit, TiesNoted, CountCoversRows,
     LinkReachesRows, CountHasRows, MissedOnlyByChanges, LinkedPagesHaveRows

LEMMA CountPreserves == ASSUME WalkInv, CountRows PROVE WalkInv'
<1>. USE DEF WalkInv
<1>1. /\ phase = "count" /\ phase' = "rows" /\ total' = Count
      /\ UNCHANGED <<kind, size, key, bare, page, steady, shown, blank>>
      /\ UNCHANGED <<tied, inserted, torn, removed>>
  BY DEF CountRows, table, writes
<1>2. /\ Count \in Nat
      /\ Count <= Cardinality(Rows(key)) + bare
      /\ ~Tied(key) => Cardinality(Rows(key)) <= Count
  BY CountedRows
<1>3. PagingTypeOK'
  <2>1. Cardinality(Rows(key)) \in Nat /\ Cardinality(Rows(key)) <= Cardinality(Entry)
    BY WalkNumbers, FewerRows
  <2>2. Cardinality(Entry) \in Nat /\ bare <= MaxBare /\ bare \in Nat
    BY SomeRows, WalkNumbers DEF PagingTypeOK
  <2>3. Count \in 0..(Cardinality(Entry) + MaxBare)
    BY <1>2, <2>1, <2>2 DEF PagingAssumption
  <2>4. TotalPages(Cardinality(Entry) + MaxBare)'
           = TotalPages(Cardinality(Entry) + MaxBare)
    BY <1>1 DEF TotalPages
  <2>. QED BY <1>1, <2>3, <2>4 DEF PagingTypeOK
<1>4. TiesNoted'
  BY <1>1 DEF TiesNoted
<1>5. Offset(page)' = Offset(page)
  BY <1>1 DEF Offset
<1>6. SkippedByRemovals' /\ ShownAreBehind'
  BY <1>1, <1>5 DEF SkippedByRemovals, Skipped, ShownAreBehind
<1>7. CountCoversRows'
  <2>1. torn \in Nat /\ Cardinality(Rows(key)) \in Nat
    BY WalkNumbers
  <2>. QED BY <1>1, <1>2, <2>1 DEF CountCoversRows, TiesNoted
<1>8. LinkReachesRows'
  BY <1>1, <1>5 DEF LinkReachesRows
<1>9. CountHasRows'
  <2>1. Cardinality(Rows(key)) \in Nat
    BY WalkNumbers
  <2>. QED BY <1>1, <1>2, <2>1 DEF CountHasRows
<1>10. MissedOnlyByChanges' /\ RepeatedOnlyByInserts' /\ LinkedPagesHaveRows'
  BY <1>1 DEF MissedOnlyByChanges, RepeatedOnlyByInserts, LinkedPagesHaveRows
<1>. QED BY <1>1, <1>3, <1>4, <1>6, <1>7, <1>8, <1>9, <1>10

LEMMA FetchPreserves == ASSUME WalkInv, FetchRows PROVE WalkInv'
<1>. USE DEF WalkInv
<1>1. PICK s \in Sorted :
         /\ shown' = [r \in Entry |-> shown[r] + IF r \in Slice(s) THEN 1 ELSE 0]
         /\ blank' = (blank \/ (page > 1 /\ Slice(s) = {}))
  BY DEF FetchRows
<1>2. /\ phase = "rows"
      /\ \/ HasNext(total) /\ page' = page + 1 /\ phase' = "count"
         \/ ~HasNext(total) /\ page' = page /\ phase' = "done"
      /\ total' = 0
      /\ UNCHANGED <<kind, size, key, bare, steady, tied, inserted, torn, removed>>
  BY DEF FetchRows, table, writes
<1>3. /\ size \in Nat \ {0} /\ page \in Nat \ {0} /\ total \in Nat
      /\ torn \in Nat /\ removed \in Nat /\ Offset(page) \in Nat
      /\ Rows(key) \in SUBSET Entry /\ steady \in SUBSET Rows(key)
      /\ Cardinality(Rows(key)) \in Nat
      /\ \A r \in Entry : Rank(key, r) \in Nat
  BY WalkNumbers
<1>4. /\ shown \in [Entry -> Nat] /\ shown' \in [Entry -> Nat]
      /\ key \in [Entry -> 0..MaxKey]
  <2>1. shown \in [Entry -> Nat] /\ key \in [Entry -> 0..MaxKey]
    BY DEF PagingTypeOK
  <2>. QED BY <1>1, <2>1
<1>5. HasNext(total) <=> Offset(page + 1) < total
  BY <1>3, LinkMeansMore
<1>6. Offset(page + 1) = Offset(page) + size
  BY <1>3, NextOffset
<1>8. ~Tied(key) =>
         /\ Slice(s) \in SUBSET Rows(key)
         /\ \A r \in Rows(key) :
               r \in Slice(s) <=>
                  Offset(page) <= Rank(key, r) /\ Rank(key, r) < Offset(page + 1)
  BY <1>3, <1>4, SliceOfRanks
<1>9. PagingTypeOK'
  <2>. DEFINE most == Cardinality(Entry) + MaxBare
  <2>1. Cardinality(Entry) \in Nat /\ most \in Nat
    BY SomeRows DEF PagingAssumption
  <2>2. total <= most /\ TotalPages(most)' = TotalPages(most)
    BY <1>2 DEF PagingTypeOK, TotalPages
  <2>. HIDE DEF most
  <2>3. /\ TotalPages(total) \in Nat /\ TotalPages(most) \in Nat
        /\ TotalPages(total) <= TotalPages(most)
    BY <1>3, <2>1, <2>2, MorePages
  <2>4. page' = 1 \/ page' \in 2..TotalPages(most)
    <3>1. CASE HasNext(total)
      <4>1. page' = page + 1
        BY <1>2, <3>1
      <4>2. page < TotalPages(total)
        BY <3>1 DEF HasNext
      <4>. QED BY <1>3, <2>3, <4>1, <4>2
    <3>2. CASE ~HasNext(total)
      BY <1>2, <3>2 DEF PagingTypeOK, most
    <3>. QED BY <3>1, <3>2
  <2>5. page' = 1 \/ page' \in (2..TotalPages(most))'
    BY <1>2, <2>2, <2>4 DEF most
  <2>6. blank' \in BOOLEAN
    BY <1>1 DEF PagingTypeOK
  <2>7. total' \in 0..most /\ phase' \in {"count", "rows", "done"}
    BY <1>2, <2>1
  <2>. QED BY <1>2, <1>4, <2>5, <2>6, <2>7 DEF PagingTypeOK, most
<1>10. TiesNoted'
  BY <1>2 DEF TiesNoted
\* A steady row that the page reaches is shown by it.
<1>11. ASSUME ~tied
       PROVE  {r \in steady : shown'[r] = 0 /\ Rank(key, r) < Offset(page + 1)}
                 \in SUBSET Skipped
  <2>. SUFFICES ASSUME NEW r \in steady, shown'[r] = 0, Rank(key, r) < Offset(page + 1)
                PROVE  shown[r] = 0 /\ Rank(key, r) < Offset(page)
    BY DEF Skipped
  <2>1. r \in Rows(key) /\ r \in Entry /\ shown[r] \in Nat
    BY <1>3, <1>4
  <2>2. r \notin Slice(s) /\ shown[r] = 0
    BY <1>1, <2>1
  <2>3. ~(Offset(page) <= Rank(key, r))
    BY <1>8, <1>11, <2>1, <2>2 DEF TiesNoted
  <2>. QED BY <1>3, <2>1, <2>2, <2>3
<1>12. Skipped \in SUBSET Entry
  BY <1>3 DEF Skipped
<1>13. SkippedByRemovals'
  <2>. SUFFICES ASSUME phase' # "done", ~tied PROVE Cardinality(Skipped') <= removed
    BY <1>2 DEF SkippedByRemovals
  <2>1. Offset(page)' = Offset(page + 1)
    BY <1>2 DEF Offset
  <2>2. Skipped' \in SUBSET Skipped
    BY <1>2, <1>11, <2>1 DEF Skipped
  <2>3. /\ Cardinality(Skipped) \in Nat /\ Cardinality(Skipped') \in Nat
        /\ Cardinality(Skipped) <= removed
    BY <1>2, <1>12, <2>2, SomeRows DEF SkippedByRemovals
  <2>4. Cardinality(Skipped') <= Cardinality(Skipped)
    BY <1>12, <2>2, FewerRows
  <2>. QED BY <1>3, <2>3, <2>4
<1>14. CountCoversRows' /\ CountHasRows'
  BY <1>2 DEF CountCoversRows, CountHasRows
<1>15. ShownAreBehind'
  <2>. SUFFICES ASSUME phase' # "done", ~tied, inserted = 0,
                       NEW r \in Rows(key), shown'[r] > 0
                PROVE  Rank(key, r) < Offset(page + 1)
    BY <1>2 DEF ShownAreBehind, Offset
  <2>1. r \in Entry /\ shown[r] \in Nat
    BY <1>3, <1>4
  <2>2. CASE r \in Slice(s)
    BY <1>8, <2>2 DEF TiesNoted
  <2>3. CASE r \notin Slice(s)
    <3>1. shown[r] > 0
      BY <1>1, <2>1, <2>3
    <3>2. Rank(key, r) < Offset(page)
      BY <1>2, <3>1 DEF ShownAreBehind
    <3>. QED BY <1>3, <1>6, <2>1, <3>2
  <2>. QED BY <2>2, <2>3
<1>16. LinkReachesRows'
  <2>. SUFFICES ASSUME phase' # "done", removed = 0, bare = 0
                PROVE  Offset(page + 1) < Cardinality(Rows(key))
    BY <1>2 DEF LinkReachesRows, Offset
  <2>1. Offset(page + 1) < total /\ total <= Cardinality(Rows(key))
    BY <1>2, <1>5 DEF CountHasRows
  <2>2. Offset(page + 1) \in Nat
    BY <1>3, <1>6
  <2>. QED BY <1>3, <2>1, <2>2
\* After the last page, what no page reached was not counted.
<1>17. MissedOnlyByChanges'
  <2>. DEFINE missed == {r \in steady : shown'[r] = 0}
              beyond == {r \in Rows(key) : Rank(key, r) >= total}
              early == {r \in steady : shown'[r] = 0 /\ Rank(key, r) < Offset(page + 1)}
  <2>. SUFFICES ASSUME phase' = "done", ~tied
                PROVE  Cardinality(missed) <= removed + torn
    BY <1>2 DEF MissedOnlyByChanges
  <2>1. ~HasNext(total)
    BY <1>2
  <2>2. total <= Offset(page + 1) /\ Offset(page + 1) \in Nat
    BY <1>3, <1>5, <1>6, <2>1
  <2>3. missed \in SUBSET (early \cup beyond)
    <3>. SUFFICES ASSUME NEW r \in missed, r \notin early PROVE r \in beyond
      OBVIOUS
    <3>1. r \in Rows(key) /\ Rank(key, r) \in Nat /\ ~(Rank(key, r) < Offset(page + 1))
      BY <1>3
    <3>. QED BY <1>3, <2>2, <3>1
  <2>4. /\ early \in SUBSET Skipped
        /\ early \in SUBSET Entry /\ beyond \in SUBSET Entry
        /\ beyond \in SUBSET Rows(key)
    BY <1>3, <1>11
  <2>5. Cardinality(Rows(key)) <= total + torn
    BY <1>2 DEF CountCoversRows
  <2>6. Cardinality(beyond) <= torn
    <3>1. \A r \in beyond : Rank(key, r) >= total
      OBVIOUS
    <3>. HIDE DEF beyond
    <3>. QED BY <1>3, <1>4, <2>4, <2>5, <3>1, BeyondCount
  <2>. HIDE DEF missed, early, beyond
  <2>7. Cardinality(Skipped) <= removed
    BY <1>2 DEF SkippedByRemovals
  <2>8. Cardinality(early) <= Cardinality(Skipped)
    BY <1>12, <2>4, FewerRows
  <2>9. /\ early \cup beyond \in SUBSET Entry
        /\ IsFiniteSet(early) /\ IsFiniteSet(beyond)
        /\ Cardinality(early) \in Nat /\ Cardinality(beyond) \in Nat
        /\ Cardinality(Skipped) \in Nat
        /\ Cardinality(early \cap beyond) \in Nat
        /\ Cardinality(early \cup beyond) \in Nat
        /\ Cardinality(missed) \in Nat
    <3>1. /\ early \cup beyond \in SUBSET Entry /\ early \cap beyond \in SUBSET Entry
          /\ missed \in SUBSET Entry
      BY <2>3, <2>4
    <3>. QED BY <1>12, <2>4, <3>1, SomeRows
  <2>10. Cardinality(early \cup beyond) =
            Cardinality(early) + Cardinality(beyond) - Cardinality(early \cap beyond)
    BY <2>9, FS_Union
  <2>11. Cardinality(missed) <= Cardinality(early \cup beyond)
    BY <2>3, <2>9, FewerRows
  <2>. QED BY <1>3, <2>6, <2>7, <2>8, <2>9, <2>10, <2>11
<1>18. RepeatedOnlyByInserts'
  <2>. SUFFICES ASSUME ~tied, inserted = 0, NEW r \in Entry
                PROVE  shown'[r] <= 1
    BY <1>2 DEF RepeatedOnlyByInserts
  <2>1. shown[r] \in Nat /\ shown[r] <= 1
    BY <1>4 DEF RepeatedOnlyByInserts
  <2>2. CASE r \in Slice(s)
    <3>1. r \in Rows(key) /\ Offset(page) <= Rank(key, r)
      BY <1>8, <2>2 DEF TiesNoted
    <3>2. ~(shown[r] > 0)
      BY <1>2, <1>3, <3>1 DEF ShownAreBehind
    <3>. QED BY <1>1, <2>1, <2>2, <3>2
  <2>3. CASE r \notin Slice(s)
    BY <1>1, <2>1, <2>3
  <2>. QED BY <2>2, <2>3
<1>19. LinkedPagesHaveRows'
  <2>. SUFFICES ASSUME removed = 0, bare = 0 PROVE ~blank'
    BY <1>2 DEF LinkedPagesHaveRows
  <2>1. ~blank
    BY DEF LinkedPagesHaveRows
  <2>2. page > 1 => Slice(s) # {}
    BY <1>2, <1>3, SliceHasRows DEF LinkReachesRows
  <2>. QED BY <1>1, <2>1, <2>2
<1>. QED BY <1>9, <1>10, <1>13, <1>14, <1>15, <1>16, <1>17, <1>18, <1>19

LEMMA InsertPreserves ==
  ASSUME WalkInv, NEW new \in SUBSET Entry, NEW c \in 1..MaxKey, Insert(new, c)
  PROVE  WalkInv'
<1>. USE DEF WalkInv
<1>1. /\ phase # "done" /\ new # {} /\ new \cap Rows(key) = {}
      /\ key' = [r \in Entry |-> IF r \in new THEN c ELSE key[r]]
      /\ tied' = (tied \/ Tied(key'))
      /\ inserted' = inserted + Cardinality(new)
      /\ torn' = IF phase = "rows" THEN torn + Cardinality(new) ELSE torn
      /\ UNCHANGED <<kind, size, bare, page, total, phase>>
      /\ UNCHANGED <<steady, shown, blank, removed>>
  BY DEF Insert, Walking, walk
<1>2. /\ page \in Nat \ {0} /\ total \in Nat
      /\ inserted \in Nat /\ torn \in Nat /\ removed \in Nat /\ Offset(page) \in Nat
      /\ Rows(key) \in SUBSET Entry /\ steady \in SUBSET Rows(key)
      /\ Cardinality(Rows(key)) \in Nat
      /\ \A r \in Entry : Rank(key, r) \in Nat
      /\ key \in [Entry -> 0..MaxKey]
  BY WalkNumbers DEF PagingTypeOK
<1>3. PICK k : k = key'
  OBVIOUS
<1>4. /\ k \in [Entry -> 0..MaxKey]
      /\ Rows(k) = Rows(key) \cup new
      /\ Cardinality(new) \in Nat \ {0}
      /\ Cardinality(Rows(k)) = Cardinality(Rows(key)) + Cardinality(new)
      /\ \A r \in Rows(key) : Rank(key, r) <= Rank(k, r)
      /\ Tied(key) => Tied(k)
  BY <1>1, <1>2, <1>3, InsertedRows
<1>5. \A r \in Entry : Rank(k, r) \in Nat
  <2>1. \A r \in Entry : Above(k, r) \in SUBSET Entry
    BY DEF Above, Rows
  <2>. QED BY <2>1, SomeRows DEF Rank
<1>6. Offset(page)' = Offset(page)
  BY <1>1 DEF Offset
<1>7. ~tied' => ~tied /\ ~Tied(key)
  BY <1>1 DEF TiesNoted
<1>8. PagingTypeOK'
  <2>1. TotalPages(Cardinality(Entry) + MaxBare)'
           = TotalPages(Cardinality(Entry) + MaxBare)
    BY <1>1 DEF TotalPages
  <2>2. tied' \in BOOLEAN
    BY <1>1 DEF PagingTypeOK, Tied
  <2>3. torn' \in 0..inserted' /\ inserted' \in Nat
    BY <1>1, <1>4 DEF PagingTypeOK
  <2>4. steady' \subseteq Rows(key')
    BY <1>1, <1>2, <1>3, <1>4
  <2>. QED BY <1>1, <1>3, <1>4, <2>1, <2>2, <2>3, <2>4 DEF PagingTypeOK
<1>9. TiesNoted'
  BY <1>1 DEF TiesNoted
<1>10. SkippedByRemovals'
  <2>. SUFFICES ASSUME ~tied' PROVE Cardinality(Skipped') <= removed
    BY <1>1 DEF SkippedByRemovals
  <2>1. Skipped' = {r \in steady : shown[r] = 0 /\ Rank(k, r) < Offset(page)}
    BY <1>1, <1>3, <1>6 DEF Skipped
  <2>2. Skipped' \in SUBSET Skipped /\ Skipped \in SUBSET Entry
    BY <1>2, <1>4, <1>5, <2>1 DEF Skipped
  <2>3. Cardinality(Skipped) <= removed
    BY <1>1, <1>7 DEF SkippedByRemovals
  <2>4. /\ Cardinality(Skipped') <= Cardinality(Skipped)
        /\ Cardinality(Skipped) \in Nat /\ Cardinality(Skipped') \in Nat
    BY <2>2, FewerRows, SomeRows
  <2>. QED BY <1>2, <2>3, <2>4
<1>11. CountCoversRows'
  BY <1>1, <1>2, <1>3, <1>4, <1>7 DEF CountCoversRows
<1>12. ShownAreBehind' /\ RepeatedOnlyByInserts'
  <2>1. inserted' # 0
    BY <1>1, <1>2, <1>4
  <2>. QED BY <2>1 DEF ShownAreBehind, RepeatedOnlyByInserts
<1>13. LinkReachesRows' /\ CountHasRows'
  BY <1>1, <1>2, <1>3, <1>4, <1>6 DEF LinkReachesRows, CountHasRows
<1>14. MissedOnlyByChanges' /\ LinkedPagesHaveRows'
  BY <1>1 DEF MissedOnlyByChanges, LinkedPagesHaveRows
<1>. QED BY <1>8, <1>9, <1>10, <1>11, <1>12, <1>13, <1>14

LEMMA RemovePreserves ==
  ASSUME WalkInv, NEW old \in SUBSET Entry, Remove(old)
  PROVE  WalkInv'
<1>. USE DEF WalkInv
<1>1. /\ phase # "done" /\ old # {} /\ old \in SUBSET Rows(key)
      /\ key' = [r \in Entry |-> IF r \in old THEN Absent ELSE key[r]]
      /\ steady' = steady \ old
      /\ removed' = removed + Cardinality(old)
      /\ UNCHANGED <<kind, size, page, total, phase>>
      /\ UNCHANGED <<shown, blank, tied, inserted, torn>>
  BY DEF Remove, Walking, walk
<1>2. bare' \in 0..MaxBare
  BY DEF Remove, PagingTypeOK, PagingAssumption
<1>3. /\ page \in Nat \ {0} /\ total \in Nat
      /\ inserted \in Nat /\ torn \in Nat /\ removed \in Nat /\ Offset(page) \in Nat
      /\ Rows(key) \in SUBSET Entry /\ steady \in SUBSET Rows(key)
      /\ Cardinality(Rows(key)) \in Nat
      /\ \A r \in Entry : Rank(key, r) \in Nat
      /\ key \in [Entry -> 0..MaxKey]
  BY WalkNumbers DEF PagingTypeOK
<1>4. PICK k : k = key'
  OBVIOUS
<1>5. /\ k = [r \in Entry |-> IF r \in old THEN Absent ELSE key[r]]
      /\ k \in [Entry -> 0..MaxKey]
      /\ Rows(k) = Rows(key) \ old
      /\ Cardinality(old) \in Nat \ {0}
      /\ Cardinality(Rows(k)) <= Cardinality(Rows(key))
      /\ \A r \in Rows(k) : Rank(k, r) <= Rank(key, r)
      /\ Tied(k) => Tied(key)
  BY <1>1, <1>3, <1>4, RemovedRows
<1>6. /\ Rows(k) \in SUBSET Entry
      /\ Cardinality(Rows(k)) \in Nat
      /\ \A r \in Entry : Rank(k, r) \in Nat
  <2>1. Rows(k) \in SUBSET Entry /\ \A r \in Entry : Above(k, r) \in SUBSET Entry
    BY DEF Above, Rows
  <2>. QED BY <2>1, SomeRows DEF Rank
<1>7. Offset(page)' = Offset(page) /\ removed' # 0
  BY <1>1, <1>3, <1>5 DEF Offset
<1>8. PagingTypeOK'
  <2>1. TotalPages(Cardinality(Entry) + MaxBare)'
           = TotalPages(Cardinality(Entry) + MaxBare)
    BY <1>1 DEF TotalPages
  <2>2. steady' \subseteq Rows(key') /\ removed' \in Nat
    BY <1>1, <1>3, <1>4, <1>5
  <2>. QED BY <1>1, <1>2, <1>4, <1>5, <2>1, <2>2 DEF PagingTypeOK
<1>9. TiesNoted'
  BY <1>1, <1>4, <1>5 DEF TiesNoted
<1>10. SkippedByRemovals'
  <2>. SUFFICES ASSUME ~tied PROVE Cardinality(Skipped') <= removed + Cardinality(old)
    BY <1>1 DEF SkippedByRemovals
  <2>1. ~Tied(key) /\ Cardinality(Skipped) <= removed
    BY <1>1 DEF SkippedByRemovals, TiesNoted
  <2>. DEFINE moved == {r \in Rows(k) : /\ Rank(k, r) < Offset(page)
                                        /\ Offset(page) <= Rank(key, r)}
  <2>2. moved \in SUBSET Rows(k) /\ moved \in SUBSET Entry
    BY <1>6
  <2>3. Skipped' = {r \in steady \ old : shown[r] = 0 /\ Rank(k, r) < Offset(page)}
    BY <1>1, <1>4, <1>7 DEF Skipped
  <2>4. Skipped' \in SUBSET (Skipped \cup moved)
    BY <1>3, <1>5, <1>6, <2>3 DEF Skipped
  <2>5. \A r \in moved : Rank(k, r) < Offset(page) /\ Offset(page) <= Rank(key, r)
    OBVIOUS
  <2>. HIDE DEF moved
  <2>6. Cardinality(moved) <= Cardinality(old)
    BY <1>1, <1>3, <1>5, <2>1, <2>2, <2>5, FallBehind
  <2>7. Skipped \in SUBSET Entry
    BY <1>3 DEF Skipped
  <2>8. /\ Skipped \cup moved \in SUBSET Entry /\ Skipped \cap moved \in SUBSET Entry
        /\ Skipped' \in SUBSET Entry
    BY <2>2, <2>4, <2>7
  <2>9. /\ IsFiniteSet(Skipped) /\ IsFiniteSet(moved)
        /\ Cardinality(Skipped) \in Nat /\ Cardinality(moved) \in Nat
        /\ Cardinality(Skipped \cap moved) \in Nat
        /\ Cardinality(Skipped \cup moved) \in Nat
        /\ Cardinality(Skipped') \in Nat
    BY <2>2, <2>7, <2>8, SomeRows
  <2>10. Cardinality(Skipped \cup moved) =
            Cardinality(Skipped) + Cardinality(moved) - Cardinality(Skipped \cap moved)
    BY <2>9, FS_Union
  <2>11. Cardinality(Skipped') <= Cardinality(Skipped \cup moved)
    BY <2>4, <2>8, FewerRows
  <2>. QED BY <1>3, <1>5, <2>1, <2>6, <2>9, <2>10, <2>11
<1>11. CountCoversRows'
  BY <1>1, <1>3, <1>4, <1>5, <1>6 DEF CountCoversRows
<1>12. ShownAreBehind'
  <2>. SUFFICES ASSUME ~tied, inserted = 0, NEW r \in Rows(k), shown[r] > 0
                PROVE  Rank(k, r) < Offset(page)
    BY <1>1, <1>4, <1>7 DEF ShownAreBehind
  <2>1. r \in Rows(key) /\ Rank(key, r) < Offset(page)
    BY <1>1, <1>5 DEF ShownAreBehind
  <2>. QED BY <1>3, <1>5, <1>6, <2>1
<1>13. LinkReachesRows' /\ CountHasRows' /\ LinkedPagesHaveRows'
  BY <1>7 DEF LinkReachesRows, CountHasRows, LinkedPagesHaveRows
<1>14. MissedOnlyByChanges' /\ RepeatedOnlyByInserts'
  BY <1>1 DEF MissedOnlyByChanges, RepeatedOnlyByInserts
<1>. QED BY <1>8, <1>9, <1>10, <1>11, <1>12, <1>13, <1>14

LEMMA StepWalkInv == WalkInv /\ [PagingNext]_pagingVars => WalkInv'
<1>. SUFFICES ASSUME WalkInv, [PagingNext]_pagingVars PROVE WalkInv'
  OBVIOUS
<1>1. CASE CountRows
  BY <1>1, CountPreserves
<1>2. CASE FetchRows
  BY <1>2, FetchPreserves
<1>3. ASSUME NEW rows \in SUBSET Entry, NEW c \in 1..MaxKey, Insert(rows, c)
      PROVE  WalkInv'
  BY <1>3, InsertPreserves
<1>4. ASSUME NEW rows \in SUBSET Entry, Remove(rows) PROVE WalkInv'
  BY <1>4, RemovePreserves
<1>5. CASE UNCHANGED pagingVars
  BY <1>5 DEF pagingVars, table, walk, writes, WalkInv, PagingTypeOK, TotalPages,
     TiesNoted,
     SkippedByRemovals, Skipped, Offset, CountCoversRows, ShownAreBehind,
     LinkReachesRows, CountHasRows, MissedOnlyByChanges, RepeatedOnlyByInserts,
     LinkedPagesHaveRows
<1>. QED BY <1>1, <1>2, <1>3, <1>4, <1>5 DEF PagingNext

-----------------------------------------------------------------------------
(* Theorems                                                                *)

\* What a walk has shown and skipped, against where rows stand in the order:
\* the invariant the others follow from.
THEOREM PagingInductive == PagingSpec => []WalkInv
<1>. QED BY InitWalkInv, StepWalkInv, PTL DEF PagingSpec

\* The walk never leaves the pages the listing can have.
THEOREM PagingTypes == PagingSpec => []PagingTypeOK
<1>1. WalkInv => PagingTypeOK
  BY DEF WalkInv
<1>. QED BY <1>1, PagingInductive, PTL

\* Without ties, a walk to the last page misses no more steady rows than were
\* removed, or inserted between the two statements of a page.
THEOREM PagingMissedOnlyByChanges == PagingSpec => []MissedOnlyByChanges
<1>1. WalkInv => MissedOnlyByChanges
  BY DEF WalkInv
<1>. QED BY <1>1, PagingInductive, PTL

\* Without ties and inserts, no row is shown twice, whatever is removed.
THEOREM PagingRepeatedOnlyByInserts == PagingSpec => []RepeatedOnlyByInserts
<1>1. WalkInv => RepeatedOnlyByInserts
  BY DEF WalkInv
<1>. QED BY <1>1, PagingInductive, PTL

\* Without removals and memberless homes, a `next` link leads to rows, even if
\* rows have equal keys.
THEOREM PagingLinkedPagesHaveRows == PagingSpec => []LinkedPagesHaveRows
<1>1. WalkInv => LinkedPagesHaveRows
  BY DEF WalkInv
<1>. QED BY <1>1, PagingInductive, PTL
=============================================================================
