------------------------------ MODULE Household ------------------------------
(***************************************************************************)
(* Homes with their members, categories and inventory items, and the       *)
(* requests that change them at the same time.                             *)
(*                                                                         *)
(* A request is one transaction.  It reads and checks without locks, then  *)
(* takes row locks one by one, waiting for those that others hold, and     *)
(* commits when it has them all.  Row locks are PostgreSQL's: FOR UPDATE   *)
(* (also taken by DELETE), the weaker lock of an UPDATE, and FOR KEY       *)
(* SHARE, which lock_for_inventory asks for and which inserting a row that *)
(* refers to another one takes on that one.  The entries of a unique index *)
(* are locked like rows: who wants to enter a key that another transaction *)
(* has entered or given up waits for its end.  A cycle of waiting requests *)
(* is broken by aborting one of them with deadlock_detected (40P01).       *)
(*                                                                         *)
(* The settings routes lock the home first; an inventory write locks the   *)
(* category first and the home when it inserts; an INSERT of a category or *)
(* a membership enters its unique index before its foreign key comes to    *)
(* the home.                                                               *)
(***************************************************************************)
EXTENDS Naturals, FiniteSets

CONSTANTS Home, Category, Item, User,
          Name,       \* the names that categories are given
          Admin,      \* the users with is_admin
          Request,    \* requests that run at the same time
          Kind,       \* the kinds of request an instance has
          None        \* no row, no request

ASSUME HouseholdAssumption ==
    /\ Admin \in SUBSET User
    /\ Kind \in SUBSET {"add item", "update item", "delete item",
                        "create category", "rename category",
                        "delete category", "delete home", "settings home",
                        "rename home", "settings member", "homeuser member",
                        "settings add", "homeuser add"}

\* No code tells a residence from a guest.
Role == {"owner", "member"}

\* What a membership route makes of a member; None stands for its removal.
NewRole == {"member", None}

\* What a request still needs after its first checks: the settings routes look
\* at the caller again.  "rename home" asks for the name that another home has,
\* "settings home" for one that no home has.
Payload ==
    [kind : Kind \cap {"update item"}, home : Home, item : Item, category : Category]
    \cup [kind : Kind \cap {"delete item"}, home : Home, item : Item]
    \cup [kind : Kind \cap {"add item"}, home : Home, category : Category]
    \cup [kind : Kind \cap {"delete home"}, home : Home]
    \cup [kind : Kind \cap {"create category"}, home : Home, name : Name]
    \cup [kind : Kind \cap {"rename category"},
          home : Home, category : Category, name : Name, by : User]
    \cup [kind : Kind \cap {"delete category"},
          home : Home, category : Category, by : User]
    \cup [kind : Kind \cap {"settings home"}, home : Home, by : User]
    \cup [kind : Kind \cap {"rename home"}, home : Home, other : Home, by : User]
    \cup [kind : Kind \cap {"settings member"},
          home : Home, member : User, role : NewRole, by : User]
    \cup [kind : Kind \cap {"homeuser member"},
          home : Home, member : User, role : NewRole]
    \cup [kind : Kind \cap {"settings add"},
          home : Home, member : User, role : NewRole \ {None}, by : User]
    \cup [kind : Kind \cap {"homeuser add"},
          home : Home, member : User, role : NewRole \ {None}]

ASSUME NoneAssumption ==
    /\ None \notin Home \cup Role \cup Payload
    /\ None \notin [home : Home, category : Category]

VARIABLES homes,     \* the homes that exist
          homeOf,    \* per category: its home, or None
          items,     \* per item: its home and category, or None
          role,      \* per home and user: the role, or None
          used,      \* the ids given so far; a new row gets a fresh one
          request,   \* per running request: its payload, or None
          held       \* per request: the row locks it holds

tables == <<homes, homeOf, items, role, used>>
vars == <<tables, request, held>>

\* Rows by their table, with the modes of their locks, and entries of unique
\* indexes: the name of a home, and of what belongs to a home the name of a
\* category or the user of a membership.
Row == ({"home"} \X Home) \cup ({"category"} \X Category) \cup ({"item"} \X Item)
       \cup ({"member"} \X (Home \X User))
       \cup ({"name"} \X Home) \cup ({"entry"} \X (Home \X (Name \cup User)))
\* "none" is a plain SELECT.
Mode == {"none", "key share", "no key update", "update"}

Conflict(m, n) ==
    "none" \notin {m, n} /\ ("update" \in {m, n} \/ (m = n /\ m = "no key update"))

Init ==
    /\ homes \in SUBSET Home
    /\ homeOf \in [Category -> homes \cup {None}]
    /\ items = [i \in Item |-> None]
    /\ \E o \in [homes -> User] :
          role = [h \in Home |-> [u \in User |->
                    IF h \in homes THEN IF u = o[h] THEN "owner" ELSE None
                    ELSE None]]
    /\ used = homes \cup {c \in Category : homeOf[c] # None}
    /\ request = [r \in Request |-> None]
    /\ held = [r \in Request |-> {}]

-----------------------------------------------------------------------------
(* Rows and permissions                                                    *)

CategoriesOf(h) == {c \in Category : homeOf[c] = h}
MembersOf(h) == {u \in User : role[h][u] # None}
ItemsOf(h) == {i \in Item : items[i] # None /\ items[i].home = h}
Uses(c) == {i \in Item : items[i] # None /\ items[i].category = c}

Exists(row) ==
    \/ row[1] = "home" /\ row[2] \in homes
    \/ row[1] = "category" /\ homeOf[row[2]] # None
    \/ row[1] = "item" /\ items[row[2]] # None
    \/ row[1] = "member" /\ role[row[2][1]][row[2][2]] # None
    \/ row[1] \in {"name", "entry"}

IsOwner(u, h) == role[h][u] = "owner"

\* Inventory, membership and home routes: the owner, or any administrator.
OwnerOrAdmin(u, h) == IsOwner(u, h) \/ u \in Admin

\* The settings routes and categories also want an administrator to be a member.
Manages(u, h) == role[h][u] # None /\ OwnerOrAdmin(u, h)

Settings(k) == k \in {"settings home", "rename home", "rename category",
                     "delete category", "settings member", "settings add"}
Adding(k) == k \in {"settings add", "homeuser add"}

\* The checks a request makes before it takes its first lock.
Admitted(p, by) ==
    CASE p.kind \in {"add item", "delete home"} ->
            p.home \in homes /\ OwnerOrAdmin(by, p.home)
      [] p.kind = "homeuser member" ->
            OwnerOrAdmin(by, p.home) /\ role[p.home][p.member] # None
      [] p.kind = "homeuser add" ->
            /\ p.home \in homes /\ OwnerOrAdmin(by, p.home)
            /\ role[p.home][p.member] = None
      [] p.kind \in {"update item", "delete item"} ->
            p.item \in ItemsOf(p.home) /\ OwnerOrAdmin(by, p.home)
      [] p.kind = "create category" -> Manages(by, p.home)
      [] Settings(p.kind) -> p.by = by

\* Mutant of Editable: owners are not protected.
EditableAny(p) == role[p.home][p.member] # None

\* editable_member: the member exists and is not an owner.
Editable(p) == role[p.home][p.member] \notin {None, "owner"}

-----------------------------------------------------------------------------
(* Locks                                                                   *)

\* Mutant of CategoryMode: the categories are read without a lock.
CategoryModeNone == "none"

\* lock_for_inventory: with_for_update(read=True, key_share=True).
CategoryMode == "key share"

\* The locks of an inventory write, in the order it takes them: the category,
\* and on INSERT the home its foreign key refers to.  A batch locks its
\* categories together, in the order of their ids.
WriteLocks(p) ==
    IF p.kind = "add item"
    THEN <<{<<<<"category", p.category>>, CategoryMode>>},
           {<<<<"home", p.home>>, "key share">>}>>
    ELSE <<{<<<<"category", p.category>>, CategoryMode>>},
           {<<<<"item", p.item>>, "no key update">>}>>

\* managed_home, then home_category, editable_member or the new membership; a
\* rename enters the new name last.  A home's rename gives up its old name, and
\* waits for another home that is giving up the name it wants.
SettingsLocks(p) ==
    LET home == {<<<<"home", p.home>>, "update">>} IN
    CASE p.kind = "settings home" -> <<home>>
      [] p.kind = "rename home" ->
            <<home, {<<<<"name", p.home>>, "update">>}, {<<<<"name", p.other>>, "key share">>}>>
      [] p.kind = "rename category" ->
            <<home, {<<<<"category", p.category>>, "update">>},
              {<<<<"entry", <<p.home, p.name>>>>, "update">>}>>
      [] p.kind = "delete category" ->
            <<home, {<<<<"category", p.category>>, "update">>}>>
      [] p.kind = "settings member" ->
            <<home, {<<<<"member", <<p.home, p.member>>>>, "update">>}>>
      [] p.kind = "settings add" ->
            <<home, {<<<<"entry", <<p.home, p.member>>>>, "update">>}>>

\* INSERT of a category or a membership: the key enters its unique index, then
\* the foreign key asks for the home.
InsertLocks(p) ==
    LET key == IF p.kind = "create category" THEN p.name ELSE p.member
    IN <<{<<<<"entry", <<p.home, key>>>>, "update">>},
         {<<<<"home", p.home>>, "key share">>}>>

\* Mutant of DeleteHomeLocks: the memberships go before the home.
DeleteHomeLocksMembersFirst(p) ==
    <<{<<<<"member", <<p.home, u>>>>, "update">> : u \in MembersOf(p.home)},
      {<<<<"home", p.home>>, "update">>}>>

\* DELETE of the home, which gives up its name, then its cascades, in the order
\* in which their foreign keys were made: members, items, categories.
DeleteHomeLocks(p) ==
    <<{<<<<"home", p.home>>, "update">>},
      {<<<<"name", p.home>>, "update">>},
      {<<<<"member", <<p.home, u>>>>, "update">> : u \in MembersOf(p.home)},
      {<<<<"item", i>>, "update">> : i \in ItemsOf(p.home)},
      {<<<<"category", c>>, "update">> : c \in CategoriesOf(p.home)}>>

Locks(p) ==
    CASE p.kind \in {"add item", "update item"} -> WriteLocks(p)
      [] Settings(p.kind) -> SettingsLocks(p)
      [] p.kind = "delete home" -> DeleteHomeLocks(p)
      [] p.kind \in {"create category", "homeuser add"} -> InsertLocks(p)
      [] p.kind = "delete item" -> <<{<<<<"item", p.item>>, "update">>}>>
      [] p.kind = "homeuser member" ->
            <<{<<<<"member", <<p.home, p.member>>>>, "update">>}>>

\* The locks a request asks for next: what is missing of its first stage that
\* is not complete.
Wanted(r) ==
    LET plan == Locks(request[r])
        open == {n \in DOMAIN plan : ~(plan[n] \subseteq held[r])}
    IN IF open = {} THEN {}
       ELSE LET n == CHOOSE m \in open : \A k \in open : m <= k
            IN plan[n] \ held[r]

Blocks(q, lock) == \E l \in held[q] : l[1] = lock[1] /\ Conflict(l[2], lock[2])

WaitsFor(r, q) == /\ r # q /\ request[r] # None
                  /\ \E lock \in Wanted(r) : Blocks(q, lock)

\* The requests that wait for each other in a circle.
Circle(D) ==
    /\ D # {}
    /\ \A r \in D : /\ \E q \in D : WaitsFor(r, q)
                    /\ \E q \in D : WaitsFor(q, r)

-----------------------------------------------------------------------------
(* A request's transaction                                                 *)

\* Commit or rollback: the locks go, the payload is forgotten.
End(r) == /\ request' = [request EXCEPT ![r] = None]
          /\ held' = [held EXCEPT ![r] = {}]

\* The ids an instance has left, beyond those running requests will take.
Unborn(ids, k) ==
    LET taking == {q \in Request : request[q] # None /\ request[q].kind = k}
    IN IF Cardinality(ids \ used) > Cardinality(taking) THEN ids \ used ELSE {}

\* A client names rows it was shown, and the settings are shown to those who
\* manage the home; a request that comes with a row that is gone already or
\* from anybody else is answered 404, 422 or 403, one that adds a member again
\* 409, and one that gives a member or a home what it has changes nothing.
Named(p) ==
    /\ "by" \in DOMAIN p => Manages(p.by, p.home)
    /\ "category" \in DOMAIN p => homeOf[p.category] # None
    /\ "other" \in DOMAIN p => p.other \in homes \ {p.home}
    /\ "member" \in DOMAIN p =>
          IF Adding(p.kind) THEN role[p.home][p.member] = None
          ELSE role[p.home][p.member] \notin {None, p.role}

\* The unlocked reads with which a request begins; one that is refused here
\* changes nothing.
Begin(r, p, by) ==
    /\ p.kind = "add item" => Unborn(Item, p.kind) # {}
    /\ p.kind = "create category" => Unborn(Category, p.kind) # {}
    /\ Named(p) /\ Admitted(p, by)
    /\ request' = [request EXCEPT ![r] = p]
    /\ UNCHANGED <<tables, held>>

\* A category of another home is as good as none for home_id = :home_id.
Gone(p, row) ==
    \/ ~Exists(row)
    \/ row[1] = "category" /\ homeOf[row[2]] # p.home

\* A settings request reads its membership with the home locked.  A membership
\* that is there already is found by a read or by the primary key.
Refused(p, row) ==
    \/ Settings(p.kind) /\ row[1] = "home" /\ ~Manages(p.by, p.home)
    \/ Adding(p.kind) /\ role[p.home][p.member] # None

\* A name that another category may have: ON CONFLICT DO NOTHING, or 23505.
\* Which categories have which names is left open.
MayBeTaken(p, row) ==
    row[1] = "entry" /\ ~Adding(p.kind) /\ CategoriesOf(p.home) # {}

\* One row lock, when nobody else holds a conflicting one.  A row that is gone
\* by then ends the request: 404 or 422 for a category or a member, a foreign
\* key violation for the home of an insert, StaleDataError for an item.  So
\* does an entry that is taken.
Acquire(r, lock) ==
    LET p == request[r] IN
    /\ p # None
    /\ lock \in Wanted(r)
    /\ ~\E q \in Request \ {r} : Blocks(q, lock)
    /\ \/ /\ Gone(p, lock[1]) \/ Refused(p, lock[1]) \/ MayBeTaken(p, lock[1])
          /\ End(r)
       \/ /\ ~Gone(p, lock[1]) /\ ~Refused(p, lock[1])
          /\ held' = [held EXCEPT ![r] = @ \cup {lock}]
          /\ UNCHANGED request
    /\ UNCHANGED tables

\* PostgreSQL aborts one of the requests of a circle.
AbortDeadlock(r) ==
    /\ \E D \in SUBSET Request : r \in D /\ Circle(D)
    /\ End(r)
    /\ UNCHANGED tables

Ready(r, k) == request[r] # None /\ request[r].kind = k /\ Wanted(r) = {}

AddItem(r) ==
    LET p == request[r] IN
    /\ Ready(r, "add item")
    /\ \E i \in Item \ used :
          /\ items' = [items EXCEPT ![i] = [home |-> p.home, category |-> p.category]]
          /\ used' = used \cup {i}
    /\ End(r)
    /\ UNCHANGED <<homes, homeOf, role>>

UpdateItem(r) ==
    LET p == request[r] IN
    /\ Ready(r, "update item")
    /\ items' = [items EXCEPT ![p.item].category = p.category]
    /\ End(r)
    /\ UNCHANGED <<homes, homeOf, role, used>>

DeleteItem(r) ==
    /\ Ready(r, "delete item")
    /\ items' = [items EXCEPT ![request[r].item] = None]
    /\ End(r)
    /\ UNCHANGED <<homes, homeOf, role, used>>

\* INSERT ... ON CONFLICT DO NOTHING on (home, name), with the name entered.
CreateCategory(r) ==
    LET p == request[r] IN
    /\ Ready(r, "create category")
    /\ \E c \in Category \ used :
          /\ homeOf' = [homeOf EXCEPT ![c] = p.home]
          /\ used' = used \cup {c}
    /\ End(r)
    /\ UNCHANGED <<homes, items, role>>

\* The settings page and the new name of a home: it is locked, for reading
\* too, and no modelled column changes.  The name that another home has is
\* refused (23505), or free if that one has just given it up.
SettingsHome(r) ==
    /\ Ready(r, "settings home") \/ Ready(r, "rename home")
    /\ End(r)
    /\ UNCHANGED tables

\* Only the name changes, or stays if another category has it (23505).
RenameCategory(r) ==
    /\ Ready(r, "rename category")
    /\ End(r)
    /\ UNCHANGED tables

\* Mutant of Restricted: ON DELETE SET NULL or CASCADE instead of RESTRICT.
RestrictedNever(c) == FALSE

\* ON DELETE RESTRICT: an item refers to the category (23503, answered 409).
Restricted(c) == Uses(c) # {}

DeleteCategory(r) ==
    LET p == request[r] IN
    /\ Ready(r, "delete category")
    /\ IF Restricted(p.category)
       THEN End(r) /\ UNCHANGED homeOf
       ELSE End(r) /\ homeOf' = [homeOf EXCEPT ![p.category] = None]
    /\ UNCHANGED <<homes, items, role, used>>

\* A membership change through the settings routes.
SettingsMember(r) ==
    LET p == request[r] IN
    /\ Ready(r, "settings member")
    /\ IF Editable(p)
       THEN /\ role' = [role EXCEPT ![p.home][p.member] = p.role]
            /\ End(r)
       ELSE End(r) /\ UNCHANGED role
    /\ UNCHANGED <<homes, homeOf, items, used>>

\* The same through /homeuser, which knows no protected owner.
HomeUserMember(r) ==
    LET p == request[r] IN
    /\ Ready(r, "homeuser member")
    /\ role' = [role EXCEPT ![p.home][p.member] = p.role]
    /\ End(r)
    /\ UNCHANGED <<homes, homeOf, items, used>>

\* Every row that refers to the home goes with it.
DeleteHome(r) ==
    LET h == request[r].home IN
    /\ Ready(r, "delete home")
    /\ homes' = homes \ {h}
    /\ items' = [i \in Item |-> IF i \in ItemsOf(h) THEN None ELSE items[i]]
    /\ homeOf' = [c \in Category |-> IF homeOf[c] = h THEN None ELSE homeOf[c]]
    /\ role' = [role EXCEPT ![h] = [u \in User |-> None]]
    /\ End(r)
    /\ UNCHANGED used

\* The creator becomes the owner in the same transaction.
CreateHome(h, u) ==
    /\ h \notin used
    /\ homes' = homes \cup {h}
    /\ used' = used \cup {h}
    /\ role' = [role EXCEPT ![h][u] = "owner"]
    /\ UNCHANGED <<homeOf, items, request, held>>

\* add_user_to_home, from either set of routes; the primary key admits one
\* membership.
AddMember(r) ==
    LET p == request[r] IN
    /\ Ready(r, "settings add") \/ Ready(r, "homeuser add")
    /\ role[p.home][p.member] = None
    /\ role' = [role EXCEPT ![p.home][p.member] = p.role]
    /\ End(r)
    /\ UNCHANGED <<homes, homeOf, items, used>>

Commit(r) ==
    \/ AddItem(r) \/ UpdateItem(r) \/ DeleteItem(r)
    \/ CreateCategory(r) \/ RenameCategory(r) \/ DeleteCategory(r)
    \/ SettingsHome(r) \/ SettingsMember(r) \/ HomeUserMember(r)
    \/ AddMember(r) \/ DeleteHome(r)

Advance(r) ==
    \/ request[r] # None /\ \E lock \in Wanted(r) : Acquire(r, lock)
    \/ AbortDeadlock(r)
    \/ Commit(r)

Next ==
    \/ \E r \in Request : Advance(r)
    \/ \E r \in Request : /\ request[r] = None
                          /\ \E p \in Payload, by \in User : Begin(r, p, by)
    \/ \E h \in Home, u \in User : CreateHome(h, u)

Spec == Init /\ [][Next]_vars

-----------------------------------------------------------------------------
(* Properties                                                              *)

Lock == Row \X Mode

TypeOK ==
    /\ homes \in SUBSET Home
    /\ homeOf \in [Category -> homes \cup {None}]
    /\ items \in [Item -> [home : homes, category : Category] \cup {None}]
    /\ role \in [Home -> [User -> Role \cup {None}]]
    /\ used \in SUBSET (Home \cup Category \cup Item)
    /\ request \in [Request -> Payload \cup {None}]
    /\ held \in [Request -> SUBSET Lock]

\* "Services validate category ownership for the selected home": no foreign
\* key makes an item's category belong to the item's home, and no order of
\* inserts, moves and deletions gives an item a category that is gone or that
\* another home has.
ItemsWellPlaced ==
    \A i \in Item : items[i] # None => homeOf[items[i].category] = items[i].home

\* An insert whose category was locked and found never fails on a foreign
\* key: "keep selected categories alive until the inventory transaction
\* ends" keeps the home alive too, whose deletion needs the category.
PreCheckedInsert ==
    \A r \in Request :
        request[r] # None /\ request[r].kind = "add item" /\ held[r] # {} =>
           /\ request[r].home \in homes
           /\ homeOf[request[r].category] = request[r].home

\* The requests that come to the home last, or not at all: inventory writes
\* and the INSERTs that have entered a unique index by then.
HomeLast == {"add item", "update item", "create category", "homeuser add"}

\* Settings writes, home deletions and changes of memberships take their locks
\* in one order.  A deadlock has one of the other requests in it, or it is
\* homes alone that want each other's names.
DeadlocksNeedHomeLast ==
    \A D \in SUBSET Request : Circle(D) =>
        \/ \E r \in D : request[r].kind \in HomeLast
        \/ \A r \in D : request[r].kind = "rename home"

\* A home gets its owner when it is created and never another one, and loses
\* that one only through /homeuser, whatever requests run beside each other.
OwnersAreStable ==
    [][\A h \in homes \cap homes', u \in User :
          /\ role'[h][u] = "owner" => role[h][u] = "owner"
          /\ role[h][u] = "owner" /\ role'[h][u] # "owner" =>
                \E r \in Request : /\ request[r] # None /\ request'[r] = None
                                   /\ request[r].kind = "homeuser member"]_vars
=============================================================================
