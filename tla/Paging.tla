------------------------------- MODULE Paging -------------------------------
(***************************************************************************)
(* A client walks through a paginated listing by its `next` links while    *)
(* rows come and go.                                                       *)
(*                                                                         *)
(* Three listings work alike: the items of a home, newest first; the users *)
(* by id; and the homes with their members, where a row is a membership    *)
(* and the total is a number of homes.  A page is two statements, one for  *)
(* the total and one for the rows, and each sees what was committed before *)
(* it began.                                                               *)
(*                                                                         *)
(* Its names are not those of Household, whose rows two of the listings    *)
(* show: HouseholdProofs extends both.                                     *)
(***************************************************************************)
EXTENDS Integers, FiniteSets

CONSTANTS Entry,       \* rows a listing may have
          MaxKey,      \* bound: values of the column the rows are sorted by
          MaxSize,     \* bound: page sizes
          MaxBare,     \* bound: homes without members
          MaxWrites    \* bound: rows inserted and removed during the walk

ASSUME PagingAssumption ==
    /\ IsFiniteSet(Entry)
    /\ MaxKey \in Nat /\ MaxSize \in Nat /\ MaxBare \in Nat /\ MaxWrites \in Nat

Listing == {"items", "users", "homes"}
Absent == 0

VARIABLES kind,       \* the listing
          size,       \* page_size
          key,        \* per row: created_at, or the user's id; Absent
          bare,       \* homes without members
          page,       \* the page requested next
          total,      \* the total this page's first statement found
          phase,      \* "count", "rows" or "done": what the walk does next
          steady,     \* rows that were there all the time (history)
          shown,      \* per row: pages it was on (history)
          blank,      \* a page that was linked to was empty (history)
          tied,       \* two rows had the same key (history)
          inserted,   \* rows inserted during the walk (history)
          torn,       \* those inserted between a page's statements (history)
          removed     \* rows removed during the walk (history)

table == <<kind, size, key, bare>>
walk == <<page, total, phase>>
writes == <<tied, inserted, torn, removed>>
pagingVars == <<table, walk, steady, shown, blank, writes>>

Rows(k) == {r \in Entry : k[r] # Absent}
Tied(k) == \E r, s \in Rows(k) : r # s /\ k[r] = k[s]

PagingInit ==
    /\ kind \in Listing
    /\ size \in 1..MaxSize
    /\ key \in [Entry -> 0..MaxKey]
    /\ kind = "users" => ~Tied(key)
    /\ bare \in IF kind = "homes" THEN 0..MaxBare ELSE {0}
    /\ page = 1 /\ total = 0 /\ phase = "count"
    /\ steady = Rows(key)
    /\ shown = [r \in Entry |-> 0]
    /\ blank = FALSE
    /\ tied = Tied(key)
    /\ inserted = 0 /\ torn = 0 /\ removed = 0

-----------------------------------------------------------------------------
(* A page                                                                  *)

\* Homes are counted with those that have no members; their rows are joined.
Count == IF kind = "homes"
         THEN Cardinality({key[r] : r \in Rows(key)}) + bare
         ELSE Cardinality(Rows(key))

\* ORDER BY one column, descending: rows with equal keys come in any order.
Sorted ==
    LET n == Cardinality(Rows(key)) IN
    {s \in [1..n -> Rows(key)] :
        \A i, j \in 1..n : i < j => s[i] # s[j] /\ key[s[i]] >= key[s[j]]}

\* Mutant of Offset: pages numbered from 0.
OffsetFromZero(p) == p * size

Offset(p) == (p - 1) * size

\* Mutant of Limit: one row more, to see whether there is a next page.
LimitAndOne(n) == n + 1

Limit(n) == n

\* LIMIT and OFFSET.
Slice(s) ==
    LET first == Offset(page) + 1 IN
    {s[i] : i \in DOMAIN s \cap (first .. first + Limit(size) - 1)}

\* Mutant of TotalPages: rounded down, plus one.
TotalPagesFloor(n) == n \div size + 1

TotalPages(n) == (n + size - 1) \div size

HasNext(n) == page < TotalPages(n)

CountRows ==
    /\ phase = "count"
    /\ total' = Count
    /\ phase' = "rows"
    /\ UNCHANGED <<table, page, steady, shown, blank, writes>>

\* The rows, and the client follows `next` if there is one.
FetchRows ==
    /\ phase = "rows"
    /\ \E s \in Sorted :
          /\ shown' = [r \in Entry |-> shown[r] + IF r \in Slice(s) THEN 1 ELSE 0]
          /\ blank' = (blank \/ (page > 1 /\ Slice(s) = {}))
    /\ IF HasNext(total) THEN page' = page + 1 /\ phase' = "count"
                         ELSE page' = page /\ phase' = "done"
    /\ total' = 0
    /\ UNCHANGED <<table, steady, writes>>

-----------------------------------------------------------------------------
(* Other requests                                                          *)

Walking == phase # "done" /\ inserted + removed < MaxWrites

\* A batch of items has one created_at, a new user has a random id, a new
\* member the created_at of its home; an item that is edited so that the
\* listing's filter lets it in has its old created_at.
Insert(new, k) ==
    /\ Walking
    /\ new # {} /\ new \cap Rows(key) = {}
    /\ kind = "users" => Cardinality(new) = 1 /\ \A r \in Entry : key[r] # k
    /\ key' = [r \in Entry |-> IF r \in new THEN k ELSE key[r]]
    /\ tied' = (tied \/ Tied(key'))
    /\ inserted' = inserted + Cardinality(new)
    /\ torn' = IF phase = "rows" THEN torn + Cardinality(new) ELSE torn
    /\ UNCHANGED <<kind, size, bare, walk, steady, shown, blank, removed>>

\* Deleted, or edited so that the filter leaves it out.  A home that loses its
\* last member stays, unless the home is what was deleted.
Remove(old) ==
    /\ Walking
    /\ old # {} /\ old \subseteq Rows(key)
    /\ key' = [r \in Entry |-> IF r \in old THEN Absent ELSE key[r]]
    /\ LET emptied == {key[r] : r \in Rows(key)} \ {key'[r] : r \in Entry} IN
       bare' \in IF kind = "homes"
                 THEN {b \in bare..MaxBare : b <= bare + Cardinality(emptied)}
                 ELSE {0}
    /\ steady' = steady \ old
    /\ removed' = removed + Cardinality(old)
    /\ UNCHANGED <<kind, size, walk, shown, blank, tied, inserted, torn>>

PagingNext ==
    \/ CountRows
    \/ FetchRows
    \/ \E rows \in SUBSET Entry : \/ \E k \in 1..MaxKey : Insert(rows, k)
                                  \/ Remove(rows)

PagingSpec == PagingInit /\ [][PagingNext]_pagingVars

-----------------------------------------------------------------------------
(* Properties                                                              *)

\* The last page that is linked to is within the rows there can be.
PagingTypeOK ==
    /\ kind \in Listing
    /\ size \in 1..MaxSize
    /\ key \in [Entry -> 0..MaxKey]
    /\ bare \in 0..MaxBare
    /\ page = 1 \/ page \in 2..TotalPages(Cardinality(Entry) + MaxBare)
    /\ total \in 0..(Cardinality(Entry) + MaxBare)
    /\ phase \in {"count", "rows", "done"}
    /\ steady \subseteq Rows(key)
    /\ shown \in [Entry -> Nat]
    /\ blank \in BOOLEAN /\ tied \in BOOLEAN
    /\ inserted \in Nat /\ torn \in 0..inserted /\ removed \in Nat

\* Where no two rows have the same key, a walk to the last page misses no more
\* of the rows that were there all the time than rows were removed during the
\* walk, or were inserted between the two statements of one page: inserts
\* between the pages, wherever they land, make it miss none.
MissedOnlyByChanges ==
    phase = "done" /\ ~tied =>
        Cardinality({r \in steady : shown[r] = 0}) <= removed + torn

\* Where no two rows have the same key, a row is shown again only when a row
\* was inserted during the walk: not because another one was removed.
RepeatedOnlyByInserts ==
    ~tied /\ inserted = 0 => \A r \in Entry : shown[r] <= 1

\* A `next` link leads to a page with rows, unless rows were removed during the
\* walk or the listing counts homes that have none.
LinkedPagesHaveRows == removed = 0 /\ bare = 0 => ~blank
=============================================================================
