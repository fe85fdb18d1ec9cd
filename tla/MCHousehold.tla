----------------------------- MODULE MCHousehold -----------------------------
(***************************************************************************)
(* Two homes, so that a category may be another home's, two categories and *)
(* an owner beside an administrator.                                       *)
(***************************************************************************)
EXTENDS Household, TLC

CONSTANTS owner, admin

AllKinds == {"add item", "update item", "delete item", "create category",
             "rename category", "delete category", "delete home",
             "settings home", "rename home", "settings member",
             "homeuser member", "settings add", "homeuser add"}

\* Sound: the properties speak of no single home, category, item or request.
Symmetry == Permutations(Home) \cup Permutations(Category)
            \cup Permutations(Item) \cup Permutations(Request)
=============================================================================
