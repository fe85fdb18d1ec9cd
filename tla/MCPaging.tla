------------------------------ MODULE MCPaging ------------------------------
(***************************************************************************)
(* Four rows on pages of up to three, and three writes during the walk.    *)
(***************************************************************************)
EXTENDS Paging, TLC

\* Sound: the properties speak of no single row.
Symmetry == Permutations(Entry)
=============================================================================
