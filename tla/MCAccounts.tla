----------------------------- MODULE MCAccounts -----------------------------
(***************************************************************************)
(* Two addresses that differ in case only, so that they share the cooldown *)
(* key of the resend endpoint, and two usernames.                          *)
(***************************************************************************)
EXTENDS Accounts, TLC

CONSTANTS upper, lower, key

OneKey == [e \in Email |-> key]

\* Sound: the properties speak of no single address, name or request.
Symmetry == Permutations(Email) \cup Permutations(Name) \cup Permutations(Task)
=============================================================================
