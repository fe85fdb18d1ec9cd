------------------------------ MODULE MCInbox ------------------------------
(***************************************************************************)
(* Three events and a list of two; a row may exist from the start, so that *)
(* its send is a repeated one.                                             *)
(***************************************************************************)
EXTENDS Inbox, TLC

CONSTANTS e1, e2, e3

Created == (e1 :> 1) @@ (e2 :> 3) @@ (e3 :> 2)
=============================================================================
