------------------------------ MODULE MCOutbox ------------------------------
(* Instances of Outbox for TLC: the .cfg files give the sets and bounds.   *)
EXTENDS Outbox
=============================================================================
