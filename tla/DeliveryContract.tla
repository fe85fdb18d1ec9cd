-------------------------- MODULE DeliveryContract --------------------------
(***************************************************************************)
(* What notification_deliveries promises about the deliveries of an event, *)
(* without leases, claimers, processes or messages.  Each delivery is in   *)
(* one of four stages:                                                     *)
(*                                                                         *)
(*   absent     nobody has handled the event yet;                          *)
(*   owed       attempts are under way or still to come;                   *)
(*   sent       the worker is done: the recipient has it;                  *)
(*   exhausted  the worker is done: every attempt has been used.           *)
(*                                                                         *)
(* Sent and exhausted are final and end the charging of attempts.  Nothing *)
(* reaches a recipient without an attempt of its own, but a claimer that   *)
(* is late may spend its attempt after another one has settled the row:    *)
(* delivery is at-least-once, at most MaxAttempts times.                   *)
(***************************************************************************)
EXTENDS Naturals

CONSTANTS Delivery,      \* one per (event, channel, recipient)
          MaxAttempts    \* attempts a delivery may use

VARIABLES stage,    \* how far the worker is with each delivery
          tries,    \* attempts charged to each delivery
          reached   \* times each delivery got to its recipient

cvars == <<stage, tries, reached>>

Open == {"absent", "owed"}

-----------------------------------------------------------------------------

CInit == /\ stage = [d \in Delivery |-> "absent"]
         /\ tries = [d \in Delivery |-> 0]
         /\ reached = [d \in Delivery |-> 0]

\* An attempt that was charged gets through.
Reach(d) == /\ reached[d] < tries[d]
            /\ reached' = [reached EXCEPT ![d] = @ + 1]
            /\ UNCHANGED <<stage, tries>>

\* The next attempt of a delivery is charged, if one is left.
Charge(d) == /\ stage[d] \in Open
             /\ tries[d] < MaxAttempts
             /\ stage'[d] = "owed"
             /\ tries'[d] = tries[d] + 1

\* The worker is done with a delivery, for one of the two good reasons.
Settle(d) == /\ stage[d] = "owed"
             /\ \/ stage'[d] = "sent" /\ reached[d] > 0
                \/ stage'[d] = "exhausted" /\ tries[d] = MaxAttempts
             /\ tries'[d] = tries[d]

Keep(d) == stage'[d] = stage[d] /\ tries'[d] = tries[d]

\* A transaction charges or settles any number of deliveries.
Record == /\ \A d \in Delivery : Keep(d) \/ Charge(d) \/ Settle(d)
          /\ UNCHANGED reached

CNext == Record \/ \E d \in Delivery : Reach(d)

CSpec == CInit /\ [][CNext]_cvars
=============================================================================
