-------------------------- MODULE PipelineContract --------------------------
(***************************************************************************)
(* What the notification pipeline promises about each delivery, from the   *)
(* request or job that reports an event to the recipient, without outbox,  *)
(* broker, messages, rows or leases.  The fate of a delivery is            *)
(*                                                                         *)
(*   unknown      nothing of its event is recorded or published;           *)
(*   owed         it is recorded, or on its way;                           *)
(*   sent         the pipeline is done: the recipient has it;              *)
(*   exhausted    the pipeline is done: every attempt to send was used;    *)
(*   unpublished  the pipeline is done: no attempt to publish the event    *)
(*                reached the broker.                                      *)
(*                                                                         *)
(* The last three are final.  What is unpublished never reaches anybody,   *)
(* for any of the event's recipients; a delivery that is sent or exhausted *)
(* may be followed by the last of its attempts, but their number stays     *)
(* within the limit, however often the event was published.                *)
(***************************************************************************)
EXTENDS Naturals

CONSTANTS Delivery,      \* one per (event, channel, recipient)
          EventOf,       \* the event of a delivery
          MaxAttempts    \* attempts to send a delivery may use

VARIABLES fate,     \* how far the pipeline is with each delivery
          reached   \* times each delivery got to its recipient

cvars == <<fate, reached>>

CInit == /\ fate = [d \in Delivery |-> "unknown"]
         /\ reached = [d \in Delivery |-> 0]

-----------------------------------------------------------------------------

Reach(d) == /\ fate[d] \in {"owed", "sent", "exhausted"}
            /\ reached[d] < MaxAttempts
            /\ reached' = [reached EXCEPT ![d] = @ + 1]
            /\ UNCHANGED fate

\* The event is recorded, or published before it is.
Announce(d) == fate[d] = "unknown" /\ fate'[d] = "owed"

\* The outbox gives the event up.
Abandon(d) == /\ fate[d] \in {"unknown", "owed"} /\ fate'[d] = "unpublished"
              /\ reached[d] = 0

Settle(d) == /\ fate[d] = "owed"
             /\ \/ fate'[d] = "sent" /\ reached[d] > 0
                \/ fate'[d] = "exhausted"

Keep(d) == fate'[d] = fate[d]

\* What the outbox has done with an event is the same for all its deliveries.
OneEvent(d, x) ==
    EventOf[d] = EventOf[x] =>
       \A f \in {"unknown", "unpublished"} : fate'[d] = f <=> fate'[x] = f

Advance == /\ \A d \in Delivery : Keep(d) \/ Announce(d) \/ Abandon(d) \/ Settle(d)
           /\ \A d, x \in Delivery : OneEvent(d, x)
           /\ UNCHANGED reached

CNext == Advance \/ \E d \in Delivery : Reach(d)

CSpec == CInit /\ [][CNext]_cvars
=============================================================================
