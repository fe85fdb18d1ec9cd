--------------------------- MODULE OutboxContract ---------------------------
(***************************************************************************)
(* What the transactional outbox promises to the rest of the backend,      *)
(* without rows, attempts, locks or sweepers.  Each event is in one of     *)
(* four stages:                                                            *)
(*                                                                         *)
(*   absent     no committed transaction has recorded the event;           *)
(*   owed       the event is recorded and the outbox has to publish it;    *)
(*   delivered  the outbox is done: the broker holds at least one copy;    *)
(*   abandoned  the outbox is done: every allowed attempt has failed.      *)
(*                                                                         *)
(* Delivered and abandoned are final, and no copy follows them.  The       *)
(* outbox may publish an event several times before it is done, and a      *)
(* producer whose transaction rolls back may leave a copy of an event that *)
(* stays absent: the outbox is at-least-once, never exactly-once.          *)
(***************************************************************************)
EXTENDS Naturals

CONSTANT Event      \* the logical events, one event_id each

VARIABLES stage,    \* how far the outbox is with each event
          copies    \* copies of each event the broker has accepted

cvars == <<stage, copies>>

Stage == {"absent", "owed", "delivered", "abandoned"}

Open == {"absent", "owed"}

-----------------------------------------------------------------------------

CInit == /\ stage = [e \in Event |-> "absent"]
         /\ copies = [e \in Event |-> 0]

\* The broker accepts one more copy of an event the outbox is not done with.
Publish(e) == /\ stage[e] \in Open
              /\ copies' = [copies EXCEPT ![e] = @ + 1]
              /\ UNCHANGED stage

\* A transaction records events, or settles them: those it calls delivered
\* have a copy in the broker, and those it had settled before stay settled.
Record == /\ stage' \in [Event -> Stage]
          /\ \A e \in Event :
                \/ stage'[e] = stage[e]
                \/ stage[e] \in Open /\ stage'[e] \in {"owed", "abandoned"}
                \/ stage[e] \in Open /\ stage'[e] = "delivered" /\ copies[e] > 0
          /\ UNCHANGED copies

CNext == Record \/ \E e \in Event : Publish(e)

CSpec == CInit /\ [][CNext]_cvars
=============================================================================
