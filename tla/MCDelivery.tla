----------------------------- MODULE MCDelivery -----------------------------
(* Instances of Delivery for TLC: two worker processes, each with a         *)
(* consumer task and a sweeper task, and the deliveries of one event.       *)
EXTENDS Delivery

CONSTANTS c1, c2, s1, s2, w1, w2, ev, mail, inbox

\* One process per consumer and sweeper pair, as deployed.
Processes == [c \in {c1, c2, s1, s2} |-> IF c \in {c1, s1} THEN w1 ELSE w2]

OneEvent == [d \in Delivery |-> ev]

Channels == [d \in Delivery |-> IF d = mail THEN "EMAIL" ELSE "IN_APP"]
=============================================================================
