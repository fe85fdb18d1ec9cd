----------------------------- MODULE MCPipeline -----------------------------
(* An instance of Pipeline for TLC: an expiry event, which a producer and    *)
(* an outbox sweeper publish, with an e-mail and an in-app notification.     *)
EXTENDS Pipeline

CONSTANTS c1, s1, w1, p1, ev, mail, inbox

OneProcess == [c \in {c1, s1} |-> w1]

OneEvent == [d \in Delivery |-> ev]

Channels == [d \in Delivery |-> IF d = mail THEN "EMAIL" ELSE "IN_APP"]
=============================================================================
