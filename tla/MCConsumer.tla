----------------------------- MODULE MCConsumer -----------------------------
(***************************************************************************)
(* A process with two handlers that retries through the broker and one     *)
(* with a single handler that does not; a message whose handling may end   *)
(* in any way and one whose body is no object.                             *)
(***************************************************************************)
EXTENDS Consumer

CONSTANTS h1, h2, h3, w1, w2, flaky, garbled

Deployed == [h \in Handler |-> IF h = h3 THEN w2 ELSE w1]

Fates == [m \in Message |-> IF m = garbled THEN {"garbled"}
                            ELSE {"handled", "transient", "permanent"}]
=============================================================================
