----------------------------- MODULE MCNotices -----------------------------
(***************************************************************************)
(* Keys: one user may subscribe to a topic and the wildcard on the same    *)
(* channel, and so clash with herself; two users clash on the log channel. *)
(* TwiceKeys: only the first of the two.                                   *)
(***************************************************************************)
EXTENDS Notices, TLC

CONSTANTS ann, bob, carl, expired, expiring, wild, alert1, mail1, mail2

K(u, t, c) == [user |-> u, topic |-> t, channel |-> c]

Keys == {K(ann, expired, "in_app"), K(ann, wild, "in_app"),
         K(ann, wild, "log"), K(bob, expired, "log")}

TwiceKeys == {K(ann, expired, "in_app"), K(ann, wild, "in_app")}

Abouts == (alert1 :> expired)
          @@ (mail1 :> [user |-> carl, kind |-> "activation"])
          @@ (mail2 :> [user |-> carl, kind |-> "reset"])
=============================================================================
