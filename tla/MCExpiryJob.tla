----------------------------- MODULE MCExpiryJob ----------------------------
(* Bounds and values for checking ExpiryJob.                               *)
EXTENDS ExpiryJob

CONSTANTS j1, j2
=============================================================================
