------------------------------ MODULE MCOutbox ------------------------------
(* The outbox on a small instance: two events, and two relays because the   *)
(* advisory lock can be lost under the first.  Its run checks liveness, so  *)
(* neither are interchanged.                                                *)
EXTENDS Outbox
=============================================================================
