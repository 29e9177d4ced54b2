------------------------- MODULE MCOutboxPublisher --------------------------
(* The instance of OutboxPublisher that TLC checks; outbox.cfg gives the   *)
(* constants their values.                                                 *)
EXTENDS OutboxPublisher
=============================================================================
