--------------------------- MODULE MCMessageQueue ---------------------------
(* The message queue on small instances. *)
EXTENDS MessageQueue
=============================================================================
