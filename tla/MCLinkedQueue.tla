--------------------------- MODULE MCLinkedQueue ---------------------------
(* The linked queues on a small instance.                                  *)
EXTENDS LinkedQueueClient
=============================================================================
