---------------------------- MODULE MCQueueClient ---------------------------
(* Instances of QueueClient for TLC. *)
EXTENDS QueueClient
=============================================================================
