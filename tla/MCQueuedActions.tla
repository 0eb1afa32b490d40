-------------------------- MODULE MCQueuedActions --------------------------
(* QueuedActions on small tables.                                           *)
EXTENDS QueuedActions

CONSTANTS c1, c2, t1
=============================================================================
