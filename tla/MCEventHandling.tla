-------------------------- MODULE MCEventHandling ---------------------------
(* Instance of EventHandling for TLC. *)
EXTENDS EventHandling
CONSTANTS t1, t2, t3
=============================================================================
