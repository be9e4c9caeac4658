------------------------- MODULE MCRealtimeSession -------------------------
(* TLC instances of RealtimeSession. *)
EXTENDS RealtimeSession

CONSTANTS t1, t2
MCProducers == {"engine", "control"}
=============================================================================
