--------------------------- MODULE MCCommandPath ---------------------------
(* Instances of CommandPath for TLC.  Requests, and clients, are            *)
(* interchangeable.                                                         *)
EXTENDS CommandPath, TLC

Symmetric == Permutations(Requests) \cup Permutations(Clients) \cup Permutations(CorrKeys)
=============================================================================
