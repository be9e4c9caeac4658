-------------------------- MODULE MCEngineRuntime --------------------------
(* TLC instance of EngineRuntime: a second of 5 ns at 3 frames per second,  *)
(* so that deadlines fall between nanoseconds and round both ways.  The     *)
(* clock's arithmetic is checked beside it for every valid cadence with     *)
(* small terms, at each instant and counter the loop reaches.               *)
EXTENDS EngineRuntime

CONSTANT MaxTerm    \* bound: largest numerator and denominator

MCCadence == [num |-> 3, den |-> 1]
MCBudgets == {2, NoBudget}
Cadences  == {c \in [num : 1..MaxTerm, den : 1..MaxTerm] : ValidCadence(c)}

\* In every state in which the catch-up loop calls it (the tick after the next
\* is already due), cap_resync_floor computes the wall-clock floor exactly: the
\* single step up or down is enough for every cadence ("provably sufficient").
ResyncIsWallFloor ==
  \A c \in Cadences :
    deadline_nanos(c, next_index + 1, Seed) <= now =>
      LET floor == cap_resync_floor(c, Seed, now, next_index)
      IN  floor >= next_index + 1 /\ IsWallFloor(c, Seed, now, floor)
=============================================================================
