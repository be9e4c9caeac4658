--------------------------- MODULE OutputCadence ---------------------------
(***************************************************************************)
(* What the engine promises its outputs (invariants #1 and #3, ADR-T018):  *)
(* frames leave one at a time, none before its deadline, each under a      *)
(* later tick than the one before; and no tick is left out unless the      *)
(* wall clock ran so far ahead that a full burst of MaxBurst repeats was   *)
(* emitted first.                                                          *)
(***************************************************************************)
EXTENDS OutputClock

CONSTANTS Cadence, Seed, MaxBurst

VARIABLES
  wall,    \* the time source
  out,     \* the last tick emitted, -1 before the first
  burst    \* frames repeated since the last fresh one

cadenceVars == <<wall, out, burst>>

CadenceInit == wall = Seed /\ out = -1 /\ burst = 0

\* Time passes by any amount: the host may deschedule the process.
Elapse == wall' > wall /\ UNCHANGED <<out, burst>>

Due(i) == deadline_nanos(Cadence, i, Seed) <= wall

EmitFresh ==
  /\ out' > out /\ Due(out')
  /\ out' > out + 1 => burst = MaxBurst
  /\ burst' = 0
  /\ UNCHANGED wall

EmitRepeat ==
  /\ out >= 0 /\ burst < MaxBurst
  /\ out' = out + 1 /\ Due(out')
  /\ burst' = burst + 1
  /\ UNCHANGED wall

CadenceSpec == CadenceInit /\ [][Elapse \/ EmitFresh \/ EmitRepeat]_cadenceVars
=============================================================================
