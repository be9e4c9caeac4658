------------------------- MODULE MCConfigLifecycle -------------------------
(* Instances of ConfigLifecycle for TLC. *)
EXTENDS ConfigLifecycle, TLC

CONSTANTS a, b, bars, hls

MCIds       == {a, b}
MCDisplayed == {a}
MCSynthetic == {bars}
MCDecoded   == {hls}

\* Going from one to the other takes two commands, and a valid document whose
\* displayed source the engine stops, since it is decoded after a restart only.
MCBoot   == a :> bars @@ b :> Absent
Restarts == a :> hls  @@ b :> bars
MCEditor == {MCBoot, Restarts}
=============================================================================
