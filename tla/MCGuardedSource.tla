--------------------------- MODULE MCGuardedSource ---------------------------
(* An instance of GuardedSource for TLC: a slate of two video AUs and one     *)
(* audio AU.                                                                  *)
EXTENDS GuardedSource, TLC

BothStreams == {"video", "audio"}
BothBaked   == "video" :> <<0, 2>> @@ "audio" :> <<0>>
=============================================================================
