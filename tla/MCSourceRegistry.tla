-------------------------- MODULE MCSourceRegistry --------------------------
(* Instances of SourceRegistry for TLC: the full pool, or one that could    *)
(* spawn no worker at all.  Threads and keys are interchangeable.           *)
EXTENDS SourceRegistry, TLC

FullOrNone == {{}, Workers}
Symmetric  == Permutations(Threads) \cup Permutations(Keys)
=============================================================================
