---------------------------- MODULE MCHaCluster ----------------------------
(* Instances of HaCluster for TLC: node 1 is the configured active and the *)
(* standbys have a higher priority than it.                                 *)
EXTENDS HaCluster

Rising == [n \in Nodes |-> n]
=============================================================================
