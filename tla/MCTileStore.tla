---------------------------- MODULE MCTileStore ----------------------------
(* The TLC instance of TileStore: one producer and the compositor's reader. *)
EXTENDS TileStore
=============================================================================
