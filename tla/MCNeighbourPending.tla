------------------------- MODULE MCNeighbourPending -------------------------
(***************************************************************************)
(* NeighbourPending for TLC: two next hops, of which the table holds one,  *)
(* and three packets.                                                      *)
(***************************************************************************)
EXTENDS NeighbourPending
=============================================================================
