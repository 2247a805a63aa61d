---------------------------- MODULE MCPacketGraph ----------------------------
(***************************************************************************)
(* PacketGraph for TLC: a pool of slots that runs out, frames of two       *)
(* packets, and four packets in all.                                       *)
(***************************************************************************)
EXTENDS PacketGraph
=============================================================================
