------------------------------ MODULE MCGossip ------------------------------
(***************************************************************************)
(* Gossip with two peers and a node at the end of every channel.           *)
(***************************************************************************)
EXTENDS Gossip

MCEnds == [c \in Cnl |-> Node]
=============================================================================
