---------------------------- MODULE MCForwarding ----------------------------
(***************************************************************************)
(* Forwarding from one channel to another.  Four HTLCs are the least with  *)
(* which a slot is used again after a failure that strayed.                *)
(***************************************************************************)
EXTENDS Forwarding

CONSTANTS A, B

MCRoutes == {<<A, B>>}
=============================================================================
