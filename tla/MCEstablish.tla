----------------------------- MODULE MCEstablish -----------------------------
(***************************************************************************)
(* Two ends that ask for different depths.                                 *)
(***************************************************************************)
EXTENDS Establish, TLC

CONSTANTS A, B

MCMinDepth == (A :> 1) @@ (B :> 2)
==============================================================================
