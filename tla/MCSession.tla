----------------------------- MODULE MCSession -----------------------------
(***************************************************************************)
(* Session on a small instance: the bounds per end.                        *)
(***************************************************************************)
EXTENDS Session

CONSTANTS PingInitiator, PingResponder, OtherInitiator, OtherResponder

Ends(i, r) == [s \in Side |-> IF s = Initiator THEN i ELSE r]

MCMaxPing == Ends(PingInitiator, PingResponder)
MCMaxOther == Ends(OtherInitiator, OtherResponder)
=============================================================================
