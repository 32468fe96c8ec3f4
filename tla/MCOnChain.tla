------------------------------ MODULE MCOnChain ------------------------------
(***************************************************************************)
(* OnChain with two slots, one offered and one received.                   *)
(***************************************************************************)
EXTENDS OnChain

MCExpiry == [h \in Slot |-> 2 + h]

\* The HTLC outputs come first or last, as their amounts are.
MCOrders == { <<Htlc(0), Htlc(1), ToLocal, ToRemote>>,
              <<ToRemote, Htlc(0), ToLocal, Htlc(1)>> }
=============================================================================
