---------------------------- MODULE MCReconnect ----------------------------
(***************************************************************************)
(* Reconnect on small instances.                                           *)
(***************************************************************************)
EXTENDS Reconnect

CONSTANTS
    Capital,                    \* our_msat of both ends when the channel opens
    OfferFunder, OfferFundee,   \* MaxHtlc
    CloseFunder, CloseFundee    \* MaxClose

Ends(funder, fundee) == [p \in Peer |-> IF p = Funder THEN funder ELSE fundee]

MCInitMsat == Ends(Capital, Capital)
MCMaxHtlc == Ends(OfferFunder, OfferFundee)
MCMaxClose == Ends(CloseFunder, CloseFundee)
=============================================================================
