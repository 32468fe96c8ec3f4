----------------------------- MODULE MCChannel -----------------------------
(***************************************************************************)
(* Channel on small instances: the values a configuration gives per end.   *)
(***************************************************************************)
EXTENDS ChannelProperties

CONSTANTS
    Capital,                    \* our_msat of both ends when the channel opens
    OfferFunder, OfferFundee,   \* MaxHtlc
    CloseFunder, CloseFundee    \* MaxClose

Ends(funder, fundee) == [p \in Peer |-> IF p = Funder THEN funder ELSE fundee]

MCInitMsat == Ends(Capital, Capital)
MCMaxHtlc == Ends(OfferFunder, OfferFundee)
MCMaxClose == Ends(CloseFunder, CloseFundee)
=============================================================================
