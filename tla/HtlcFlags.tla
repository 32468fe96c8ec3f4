----------------------------- MODULE HtlcFlags -----------------------------
(***************************************************************************)
(* One HTLC slot of ln_self_t.cnl_add_htlc[] and the predicates of         *)
(* ln_local.h that read its flags.  The four flags comsend, revrecv,       *)
(* comrecv and revsend follow the commitment_signed / revoke_and_ack       *)
(* exchange of the pending change (its addition, later its deletion) in    *)
(* both directions; the predicates decide which commitment transaction     *)
(* holds the HTLC.  The flag updwait is never set by the program and is    *)
(* left out.                                                               *)
(***************************************************************************)
EXTENDS Naturals

\* LN_ADDHTLC_xxx and LN_DELHTLC_xxx.
AddHtlc == {"NONE", "OFFER", "RECV"}
DelHtlc == {"NONE", "FULFILL", "FAIL", "MALFORMED"}

\* ln_update_add_htlc_t: its identity, its flags (ln_htlcflag_t) and "next",
\* which stands for next_short_channel_id /= 0 (an HTLC still to be forwarded).
HtlcType ==
    [ id : Nat, amount_msat : Nat,
      addhtlc : AddHtlc, delhtlc : DelHtlc, fin_delhtlc : DelHtlc,
      updsend : BOOLEAN,
      comsend : BOOLEAN, revrecv : BOOLEAN,
      comrecv : BOOLEAN, revsend : BOOLEAN,
      next : BOOLEAN ]

\* A slot after memset(0).
EmptyHtlc ==
    [ id |-> 0, amount_msat |-> 0,
      addhtlc |-> "NONE", delhtlc |-> "NONE", fin_delhtlc |-> "NONE",
      updsend |-> FALSE,
      comsend |-> FALSE, revrecv |-> FALSE,
      comrecv |-> FALSE, revsend |-> FALSE,
      next |-> FALSE ]

LN_HTLC_EMPTY(h) == h.addhtlc = "NONE" /\ h.amount_msat = 0
LN_HTLC_ENABLE(h) == ~LN_HTLC_EMPTY(h)

\* All of commitment_signed/revoke_and_ack, both ways, are exchanged.
Exchanged(h) == h.comsend /\ h.revrecv /\ h.comrecv /\ h.revsend

----------------------------------------------------------------------------
(* HTLCs this node offered.                                                *)

LN_HTLC_WILL_ADDHTLC(h) ==
    h.addhtlc = "OFFER" /\ h.delhtlc = "NONE" /\ ~h.updsend

LN_HTLC_ENABLE_LOCAL_ADDHTLC_OFFER(h) ==
    /\ h.addhtlc = "OFFER" /\ h.delhtlc = "NONE"
    /\ h.updsend /\ h.comsend /\ h.revrecv

LN_HTLC_ENABLE_LOCAL_DELHTLC_OFFER(h) ==
    h.addhtlc = "OFFER" /\ h.delhtlc # "NONE"

LN_HTLC_ENABLE_LOCAL_FULFILL_OFFER(h) ==
    h.addhtlc = "OFFER" /\ h.delhtlc = "FULFILL"

\* A slip: the HTLC leaves the peer's commitment as soon as it is deleted.
REMOTE_ADDHTLC_OFFER_Early(h) ==
    h.addhtlc = "OFFER" /\ h.updsend /\ h.delhtlc = "NONE"

LN_HTLC_ENABLE_REMOTE_ADDHTLC_OFFER(h) ==
    /\ h.addhtlc = "OFFER" /\ h.updsend
    /\ ~(h.delhtlc # "NONE" /\ h.comrecv /\ h.revsend)

LN_HTLC_ENABLE_REMOTE_DELHTLC_OFFER(h) ==
    /\ h.addhtlc = "OFFER" /\ h.delhtlc # "NONE"
    /\ h.comrecv /\ h.revsend

\* A slip: any deletion counts as a payment.
REMOTE_FULFILL_OFFER_AnyDeletion(h) ==
    LN_HTLC_ENABLE_REMOTE_DELHTLC_OFFER(h)

LN_HTLC_ENABLE_REMOTE_FULFILL_OFFER(h) ==
    /\ h.addhtlc = "OFFER" /\ h.delhtlc = "FULFILL"
    /\ h.comrecv /\ h.revsend

LN_HTLC_WILL_COMSIG_OFFER(h) ==
    /\ \/ LN_HTLC_ENABLE_REMOTE_ADDHTLC_OFFER(h) /\ h.delhtlc = "NONE"
       \/ LN_HTLC_ENABLE_REMOTE_DELHTLC_OFFER(h)
    /\ ~h.comsend

----------------------------------------------------------------------------
(* HTLCs this node received.                                               *)

LN_HTLC_WILL_DELHTLC(h) ==
    h.addhtlc = "RECV" /\ h.delhtlc # "NONE" /\ ~h.updsend

LN_HTLC_ENABLE_LOCAL_ADDHTLC_RECV(h) ==
    h.addhtlc = "RECV" /\ ~(h.updsend /\ h.comsend /\ h.revrecv)

LN_HTLC_ENABLE_LOCAL_DELHTLC_RECV(h) ==
    /\ h.addhtlc = "RECV" /\ h.delhtlc # "NONE"
    /\ h.updsend /\ h.comsend /\ h.revrecv

LN_HTLC_ENABLE_LOCAL_FULFILL_RECV(h) ==
    /\ h.addhtlc = "RECV" /\ h.delhtlc = "FULFILL"
    /\ h.updsend /\ h.comsend /\ h.revrecv

LN_HTLC_ENABLE_REMOTE_ADDHTLC_RECV(h) ==
    h.addhtlc = "RECV" /\ ~h.updsend /\ h.comrecv /\ h.revsend

LN_HTLC_ENABLE_REMOTE_DELHTLC_RECV(h) ==
    h.addhtlc = "RECV" /\ h.updsend

LN_HTLC_ENABLE_REMOTE_FULFILL_RECV(h) ==
    LN_HTLC_ENABLE_REMOTE_DELHTLC_RECV(h) /\ h.delhtlc = "FULFILL"

LN_HTLC_WILL_COMSIG_RECV(h) ==
    /\ \/ LN_HTLC_ENABLE_REMOTE_ADDHTLC_RECV(h)
       \/ LN_HTLC_ENABLE_REMOTE_DELHTLC_RECV(h)
    /\ ~h.comsend

----------------------------------------------------------------------------
(* What the handlers combine: the HTLCs a commitment_signed received (sent) *)
(* in this state is about.                                                  *)

\* A slip: HTLCs this node offered are left out.
InLocalExchange_NoOffer(h) ==
    /\ LN_HTLC_ENABLE(h)
    /\ LN_HTLC_ENABLE_LOCAL_ADDHTLC_RECV(h) \/ LN_HTLC_ENABLE_LOCAL_DELHTLC_RECV(h)

InLocalExchange(h) ==
    /\ LN_HTLC_ENABLE(h)
    /\ \/ LN_HTLC_ENABLE_LOCAL_ADDHTLC_OFFER(h)
       \/ LN_HTLC_ENABLE_LOCAL_ADDHTLC_RECV(h)
       \/ LN_HTLC_ENABLE_LOCAL_DELHTLC_OFFER(h)
       \/ LN_HTLC_ENABLE_LOCAL_DELHTLC_RECV(h)

InRemoteExchange(h) ==
    /\ LN_HTLC_ENABLE(h)
    /\ \/ LN_HTLC_ENABLE_REMOTE_ADDHTLC_OFFER(h)
       \/ LN_HTLC_ENABLE_REMOTE_ADDHTLC_RECV(h)
       \/ LN_HTLC_ENABLE_REMOTE_DELHTLC_OFFER(h)
       \/ LN_HTLC_ENABLE_REMOTE_DELHTLC_RECV(h)

\* The HTLC starts its deletion only when its addition is exchanged both ways.
clear_htlc_comrevflag(h, del) ==
    IF Exchanged(h)
    THEN [h EXCEPT !.delhtlc = del,
                   !.comsend = FALSE, !.revrecv = FALSE,
                   !.comrecv = FALSE, !.revsend = FALSE]
    ELSE h

clear_htlc(h) == EmptyHtlc
=============================================================================
