------------------------------- MODULE LnSelf -------------------------------
(***************************************************************************)
(* The channel state one node keeps (ln_self_t) and what the functions of  *)
(* ln.c do to it, as operators from a state to a state.  A module that     *)
(* runs the protocol (Channel) chooses when each one happens.              *)
(*                                                                         *)
(* Two abstractions of data:                                               *)
(*   - our_msat and their_msat only change when a fulfilled HTLC is        *)
(*     removed, so they are kept as the sets paid_out and paid_in of the   *)
(*     offered and received HTLCs that were settled;                       *)
(*   - a signature is the transaction it signs: verifying it is comparing  *)
(*     that transaction with the one built locally.                        *)
(* Every HTLC is above the dust limit.                                     *)
(***************************************************************************)
EXTENDS HtlcFlags, Integers, FiniteSets

CONSTANT LN_HTLC_MAX        \* slots of cnl_add_htlc[]

ASSUME HtlcMaxAssumption == LN_HTLC_MAX \in Nat \ {0}

Slot == 0 .. LN_HTLC_MAX - 1

\* What the peer knows of an HTLC.
RefType == [id : Nat, amount_msat : Nat]
Ref(h) == [id |-> h.id, amount_msat |-> h.amount_msat]

\* A commitment transaction, from the point of view of its owner.
CommitTxType ==
    [ num : Nat,
      offered : SUBSET RefType, received : SUBSET RefType,
      paid_out : SUBSET RefType, paid_in : SUBSET RefType ]

\* A closing transaction, from the point of view of one side.
ClosingTxType ==
    [fee_sat : Nat, paid_out : SUBSET RefType, paid_in : SUBSET RefType]

Status == {"NORMAL", "CLOSE_WAIT", "CLOSE_SPENT"}

\* ln_commit_data_t of each side; only our own commitment has a signature.
CommitLocalType ==
    [ commit_num : Nat, revoke_num : Int, htlc_num : Nat,
      signature : CommitTxType \cup ClosingTxType ]
CommitRemoteType == [commit_num : Nat, revoke_num : Int, htlc_num : Nat]

SelfType ==
    [ cnl_add_htlc : [Slot -> HtlcType],
      htlc_id_num : Nat,
      paid_out : SUBSET RefType, paid_in : SUBSET RefType,
      commit_local : CommitLocalType, commit_remote : CommitRemoteType,
      peer_storage : SUBSET Nat,
      shutdown_flag : SUBSET {"SEND", "RECV"},
      status : Status,
      close_fee_sat : Nat, close_last_fee_sat : Nat ]

\* The channel when funding_locked has been exchanged: commitment 0 is signed.
InitSelf ==
    [ cnl_add_htlc |-> [i \in Slot |-> EmptyHtlc],
      htlc_id_num |-> 0,
      paid_out |-> {}, paid_in |-> {},
      commit_local |->
          [ commit_num |-> 0, revoke_num |-> -1, htlc_num |-> 0,
            signature |-> [ num |-> 0, offered |-> {}, received |-> {},
                            paid_out |-> {}, paid_in |-> {} ] ],
      commit_remote |-> [commit_num |-> 0, revoke_num |-> -1, htlc_num |-> 0],
      peer_storage |-> {},
      shutdown_flag |-> {},
      status |-> "NORMAL",
      close_fee_sat |-> 0, close_last_fee_sat |-> 0 ]

\* What ln_db_self_save writes, read back: the closing fees are not saved.
ln_db_self_save(s) == [s EXCEPT !.close_fee_sat = 0, !.close_last_fee_sat = 0]

ln_status_is_closing(s) == s.status # "NORMAL"

----------------------------------------------------------------------------
(* Transactions.                                                           *)

Refs(s, Holds(_)) ==
    {Ref(s.cnl_add_htlc[i]) :
        i \in {j \in Slot : /\ LN_HTLC_ENABLE(s.cnl_add_htlc[j])
                            /\ Holds(s.cnl_add_htlc[j])}}

\* The local commitment transaction number n.
create_to_local(s, n) ==
    [ num |-> n,
      offered |-> Refs(s, LN_HTLC_ENABLE_LOCAL_ADDHTLC_OFFER),
      received |-> Refs(s, LN_HTLC_ENABLE_LOCAL_ADDHTLC_RECV),
      paid_out |-> s.paid_out \cup Refs(s, LN_HTLC_ENABLE_LOCAL_FULFILL_OFFER),
      paid_in |-> s.paid_in \cup Refs(s, LN_HTLC_ENABLE_LOCAL_FULFILL_RECV) ]

\* The peer's commitment transaction number n: offered and received swap.
create_to_remote(s, n) ==
    [ num |-> n,
      offered |-> Refs(s, LN_HTLC_ENABLE_REMOTE_ADDHTLC_RECV),
      received |-> Refs(s, LN_HTLC_ENABLE_REMOTE_ADDHTLC_OFFER),
      paid_out |-> s.paid_in \cup Refs(s, LN_HTLC_ENABLE_REMOTE_FULFILL_RECV),
      paid_in |-> s.paid_out \cup Refs(s, LN_HTLC_ENABLE_REMOTE_FULFILL_OFFER) ]

HtlcNum(tx) == Cardinality(tx.offered) + Cardinality(tx.received)

\* The closing transaction ignores the HTLCs that are still in a slot.
create_closing_tx(s, fee) ==
    [fee_sat |-> fee, paid_out |-> s.paid_out, paid_in |-> s.paid_in]

\* A slip: the two outputs are not swapped for the peer.
PeerClosingTx_Unswapped(s, fee) == create_closing_tx(s, fee)

\* The same closing transaction as the peer describes it.
PeerClosingTx(s, fee) ==
    [fee_sat |-> fee, paid_out |-> s.paid_in, paid_in |-> s.paid_out]

\* The unilateral close rebuilds the current local commitment from the slots
\* and adds the stored signature: it succeeds when that signature fits.
UnilateralTxValid(s) ==
    create_to_local(s, s.commit_local.commit_num) = s.commit_local.signature

----------------------------------------------------------------------------
(* Adding an HTLC.                                                         *)

\* The first free slot.
FreeSlot(s, i) ==
    /\ LN_HTLC_EMPTY(s.cnl_add_htlc[i])
    /\ \A j \in 0 .. i - 1 : LN_HTLC_ENABLE(s.cnl_add_htlc[j])

set_add_htlc(s, i, amt) ==
    [s EXCEPT !.cnl_add_htlc[i] =
                  [@ EXCEPT !.id = s.htlc_id_num, !.amount_msat = amt],
              !.htlc_id_num = s.htlc_id_num + 1]

ln_add_htlc_set(s, i, amt) ==
    [set_add_htlc(s, i, amt) EXCEPT !.cnl_add_htlc[i].addhtlc = "OFFER"]

\* A forwarded HTLC waits, without a direction, for ln_add_htlc_start_fwd.
ln_add_htlc_set_fwd(s, i, amt) == set_add_htlc(s, i, amt)

ln_add_htlc_start_fwd(s, i) ==
    [s EXCEPT !.cnl_add_htlc[i].addhtlc = "OFFER"]

\* The fates of a received HTLC: settled here, refused, unreadable, forwarded,
\* or refused at once because the next channel is gone or shutting down.
Fate == {"FULFILL", "FAIL", "MALFORMED", "FORWARD", "NEXT_SHUTDOWN"}

\* A slip: a forwarded HTLC is marked for a deletion of its own.
AcceptAddHtlc_MarksForward(s, i, m, fate) ==
    [s EXCEPT !.cnl_add_htlc[i] =
        [@ EXCEPT !.id = m.id, !.amount_msat = m.amount_msat,
                  !.addhtlc = "RECV", !.fin_delhtlc = fate]]

\* NEXT_SHUTDOWN: cbsub_add_htlc_forward calls ln_fail_htlc_set at once.
AcceptedHtlc(h, m, fate) ==
    [h EXCEPT
       !.id = m.id, !.amount_msat = m.amount_msat, !.addhtlc = "RECV",
       !.delhtlc = IF fate = "NEXT_SHUTDOWN" THEN "FAIL" ELSE h.delhtlc,
       !.fin_delhtlc = CASE fate = "FORWARD" -> h.fin_delhtlc
                         [] fate = "NEXT_SHUTDOWN" -> "FAIL"
                         [] OTHER -> fate,
       !.next = (fate = "FORWARD")]

AcceptAddHtlc(s, i, m, fate) ==
    [s EXCEPT !.cnl_add_htlc[i] = AcceptedHtlc(@, m, fate)]

----------------------------------------------------------------------------
(* Deleting an HTLC.                                                       *)

DelHtlcIn(s, i, del) ==
    [s EXCEPT !.cnl_add_htlc[i] = clear_htlc_comrevflag(@, del)]

ln_fulfill_htlc_set(s, i) == DelHtlcIn(s, i, "FULFILL")

ln_fail_htlc_set(s, i) ==
    [DelHtlcIn(s, i, "FAIL") EXCEPT !.cnl_add_htlc[i].delhtlc = "FAIL"]

\* The offered HTLC a received update_fulfill/fail/fail_malformed is about:
\* the first slot that matches.
OfferedSlot(s, id, i) ==
    LET Match(j) == /\ s.cnl_add_htlc[j].addhtlc = "OFFER"
                    /\ s.cnl_add_htlc[j].id = id
    IN  Match(i) /\ \A j \in 0 .. i - 1 : ~Match(j)

\* Nothing changes when no offered HTLC has that id.
DelOffered(s, id, del) ==
    [s EXCEPT !.cnl_add_htlc =
        [i \in Slot |-> IF OfferedSlot(s, id, i)
                        THEN clear_htlc_comrevflag(@[i], del)
                        ELSE @[i]]]

----------------------------------------------------------------------------
(* commitment_signed and revoke_and_ack.                                   *)

\* A new local commitment is verified: flags, old secret revealed, numbers.
AfterCommitmentSigned(s, tx) ==
    [s EXCEPT
       !.cnl_add_htlc = [i \in Slot |->
            IF InLocalExchange(@[i])
            THEN [@[i] EXCEPT !.comrecv = TRUE, !.revsend = TRUE]
            ELSE @[i]],
       !.commit_local = [ commit_num |-> s.commit_local.commit_num + 1,
                          revoke_num |-> s.commit_local.commit_num,
                          htlc_num |-> HtlcNum(tx),
                          signature |-> tx ]]

\* A slip: the revoked commitment is taken to be the newest one.
AfterRevokeAndAck_OffByOne(s, num) ==
    [s EXCEPT
       !.cnl_add_htlc = [i \in Slot |->
            IF InRemoteExchange(@[i])
            THEN [@[i] EXCEPT !.revrecv = TRUE]
            ELSE @[i]],
       !.peer_storage = s.peer_storage \cup {num},
       !.commit_remote =
            [s.commit_remote EXCEPT !.revoke_num = s.commit_remote.commit_num]]

AfterRevokeAndAck(s, num) ==
    [s EXCEPT
       !.cnl_add_htlc = [i \in Slot |->
            IF InRemoteExchange(@[i])
            THEN [@[i] EXCEPT !.revrecv = TRUE]
            ELSE @[i]],
       !.peer_storage = s.peer_storage \cup {num},
       !.commit_remote =
            [s.commit_remote EXCEPT
               !.revoke_num = s.commit_remote.commit_num - 1]]

\* create_commitment_signed and the comsend flags of recv_idle_proc_nonfinal.
AfterSendCommitmentSigned(s, tx) ==
    [s EXCEPT
       !.cnl_add_htlc = [i \in Slot |->
            IF InRemoteExchange(@[i])
            THEN [@[i] EXCEPT !.comsend = TRUE]
            ELSE @[i]],
       !.commit_remote =
            [s.commit_remote EXCEPT
               !.commit_num = s.commit_remote.commit_num + 1,
               !.htlc_num = HtlcNum(tx)]]

----------------------------------------------------------------------------
(* ln_recv_idle_proc.                                                      *)

Enabled(s) == {i \in Slot : LN_HTLC_ENABLE(s.cnl_add_htlc[i])}

\* A slip: HTLCs whose last revoke_and_ack is still to come count as done.
Final_NoRevoke(s) ==
    \A i \in Enabled(s) :
        LET h == s.cnl_add_htlc[i]
        IN  h.comsend /\ h.comrecv /\ h.revsend

\* b_final: there are HTLCs and every one is exchanged both ways.
Final(s) == \A i \in Enabled(s) : Exchanged(s.cnl_add_htlc[i])

\* A slip: only the exchange the peer started is waited for.
ComSiging_PeerOnly(s) ==
    \E i \in Slot : s.cnl_add_htlc[i].comrecv # s.cnl_add_htlc[i].revsend

\* b_comsiging: some slot is between commitment_signed and revoke_and_ack.
ComSiging(s) ==
    \E i \in Slot :
        LET h == s.cnl_add_htlc[i]
        IN  h.comsend # h.revrecv \/ h.comrecv # h.revsend

\* The slots whose update message goes out in this pass.
WillUpdate(s) ==
    {i \in Enabled(s) : \/ LN_HTLC_WILL_ADDHTLC(s.cnl_add_htlc[i])
                        \/ LN_HTLC_WILL_DELHTLC(s.cnl_add_htlc[i])}

AfterUpdates(s) ==
    [s EXCEPT !.cnl_add_htlc = [i \in Slot |->
                  IF i \in WillUpdate(s) THEN [@[i] EXCEPT !.updsend = TRUE]
                                         ELSE @[i]]]

\* A slip: received HTLCs do not ask for a commitment_signed.
WillComSig_OfferOnly(s) ==
    \E i \in Enabled(s) \ WillUpdate(s) :
        LN_HTLC_WILL_COMSIG_OFFER(s.cnl_add_htlc[i])

\* b_comsig: a slot that sends no update in this pass waits for our signature.
WillComSig(s) ==
    \E i \in Enabled(s) \ WillUpdate(s) :
        \/ LN_HTLC_WILL_COMSIG_OFFER(s.cnl_add_htlc[i])
        \/ LN_HTLC_WILL_COMSIG_RECV(s.cnl_add_htlc[i])

\* The HTLCs whose deletion is exchanged both ways.
Removable(s) ==
    {i \in Enabled(s) :
        /\ ~LN_HTLC_ENABLE_LOCAL_ADDHTLC_OFFER(s.cnl_add_htlc[i])
        /\ ~LN_HTLC_ENABLE_LOCAL_ADDHTLC_RECV(s.cnl_add_htlc[i])}

\* The received HTLCs whose forwarding or deletion starts now.
Startable(s) ==
    {i \in Enabled(s) :
        LET h == s.cnl_add_htlc[i]
        IN  /\ LN_HTLC_ENABLE_LOCAL_ADDHTLC_RECV(h)
            /\ h.next \/ h.fin_delhtlc # "NONE"}

\* A slip: a failed HTLC is paid like a fulfilled one.
FulfilledRefs_AnyDeletion(s, add) ==
    {Ref(s.cnl_add_htlc[i]) :
        i \in {j \in Removable(s) : s.cnl_add_htlc[j].addhtlc = add}}

FulfilledRefs(s, add) ==
    {Ref(s.cnl_add_htlc[i]) :
        i \in {j \in Removable(s) : /\ s.cnl_add_htlc[j].addhtlc = add
                                    /\ s.cnl_add_htlc[j].delhtlc = "FULFILL"}}

StartHtlc(h) ==
    LET fwd == [h EXCEPT !.next = FALSE]
    IN  IF h.fin_delhtlc # "NONE"
        THEN clear_htlc_comrevflag(fwd, h.fin_delhtlc)
        ELSE fwd

AfterFinal(s) ==
    [s EXCEPT
       !.cnl_add_htlc = [i \in Slot |->
            CASE i \in Removable(s) -> clear_htlc(@[i])
              [] i \in Startable(s) -> StartHtlc(@[i])
              [] OTHER -> @[i]],
       !.paid_out = s.paid_out \cup FulfilledRefs(s, "OFFER"),
       !.paid_in = s.paid_in \cup FulfilledRefs(s, "RECV")]
=============================================================================
