------------------------------- MODULE OnChain -------------------------------
(***************************************************************************)
(* The monitoring thread (monitoring.c) and one channel of the node whose  *)
(* funding output is spent: by the closing transaction, by the node's own  *)
(* commitment, by the peer's current commitment or by a revoked one.  The  *)
(* thread wakes up from time to time, finds out what spent the funding     *)
(* output, takes back what belongs to the node and removes the channel.    *)
(*                                                                         *)
(* One pass over the channel is one action: its changes of the channel     *)
(* database are one LMDB transaction.  What it broadcasts and adds to the  *)
(* wallet is not part of that transaction, which matters when the process  *)
(* dies (CrashInPass).  Transactions, blocks and what the peer does are    *)
(* external.                                                               *)
(***************************************************************************)
EXTENDS Integers, FiniteSets, Sequences, FiniteSetsExt

CONSTANTS
    LN_HTLC_MAX,    \* slots of cnl_add_htlc[]
    Offered,        \* slots of HTLCs this node offered; the others are received
    Hop,            \* offered HTLCs that are forwarded ones
    Expiry,         \* cltv_expiry of each slot
    Orders,         \* orders of the outputs of a commitment transaction
    MaxHeight,      \* bound: height of the block chain
    MaxClose,       \* bound: height up to which someone else closes
    MaxCrashes      \* bound: processes that die

Slot == 0 .. LN_HTLC_MAX - 1

\* Outputs of a commitment transaction, and of the HTLC transactions made of it.
ToLocal == <<"to_local", 0>>
ToRemote == <<"to_remote", 0>>
Htlc(h) == <<"htlc", h>>
Second(h) == <<"htlc_tx", h>>
Output == {ToLocal, ToRemote} \cup {Htlc(h) : h \in Slot}
Outpoint == Output \cup {Second(h) : h \in Slot}

ASSUME OnChainAssumption ==
    /\ LN_HTLC_MAX \in Nat
    /\ Offered \subseteq Slot /\ Hop \subseteq Offered
    /\ Expiry \in [Slot -> Nat]
    /\ \A o \in Orders : Len(o) = LN_HTLC_MAX + 2 /\ {o[k] : k \in DOMAIN o} = Output
    /\ MaxHeight \in Nat \ {0} /\ MaxClose \in Nat /\ MaxCrashes \in Nat

VARIABLES
    status,     \* ln_self_t.status in the database, or DELETED
    pending,    \* the slots whose HTLCs are in every commitment
    order,      \* the outputs of the commitment in BIP69 order
    settled,    \* no commitment_signed is waiting for its revoke_and_ack
    fund,       \* what spends the funding output
    out,        \* what spends each output of the commitment
    revtx,      \* the revoked data in the database
    wallet,     \* ln_db_wallet
    preimg,     \* slots whose preimage is in the node database
    height,     \* getblockcount
    crashes

vars == <<status, pending, order, settled, fund, out, revtx, wallet, preimg,
          height, crashes>>

Status == {"NORMAL", "CLOSE_WAIT", "CLOSE_SPENT", "CLOSE_MUTUAL",
           "CLOSE_UNI_LOCAL", "CLOSE_UNI_REMOTE", "CLOSE_REVOKED", "DELETED"}

\* A spending transaction and the block it is in; 0: in the mempool.
Spending(By) == [by : By \cup {"none"}, blk : 0 .. MaxHeight]
None == [by |-> "none", blk |-> 0]
Pool(by) == [by |-> by, blk |-> 0]

Commitment == {"local", "remote", "revoked"}

\* revoked_cnt and revoked_confm; cnt 0 when nothing is saved.
NoRevtx == [saved |-> FALSE, cnt |-> 0, confm |-> 0]

TypeOK ==
    /\ status \in Status
    /\ pending \subseteq Slot /\ order \in Orders /\ settled \in BOOLEAN
    /\ fund \in Spending(Commitment \cup {"mutual"})
    /\ out \in [Outpoint -> Spending({"us", "preimage", "timeout", "htlc_tx"})]
    /\ revtx \in [saved : BOOLEAN, cnt : 0 .. LN_HTLC_MAX + 1,
                  confm : 0 .. MaxHeight]
    /\ wallet \subseteq Outpoint
    /\ preimg \subseteq Slot
    /\ height \in 1 .. MaxHeight /\ crashes \in 0 .. MaxCrashes

Init ==
    /\ status = "NORMAL"
    /\ pending \in SUBSET Slot
    /\ order \in Orders
    /\ settled \in BOOLEAN
    /\ fund = None
    /\ out = [o \in Outpoint |-> None]
    /\ revtx = NoRevtx
    /\ wallet = {} /\ preimg = {}
    /\ height = 1 /\ crashes = 0

----------------------------------------------------------------------------
(* The block chain and the peer.                                           *)

Spent(o) == out[o].by # "none"

Mined(s) == IF s.by # "none" /\ s.blk = 0
            THEN [s EXCEPT !.blk = height + 1] ELSE s

\* A block takes everything that is in the mempool.
Mine ==
    /\ height < MaxHeight
    /\ height' = height + 1
    /\ fund' = Mined(fund)
    /\ out' = [o \in Outpoint |-> Mined(out[o])]
    /\ UNCHANGED <<status, pending, order, settled, revtx, wallet, preimg, crashes>>

\* Someone spends the funding output.  The closing transaction needs shutdown
\* messages, which leave status at CLOSE_WAIT, and no HTLC.
SpendFunding(by) ==
    /\ fund = None /\ status = "NORMAL" /\ height <= MaxClose
    /\ by = "mutual" => pending = {}
    /\ fund' = Pool(by)
    /\ status' = IF by = "mutual" THEN "CLOSE_WAIT" ELSE status
    /\ UNCHANGED <<pending, order, settled, out, revtx, wallet, preimg,
                   height, crashes>>

\* The peer spends an output it may spend.
PeerSpends(h) ==
    /\ h \in pending /\ ~Spent(Htlc(h))
    /\ \/ /\ fund.by \in {"local", "remote"} /\ h \in Offered
          /\ out' = [out EXCEPT ![Htlc(h)] = Pool("preimage")]
       \/ /\ fund.by \in {"local", "remote"} /\ h \notin Offered
          /\ Expiry[h] <= height
          /\ out' = [out EXCEPT ![Htlc(h)] = Pool("timeout")]
       \/ /\ fund.by = "revoked"
          /\ out' = [out EXCEPT ![Htlc(h)] = Pool("htlc_tx")]
    /\ UNCHANGED <<status, pending, order, settled, fund, revtx, wallet, preimg,
                   height, crashes>>

\* The owner of the wallet spends from it.
WalletSpends(o) ==
    /\ o \in wallet /\ ~Spent(o)
    /\ out' = [out EXCEPT ![o] = Pool("us")]
    /\ wallet' = wallet \ {o}
    /\ UNCHANGED <<status, pending, order, settled, fund, revtx, preimg,
                   height, crashes>>

\* The preimage of a received HTLC arrives from another channel, whose HTLC
\* expires earlier.
LearnPreimage(h) ==
    /\ h \in pending \ (Offered \cup preimg)
    /\ height < Expiry[h]
    /\ preimg' = preimg \cup {h}
    /\ UNCHANGED <<status, pending, order, settled, fund, out, revtx, wallet,
                   height, crashes>>

----------------------------------------------------------------------------
(* One pass of the monitoring thread over the channel.                     *)

\* A slip: every commitment of the peer is taken for its current one.
change_stat_NoSecret ==
    CASE status \in {"NORMAL", "CLOSE_WAIT"} -> "CLOSE_SPENT"
      [] status = "CLOSE_SPENT" /\ fund.by = "mutual" -> "CLOSE_MUTUAL"
      [] status = "CLOSE_SPENT" /\ fund.by = "local" -> "CLOSE_UNI_LOCAL"
      [] OTHER -> "CLOSE_UNI_REMOTE"

\* ln_close_change_stat: a first pass finds the output spent, a later one
\* looks at the transaction: its outputs, its txid, and whether the secret of
\* its commitment number is in peer_storage.
ln_close_change_stat ==
    CASE status \in {"NORMAL", "CLOSE_WAIT"} -> "CLOSE_SPENT"
      [] status = "CLOSE_SPENT" /\ fund.by = "mutual" -> "CLOSE_MUTUAL"
      [] status = "CLOSE_SPENT" /\ fund.by = "local" -> "CLOSE_UNI_LOCAL"
      [] status = "CLOSE_SPENT" /\ fund.by = "revoked" -> "CLOSE_REVOKED"
      [] OTHER -> "CLOSE_UNI_REMOTE"

NewStatus ==
    IF /\ status \in {"NORMAL", "CLOSE_WAIT", "CLOSE_SPENT"}
       /\ fund.blk > 0 \/ status = "NORMAL"
    THEN ln_close_change_stat ELSE status

\* create_to_local_spenthtlc: a transaction exists for an offered HTLC, and for
\* a received one whose preimage is known.
Buildable(h) == h \in Offered \cup preimg

\* bitcoind takes an HTLC timeout transaction only after the expiry.
Broadcastable(h) == Buildable(h) /\ ~Spent(Htlc(h)) /\ (h \in Offered => Expiry[h] <= height)

\* p_htlc_idx: the number of an HTLC among those of the commitment.
Rank(h) == Cardinality({j \in pending : j < h})

\* close_unilateral_local_offered: what spends a forwarded HTLC is searched in
\* the blocks.  The number of the HTLC is taken for its slot and for the index
\* of its output.  The preimage is not at the place ln_preimage_remote expects:
\* the assertion on it is left out, as NDEBUG leaves it out (README).
Extracted(h) == Rank(h) \in pending \cap Hop => out[order[Rank(h) + 1]].blk > 0

\* The HTLC does not keep the channel in the database.
local_htlc_done(h) ==
    \/ out[Htlc(h)].by = "us"
    \/ Spent(Htlc(h)) /\ Buildable(h) /\ (h \in Offered => Extracted(h))
    \/ Broadcastable(h)

\* close_unilateral_local_sendreq: with one HTLC transaction broadcast, the
\* outputs of all that were built go to the wallet.
local_wallet ==
    {ToLocal} \cup
    (IF \E h \in pending : Broadcastable(h)
     THEN {Second(h) : h \in {k \in pending : Buildable(k)}} ELSE {})

Take(hs) == [o \in Outpoint |->
               IF o \in {Htlc(h) : h \in hs} THEN Pool("us") ELSE out[o]]

local_out == Take({h \in pending : Broadcastable(h)})

monitor_close_unilateral_local ==
    /\ out' = local_out
    /\ wallet' = wallet \cup local_wallet
    /\ UNCHANGED revtx

\* The HTLC can go to the wallet: at once with the preimage, else when the
\* timelock is over.  ln_db_wallet_add refuses a received HTLC without it.
remote_timelock(h) == IF h \in preimg THEN 0 ELSE Expiry[h]

\* A slip: what the peer has taken keeps the channel.
remote_htlc_done_Own(h) == Htlc(h) \in wallet

remote_htlc_done(h) == Spent(Htlc(h)) \/ Htlc(h) \in wallet \/ remote_timelock(h) <= height

remote_wallet == {h \in pending \cap (Offered \cup preimg) :
                    ~Spent(Htlc(h)) /\ remote_timelock(h) <= height}

\* In the middle of an exchange ln_close_create_tx mixes the number of one
\* commitment with the point of another: nothing it builds is on the chain.
close_unilateral_remote ==
    /\ wallet' =
         IF settled
         THEN (wallet \ {Htlc(h) : h \in {k \in pending : Spent(Htlc(k))}})
                \cup {ToRemote} \cup {Htlc(h) : h \in remote_wallet}
         ELSE wallet
    /\ UNCHANGED <<out, revtx>>

remote_done == settled => \A h \in pending : remote_htlc_done(h)

\* close_revoked_first: to_local and to_remote go to the wallet, a penalty
\* transaction is broadcast for each HTLC that is not spent.
revoked_left == Cardinality({h \in pending : Spent(Htlc(h))})

close_revoked_first == [saved |-> TRUE, cnt |-> revoked_left, confm |-> height]

\* btcrpc_search_vout: HTLC transactions since the last pass, all in the newest
\* block that has one.
\* A slip: the blocks are searched from the beginning each time.
HtlcTxs_Again == {h \in pending : out[Htlc(h)].by = "htlc_tx" /\ out[Htlc(h)].blk > 0}

HtlcTxs == {h \in pending : out[Htlc(h)].by = "htlc_tx" /\ out[Htlc(h)].blk > revtx.confm}

Newest == {h \in HtlcTxs : \A k \in HtlcTxs : out[Htlc(k)].blk <= out[Htlc(h)].blk}

close_revoked_after ==
    [revtx EXCEPT !.cnt = @ - Cardinality(Newest), !.confm = height]

\* ln_close_remoterevoked and what follows it.
close_revoked ==
    IF revtx.saved
    THEN /\ wallet' = wallet \cup {Second(h) : h \in Newest}
         /\ revtx' = close_revoked_after
         /\ UNCHANGED out
    ELSE /\ wallet' = wallet \cup {ToLocal, ToRemote}
         /\ revtx' = close_revoked_first
         /\ out' = Take({h \in pending : ~Spent(Htlc(h))})

\* ln_revoked_cnt_dec says so only in the pass that takes the last one.
revoked_done == /\ revtx'.cnt = 0
                /\ ~revtx.saved \/ Newest # {}

Keep == UNCHANGED <<out, wallet, revtx>>

\* funding_spent and, when the channel is finished, ln_db_self_del_prm, which
\* deletes the preimages of its HTLCs too.
FundingSpent ==
    LET st == NewStatus
        del == CASE st = "CLOSE_MUTUAL" -> TRUE
                 [] st = "CLOSE_UNI_LOCAL" ->
                        \A h \in pending : local_htlc_done(h)
                 [] st = "CLOSE_UNI_REMOTE" -> remote_done
                 [] st = "CLOSE_REVOKED" -> revoked_done
                 [] OTHER -> FALSE
    IN  /\ CASE st = "CLOSE_UNI_LOCAL" -> monitor_close_unilateral_local
             [] st = "CLOSE_UNI_REMOTE" -> close_unilateral_remote
             [] st = "CLOSE_REVOKED" -> close_revoked
             [] OTHER -> Keep
        /\ status' = IF del THEN "DELETED" ELSE st
        /\ preimg' = IF del THEN preimg \ pending ELSE preimg
        /\ UNCHANGED <<pending, order, settled, fund, height, crashes>>

\* A slip: the received HTLCs are looked at.
offered_htlc_timeout_Received(h) == h \in pending \ Offered /\ Expiry[h] <= height

ln_is_offered_htlc_timeout(h) == h \in pending \cap Offered /\ Expiry[h] <= height

\* funding_unspent: an offered HTLC has expired, the commitment goes out.
FundingUnspent ==
    /\ \E h \in Slot : ln_is_offered_htlc_timeout(h)
    /\ fund' = Pool("local")
    /\ monitor_close_unilateral_local
    /\ UNCHANGED <<status, pending, order, settled, preimg, height, crashes>>

IsClosing == status # "NORMAL"

monfunc ==
    /\ status # "DELETED"
    /\ IF IsClosing \/ fund.by # "none" THEN FundingSpent ELSE FundingUnspent

\* The process dies after it has broadcast an HTLC transaction and before its
\* output is in the wallet.
CrashInPass ==
    /\ crashes < MaxCrashes
    /\ NewStatus = "CLOSE_UNI_LOCAL"
    /\ out' = local_out
    /\ wallet' = wallet \cup {ToLocal}
    /\ crashes' = crashes + 1
    /\ UNCHANGED <<status, pending, order, settled, fund, revtx, preimg, height>>

Next ==
    \/ monfunc
    \/ CrashInPass
    \/ Mine
    \/ \E by \in Commitment \cup {"mutual"} : SpendFunding(by)
    \/ \E h \in Slot : PeerSpends(h) \/ LearnPreimage(h)
    \/ \E o \in Outpoint : WalletSpends(o)

Spec == Init /\ [][Next]_vars

\* The monitoring thread runs for ever, blocks are found.
FairSpec == Spec /\ WF_vars(monfunc) /\ WF_vars(Mine)

----------------------------------------------------------------------------
(* Properties.                                                             *)

\* What belongs to this node of a commitment that is on the chain, when the
\* outputs are spent as in o and the preimages in known have been there.
Ours(o, known) ==
    CASE fund.by = "local" ->
            {ToLocal} \cup {Second(h) : h \in {k \in pending : o[Htlc(k)].by = "us"}}
      [] fund.by = "remote" ->
            {ToRemote} \cup {Htlc(h) : h \in pending \cap (Offered \cup known)}
      [] fund.by = "revoked" ->
            {ToLocal, ToRemote}
              \cup {Second(h) : h \in {k \in pending : o[Htlc(k)].by = "htlc_tx"}}
      [] OTHER -> {}

\* The channel is removed only when everything that belongs to the node is in
\* its wallet or spent: whatever the order of passes, blocks and the peer's
\* spending, nothing is forgotten.  Unless the process died inside a pass, and
\* unless the peer closed in the middle of an exchange.
RecoveredBeforeDeleted ==
    [][status # "DELETED" /\ status' = "DELETED" /\ crashes = 0 /\ settled =>
         \A o \in Ours(out', preimg) : o \in wallet' \/ out'[o].by # "none"]_vars

\* The peer cannot take part of a revoked commitment unnoticed: the channel is
\* removed only when every HTLC transaction it made was taken back.
PenaltyComplete ==
    status = "DELETED" /\ fund.by = "revoked" =>
        \A h \in pending : out[Htlc(h)].by = "us" \/ Second(h) \in wallet
                             \/ Spent(Second(h))

\* A channel closed by agreement, or by the peer's current commitment, is
\* removed in the end.
ClosedIsRemoved == fund.by \in {"mutual", "remote"} ~> status = "DELETED"

\* An offered HTLC that expires while the channel is open closes it: the node
\* does not wait for a peer that does not answer.
TimeoutCloses ==
    (\E h \in pending \cap Offered : Expiry[h] <= height) ~> fund.by # "none"

\* Not so (README), monitoring.c: "the preimage is registered (the same state as if the node had
\* it)".  When the peer claims a forwarded HTLC on the chain, the node has its
\* preimage before it forgets the channel.
PreimageLearned ==
    status = "DELETED" =>
        \A h \in pending \cap Hop : out[Htlc(h)].by = "preimage" => h \in preimg
==============================================================================
