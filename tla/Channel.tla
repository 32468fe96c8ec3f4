------------------------------ MODULE Channel ------------------------------
(***************************************************************************)
(* Two nodes operating one established channel: the receive thread of each *)
(* node (message handlers of ln.c and the idle procedure between two       *)
(* messages), the callers of ln.c in lnapp.c (payment, forwarding, mutual  *)
(* close, unilateral close) and the peer-to-peer stream between them.      *)
(* Every handler runs under mux_self, so it is one action.  The RPC that   *)
(* closes unilaterally takes no lock and is three actions.                 *)
(***************************************************************************)
EXTENDS LnSelf, Sequences, FiniteSetsExt

CONSTANTS
    Funder, Fundee,     \* the two ends of the channel
    InitMsat,           \* our_msat of each end when the channel opens
    Reserve,            \* channel_reserve_sat, in msat
    MaxInFlight,        \* max_htlc_value_in_flight_msat
    MaxAccepted,        \* max_accepted_htlcs
    InitFee,            \* ln_closing_signed_initfee, in satoshi
    MSAT_MOD,           \* stands for 2^64, the modulus of uint64_t amounts
    Amounts,            \* amounts of the HTLCs
    Fates,              \* what may happen to a received HTLC
    \* Bounds.
    MaxHtlc,            \* HTLCs each end may offer
    FwdPeers,           \* ends that also offer HTLCs forwarded for a channel
    MaxClose,           \* mutual close requests at each end
    ForceClosers        \* ends where a unilateral close is requested (once)

Peer == {Funder, Fundee}
Other(p) == IF p = Funder THEN Fundee ELSE Funder

ASSUME PeerAssumption == Funder # Fundee
ASSUME ParameterAssumption ==
    /\ InitMsat \in [Peer -> Nat] /\ InitFee \in Nat
    /\ Reserve \in Nat /\ MaxInFlight \in Nat /\ MaxAccepted \in Nat
    /\ MSAT_MOD \in Nat \ {0}
    /\ Amounts \subseteq Nat \ {0}
    /\ Fates \subseteq Fate
ASSUME BoundAssumption ==
    /\ MaxHtlc \in [Peer -> Nat] /\ MaxClose \in [Peer -> Nat]
    /\ FwdPeers \subseteq Peer /\ ForceClosers \subseteq Peer

VARIABLES
    self,       \* ln_self_t of each end
    db,         \* what each end last saved with ln_db_self_save
    net,        \* messages on their way to each end, oldest first
    thread,     \* the receive thread: running, stopped, or process aborted
    broadcast,  \* transactions each end has handed to bitcoind
    rpc,        \* progress of a unilateral close request
    closes      \* mutual close requests made so far

vars == <<self, db, net, thread, broadcast, rpc, closes>>

UpdateType ==
    {"update_fulfill_htlc", "update_fail_htlc", "update_fail_malformed_htlc"}

Message ==
    [type : {"update_add_htlc"}, id : Nat, amount_msat : Nat]
      \cup [type : UpdateType, id : Nat]
      \cup [type : {"commitment_signed"}, tx : CommitTxType]
      \cup [type : {"revoke_and_ack"}, num : Nat]
      \cup [type : {"shutdown"}]
      \cup [type : {"closing_signed"}, tx : ClosingTxType]

BroadcastType ==
    [type : {"commit"}, num : Nat] \cup [type : {"closing"}, fee_sat : Nat]

Thread == {"run", "stopped", "aborted"}
Stage == {"idle", "loaded", "sent", "done"}

TypeOK ==
    /\ self \in [Peer -> SelfType]
    /\ db \in [Peer -> SelfType]
    /\ net \in [Peer -> Seq(Message)]
    /\ thread \in [Peer -> Thread]
    /\ broadcast \in [Peer -> SUBSET BroadcastType]
    /\ rpc \in [Peer -> [stage : Stage, loaded : SelfType]]
    /\ closes \in [Peer -> Nat]

Init ==
    /\ self = [p \in Peer |-> InitSelf]
    /\ db = [p \in Peer |-> InitSelf]
    /\ net = [p \in Peer |-> <<>>]
    /\ thread = [p \in Peer |-> "run"]
    /\ broadcast = [p \in Peer |-> {}]
    /\ rpc = [p \in Peer |-> [stage |-> "idle", loaded |-> InitSelf]]
    /\ closes = [p \in Peer |-> 0]

----------------------------------------------------------------------------
(* What the handlers share.                                                *)

Running(p) == thread[p] = "run"

Receiving(p, type) ==
    Running(p) /\ net[p] # <<>> /\ Head(net[p]).type = type

\* The stream with p's first message read and ms sent to its peer.  A message
\* to a connection that is down is lost.
Sent(streams, p, ms) ==
    [streams EXCEPT ![Other(p)] = IF Running(Other(p)) THEN @ \o ms ELSE @]
Read(streams, p) == [streams EXCEPT ![p] = Tail(@)]

Keep(p, s) == self' = [self EXCEPT ![p] = s]

\* A slip: the result of a save that fails is ignored.
Save_Lost(p, s) == Keep(p, s) /\ UNCHANGED db

Save(p, s) ==
    /\ self' = [self EXCEPT ![p] = s]
    /\ db' = [db EXCEPT ![p] = ln_db_self_save(s)]

Environment == <<thread, broadcast, rpc, closes>>

\* The amounts of the node: uint64_t arithmetic.
Msat(refs) == MapThenSumSet(LAMBDA r : r.amount_msat, refs)
our_msat(p) ==
    (InitMsat[p] + Msat(self[p].paid_in) - Msat(self[p].paid_out)) % MSAT_MOD
their_msat(p) ==
    (InitMsat[Other(p)] + Msat(self[p].paid_out) - Msat(self[p].paid_in))
        % MSAT_MOD

OfferedMsat(s) ==
    MapThenSumSet(LAMBDA i : s.cnl_add_htlc[i].amount_msat,
                  {i \in Slot : s.cnl_add_htlc[i].addhtlc = "OFFER"})

\* lnapp_close_channel_force on the saved channel sdb: the local commitment is
\* broadcast when it can be rebuilt and the channel is not closing yet.
UnilateralClose(p, sdb) ==
    IF ~ln_status_is_closing(sdb) /\ UnilateralTxValid(sdb)
    THEN [broadcast EXCEPT ![p] =
             @ \cup {[type |-> "commit", num |-> sdb.commit_local.commit_num]}]
    ELSE broadcast

Stop(p, how) ==
    /\ thread' = [thread EXCEPT ![p] = how]
    /\ net' = [net EXCEPT ![p] = <<>>]

\* A handler returned false: thread_recv_start closes unilaterally and ends.
FailChannel(p) ==
    /\ broadcast' = UnilateralClose(p, db[p])
    /\ Stop(p, "stopped")
    /\ UNCHANGED <<self, db, rpc, closes>>

----------------------------------------------------------------------------
(* Offering an HTLC.                                                       *)

check_create_add_htlc(p, amt) ==
    /\ our_msat(p) >= amt + Reserve
    /\ our_msat(p) >= amt + 1000 * InitFee
    /\ MaxAccepted > self[p].commit_remote.htlc_num
    /\ amt # 0
    /\ OfferedMsat(self[p]) <= MaxInFlight

MayOffer(p, amt) ==
    /\ Running(p)
    /\ self[p].htlc_id_num < MaxHtlc[p]
    /\ self[p].shutdown_flag = {}
    /\ check_create_add_htlc(p, amt)

\* lnapp_payment.
Pay(p, amt) ==
    /\ MayOffer(p, amt)
    /\ self[p].status = "NORMAL"
    /\ \E i \in Slot : /\ FreeSlot(self[p], i)
                       /\ Keep(p, ln_add_htlc_set(self[p], i, amt))
    /\ UNCHANGED <<db, net, Environment>>

\* ptarmd_search_transferable_cnl: other channels only reach an open channel.
Transferable(p) == Running(p) /\ self[p].status = "NORMAL"

\* cbsub_add_htlc_forward, called by the thread of another channel.
FwdAdd(p, amt) ==
    /\ p \in FwdPeers
    /\ Transferable(p)
    /\ MayOffer(p, amt)
    /\ \E i \in Slot : /\ FreeSlot(self[p], i)
                       /\ Keep(p, ln_add_htlc_set_fwd(self[p], i, amt))
    /\ UNCHANGED <<db, net, Environment>>

\* cb_fwd_addhtlc_start: the HTLC of the other channel is now committed.
FwdStart(p, i) ==
    /\ Transferable(p)
    /\ LN_HTLC_ENABLE(self[p].cnl_add_htlc[i])
    /\ self[p].cnl_add_htlc[i].addhtlc = "NONE"
    /\ Keep(p, ln_add_htlc_start_fwd(self[p], i))
    /\ UNCHANGED <<db, net, Environment>>

\* cbsub_fulfill_backwind and cbsub_fail_backwind: the forwarded copy of a
\* received HTLC is resolved by the next channel.
Forwarded(h) ==
    /\ h.addhtlc = "RECV" /\ Exchanged(h)
    /\ ~h.next /\ h.fin_delhtlc = "NONE" /\ h.delhtlc = "NONE"

FulfillBackwind(p, i) ==
    /\ Transferable(p)
    /\ Forwarded(self[p].cnl_add_htlc[i])
    /\ Save(p, ln_fulfill_htlc_set(self[p], i))
    /\ UNCHANGED <<net, Environment>>

FailBackwind(p, i) ==
    /\ Transferable(p)
    /\ Forwarded(self[p].cnl_add_htlc[i])
    /\ Keep(p, ln_fail_htlc_set(self[p], i))
    /\ UNCHANGED <<db, net, Environment>>

----------------------------------------------------------------------------
(* ln_recv_idle_proc: called when no message arrived for a while.          *)

IdleFinal(p) ==
    /\ Running(p)
    /\ Enabled(self[p]) # {}
    /\ Final(self[p])
    /\ Removable(self[p]) \cup Startable(self[p]) # {}
    /\ Save(p, AfterFinal(self[p]))
    /\ UNCHANGED <<net, Environment>>

\* The update message of a slot.
UpdateMsg(h) ==
    IF h.addhtlc = "OFFER"
    THEN [type |-> "update_add_htlc", id |-> h.id, amount_msat |-> h.amount_msat]
    ELSE [ type |-> CASE h.delhtlc = "FULFILL" -> "update_fulfill_htlc"
                      [] h.delhtlc = "FAIL" -> "update_fail_htlc"
                      [] OTHER -> "update_fail_malformed_htlc",
           id |-> h.id ]

\* One message per slot of WillUpdate, in the order of the slots.
InSlotOrder(order) ==
    \A j, k \in DOMAIN order : j < k => order[j] < order[k]

UpdateMsgs(s, order) ==
    [k \in DOMAIN order |-> UpdateMsg(s.cnl_add_htlc[order[k]])]

IdleNonfinal(p) ==
    LET s == self[p]
        upd == AfterUpdates(s)
        tx == create_to_remote(upd, s.commit_remote.commit_num + 1)
    IN  /\ Running(p)
        /\ Enabled(s) # {}
        /\ ~Final(s)
        /\ ~ComSiging(s)
        /\ WillUpdate(s) # {} \/ WillComSig(s)
        /\ \E order \in [1 .. Cardinality(WillUpdate(s)) -> WillUpdate(s)] :
             /\ InSlotOrder(order)
             /\ IF WillComSig(s)
                THEN /\ Save(p, AfterSendCommitmentSigned(upd, tx))
                     /\ net' = Sent(net, p, UpdateMsgs(s, order) \o
                                  <<[type |-> "commitment_signed", tx |-> tx]>>)
                ELSE /\ Keep(p, upd)
                     /\ net' = Sent(net, p, UpdateMsgs(s, order))
                     /\ UNCHANGED db
        /\ UNCHANGED Environment

----------------------------------------------------------------------------
(* Handlers of update messages.                                            *)

check_recv_add_htlc_bolt2(p, m) ==
    /\ "RECV" \notin self[p].shutdown_flag
    /\ their_msat(p) >= m.amount_msat
    /\ MaxAccepted >= self[p].commit_local.htlc_num
    /\ OfferedMsat(self[p]) <= MaxInFlight

RecvAddHtlc(p) ==
    /\ Receiving(p, "update_add_htlc")
    /\ LET m == Head(net[p])
       IN  \/ /\ check_recv_add_htlc_bolt2(p, m)
              /\ \E i \in Slot, fate \in Fates :
                    /\ FreeSlot(self[p], i)
                    /\ Keep(p, AcceptAddHtlc(self[p], i, m, fate))
              /\ net' = Read(net, p)
              /\ UNCHANGED <<db, Environment>>
           \/ /\ \/ ~check_recv_add_htlc_bolt2(p, m)
                 \/ \A i \in Slot : ~FreeSlot(self[p], i)
              /\ FailChannel(p)

\* A fulfill or a fail_malformed for an unknown id is ignored; a fail for an
\* unknown id fails the channel.
RecvDelHtlc(p, type, del) ==
    /\ Receiving(p, type)
    /\ LET id == Head(net[p]).id
       IN  IF \/ type # "update_fail_htlc"
              \/ \E i \in Slot : OfferedSlot(self[p], id, i)
           THEN /\ Keep(p, DelOffered(self[p], id, del))
                /\ net' = Read(net, p)
                /\ UNCHANGED <<db, Environment>>
           ELSE FailChannel(p)

RecvFulfillHtlc(p) == RecvDelHtlc(p, "update_fulfill_htlc", "FULFILL")
RecvFailHtlc(p) == RecvDelHtlc(p, "update_fail_htlc", "FAIL")
RecvFailMalformedHtlc(p) ==
    RecvDelHtlc(p, "update_fail_malformed_htlc", "MALFORMED")

----------------------------------------------------------------------------
(* commitment_signed and revoke_and_ack.                                   *)

RecvCommitmentSigned(p) ==
    LET s == self[p]
        tx == Head(net[p]).tx
        expected == create_to_local(s, s.commit_local.commit_num + 1)
    IN  /\ Receiving(p, "commitment_signed")
        /\ \/ /\ tx = expected
              /\ Save(p, AfterCommitmentSigned(s, tx))
              /\ net' = Sent(Read(net, p), p,
                             <<[ type |-> "revoke_and_ack",
                                 num |-> s.commit_local.commit_num ]>>)
              /\ UNCHANGED Environment
           \/ /\ tx # expected
              /\ FailChannel(p)

RecvRevokeAndAck(p) ==
    /\ Receiving(p, "revoke_and_ack")
    /\ Save(p, AfterRevokeAndAck(self[p], Head(net[p]).num))
    /\ net' = Read(net, p)
    /\ UNCHANGED Environment

----------------------------------------------------------------------------
(* Mutual close.                                                           *)

SendShutdown(s) ==
    [s EXCEPT !.close_fee_sat = InitFee, !.shutdown_flag = @ \cup {"SEND"}]

\* lnapp_close_channel: refused only once the status has changed.
CloseRpc(p) ==
    /\ Running(p)
    /\ closes[p] < MaxClose[p]
    /\ ~ln_status_is_closing(self[p])
    /\ Save(p, SendShutdown(self[p]))
    /\ net' = Sent(net, p, <<[type |-> "shutdown"]>>)
    /\ closes' = [closes EXCEPT ![p] = @ + 1]
    /\ UNCHANGED <<thread, broadcast, rpc>>

RecvShutdown(p) ==
    LET s == self[p]
        answer == "SEND" \notin s.shutdown_flag
        recvd == [s EXCEPT !.shutdown_flag = @ \cup {"RECV"},
                           !.close_last_fee_sat = 0]
        exch == [(IF answer THEN SendShutdown(recvd) ELSE recvd)
                    EXCEPT !.status = "CLOSE_WAIT"]
        reply == IF answer THEN <<[type |-> "shutdown"]>> ELSE <<>>
        closing == [ type |-> "closing_signed",
                     tx |-> PeerClosingTx(s, exch.close_fee_sat) ]
    IN  /\ Receiving(p, "shutdown")
        /\ \/ /\ "RECV" \in s.shutdown_flag
              /\ FailChannel(p)
           \/ /\ "RECV" \notin s.shutdown_flag
              /\ IF p = Funder
                 THEN /\ Save(p, [exch EXCEPT
                                    !.close_last_fee_sat = exch.close_fee_sat])
                      /\ net' = Sent(Read(net, p), p, Append(reply, closing))
                 ELSE /\ Save(p, exch)
                      /\ net' = Sent(Read(net, p), p, reply)
              /\ UNCHANGED Environment

\* The feerate is fixed when the channel opens (update_fee is not supported),
\* so the two ends agree on the highest fee.
RecvClosingSigned(p) ==
    LET s == self[p]
        tx == Head(net[p]).tx
        fee == tx.fee_sat
        signed == [s EXCEPT !.commit_local.signature = tx]
        spent == [signed EXCEPT !.status = "CLOSE_SPENT"]
        agreed == [signed EXCEPT !.close_fee_sat = fee,
                                 !.close_last_fee_sat = fee]
    IN  /\ Receiving(p, "closing_signed")
        /\ IF s.shutdown_flag # {"SEND", "RECV"} \/ fee > InitFee
           THEN FailChannel(p)
           ELSE \/ \* assert(false): the ends build different transactions
                   /\ tx # create_closing_tx(s, fee)
                   /\ Stop(p, "aborted")
                   /\ UNCHANGED <<self, db, broadcast, rpc, closes>>
                \/ /\ tx = create_closing_tx(s, fee)
                   /\ s.close_last_fee_sat = fee
                   /\ Save(p, spent)
                   /\ broadcast' = [broadcast EXCEPT ![p] = @ \cup
                                      {[type |-> "closing", fee_sat |-> fee]}]
                   /\ net' = Read(net, p)
                   /\ UNCHANGED <<thread, rpc, closes>>
                \/ /\ tx = create_closing_tx(s, fee)
                   /\ s.close_last_fee_sat # fee
                   /\ Save(p, agreed)
                   /\ net' = Sent(Read(net, p), p,
                                  <<[ type |-> "closing_signed",
                                      tx |-> PeerClosingTx(s, fee) ]>>)
                   /\ UNCHANGED Environment

----------------------------------------------------------------------------
(* cmd_close_unilateral_proc, in the thread of the RPC server.             *)

ForceLoad(p) ==
    /\ p \in ForceClosers
    /\ rpc[p].stage = "idle"
    /\ ~ln_status_is_closing(db[p])
    /\ rpc' = [rpc EXCEPT ![p] = [stage |-> "loaded", loaded |-> db[p]]]
    /\ UNCHANGED <<self, db, net, thread, broadcast, closes>>

ForceBroadcast(p) ==
    /\ rpc[p].stage = "loaded"
    /\ broadcast' = UnilateralClose(p, rpc[p].loaded)
    /\ rpc' = [rpc EXCEPT ![p].stage = "sent"]
    /\ UNCHANGED <<self, db, net, thread, closes>>

ForceStop(p) ==
    /\ rpc[p].stage = "sent"
    /\ rpc' = [rpc EXCEPT ![p].stage = "done"]
    /\ IF Running(p) THEN Stop(p, "stopped") ELSE UNCHANGED <<net, thread>>
    /\ UNCHANGED <<self, db, broadcast, closes>>

\* The connection is down: recv_peer returns 0.
PeerGone(p) ==
    /\ Running(p)
    /\ ~Running(Other(p))
    /\ Stop(p, "stopped")
    /\ UNCHANGED <<self, db, broadcast, rpc, closes>>

----------------------------------------------------------------------------
Offer(p) == \E amt \in Amounts : Pay(p, amt) \/ FwdAdd(p, amt)

OtherChannel(p) ==
    \E i \in Slot : FwdStart(p, i) \/ FulfillBackwind(p, i) \/ FailBackwind(p, i)

Idle(p) == IdleFinal(p) \/ IdleNonfinal(p)

Receive(p) ==
    \/ RecvAddHtlc(p)
    \/ RecvFulfillHtlc(p) \/ RecvFailHtlc(p) \/ RecvFailMalformedHtlc(p)
    \/ RecvCommitmentSigned(p) \/ RecvRevokeAndAck(p)
    \/ RecvShutdown(p) \/ RecvClosingSigned(p)

CloseForce(p) == ForceLoad(p) \/ ForceBroadcast(p) \/ ForceStop(p)

Next ==
    \E p \in Peer :
        \/ Offer(p) \/ OtherChannel(p) \/ Idle(p) \/ Receive(p)
        \/ CloseRpc(p) \/ CloseForce(p) \/ PeerGone(p)

Spec == Init /\ [][Next]_vars

\* The receive thread polls the socket for ever: it reads what has arrived and
\* runs the idle procedure when nothing has.  The other channels resolve what
\* was forwarded.
FairSpec ==
    /\ Spec
    /\ \A p \in Peer : /\ WF_vars(Receive(p))
                       /\ WF_vars(Idle(p))
                       /\ WF_vars(OtherChannel(p))
                       /\ WF_vars(PeerGone(p))
=============================================================================
