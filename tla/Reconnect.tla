----------------------------- MODULE Reconnect -----------------------------
(***************************************************************************)
(* The channel of module Channel over several connections.  A connection   *)
(* is lost at any time (or a process dies inside recv_commitment_signed);  *)
(* whatever ln_self_t held in memory only is lost with it.  The next       *)
(* connection starts from the databases: thread_main_start exchanges       *)
(* channel_reestablish, perhaps funding_locked, and then sends again what  *)
(* the numbers in channel_reestablish say is missing.                      *)
(*                                                                         *)
(* thread_main_start and the receive thread run concurrently: the handlers *)
(* and the idle procedure of Channel are not held back until the exchange  *)
(* is over.  What thread_main_start sends again it sends without mux_self, *)
(* in one step for each thing it reads, sends or saves; it does so even    *)
(* when the connection is lost meanwhile.  init is exchanged by the time a *)
(* connection starts here.                                                 *)
(***************************************************************************)
EXTENDS ChannelProperties

CONSTANTS
    MaxDrops,       \* bound: connections lost
    MaxCrashes      \* bound: processes that die

ASSUME FaultAssumption == MaxDrops \in Nat /\ MaxCrashes \in Nat

VARIABLES
    session,    \* thread_main_start of each end
    storage,    \* the secrets each end holds, in the order of peer_storage_index
    faults      \* connections lost and processes dead so far

rvars == <<vars, session, storage, faults>>

\* Where thread_main_start is: before channel_reestablish is sent, waiting for
\* the peer's, waiting for funding_locked; looking for an update to send again,
\* sending it, counting the commitment back, sending revoke_and_ack and
\* shutdown again; in its main loop.
Resending == {"after", "update", "count", "revoke", "shutdown"}
Phase == {"init", "reestablish", "funding_locked", "loop"} \cup Resending

\* flag_recv, the two numbers recv_channel_reestablish leaves in ln_self_t, and
\* the update sent again, with its slot.
SessionType ==
    [ phase : Phase, flag_recv : SUBSET {"REESTABLISH", "FUNDINGLOCKED"},
      reest_commit_num : Nat, reest_revoke_num : Int,
      update : Seq([slot : Slot, msg : Message]) ]

NewSession ==
    [ phase |-> "init", flag_recv |-> {},
      reest_commit_num |-> 0, reest_revoke_num |-> 0, update |-> <<>> ]

\* The channel was established over the connection that is up first.
RInit ==
    /\ Init
    /\ session = [p \in Peer |->
                    [NewSession EXCEPT !.phase = "loop"]]
    /\ storage = [p \in Peer |-> <<>>]
    /\ faults = [drops |-> 0, crashes |-> 0]

\* RECV_MSG_END: payments and other channels may use this one.
lnapp_is_inited(p) == session[p].phase \in {"funding_locked", "loop"} \cup Resending

Session(p, s) == session' = [session EXCEPT ![p] = s]

----------------------------------------------------------------------------
(* Losing the connection and connecting again.                             *)

Drop(p) ==
    /\ Running(p)
    /\ faults.drops < MaxDrops
    /\ Stop(p, "stopped")
    /\ faults' = [faults EXCEPT !.drops = @ + 1]
    /\ UNCHANGED <<self, db, broadcast, rpc, closes, session, storage>>

\* recv_commitment_signed has sent revoke_and_ack and dies before it saves.
CrashAfterRevoke(p) ==
    LET s == self[p]
    IN  /\ Receiving(p, "commitment_signed")
        /\ faults.crashes < MaxCrashes
        /\ Head(net[p]).tx = create_to_local(s, s.commit_local.commit_num + 1)
        /\ thread' = [thread EXCEPT ![p] = "aborted"]
        /\ net' = Sent([net EXCEPT ![p] = <<>>], p,
                       <<[ type |-> "revoke_and_ack",
                           num |-> s.commit_local.commit_num ]>>)
        /\ faults' = [faults EXCEPT !.crashes = @ + 1]
        /\ UNCHANGED <<self, db, broadcast, rpc, closes, session, storage>>

\* A thread that has been stopped still finishes what it does here.
Finishing(p) ==
    /\ thread[p] # "aborted"
    /\ session[p].phase \in {"funding_locked"} \cup Resending

\* Both ends load the channel; an end that is closing ends the connection.
\* The funding output is unspent.
Connect ==
    /\ \A p \in Peer : /\ ~Running(p) /\ ~Finishing(p)
                       /\ broadcast[p] = {}
                       /\ ~ln_status_is_closing(db[p])
    /\ self' = db
    /\ thread' = [p \in Peer |-> "run"]
    /\ session' = [p \in Peer |-> NewSession]
    /\ UNCHANGED <<db, net, broadcast, rpc, closes, storage, faults>>

----------------------------------------------------------------------------
(* thread_main_start.                                                      *)

\* your_last_per_commitment_secret: the secret at a position of the storage,
\* or zeros (-1).
LastSecret(s, secrets) ==
    LET n == s.commit_remote.commit_num
    IN  IF n \in DOMAIN secrets THEN secrets[n] ELSE -1

\* A slip: the number of the last commitment instead of the next one.
reestablish_create_Last(s, secrets) ==
    [ type |-> "channel_reestablish",
      next_local_commitment_number |-> s.commit_local.commit_num,
      next_remote_revocation_number |-> s.commit_remote.revoke_num + 1,
      your_last_per_commitment_secret |-> LastSecret(s, secrets) ]

ln_channel_reestablish_create(s, secrets) ==
    [ type |-> "channel_reestablish",
      next_local_commitment_number |-> s.commit_local.commit_num + 1,
      next_remote_revocation_number |-> s.commit_remote.revoke_num + 1,
      your_last_per_commitment_secret |-> LastSecret(s, secrets) ]

exchange_reestablish(p) ==
    /\ Running(p) /\ session[p].phase = "init"
    /\ net' = Sent(net, p, <<ln_channel_reestablish_create(self[p], storage[p])>>)
    /\ Session(p, [session[p] EXCEPT !.phase = "reestablish"])
    /\ UNCHANGED <<self, db, Environment, storage, faults>>

ln_funding_locked_check_need(p) ==
    \/ /\ self[p].commit_local.commit_num = 0
       /\ self[p].commit_remote.commit_num = 0
    \/ session[p].reest_commit_num = 1 /\ session[p].reest_revoke_num = 0

\* channel_reestablish has arrived: funding_locked is sent when needed.
exchange_funding_locked(p) ==
    /\ Running(p) /\ session[p].phase = "reestablish"
    /\ "REESTABLISH" \in session[p].flag_recv
    /\ IF ln_funding_locked_check_need(p)
       THEN /\ Session(p, [session[p] EXCEPT !.phase = "funding_locked"])
            /\ net' = Sent(net, p, <<[type |-> "funding_locked"]>>)
       ELSE /\ Session(p, [session[p] EXCEPT !.phase = "after"])
            /\ UNCHANGED net
    /\ UNCHANGED <<self, db, Environment, storage, faults>>

\* The wait for funding_locked has no timeout; a stop ends it like an arrival.
FundingLockedExchanged(p) ==
    /\ Finishing(p) /\ session[p].phase = "funding_locked"
    /\ ~Running(p) \/ "FUNDINGLOCKED" \in session[p].flag_recv
    /\ Session(p, [session[p] EXCEPT !.phase = "after"])
    /\ UNCHANGED <<self, db, net, Environment, storage, faults>>

\* The wait for channel_reestablish has: the thread stops.
ReestablishTimeout(p) ==
    /\ Running(p) /\ session[p].phase = "reestablish"
    /\ "REESTABLISH" \notin session[p].flag_recv
    /\ faults.drops < MaxDrops
    /\ Stop(p, "stopped")
    /\ faults' = [faults EXCEPT !.drops = @ + 1]
    /\ UNCHANGED <<self, db, broadcast, rpc, closes, session, storage>>

\* M_HTLCFLAG_BITS_xxx: an update and its commitment_signed have been sent and
\* nothing else has happened to the change since.
JustCommitted(h) ==
    /\ LN_HTLC_ENABLE(h)
    /\ (h.addhtlc = "OFFER") = (h.delhtlc = "NONE")
    /\ h.updsend /\ h.comsend
    /\ ~h.revrecv /\ ~h.comrecv /\ ~h.revsend

\* The first such slot.
ResendSlot(s, i) ==
    /\ JustCommitted(s.cnl_add_htlc[i])
    /\ \A j \in 0 .. i - 1 : ~JustCommitted(s.cnl_add_htlc[j])

\* Only a thread whose connection is up sends.
SentIfUp(p, ms) == IF Running(p) THEN Sent(net, p, ms) ELSE net

\* ln_channel_reestablish_after, the update: the message is built and comsend
\* taken back, so that the idle procedure may sign from here on.
ResendFind(p) ==
    LET s == self[p]
        reuse == s.commit_remote.commit_num = session[p].reest_commit_num
    IN  /\ Finishing(p) /\ session[p].phase = "after"
        /\ \/ \E i \in Slot :
                /\ reuse /\ ResendSlot(s, i)
                /\ Keep(p, [s EXCEPT !.cnl_add_htlc[i].comsend = FALSE])
                /\ Session(p, [session[p] EXCEPT !.phase = "update", !.update =
                       <<[slot |-> i, msg |-> UpdateMsg(s.cnl_add_htlc[i])]>>])
           \/ /\ ~reuse \/ \A i \in Slot : ~ResendSlot(s, i)
              /\ Session(p, [session[p] EXCEPT !.phase = "revoke"])
              /\ UNCHANGED self
        /\ UNCHANGED <<db, net, Environment, storage, faults>>

ResendUpdate(p) ==
    /\ Finishing(p) /\ session[p].phase = "update"
    /\ net' = SentIfUp(p, <<Head(session[p].update).msg>>)
    /\ Session(p, [session[p] EXCEPT !.phase = "count"])
    /\ UNCHANGED <<self, db, Environment, storage, faults>>

\* The number of the commitment_signed that is to be sent again.
ResendCount(p) ==
    LET i == Head(session[p].update).slot
    IN  /\ Finishing(p) /\ session[p].phase = "count"
        /\ Save(p, [self[p] EXCEPT !.cnl_add_htlc[i].updsend = TRUE,
                                   !.commit_remote.commit_num = @ - 1])
        /\ Session(p, [session[p] EXCEPT !.phase = "revoke", !.update = <<>>])
        /\ UNCHANGED <<net, Environment, storage, faults>>

\* ln_signer_create_prev_percommitsec: storage_index + 2, which is the secret
\* of the current commitment once the new keys have been derived.
ln_signer_create_prev_percommitsec(s) == s.commit_local.commit_num

ResendRevoke(p) ==
    /\ Finishing(p) /\ session[p].phase = "revoke"
    /\ net' = IF self[p].commit_local.revoke_num = session[p].reest_revoke_num
              THEN SentIfUp(p, <<[ type |-> "revoke_and_ack",
                       num |-> ln_signer_create_prev_percommitsec(self[p]) ]>>)
              ELSE net
    /\ Session(p, [session[p] EXCEPT !.phase = "shutdown"])
    /\ UNCHANGED <<self, db, Environment, storage, faults>>

ResendShutdown(p) ==
    /\ Finishing(p) /\ session[p].phase = "shutdown"
    /\ net' = IF "SEND" \in self[p].shutdown_flag
              THEN SentIfUp(p, <<[type |-> "shutdown"]>>) ELSE net
    /\ Session(p, [session[p] EXCEPT !.phase = "loop"])
    /\ UNCHANGED <<self, db, Environment, storage, faults>>

----------------------------------------------------------------------------
(* The handlers that Channel does not have.                                *)

\* The numbers of m fit those of s, or differ by the one message that may be
\* lost.
NumbersFit(s, m) ==
    /\ m.next_local_commitment_number
           \in {s.commit_remote.commit_num, s.commit_remote.commit_num + 1}
    /\ m.next_remote_revocation_number
           \in {s.commit_local.revoke_num, s.commit_local.revoke_num + 1}

\* option_data_loss_protect, which both ends support by default: the peer
\* proves that this end has lost data.  The secret compared is storage_index+4.
DataLossProved(s, m) ==
    /\ m.next_remote_revocation_number > s.commit_local.commit_num
    /\ m.your_last_per_commitment_secret = s.commit_local.commit_num - 2
    /\ s.commit_local.commit_num >= 2

recv_channel_reestablish(p) ==
    LET m == Head(net[p])
    IN  /\ Receiving(p, "channel_reestablish")
        /\ \/ /\ NumbersFit(self[p], m) \/ DataLossProved(self[p], m)
              /\ Session(p, [session[p] EXCEPT
                    !.flag_recv = @ \cup {"REESTABLISH"},
                    !.reest_commit_num = m.next_local_commitment_number,
                    !.reest_revoke_num = m.next_remote_revocation_number])
              /\ net' = Read(net, p)
              /\ UNCHANGED <<self, db, Environment>>
           \/ /\ ~NumbersFit(self[p], m) /\ ~DataLossProved(self[p], m)
              /\ FailChannel(p)
              /\ UNCHANGED session
        /\ UNCHANGED <<storage, faults>>

recv_funding_locked(p) ==
    /\ Receiving(p, "funding_locked")
    /\ Save(p, self[p])
    /\ Session(p, [session[p] EXCEPT !.flag_recv = @ \cup {"FUNDINGLOCKED"}])
    /\ net' = Read(net, p)
    /\ UNCHANGED <<Environment, storage, faults>>

\* ln_derkey_storage_insert_secret: the secret of an odd position must derive
\* the ones before it; that of an even position is taken as it comes.
Insertable(secrets, num) ==
    Len(secrets) % 2 = 1 =>
        num = Len(secrets) /\ secrets[Len(secrets)] = num - 1

recv_revoke_and_ack(p) ==
    LET num == Head(net[p]).num
    IN  \/ /\ RecvRevokeAndAck(p)
           /\ Insertable(storage[p], num)
           /\ storage' = [storage EXCEPT ![p] = Append(@, num)]
           /\ UNCHANGED <<session, faults>>
        \/ \* store_peer_percommit_secret: assert(0)
           /\ Receiving(p, "revoke_and_ack")
           /\ ~Insertable(storage[p], num)
           /\ Stop(p, "aborted")
           /\ UNCHANGED <<self, db, broadcast, rpc, closes,
                          session, storage, faults>>

----------------------------------------------------------------------------
\* What Channel does on one connection.
Operate(p) ==
    /\ \/ lnapp_is_inited(p) /\ (Offer(p) \/ OtherChannel(p))
       \/ Idle(p)
       \/ RecvAddHtlc(p)
       \/ RecvFulfillHtlc(p) \/ RecvFailHtlc(p) \/ RecvFailMalformedHtlc(p)
       \/ RecvCommitmentSigned(p)
       \/ RecvShutdown(p) \/ RecvClosingSigned(p)
       \/ CloseRpc(p) \/ PeerGone(p)
    /\ UNCHANGED <<session, storage, faults>>

MainThread(p) ==
    \/ exchange_reestablish(p)
    \/ exchange_funding_locked(p)
    \/ FundingLockedExchanged(p)
    \/ ResendFind(p) \/ ResendUpdate(p) \/ ResendCount(p)
    \/ ResendRevoke(p) \/ ResendShutdown(p)

RNext ==
    \/ Connect
    \/ \E p \in Peer :
         \/ Operate(p) \/ MainThread(p)
         \/ recv_channel_reestablish(p)
         \/ recv_funding_locked(p)
         \/ recv_revoke_and_ack(p)
         \/ Drop(p) \/ CrashAfterRevoke(p) \/ ReestablishTimeout(p)

RSpec == RInit /\ [][RNext]_rvars

----------------------------------------------------------------------------
(* Properties; PaymentsAgree of ChannelProperties is checked here as well. *)

\* Nothing has been resent yet: the connection over which the channel opened
\* is up or has just been lost.
FirstConnection ==
    /\ faults.crashes = 0
    /\ \A p \in Peer : session[p] = [NewSession EXCEPT !.phase = "loop"]

\* Wherever the first connection breaks, and whichever messages are lost with
\* it, recv_channel_reestablish accepts the numbers in the databases: each
\* handler saves the numbers before the peer can depend on them, so each end
\* lacks at most one commitment_signed and one revoke_and_ack of the other.
DatabasesFit ==
    FirstConnection =>
        \A p \in Peer :
            NumbersFit(db[p],
                ln_channel_reestablish_create(db[Other(p)], storage[Other(p)]))

\* The secrets p has given away, received or on their way.
Revealed(p) ==
    LET q == Other(p)
    IN  {storage[q][k] : k \in DOMAIN storage[q]}
          \cup {net[q][k].num : k \in Carried(q, "revoke_and_ack")}

\* ln.c: the revoke_and_ack that is sent again carries the secret of a
\* commitment that has been replaced, never the one of the current commitment.
OnlyReplacedRevealed ==
    \A p \in Peer : \A n \in Revealed(p) : n < self[p].commit_local.commit_num
=============================================================================
