------------------------- MODULE ChannelProperties -------------------------
(***************************************************************************)
(* What makes the channel of module Channel correct.                       *)
(***************************************************************************)
EXTENDS Channel

Commit(p) == self[p].commit_local
Remote(p) == self[p].commit_remote

\* The positions of the messages of one type on their way to p.
Carried(p, type) == {k \in DOMAIN net[p] : net[p][k].type = type}

----------------------------------------------------------------------------
(* Commitment numbers and secrets.                                         *)

\* The two ends agree on which commitment is next: recv_idle_proc_nonfinal
\* never has two unacknowledged commitment_signed of one end under way, and
\* the secret a revoke_and_ack reveals is the one of the commitment just
\* replaced.
CommitNumbersAgree ==
    \A p \in Peer :
        LET q == Other(p)
        IN  /\ Remote(p).commit_num
                  \in {Commit(q).commit_num, Commit(q).commit_num + 1}
            /\ \A k \in Carried(q, "commitment_signed") :
                  /\ net[q][k].tx.num = Commit(q).commit_num + 1
                  /\ Remote(p).commit_num = Commit(q).commit_num + 1
            /\ \A k \in Carried(p, "revoke_and_ack") :
                  /\ net[p][k].num = Commit(q).commit_num - 1
                  /\ Remote(p).commit_num = Commit(q).commit_num
            /\ \A j, k \in Carried(q, "commitment_signed") : j = k
            /\ \A j, k \in Carried(p, "revoke_and_ack") : j = k

\* The exchange of commitment_signed and revoke_and_ack, seen as numbers only,
\* behaves as module CommitLockstep says.
Lockstep ==
    INSTANCE CommitLockstep WITH
        End <- Peer, Peer <- Other,
        signed <- [p \in Peer |-> self[p].commit_remote.commit_num],
        accepted <- [p \in Peer |-> self[p].commit_local.commit_num],
        acked <- [p \in Peer |-> self[p].commit_remote.revoke_num + 1]

LockstepSpec == Lockstep!LockstepSpec

\* An end that is connected can punish every revoked commitment of its peer:
\* the secret is in its database (recv_revoke_and_ack stores and saves it) or
\* on its way.
PunishmentReady ==
    \A p \in Peer :
        Running(p) =>
            \A n \in 0 .. Commit(Other(p)).commit_num - 1 :
                \/ n \in db[p].peer_storage
                \/ \E k \in Carried(p, "revoke_and_ack") : net[p][k].num = n

\* thread_recv_start, which closes from the database when a handler fails,
\* never broadcasts a commitment whose secret has been revealed: the database
\* is not behind recv_commitment_signed.
NeverBroadcastRevoked ==
    \A p \in Peer \ ForceClosers :
        \A b \in broadcast[p] :
            b.type = "commit" => b.num >= Commit(p).commit_num

----------------------------------------------------------------------------
(* HTLCs and commitment transactions.                                      *)

\* Both ends derive the same commitment transaction from their own HTLC flags:
\* no honest commitment_signed is refused by create_to_local.
SignatureAgrees ==
    \A p \in Peer :
        Receiving(p, "commitment_signed") =>
            Head(net[p]).tx = create_to_local(self[p], Commit(p).commit_num + 1)

\* The signed commitments q can broadcast now or once its messages arrive.
Live(q) ==
    {tx \in {Commit(q).signature} : "num" \in DOMAIN tx}
      \cup {net[q][k].tx : k \in Carried(q, "commitment_signed")}

Held(s, add) ==
    {Ref(s.cnl_add_htlc[i]) :
        i \in {j \in Slot : s.cnl_add_htlc[j].addhtlc = add}}

\* An end keeps an HTLC it received, in memory and in its database, for as
\* long as the peer can broadcast a commitment that holds it: it can claim it.
ReceivedKept ==
    \A p \in Peer : \A tx \in Live(Other(p)), s \in {self[p], db[p]} :
        tx.offered \subseteq Held(s, "RECV")

\* So does it with an HTLC it offered: recv_idle_proc_final does not clear it
\* earlier, and it is saved before the peer gets a signature.
HtlcKept ==
    /\ ReceivedKept
    /\ \A p \in Peer : \A tx \in Live(Other(p)), s \in {self[p], db[p]} :
          tx.received \subseteq Held(s, "OFFER")

Settling(s, add) ==
    {Ref(s.cnl_add_htlc[i]) :
        i \in {j \in Slot : /\ s.cnl_add_htlc[j].addhtlc = add
                            /\ s.cnl_add_htlc[j].delhtlc = "FULFILL"}}

\* The two ends never disagree on who was paid: when recv_idle_proc_final
\* moves the amount of an HTLC on one side, the other side has moved it or is
\* settling the same HTLC as fulfilled.
PaymentsAgree ==
    \A p \in Peer :
        LET s == self[p]
            t == self[Other(p)]
        IN  /\ s.paid_out \subseteq t.paid_in \cup Settling(t, "RECV")
            /\ s.paid_in \subseteq t.paid_out \cup Settling(t, "OFFER")

\* A deletion (fulfill, fail, fail_malformed) reaches the offerer when the
\* addition is exchanged both ways: clear_htlc_comrevflag never drops it.
DeletionApplies ==
    \A p \in Peer : \A type \in UpdateType :
        Receiving(p, type) =>
            \E i \in Slot : /\ OfferedSlot(self[p], Head(net[p]).id, i)
                            /\ Exchanged(self[p].cnl_add_htlc[i])

\* No handler fails between two honest ends: the channel stays up.
ChannelSurvives == \A p \in Peer : Running(p)

\* What an end of a channel between honest ends may stop for: an HTLC it has
\* no room for, a mutual close, a request, the end of the other thread.  No
\* commitment_signed and no deletion makes a handler fail.
StopReasons ==
    [][\A p \in Peer :
          Running(p) /\ thread'[p] # "run" =>
             \/ /\ Receiving(p, "update_add_htlc")
                /\ \/ ~check_recv_add_htlc_bolt2(p, Head(net[p]))
                   \/ \A i \in Slot : ~FreeSlot(self[p], i)
             \/ Receiving(p, "shutdown") \/ Receiving(p, "closing_signed")
             \/ rpc[p].stage = "sent"
             \/ ~Running(Other(p))]_vars

\* Every HTLC is eventually resolved and gone from the slots of both ends.
HtlcsResolved == []<>(\A p \in Peer : Enabled(self[p]) = {})

----------------------------------------------------------------------------
(* Mutual close.                                                           *)

IsClosing(b) == b.type = "closing"

\* The funding output is spent in one way only: once one end has broadcast
\* the closing transaction, no failing handler of either end broadcasts a
\* commitment.  recv_shutdown saves CLOSE_WAIT before it signs anything.
ClosingExclusive ==
    (\E p \in Peer : \E b \in broadcast[p] : IsClosing(b)) =>
        \A p \in Peer \ ForceClosers : \A b \in broadcast[p] : IsClosing(b)

\* Both ends take part in a mutual close, the HTLCs are gone, and no
\* closing_signed has been sent yet.
ClosingQuietly ==
    \A p \in Peer :
        /\ Running(p)
        /\ self[p].shutdown_flag # {}
        /\ Enabled(self[p]) = {}
        /\ Carried(p, "update_add_htlc") = {}
        /\ self[p].close_last_fee_sat = 0

\* Such a close ends with the closing transaction broadcast.
ClosingEnds ==
    ClosingQuietly ~> \E p \in Peer : \E b \in broadcast[p] : IsClosing(b)

----------------------------------------------------------------------------
(* What the comments and assertions of the source say and the code does    *)
(* not do: TLC refutes each one on the instances the README names.         *)

\* ln.c: an assertion says the closing transactions of the two ends agree.
NeverAborts == \A p \in Peer : thread[p] # "aborted"

\* ln.c: a unilateral close is possible whenever the channel is open: the
\* commitment rebuilt from the database fits the stored signature.
UnilateralClosePossible ==
    \A p \in Peer :
        Running(p) /\ ~ln_status_is_closing(db[p]) => UnilateralTxValid(db[p])

\* ln.c: the transaction of a unilateral close is the current commitment.
UnilateralCloseIsCurrent ==
    \A p \in Peer :
        \A b \in broadcast[p] :
            b.type = "commit" => b.num >= Commit(p).commit_num

\* ln.c: a shutdown that was already received changes nothing.
RepeatedShutdownIgnored ==
    [][\A p \in Peer :
          Receiving(p, "shutdown") /\ "RECV" \in self[p].shutdown_flag =>
              thread'[p] = thread[p]]_vars
=============================================================================
