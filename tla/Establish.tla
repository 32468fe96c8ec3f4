------------------------------ MODULE Establish ------------------------------
(***************************************************************************)
(* Opening a channel: open_channel to funding_locked and the exchange of   *)
(* announcement_signatures, at both ends, with the confirmations of the    *)
(* funding transaction, lost connections, a process that dies inside a     *)
(* handler, and reconnection from the databases.                           *)
(*                                                                         *)
(* Four threads of an end matter: the RPC thread (cmd_fund), the receive   *)
(* thread, the main thread (exchange of channel_reestablish and            *)
(* funding_locked after a reconnection) and the polling thread (depth of   *)
(* the funding transaction).  Only the receive thread holds mux_self.      *)
(***************************************************************************)
EXTENDS Integers, Sequences, FiniteSets

CONSTANTS
    Peer,           \* the two ends
    MinDepth,       \* minimum_depth each end asks for
    ANNOSIGS_CONFIRM,
    FundingSat,     \* the amount of a channel
    PushSat,        \* amounts pushed to the fundee
    \* Bounds.
    MaxOpens,       \* open_channel requests
    MaxDepth,       \* confirmations
    MaxDrops,       \* connections lost
    MaxCrashes,     \* processes that die
    MaxRejects      \* funding transactions bitcoind refuses

ASSUME EstPeerAssumption == \E a, b \in Peer : a # b /\ Peer = {a, b}
ASSUME EstDepthAssumption ==
    /\ MinDepth \in [Peer -> Nat] /\ ANNOSIGS_CONFIRM \in Nat
    /\ FundingSat \in Nat /\ PushSat \subseteq 0 .. FundingSat
ASSUME EstBoundAssumption ==
    /\ MaxOpens \in Nat /\ MaxDepth \in Nat /\ MaxDrops \in Nat
    /\ MaxCrashes \in Nat /\ MaxRejects \in Nat

Other(p) == CHOOSE q \in Peer : q # p

VARIABLES
    self,       \* ln_self_t of each end, in memory
    db,         \* what ln_db_self_save wrote
    conf,       \* lnapp_conf_t of each end: flags and threads
    net,        \* messages on their way to each end
    chain,      \* confirmations of each funding transaction, -1: unknown
    forced,     \* the ends that closed unilaterally
    count       \* requests and faults so far

vars == <<self, db, conf, net, chain, forced, count>>

Txid == 1 .. MaxOpens

\* channel_id: none, temporary, or derived from the funding transaction.
ChannelId == {"none", "temp", "funding"} \X (0 .. MaxOpens)

\* A commitment transaction 0: its funding, its owner's point and amounts.
NoSig == <<0, 0, 0, 0>>

SelfType ==
    [ fund_flag : SUBSET {"FUNDER", "ANNO_CH", "FUNDING", "OPENED"},
      channel_id : ChannelId,
      txid : 0 .. MaxOpens,
      status : {"NONE", "ESTABLISH", "NORMAL"},
      short_channel_id : BOOLEAN,
      our : 0 .. FundingSat, their : 0 .. FundingSat,
      min_depth : Nat,
      local_pt : {0, 1}, remote_pt : {0, 1},
      signature : Seq(Nat),
      anno_flag : SUBSET {"SEND", "RECV", "END"} ]

NewSelf ==
    [ fund_flag |-> {}, channel_id |-> <<"none", 0>>, txid |-> 0,
      status |-> "NONE", short_channel_id |-> FALSE, our |-> 0, their |-> 0,
      min_depth |-> 0, local_pt |-> 0, remote_pt |-> 0, signature |-> NoSig,
      anno_flag |-> {} ]

\* main: waiting for channel_reestablish, for funding_locked, or in its loop.
\* poll: waiting for funding_locked or not, or its process has died.  A stop
\* lets the main and polling threads finish what they do: the polling thread
\* ends at the start of its next round.
ConfType ==
    [ loop : BOOLEAN,
      flag_recv : SUBSET {"REESTABLISH", "FUNDINGLOCKED", "END"},
      funding_waiting : BOOLEAN, annosigns : BOOLEAN,
      main : {"reestablish", "check", "locked", "loop"},
      poll : {"idle", "locked", "ended"} ]

TypeOK ==
    /\ self \in [Peer -> SelfType] /\ db \in [Peer -> SelfType]
    /\ conf \in [Peer -> ConfType]
    /\ chain \in [Txid -> -1 .. MaxDepth]
    /\ forced \subseteq Peer

----------------------------------------------------------------------------
(* Connections.                                                            *)

Saved(p) == db[p].status # "NONE"

\* thread_main_start up to the exchange of init, with the channel s it loads.
NewConf(s) ==
    [ loop |-> TRUE,
      flag_recv |-> IF s.status = "NONE" THEN {"END"} ELSE {},
      funding_waiting |-> s.status = "ESTABLISH", annosigns |-> FALSE,
      main |-> IF s.status = "NONE" THEN "loop" ELSE "reestablish",
      poll |-> "idle" ]

free_establish(s) ==
    [s EXCEPT !.fund_flag = (@ \ {"FUNDING"}) \cup {"OPENED"}]

Loaded(s) == IF s.status = "NORMAL" THEN free_establish(s) ELSE s

Reestablish(p) ==
    IF Saved(p)
    THEN <<[type |-> "channel_reestablish", id |-> db[p].channel_id]>> ELSE <<>>

Init ==
    /\ self = [p \in Peer |-> NewSelf]
    /\ db = [p \in Peer |-> NewSelf]
    /\ conf = [p \in Peer |-> NewConf(NewSelf)]
    /\ net = [p \in Peer |-> <<>>]
    /\ chain = [t \in Txid |-> -1]
    /\ forced = {}
    /\ count = [opens |-> 0, drops |-> 0, crashes |-> 0, rejects |-> 0]

Running(p) == conf[p].loop

\* What is sent to an end that has gone is lost.
Sent(nt, p, msgs) ==
    IF conf[Other(p)].loop THEN [nt EXCEPT ![Other(p)] = @ \o msgs] ELSE nt

\* A thread that has been stopped sends nothing.
SentIfUp(p, msgs) == IF Running(p) THEN Sent(net, p, msgs) ELSE net

Read(p) == [net EXCEPT ![p] = Tail(@)]

Receiving(p, type) ==
    /\ Running(p) /\ net[p] # <<>>
    /\ Head(net[p]).type = type

\* stop_threads.
Stop(p) ==
    /\ conf' = [conf EXCEPT ![p].loop = FALSE]
    /\ net' = [net EXCEPT ![p] = <<>>]

\* A handler returns false: lnapp_close_channel_force broadcasts what the
\* database holds, if its funding transaction is known, and the threads stop.
Fail(p) ==
    /\ Stop(p)
    /\ forced' = IF Saved(p) /\ chain[db[p].txid] >= 0
                 THEN forced \cup {p} ELSE forced
    /\ UNCHANGED <<self, db, chain, count>>

Drop(p) ==
    /\ Running(p) /\ count.drops < MaxDrops
    /\ Stop(p)
    /\ count' = [count EXCEPT !.drops = @ + 1]
    /\ UNCHANGED <<self, db, chain, forced>>

PeerGone(p) ==
    /\ Running(p) /\ net[p] = <<>> /\ ~Running(Other(p))
    /\ Stop(p)
    /\ UNCHANGED <<self, db, chain, forced, count>>

\* The process dies.
Die(p) == conf' = [conf EXCEPT ![p].loop = FALSE, ![p].poll = "ended"]

\* Both processes run again; the threads of the last connection have ended.
Connect ==
    /\ \A p \in Peer : /\ ~Running(p) /\ conf[p].poll # "locked"
                       /\ conf[p].main \in {"reestablish", "loop"}
    /\ forced = {}
    /\ self' = [p \in Peer |-> Loaded(db[p])]
    /\ conf' = [p \in Peer |-> NewConf(db[p])]
    /\ net' = [p \in Peer |-> Reestablish(Other(p))]
    /\ UNCHANGED <<db, chain, forced, count>>

----------------------------------------------------------------------------
(* open_channel to funding_signed.                                         *)

Save(p, s) ==
    /\ self' = [self EXCEPT ![p] = s]
    /\ db' = [db EXCEPT ![p] = s]

\* cmd_fund_proc, send_open_channel and ln_open_channel_create.  The RPC
\* thread does not hold mux_self; the check of FUNDING and its setting at the
\* end of ln_open_channel_create are taken as one step.
lnapp_funding(p, push) ==
    LET id == <<"temp", count.opens + 1>>
    IN  /\ Running(p) /\ "END" \in conf[p].flag_recv
        /\ ~Saved(p) /\ "FUNDING" \notin self[p].fund_flag
        /\ count.opens < MaxOpens
        /\ self' = [self EXCEPT ![p] =
             [@ EXCEPT !.channel_id = id, !.local_pt = 0,
                       !.our = FundingSat - push, !.their = push,
                       !.fund_flag = {"FUNDER", "ANNO_CH", "FUNDING"}]]
        /\ net' = Sent(net, p, <<[type |-> "open_channel", push |-> push,
                                  id |-> id]>>)
        /\ count' = [count EXCEPT !.opens = @ + 1]
        /\ UNCHANGED <<db, conf, chain, forced>>

\* A feerate or an amount this end does not accept: an error is sent first.
RefuseOpenChannel(p) ==
    /\ Receiving(p, "open_channel")
    /\ self[p].fund_flag \cap {"FUNDER", "FUNDING"} = {}
    /\ count.rejects < MaxRejects
    /\ net' = Sent([net EXCEPT ![p] = <<>>], p, <<[type |-> "error"]>>)
    /\ conf' = [conf EXCEPT ![p].loop = FALSE]
    /\ count' = [count EXCEPT !.rejects = @ + 1]
    /\ UNCHANGED <<self, db, chain, forced>>

their_msat(push) == FundingSat - push

recv_open_channel(p) ==
    LET m == Head(net[p])
        s == self[p]
    IN  /\ Receiving(p, "open_channel")
        /\ IF s.fund_flag \cap {"FUNDER", "FUNDING"} # {} \/ s.short_channel_id
           THEN Fail(p)
           ELSE /\ self' = [self EXCEPT ![p] =
                     [s EXCEPT !.channel_id = m.id,
                               !.our = m.push, !.their = their_msat(m.push),
                               !.local_pt = 0, !.remote_pt = 0,
                               !.min_depth = MinDepth[p],
                               !.fund_flag = {"ANNO_CH", "FUNDING"}]]
                /\ net' = Sent(Read(p), p,
                     <<[type |-> "accept_channel", id |-> m.id,
                        min_depth |-> MinDepth[p]]>>)
                /\ UNCHANGED <<db, conf, chain, forced, count>>

\* create_to_remote and create_to_local of commitment 0.
create_to_remote(s) == <<s.txid, s.remote_pt, s.their, s.our>>
create_to_local(s) == <<s.txid, s.local_pt, s.our, s.their>>

FundingId(s) == <<"funding", s.txid>>

\* A slip: minimum_depth of accept_channel is not kept.
accept_channel_NoDepth(s, m) ==
    [s EXCEPT !.remote_pt = 0, !.txid = s.channel_id[2]]

\* The funding transaction is made and signed; it is not yet broadcast.
AcceptChannel(s, m) ==
    [s EXCEPT !.remote_pt = 0, !.min_depth = m.min_depth,
              !.txid = s.channel_id[2]]

recv_accept_channel(p) ==
    LET m == Head(net[p])
        s == AcceptChannel(self[p], m)
    IN  /\ Receiving(p, "accept_channel")
        /\ IF "FUNDER" \notin self[p].fund_flag \/ m.id # self[p].channel_id
           THEN Fail(p)
           ELSE /\ self' = [self EXCEPT ![p] = s]
                /\ net' = Sent(Read(p), p,
                     <<[type |-> "funding_created", id |-> m.id,
                        txid |-> s.txid, signature |-> create_to_remote(s)]>>)
                /\ UNCHANGED <<db, conf, chain, forced, count>>

\* A slip: the next point is made before the signature is kept.
FundingSigned_Late(s, m) == [s EXCEPT !.channel_id = <<"funding", s.txid>>]

\* start_funding_wait: the numbers and the next point, then status and save.
start_funding_wait(s) == [s EXCEPT !.local_pt = 1, !.status = "ESTABLISH"]

FundingCreated(s, m) ==
    [s EXCEPT !.txid = m.txid, !.signature = m.signature,
              !.channel_id = <<"funding", m.txid>>]

recv_funding_created(p) ==
    LET m == Head(net[p])
        s == FundingCreated(self[p], m)
    IN  /\ Receiving(p, "funding_created")
        /\ IF \/ "FUNDER" \in self[p].fund_flag \/ m.id # self[p].channel_id
              \/ m.signature # create_to_local(s)
           THEN Fail(p)
           ELSE /\ net' = Sent(Read(p), p,
                     <<[type |-> "funding_signed", id |-> FundingId(s),
                        signature |-> create_to_remote(s)]>>)
                /\ Save(p, start_funding_wait(s))
                /\ conf' = [conf EXCEPT ![p].funding_waiting = TRUE]
                /\ UNCHANGED <<chain, forced, count>>

\* The fundee dies after funding_signed is sent and before it saves.
CrashFundee(p) ==
    LET m == Head(net[p])
        s == FundingCreated(self[p], m)
    IN  /\ Receiving(p, "funding_created")
        /\ "FUNDER" \notin self[p].fund_flag /\ m.id = self[p].channel_id
        /\ count.crashes < MaxCrashes
        /\ net' = Sent([net EXCEPT ![p] = <<>>], p,
             <<[type |-> "funding_signed", id |-> FundingId(s),
                signature |-> create_to_remote(s)]>>)
        /\ Die(p)
        /\ count' = [count EXCEPT !.crashes = @ + 1]
        /\ UNCHANGED <<self, db, chain, forced>>

FundingSigned(s, m) ==
    [s EXCEPT !.signature = m.signature, !.channel_id = FundingId(s)]

\* The message belongs to this channel and the commitment can be broadcast.
AcceptSigned(s, m) ==
    /\ "FUNDER" \in s.fund_flag
    /\ m.id = FundingId(s)
    /\ m.signature = create_to_local(s)

\* cb_funding_tx_wait broadcasts, then the channel is saved.
recv_funding_signed(p) ==
    LET m == Head(net[p])
        s == FundingSigned(self[p], m)
    IN  /\ Receiving(p, "funding_signed")
        /\ IF ~AcceptSigned(self[p], m)
           THEN Fail(p)
           ELSE /\ chain' = [chain EXCEPT ![s.txid] = 0]
                /\ Save(p, start_funding_wait(s))
                /\ conf' = [conf EXCEPT ![p].funding_waiting = TRUE]
                /\ net' = Read(p)
                /\ UNCHANGED <<forced, count>>

\* btcrpc_send_rawtx fails: the threads stop and nothing is saved.
BroadcastFails(p) ==
    /\ Receiving(p, "funding_signed")
    /\ AcceptSigned(self[p], Head(net[p]))
    /\ count.rejects < MaxRejects
    /\ Stop(p)
    /\ count' = [count EXCEPT !.rejects = @ + 1]
    /\ UNCHANGED <<self, db, chain, forced>>

\* The funder dies after the broadcast and before it saves.
CrashFunder(p) ==
    /\ Receiving(p, "funding_signed")
    /\ AcceptSigned(self[p], Head(net[p]))
    /\ count.crashes < MaxCrashes
    /\ chain' = [chain EXCEPT ![self[p].txid] = 0]
    /\ Die(p)
    /\ net' = [net EXCEPT ![p] = <<>>]
    /\ count' = [count EXCEPT !.crashes = @ + 1]
    /\ UNCHANGED <<self, db, forced>>

\* recv_error and cb_error_recv.
recv_error(p) ==
    /\ Receiving(p, "error")
    /\ self' = IF "FUNDING" \in self[p].fund_flag
               THEN [self EXCEPT ![p] = free_establish(@)] ELSE self
    /\ conf' = [conf EXCEPT ![p].loop = FALSE, ![p].funding_waiting = FALSE]
    /\ net' = [net EXCEPT ![p] = <<>>]
    /\ UNCHANGED <<db, chain, forced, count>>

----------------------------------------------------------------------------
(* funding_locked.                                                         *)

Confirm(t) ==
    /\ chain[t] \in 0 .. MaxDepth - 1
    /\ chain' = [chain EXCEPT ![t] = @ + 1]
    /\ UNCHANGED <<self, db, conf, net, forced, count>>

Depth(p) == IF self[p].txid = 0 THEN -1 ELSE chain[self[p].txid]

\* set_short_channel_id: bitcoind knows the block of the transaction.
ln_short_channel_id_set_param(s) ==
    [s EXCEPT !.short_channel_id = TRUE, !.status = "NORMAL"]

\* A slip: the temporary channel_id.
funding_locked_create_Temp(p) ==
    <<[type |-> "funding_locked", id |-> <<"temp", self[p].txid>>,
       pt |-> self[p].local_pt]>>

ln_funding_locked_create(p) ==
    <<[type |-> "funding_locked", id |-> self[p].channel_id,
       pt |-> self[p].local_pt]>>

\* A slip: a transaction in the mempool is deep enough.
poll_funding_wait_Unconfirmed(p) == conf[p].funding_waiting /\ Depth(p) >= 0

DeepEnough(p) == conf[p].funding_waiting /\ Depth(p) >= self[p].min_depth

\* poll_funding_wait up to the wait of exchange_funding_locked.
poll_funding_wait(p) ==
    /\ conf[p].poll = "idle"
    /\ DeepEnough(p)
    /\ Save(p, ln_short_channel_id_set_param(self[p]))
    /\ net' = SentIfUp(p, ln_funding_locked_create(p))
    /\ conf' = [conf EXCEPT ![p].poll = "locked"]
    /\ UNCHANGED <<chain, forced, count>>

\* The rest: also when the thread was stopped while it waited.
PollLocked(p) ==
    /\ conf[p].poll = "locked"
    /\ "FUNDINGLOCKED" \in conf[p].flag_recv \/ ~Running(p)
    /\ Save(p, ln_short_channel_id_set_param(self[p]))
    /\ conf' = [conf EXCEPT ![p].poll = "idle", ![p].funding_waiting = FALSE]
    /\ UNCHANGED <<net, chain, forced, count>>

FundingLocked(s, m) == [free_establish(s) EXCEPT !.remote_pt = m.pt]

recv_funding_locked(p) ==
    LET m == Head(net[p])
    IN  /\ Receiving(p, "funding_locked")
        /\ IF m.id # self[p].channel_id
           THEN Fail(p)
           ELSE /\ Save(p, FundingLocked(self[p], m))
                /\ conf' = [conf EXCEPT ![p].flag_recv = @ \cup {"FUNDINGLOCKED"}]
                /\ net' = Read(p)
                /\ UNCHANGED <<chain, forced, count>>

----------------------------------------------------------------------------
(* Reconnection: channel_reestablish, then funding_locked again.           *)

recv_channel_reestablish(p) ==
    /\ Receiving(p, "channel_reestablish")
    /\ IF Head(net[p]).id # self[p].channel_id
       THEN Fail(p)
       ELSE /\ conf' = [conf EXCEPT ![p].flag_recv = @ \cup {"REESTABLISH"}]
            /\ net' = Read(p)
            /\ UNCHANGED <<self, db, chain, forced, count>>

\* exchange_reestablish returns; RECV_MSG_END is set.
Reestablished(p) ==
    /\ Running(p) /\ conf[p].main = "reestablish"
    /\ "REESTABLISH" \in conf[p].flag_recv
    /\ conf' = [conf EXCEPT ![p].main = "check",
                            ![p].flag_recv = @ \cup {"END"}]
    /\ UNCHANGED <<self, db, net, chain, forced, count>>

ReestablishTimeout(p) ==
    /\ Running(p) /\ conf[p].main = "reestablish"
    /\ "REESTABLISH" \notin conf[p].flag_recv
    /\ count.drops < MaxDrops
    /\ Stop(p)
    /\ count' = [count EXCEPT !.drops = @ + 1]
    /\ UNCHANGED <<self, db, chain, forced>>

\* A slip: funding_locked is never sent again.
check_need_Never(p) == FALSE

\* No commitment has been exchanged since the channel was opened.
ln_funding_locked_check_need(p) == self[p].short_channel_id

exchange_funding_locked(p) ==
    /\ conf[p].main = "check"
    /\ IF ln_funding_locked_check_need(p)
       THEN /\ net' = SentIfUp(p, ln_funding_locked_create(p))
            /\ conf' = [conf EXCEPT ![p].main = "locked"]
       ELSE /\ conf' = [conf EXCEPT ![p].main = "loop"]
            /\ UNCHANGED net
    /\ UNCHANGED <<self, db, chain, forced, count>>

MainLocked(p) ==
    /\ conf[p].main = "locked"
    /\ "FUNDINGLOCKED" \in conf[p].flag_recv \/ ~Running(p)
    /\ Save(p, ln_short_channel_id_set_param(self[p]))
    /\ conf' = [conf EXCEPT ![p].main = "loop"]
    /\ UNCHANGED <<net, chain, forced, count>>

----------------------------------------------------------------------------
(* announcement_signatures.                                                *)

\* thread_poll_start, after poll_funding_wait or poll_normal_operating.  What
\* is asked for after a stop is never sent: the request is lost with conf,
\* ANNO_CH is cleared in the database.
PollAnnounce(p) ==
    /\ conf[p].poll = "idle"
    /\ "ANNO_CH" \in self[p].fund_flag
    /\ Depth(p) >= ANNOSIGS_CONFIRM /\ Depth(p) >= self[p].min_depth
    /\ ~DeepEnough(p)
    /\ conf' = [conf EXCEPT ![p].annosigns = TRUE]
    /\ Save(p, [self[p] EXCEPT !.fund_flag = @ \ {"ANNO_CH"}])
    /\ UNCHANGED <<net, chain, forced, count>>

proc_anno_sigs(s) ==
    IF s.anno_flag = {"SEND", "RECV"} /\ s.short_channel_id
    THEN [s EXCEPT !.anno_flag = @ \cup {"END"}] ELSE s

\* rcvidle_announcement_signs: the receive thread is idle.
ln_announce_signs_create(p) ==
    /\ Running(p) /\ net[p] = <<>> /\ conf[p].annosigns
    /\ Save(p, proc_anno_sigs([self[p] EXCEPT !.anno_flag = @ \cup {"SEND"}]))
    /\ net' = Sent(net, p, <<[type |-> "announcement_signatures",
                              id |-> self[p].channel_id]>>)
    /\ conf' = [conf EXCEPT ![p].annosigns = FALSE]
    /\ UNCHANGED <<chain, forced, count>>

\* A slip: the announcement is complete as soon as the peer has signed.
announcement_signatures_RecvOnly(s) ==
    [s EXCEPT !.short_channel_id = TRUE, !.anno_flag = @ \cup {"RECV", "END"}]

\* A short_channel_id not yet known is taken from the message.
AnnouncementSignatures(s) ==
    proc_anno_sigs([s EXCEPT !.short_channel_id = TRUE,
                             !.anno_flag = @ \cup {"RECV"}])

recv_announcement_signatures(p) ==
    /\ Receiving(p, "announcement_signatures")
    /\ IF self[p].fund_flag = {} \/ Head(net[p]).id # self[p].channel_id
       THEN Fail(p)
       ELSE /\ Save(p, AnnouncementSignatures(self[p]))
            /\ net' = Read(p)
            /\ UNCHANGED <<conf, chain, forced, count>>

----------------------------------------------------------------------------
Receive(p) ==
    \/ recv_open_channel(p) \/ RefuseOpenChannel(p)
    \/ recv_accept_channel(p)
    \/ recv_funding_created(p) \/ CrashFundee(p)
    \/ recv_funding_signed(p) \/ BroadcastFails(p) \/ CrashFunder(p)
    \/ recv_error(p)
    \/ recv_funding_locked(p)
    \/ recv_channel_reestablish(p)
    \/ recv_announcement_signatures(p)
    \/ ln_announce_signs_create(p)
    \/ PeerGone(p)

MainThread(p) ==
    \/ Reestablished(p) \/ exchange_funding_locked(p) \/ MainLocked(p)

PollThread(p) ==
    \/ poll_funding_wait(p) \/ PollLocked(p) \/ PollAnnounce(p)

Next ==
    \/ Connect
    \/ \E t \in Txid : Confirm(t)
    \/ \E p \in Peer :
         \/ \E push \in PushSat : lnapp_funding(p, push)
         \/ Receive(p) \/ MainThread(p) \/ PollThread(p)
         \/ Drop(p) \/ ReestablishTimeout(p)

Spec == Init /\ [][Next]_vars

\* The receive, main and polling threads loop; a lost connection is made
\* again; a transaction that bitcoind has is mined.  Requests and faults are
\* not fair.
FairSpec ==
    /\ Spec
    /\ WF_vars(Connect)
    /\ \A t \in Txid : WF_vars(Confirm(t))
    /\ \A p \in Peer :
         WF_vars(Receive(p)) /\ WF_vars(MainThread(p)) /\ WF_vars(PollThread(p))

----------------------------------------------------------------------------
(* Properties.                                                             *)

\* Both ends hold the same channel.
Shared == \A p \in Peer :
              Saved(p) /\ db[p].channel_id = db[Other(p)].channel_id

\* Two ends that hold a channel hold the same one on the same terms: the
\* amounts mirror each other, the depth is the one accept_channel asked for,
\* and the signature each holds is for the commitment it will build.
TermsAgree ==
    Shared =>
        \A p, q \in Peer : p # q =>
            /\ db[p].our = db[q].their
            /\ db[p].min_depth = db[q].min_depth
            /\ db[p].signature = <<db[p].txid, 0, db[p].our, db[p].their>>

\* Money is committed only when it can be taken back: a funding transaction is
\* broadcast only by an end that has verified the fundee's signature, and that
\* end saves it.  While no process dies between the broadcast and the save.
RefundSecured ==
    count.crashes = 0 =>
        \A t \in Txid : chain[t] >= 0 =>
            \E p \in Peer :
                /\ db[p].txid = t /\ "FUNDER" \in db[p].fund_flag
                /\ db[p].signature = <<t, 0, db[p].our, db[p].their>>

\* A channel is in normal operation only when its funding transaction is as
\* deep as the fundee asked for, whatever thread made it so.
NormalWhenDeep ==
    \A p \in Peer : db[p].status = "NORMAL" => chain[db[p].txid] >= db[p].min_depth

\* A channel is announced only when both ends have signed the announcement.
AnnouncedByBoth ==
    \A p \in Peer : "END" \in db[p].anno_flag =>
                        \A q \in Peer : "SEND" \in db[q].anno_flag

\* A channel that both ends hold is not closed again by a handler that fails,
\* as long as no process dies.
OpenSurvives == count.crashes = 0 /\ Shared => forced = {}

Locked(p) ==
    /\ Running(p) /\ conf[p].main = "loop" /\ conf[p].poll = "idle"
    /\ self[p].status = "NORMAL" /\ self[p].remote_pt = 1

\* A channel both ends have saved and whose funding transaction is out ends in
\* normal operation at both of them, each with the point of the other's next
\* commitment, however often the connection was lost.
EventuallyLocked ==
    ([](count.crashes = 0) /\ <>(Shared /\ chain[db[CHOOSE p \in Peer : TRUE].txid] >= 0))
        => <>[](\A p \in Peer : Locked(p))

\* Not so (README): ln.c says the sequence ends with "funding_locked sent,
\* funding_locked received".
\* A payment is accepted only when the point of the peer's next commitment,
\* which funding_locked brings, is there.
UsableWhenLocked ==
    \A p \in Peer :
        /\ Running(p) /\ "END" \in conf[p].flag_recv
        /\ self[p].status = "NORMAL"
        => self[p].remote_pt = 1
==============================================================================
