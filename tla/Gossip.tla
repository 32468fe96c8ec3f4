------------------------------- MODULE Gossip -------------------------------
(***************************************************************************)
(* What the node knows of other channels and how it tells its peers.  The  *)
(* receive threads store channel_announcement, channel_update and          *)
(* node_announcement; one announce thread per connection (thread_anno_     *)
(* start) walks through the store again and again and sends what its peer  *)
(* does not have.  Who has what is remembered in the database ("annoinfo"),*)
(* also over connections: a peer is marked when it sent a record or when   *)
(* the record was handed to its socket.                                    *)
(*                                                                         *)
(* All of them write one LMDB environment, so a handler is one step, and   *)
(* so is the pass of send_announcement over the records of one channel     *)
(* (M_ANNO_UNIT counts records, but a call ends only between channels).    *)
(* The two directions of a channel are independent: one is modelled.  An   *)
(* update is its timestamp, its signature is good.  What peers know and    *)
(* send is external.                                                       *)
(***************************************************************************)
EXTENDS Integers, Sequences, FiniteSets, SequencesExt

CONSTANTS
    Peer,           \* connected nodes
    NumCnl,         \* channels, in the order of short_channel_id
    Node,           \* nodes that may be announced
    Ends,           \* the two nodes of each channel
    OwnCnl,         \* channels of this node
    MaxStamp,       \* bound: timestamps of updates
    MaxNodStamp,    \* bound: timestamps of node announcements
    MaxEvents       \* bound: messages received, own updates, faults, blocks

Cnl == 1 .. NumCnl
Stamp == 0 .. MaxStamp              \* 0: no record
NodStamp == 0 .. MaxNodStamp

ASSUME GossipAssumption ==
    /\ NumCnl \in Nat /\ OwnCnl \subseteq Cnl
    /\ Ends \in [Cnl -> SUBSET Node]
    /\ MaxStamp \in Nat /\ MaxNodStamp \in Nat /\ MaxEvents \in Nat

VARIABLES
    anno,       \* the channels whose channel_announcement is stored
    upd,        \* the stored channel_update of each channel
    nod,        \* the stored node_announcement of each node
    known,      \* "annochan_recv": nodes seen in a channel_announcement
    own,        \* "annoown": channels of this node
    info,       \* the marks of each kind of record
    online,     \* connected peers
    broken,     \* peers whose connection is dead and not yet noticed to be so
    sent,       \* what the last pass of an announce thread sent, and to whom
    scan,       \* last_anno_cnl and last_annocnl_sci of each connection
    spent,      \* channels whose funding output is spent
    horizon,    \* updates up to this timestamp are two weeks old
    has,        \* what each peer has
    count,      \* what came from outside so far
    events      \* what has happened that makes marks unreliable: "marks",
                \* "lost" and "sync"

vars == <<anno, upd, nod, known, own, info, online, broken, sent, scan, spent,
          horizon, has, count, events>>

store == <<anno, upd, nod, known, own>>

NoneHave == [anno |-> {}, upd |-> [c \in Cnl |-> 0]]

\* Walking starts at the first record; no announcement has been passed.
NewScan == [last_anno_cnl |-> 0, last_annocnl_sci |-> 0]

\* channel_announcement, node_announcements and channel_update of one channel.
Message == [to : Peer, c : Cnl, anno : BOOLEAN, nodes : SUBSET Node, upd : Stamp]

TypeOK ==
    /\ anno \subseteq Cnl /\ own \subseteq OwnCnl /\ known \subseteq Node
    /\ upd \in [Cnl -> Stamp] /\ nod \in [Node -> NodStamp]
    /\ info \in [ anno : [Cnl -> SUBSET Peer], upd : [Cnl -> SUBSET Peer],
                  nod : [Node -> SUBSET Peer] ]
    /\ online \subseteq Peer /\ spent \subseteq Cnl /\ horizon \in Stamp
    /\ broken \subseteq online
    /\ sent \subseteq Message
    /\ scan \in [Peer -> [last_anno_cnl : Cnl \cup {0},
                          last_annocnl_sci : Cnl \cup {0}]]

Init ==
    /\ anno = {} /\ upd = [c \in Cnl |-> 0] /\ nod = [n \in Node |-> 0]
    /\ known = {} /\ own = OwnCnl
    /\ info = [ anno |-> [c \in Cnl |-> {}], upd |-> [c \in Cnl |-> {}],
                nod |-> [n \in Node |-> {}] ]
    /\ online = Peer /\ broken = {} /\ sent = {}
    /\ scan = [p \in Peer |-> NewScan]
    /\ spent = {} /\ horizon = 0
    /\ has = [p \in Peer |-> NoneHave]
    /\ count = 0
    /\ events = {}

----------------------------------------------------------------------------
(* The receive threads.                                                    *)

Counted == count < MaxEvents /\ count' = count + 1

Received(p) ==
    /\ p \in online
    /\ Counted
    /\ UNCHANGED <<online, broken, scan, spent, horizon>>

\* A slip: the sender is not remembered.
annocnl_save_NoSender(c, senders) == info

\* ln_db_annocnl_save: the marks, once the announcement is stored.
ln_db_annocnl_save(c, senders) == [info EXCEPT !.anno[c] = @ \cup senders]

recv_channel_announcement(p, c) ==
    /\ Received(p)
    /\ anno' = anno \cup {c}
    /\ info' = ln_db_annocnl_save(c, {p})
    /\ known' = known \cup Ends[c]
    /\ has' = [has EXCEPT ![p].anno = @ \cup {c}]
    /\ UNCHANGED <<upd, nod, own, events>>

ln_db_annocnlupd_is_prune(stamp) == stamp <= horizon

\* A slip: a newer update leaves the marks of the one it replaces.
annocnlupd_marks_Kept(c, stamp, senders) == info.upd[c] \cup senders

\* ln_db_annocnlinfo_add_nodeid, with bClr for an update that is replaced.  An
\* update of this node has no sender, and then the marks are not cleared.
annocnlupd_marks(c, stamp, senders) ==
    IF upd[c] # 0 /\ upd[c] < stamp /\ senders # {}
    THEN senders ELSE info.upd[c] \cup senders

\* The sender of an older update is marked for the newer one; an update of this
\* node, or one that was removed before, is stored with the marks that are there.
MarksOutdated(c, stamp, senders) ==
    \/ stamp < upd[c]
    \/ senders = {} /\ info.upd[c] # {}
    \/ upd[c] = 0 /\ info.upd[c] # {}

\* The marks before are those of base.
ln_db_annocnlupd_save(c, stamp, senders, base) ==
    /\ upd' = [upd EXCEPT ![c] = IF @ < stamp THEN stamp ELSE @]
    /\ info' = [base EXCEPT !.upd[c] = annocnlupd_marks(c, stamp, senders)]
    /\ events' = IF MarksOutdated(c, stamp, senders)
                 THEN events \cup {"marks"} ELSE events

\* An update that is already too old is ignored; one without an announcement
\* is stored.
recv_channel_update(p, c, stamp) ==
    /\ Received(p)
    /\ stamp >= has[p].upd[c]
    /\ has' = [has EXCEPT ![p].upd[c] = stamp]
    /\ IF ln_db_annocnlupd_is_prune(stamp)
       THEN UNCHANGED <<upd, info, events>>
       ELSE ln_db_annocnlupd_save(c, stamp, {p}, info)
    /\ UNCHANGED <<anno, nod, known, own>>

\* ln_db_annonod_save: only for a node seen in an announced channel, and only
\* when it is new or newer; the marks are touched only then.
ln_db_annonod_save(p, n, stamp) ==
    IF n \in known /\ nod[n] < stamp
    THEN /\ nod' = [nod EXCEPT ![n] = stamp]
         /\ info' = [info EXCEPT !.nod[n] = IF nod[n] = 0 THEN @ \cup {p} ELSE {p}]
    ELSE UNCHANGED <<nod, info>>

recv_node_announcement(p, n, stamp) ==
    /\ Received(p)
    /\ ln_db_annonod_save(p, n, stamp)
    /\ UNCHANGED <<anno, upd, known, own, has, events>>

----------------------------------------------------------------------------
(* This node's own channels.                                               *)

NewStamp(c, stamp) == stamp > upd[c] /\ stamp > horizon

\* Both ends have signed: announcement and update, without a sender.
proc_anno_sigs(c, stamp) ==
    /\ Counted
    /\ c \in own \ anno /\ NewStamp(c, stamp)
    /\ anno' = anno \cup {c}
    /\ known' = known \cup Ends[c]
    /\ ln_db_annocnlupd_save(c, stamp, {}, ln_db_annocnl_save(c, {}))
    /\ UNCHANGED <<nod, own, online, broken, scan, spent, horizon, has>>

ln_channel_update_create(c, stamp) ==
    /\ Counted
    /\ c \in own /\ NewStamp(c, stamp)
    /\ ln_db_annocnlupd_save(c, stamp, {}, info)
    /\ UNCHANGED <<anno, nod, known, own, online, broken, scan, spent, horizon, has>>

\* ln_close_change_stat disables the channel, with its other end as the sender.
DisableUpdate(p, c, stamp) ==
    /\ Counted
    /\ c \in own \cap spent /\ NewStamp(c, stamp)
    /\ ln_db_annocnlupd_save(c, stamp, {p}, info)
    /\ UNCHANGED <<anno, nod, known, own, online, broken, scan, spent, horizon, has>>

\* monfunc, when the channel is closed and removed.
ln_db_annoown_del(c) ==
    /\ c \in own \cap spent
    /\ own' = own \ {c}
    /\ UNCHANGED <<anno, upd, nod, known, info, online, broken, scan, spent, horizon,
                   has, count, events>>

----------------------------------------------------------------------------
(* The announce thread of one connection.                                  *)

Records == {c \in Cnl : c \in anno \/ upd[c] > 0}

\* A slip: the next call begins behind the channel it should begin with.
NextRecords_Skip(p) == {c \in Records : c > scan[p].last_anno_cnl}

\* The records the call of send_announcement still has to look at.  It starts
\* where the last call stopped; when that channel is gone it finds nothing.
NextRecords(p) ==
    LET last == scan[p].last_anno_cnl
    IN  IF last \in Records \cup {0} THEN {c \in Records : c >= last} ELSE {}

\* send_anno_node: the nodes of the channel that p is not marked for.
ToSendNodes(p, c) == {n \in Ends[c] : p \notin info.nod[n] /\ nod[n] > 0}

\* A slip: an update is sent whether its announcement is there or not.
UpdateFollows_Always(sci, c) == TRUE

UpdateFollows(sci, c) == sci = c

\* send_anno_pre_upd: the update is too old, or it has no announcement and the
\* channel is not one of this node.
Removable(c, sci) ==
    upd[c] > 0 /\ (ln_db_annocnlupd_is_prune(upd[c]) \/ (sci # c /\ c \notin own))

\* Nothing is left of an update that is removed before it is too old: an older
\* one may be stored in its place and be sent to a peer that has it.
Vanishes(c, sci) ==
    Removable(c, sci) /\ ~ln_db_annocnlupd_is_prune(upd[c]) /\ info.upd[c] = {}

\* What is sent of channel c, when the last announcement passed is sci.
ToSend(p, c, sci) ==
    [ to |-> p, c |-> c,
      anno |-> c \in anno /\ p \notin info.anno[c],
      nodes |-> IF c \in anno THEN ToSendNodes(p, c) ELSE {},
      upd |-> IF p \in info.upd[c] \/ Removable(c, sci) \/ ~UpdateFollows(sci, c)
              THEN 0 ELSE upd[c] ]

\* send_anno_cnl and send_anno_node mark what they hand to the socket.
MarkSent(m) ==
    [ info EXCEPT !.anno[m.c] = IF m.anno THEN @ \cup {m.to} ELSE @,
                  !.upd[m.c] = IF m.upd > 0 THEN @ \cup {m.to} ELSE @,
                  !.nod = [n \in Node |-> IF n \in m.nodes THEN @[n] \cup {m.to} ELSE @[n]] ]

Newer(a, b) == IF a > b THEN a ELSE b

\* A peer gets what it is sent, unless its connection is dead.
Deliver(m) ==
    has' = IF m.to \in broken THEN has
           ELSE [has EXCEPT ![m.to] =
                   [ anno |-> IF m.anno THEN @.anno \cup {m.c} ELSE @.anno,
                     upd |-> [d \in Cnl |-> IF d = m.c THEN Newer(@.upd[d], m.upd)
                                             ELSE @.upd[d]] ]]

\* The records of channel c: m is sent.  An update that is removed keeps its
\* marks, and the next call starts again where this one did.
SendChannel(p, c, sci, m, rest) ==
    /\ sent' = {m}
    /\ Deliver(m)
    /\ info' = MarkSent(m)
    /\ events' = events \cup {e \in {"lost"} : p \in broken}
                       \cup {e \in {"marks"} : Vanishes(c, sci)}
    /\ IF Removable(c, sci)
       THEN /\ upd' = [upd EXCEPT ![c] = 0]
            /\ scan' = [scan EXCEPT ![p].last_annocnl_sci = sci]
       ELSE /\ scan' = [scan EXCEPT ![p] = [last_annocnl_sci |-> sci,
                          last_anno_cnl |-> IF rest = {} THEN 0 ELSE Min(rest)]]
            /\ UNCHANGED upd
    /\ UNCHANGED anno

ln_db_annocnlall_del(c) ==
    /\ anno' = anno \ {c}
    /\ upd' = [upd EXCEPT ![c] = 0]
    /\ info' = [info EXCEPT !.anno[c] = {}, !.upd[c] = {}]

send_announcement(p) ==
    /\ p \in online
    /\ \/ \* the end of the list
          /\ NextRecords(p) = {}
          /\ scan' = [scan EXCEPT ![p].last_anno_cnl = 0]
          /\ sent' = {}
          /\ UNCHANGED <<anno, upd, info, has, events>>
       \/ \E c \in NextRecords(p) :
            /\ \A d \in NextRecords(p) : c <= d
            /\ \/ \* send_anno_pre_chan
                  /\ c \in anno \cap spent
                  /\ ln_db_annocnlall_del(c)
                  /\ scan' = [scan EXCEPT ![p].last_annocnl_sci = c]
                  /\ sent' = {}
                  /\ UNCHANGED <<has, events>>
               \/ /\ c \notin anno \cap spent
                  /\ \E sci \in {IF c \in anno THEN c ELSE scan[p].last_annocnl_sci} :
                     \E m \in {ToSend(p, c, sci)} :
                        SendChannel(p, c, sci, m, NextRecords(p) \ {c})
    /\ UNCHANGED <<nod, known, own, online, broken, spent, horizon, count>>

----------------------------------------------------------------------------
(* Connections and time.                                                   *)

Break(p) ==
    /\ p \in online \ broken
    /\ Counted
    /\ broken' = broken \cup {p}
    /\ UNCHANGED <<store, info, online, scan, spent, horizon, has, events>>

\* The receive thread notices it, all threads of the connection end.
Disconnect(p) ==
    /\ p \in broken
    /\ online' = online \ {p}
    /\ broken' = broken \ {p}
    /\ UNCHANGED <<store, info, scan, spent, horizon, has, count, events>>

\* The records of which p and others are marked.
Crowded(marks, p) == {k \in DOMAIN marks : p \in marks[k] /\ marks[k] # {p}}

\* annoinfo_cur_trim: the other marks of a record are copied from the buffer
\* they are copied to, that is, from what malloc left there.
annoinfo_cur_trim(marks, p, garbage) ==
    [k \in DOMAIN marks |->
        IF k \in Crowded(marks, p) THEN garbage[k] ELSE marks[k] \ {p}]

\* The updates that were removed and that p is still marked for.
Forgotten(p) == {c \in Cnl : upd[c] = 0 /\ p \in info.upd[c]}

\* ln_db_annoinfos_del, when init asks for initial_routing_sync: the peer wants
\* everything as if it had nothing.
ln_db_annoinfos_del(p) ==
    /\ \E ga \in [Crowded(info.anno, p) -> SUBSET Peer],
          gu \in [Crowded(info.upd, p) -> SUBSET Peer],
          gn \in [Crowded(info.nod, p) -> SUBSET Peer] :
         /\ info' = [ anno |-> annoinfo_cur_trim(info.anno, p, ga),
                      upd |-> annoinfo_cur_trim(info.upd, p, gu),
                      nod |-> annoinfo_cur_trim(info.nod, p, gn) ]
    /\ events' = events
         \cup {e \in {"sync"} : \E k \in DOMAIN info : Crowded(info[k], p) # {}}
         \cup {e \in {"marks"} : Forgotten(p) # {}}
    /\ has' = [has EXCEPT ![p] = NoneHave]

Connect(p) ==
    /\ p \notin online
    /\ online' = online \cup {p}
    /\ scan' = [scan EXCEPT ![p] = NewScan]
    /\ UNCHANGED <<info, has, events>> \/ ln_db_annoinfos_del(p)
    /\ UNCHANGED <<store, broken, spent, horizon, count>>

Spend(c) ==
    /\ Counted
    /\ c \notin spent
    /\ spent' = spent \cup {c}
    /\ UNCHANGED <<store, info, online, broken, scan, horizon, has, events>>

Age ==
    /\ Counted
    /\ horizon < MaxStamp - 1
    /\ horizon' = horizon + 1
    /\ UNCHANGED <<store, info, online, broken, scan, spent, has, events>>

\* anno_del_prune, when the process starts: there is no connection.
anno_del_prune ==
    /\ online = {}
    /\ upd' = [c \in Cnl |->
                 IF ln_db_annocnlupd_is_prune(upd[c]) THEN 0 ELSE upd[c]]
    /\ UNCHANGED <<anno, nod, known, own, info, online, broken, scan, spent,
                   horizon, has, count, events>>

Receive(p) ==
    \/ \E c \in Cnl : recv_channel_announcement(p, c)
    \/ \E c \in Cnl, t \in Stamp \ {0} : recv_channel_update(p, c, t)
    \/ \E n \in Node, t \in NodStamp \ {0} : recv_node_announcement(p, n, t)

OwnChannel(c) ==
    \/ ln_db_annoown_del(c)
    \/ \E t \in Stamp \ {0} :
         \/ proc_anno_sigs(c, t) \/ ln_channel_update_create(c, t)
         \/ \E p \in Peer : DisableUpdate(p, c, t)

Next ==
    \/ \E p \in Peer : send_announcement(p)
    \/ /\ \/ \E p \in Peer : Receive(p) \/ Break(p) \/ Disconnect(p) \/ Connect(p)
          \/ \E c \in Cnl : OwnChannel(c) \/ Spend(c)
          \/ Age
          \/ anno_del_prune
       /\ sent' = {}

Spec == Init /\ [][Next]_vars

\* thread_anno_start calls send_announcement again and again while the
\* connection lasts.
FairSpec == Spec /\ \A p \in Peer : WF_vars(send_announcement(p))

----------------------------------------------------------------------------
(* Properties.                                                             *)

\* send_announcement never sends the channel_update of an open channel to a peer
\* that has not got the channel_announcement before it, from us or from
\* elsewhere.  Unless messages were lost with a connection or marks were mixed
\* up by annoinfo_cur_trim.
AnnouncedFirst ==
    events \cap {"lost", "sync"} = {} =>
        \A m \in sent : m.upd > 0 /\ m.c \notin spent => m.c \in has[m.to].anno

\* A peer is not told what it has: neither what it sent itself nor what it was
\* sent before, as long as the channel stays in the store.
NotTwice ==
    [][\A m \in sent' :
         events \cap {"marks", "sync"} = {} /\ m.c \notin spent =>
             /\ m.anno => m.c \notin has[m.to].anno
             /\ m.upd > 0 => m.upd # has[m.to].upd[m.c]]_vars

\* What peer p should have of channel c.
Current(p, c) ==
    /\ p \in online /\ c \in anno \ spent
    /\ ~ln_db_annocnlupd_is_prune(upd[c])

\* The newest update of every open, announced channel reaches every connected
\* peer, in whatever order announcements and updates arrive and whoever sends
\* them.  Unless one of the events that make marks unreliable has happened.
Delivered ==
    \A p \in Peer, c \in Cnl :
        Current(p, c) ~> has[p].upd[c] >= upd[c] \/ ~Current(p, c) \/ events # {}

\* A channel whose funding output is spent disappears from the store as long as
\* somebody is connected.
SpentForgotten ==
    \A c \in Cnl : c \in anno \cap spent ~> c \notin anno \/ online = {}
=============================================================================
