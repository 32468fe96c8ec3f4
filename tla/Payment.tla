------------------------------ MODULE Payment -------------------------------
(***************************************************************************)
(* Sending a payment: the RPC thread (cmd_routepay, cmd_routepay_cont)     *)
(* computes a route over the known channels, hands the HTLC to the lnapp   *)
(* of the first channel and keeps the invoice for retries; the receive     *)
(* threads of the channels end the HTLC, put the channel that is to blame  *)
(* on the skip list and ask the RPC thread, through a JSON-RPC call of the *)
(* daemon to itself, to try again.  Skip list and invoices are in the      *)
(* database and common to all payments.                                    *)
(*                                                                         *)
(* One RPC handler runs at a time; between the route (cmd_routepay_proc1)  *)
(* and the sending (cmd_routepay_proc2) the receive threads go on.  Nodes  *)
(* are numbers in the order of their ids.  The commitment exchange is the  *)
(* subject of module Channel: an HTLC here is queued ("added"), committed  *)
(* ("sent"), and fulfilled or failed until it is final.  The id of an HTLC *)
(* is its slot, because payroute entries never outlive their HTLC.         *)
(* Amounts are in msat, the block height is 0.                             *)
(***************************************************************************)
EXTENDS Integers, Sequences, FiniteSets, SequencesExt

CONSTANTS
    NumNode,        \* nodes, this one is 1
    NumCnl,         \* channels, in the order of short_channel_id
    Ends,           \* the two nodes of each channel, in order
    OwnCnl,         \* open channels of this node
    Announced,      \* channels in the announcement database
    Updates,        \* what a channel_update may say
    FirstUpdate,    \* the updates known at the start
    Hash,           \* payments
    Payee,          \* the payee of each,
    Amount,         \* its amount
    RField,         \* and the route hints in its invoice
    MinFinalCltv,   \* min_final_cltv_expiry of the invoices
    HopMax,         \* LN_HOP_MAX
    SlotMax,        \* LN_HTLC_MAX
    MaxCommands,    \* bound: routepay commands
    MaxEvents       \* bound: updates received and connections lost

Node == 1 .. NumNode
Cnl == 1 .. NumCnl
Slot == 1 .. SlotMax
Me == 1
M_CLTV_INIT == 65535                \* "not set"

Skip == {"NONE", "TEMP", "WORK", "PERM"}
Info == [fee_base_msat : Nat, fee_prop_millionths : Nat,
         cltv_expiry_delta : 0 .. M_CLTV_INIT]
NotSet == [fee_base_msat |-> 0, fee_prop_millionths |-> 0,
           cltv_expiry_delta |-> M_CLTV_INIT]

ASSUME PaymentAssumption ==
    /\ NumNode \in Nat /\ NumCnl \in Nat /\ HopMax \in Nat /\ SlotMax \in Nat
    /\ Ends \in [Cnl -> {e \in Node \X Node : e[1] < e[2]}]
    /\ OwnCnl \subseteq Cnl /\ Announced \subseteq Cnl
    /\ \A c \in OwnCnl : Ends[c][1] = Me
    /\ \A u \in Updates : u.info \in Info /\ u.disable \in BOOLEAN
    /\ FirstUpdate \in [Announced -> [1 .. 2 -> Updates]]
    /\ <<>> \notin Hash /\ Payee \in [Hash -> Node] /\ Amount \in [Hash -> Nat]
    /\ \A h \in Hash : \A i \in DOMAIN RField[h] :
          RField[h][i].sci \in Cnl /\ RField[h][i].info \in Info

VARIABLES
    upd,        \* the stored channel_update of each direction
    skip,       \* the skip list ("route_skip")
    invoice,    \* the invoices kept for a retry
    calls,      \* _routepay_cont calls on their way to the RPC thread
    rpc,        \* the payment the RPC thread has a route for: hash and route
    online,     \* own channels whose lnapp is up and inited
    htlc,       \* the HTLCs this node is the origin of, per channel and slot
    payroute,   \* payroute_head: the channels of the route, <<>> if no entry
    paid,       \* payments fulfilled
    astray,     \* payments that met what the retries are not made for: a
                \* failure that names no channel, or an HTLC lost unsigned
    commands,   \* routepay commands so far
    events      \* updates received and connections lost so far

vars == <<upd, skip, invoice, calls, rpc, online, htlc, payroute, paid, astray,
          commands, events>>

env == <<upd, online, commands, events>>

Idle == <<>>                        \* the RPC thread has nothing in hand
Empty == [hash |-> <<>>, stage |-> "empty", again |-> FALSE]

Init ==
    /\ upd = FirstUpdate
    /\ skip = [c \in Cnl |-> "NONE"]
    /\ invoice = {} /\ calls = <<>> /\ rpc = Idle
    /\ online = OwnCnl
    /\ htlc = [c \in OwnCnl |-> [s \in Slot |-> Empty]]
    /\ payroute = [c \in OwnCnl |-> [s \in Slot |-> <<>>]]
    /\ paid = {} /\ astray = {}
    /\ commands = 0 /\ events = 0

-----------------------------------------------------------------------------
(***************************************************************************)
(* The route.                                                              *)
(***************************************************************************)

edgefee(amtmsat, info) ==
    info.fee_base_msat + (amtmsat * info.fee_prop_millionths) \div 1000000

direction(n1, n2) == IF n1 < n2 THEN 1 ELSE 2

\* Whether a channel with this entry of the skip list is looked at.
NotSkipped(sk, c) == sk[c] \in {"NONE", "WORK"}

\* The channels of a table that are looked at, in the order of their ids.
Usable(sk, C) ==
    SelectSeq([c \in Cnl |-> c], LAMBDA c : c \in C /\ NotSkipped(sk, c))

\* Our own channels, free of charge.
comp_func_self(c) ==
    LET free == [fee_base_msat |-> 0, fee_prop_millionths |-> 0,
                 cltv_expiry_delta |-> 0]
    IN  [sci |-> c, ends |-> Ends[c], ninfo |-> <<free, free>>]

\* An announced channel: a direction whose update is disabled stays unset.
dumpit_chan(c) ==
    LET info(d) == IF upd[c][d].disable THEN NotSet ELSE upd[c][d].info
    IN  [sci |-> c, ends |-> Ends[c], ninfo |-> <<info(1), info(2)>>]

\* A route hint: a channel of the hinted node with the payee, that way only.
add_rfield(hint, payee) ==
    LET d == direction(hint.node, payee)
    IN  [sci |-> hint.sci,
         ends |-> IF d = 1 THEN <<hint.node, payee>> ELSE <<payee, hint.node>>,
         ninfo |-> [<<NotSet, NotSet>> EXCEPT ![d] = hint.info]]

loaddb(sk) ==
    LET self == Usable(sk, OwnCnl)
        cnl == Usable(sk, Announced)
    IN  [i \in DOMAIN self |-> comp_func_self(self[i])]
          \o [i \in DOMAIN cnl |-> dumpit_chan(cnl[i])]

Records(sk, h) ==
    LET hints == SelectSeq(RField[h], LAMBDA r : NotSkipped(sk, r.sci))
    IN  loaddb(sk) \o [i \in DOMAIN hints |-> add_rfield(hints[i], Payee[h])]

\* The edges from a to b: the records of the pair whose direction is set.
Edges(rec, a, b) ==
    {i \in DOMAIN rec :
        /\ {rec[i].ends[1], rec[i].ends[2]} = {a, b} /\ a # b
        /\ rec[i].ninfo[direction(a, b)].cltv_expiry_delta # M_CLTV_INIT}

EdgeInfo(rec, a, b, i) == rec[i].ninfo[direction(a, b)]

\* The weight Dijkstra sees: the fee for the final amount; a hundredfold for
\* a channel that failed in an earlier payment.
Weight(sk, rec, a, b, amtmsat) ==
    Min({edgefee(amtmsat, EdgeInfo(rec, a, b, i))
           * (IF sk[rec[i].sci] = "WORK" THEN 100 ELSE 1)
         : i \in Edges(rec, a, b)})

\* The weight of every pair of nodes, -1 if no edge leads from one to the other.
Weights(sk, rec, amtmsat) ==
    [ab \in Node \X Node |-> IF Edges(rec, ab[1], ab[2]) = {} THEN -1
                             ELSE Weight(sk, rec, ab[1], ab[2], amtmsat)]

SimplePaths ==
    {p \in UNION {[1 .. k -> Node] : k \in 2 .. NumNode} : IsInjective(p)}

\* The lightest paths of the graph (boost's dijkstra_shortest_paths; any of
\* several equally light ones).
dijkstra_shortest_paths(weight, from, to) ==
    LET all == {p \in SimplePaths :
                   /\ p[1] = from /\ p[Len(p)] = to
                   /\ \A i \in 1 .. Len(p) - 1 : weight[p[i], p[i + 1]] # -1}
        dist(p) == LET d[i \in 1 .. Len(p)] ==
                         IF i = 1 THEN 0 ELSE d[i - 1] + weight[p[i - 1], p[i]]
                   IN  d[Len(p)]
    IN  {p \in all : \A q \in all : dist(p) =< dist(q)}

\* A slip: the fee of the edge into a node instead of the one out of it.
Accumulated_In(p, edge, amtmsat, cltv) ==
    LET acc[i \in 1 .. Len(p)] ==
          IF i >= Len(p) - 1 THEN <<amtmsat, cltv>>
          ELSE <<acc[i + 1][1] + edgefee(acc[i + 1][1], edge[i]),
                 acc[i + 1][2] + edge[i].cltv_expiry_delta>>
    IN  acc

\* What each node of a path is to forward and until when, added up from the
\* payee: edge[i] are the terms of the edge out of the i-th node.
Accumulated(p, edge, amtmsat, cltv) ==
    LET acc[i \in 1 .. Len(p)] ==
          IF i >= Len(p) - 1 THEN <<amtmsat, cltv>>
          ELSE <<acc[i + 1][1] + edgefee(acc[i + 1][1], edge[i + 1]),
                 acc[i + 1][2] + edge[i + 1].cltv_expiry_delta>>
    IN  acc

\* The hops of a path: the terms are those of the first edge between two
\* nodes, the channel named is the first record of the two nodes.
HopData(rec, p, amtmsat, cltv) ==
    LET pair(i) == {j \in DOMAIN rec :
                      {rec[j].ends[1], rec[j].ends[2]} = {p[i], p[i + 1]}}
        edge == [i \in 1 .. Len(p) - 1 |->
                   EdgeInfo(rec, p[i], p[i + 1], Min(Edges(rec, p[i], p[i + 1])))]
        acc == Accumulated(p, edge, amtmsat, cltv)
    IN  [i \in 1 .. Len(p) |->
           [sci |-> IF i = Len(p) THEN 0 ELSE rec[Min(pair(i))].sci,
            amt_to_forward |-> acc[i][1], outgoing_cltv_value |-> acc[i][2],
            pubkey |-> p[i]]]

\* The routes the calculation may return; none if it reports an error
\* (NOSTART, NOGOAL, NOTFOUND, TOOMANYHOP).
ln_routing_calculate(sk, h) ==
    UNION {{HopData(rec, p, Amount[h], MinFinalCltv) :
              p \in {q \in UNION {dijkstra_shortest_paths(w, Me, Payee[h]) :
                                   w \in {Weights(sk, rec, Amount[h])}} :
                       Len(q) =< HopMax + 1}}
           : rec \in {Records(sk, h)}}

-----------------------------------------------------------------------------
(***************************************************************************)
(* The RPC thread.                                                         *)
(***************************************************************************)

ln_db_routeskip_work(sk, bWork) ==
    LET from == IF bWork THEN "TEMP" ELSE "WORK"
        to == IF bWork THEN "WORK" ELSE "TEMP"
    IN  [c \in Cnl |-> IF sk[c] = from THEN to ELSE sk[c]]

ln_db_routeskip_save(sk, c, bTemp) ==
    [sk EXCEPT ![c] = IF bTemp THEN "TEMP" ELSE "PERM"]

ln_db_invoice_save(h) == invoice' = invoice \cup {h}
ln_db_invoice_del(h) == invoice' = invoice \ {h}

\* The daemon calls itself; for a retry only if it still has the invoice.
cmd_json_pay(h) == calls' = Append(calls, h)
cmd_json_pay_retry(h) == IF h \in invoice THEN cmd_json_pay(h) ELSE UNCHANGED calls

\* The payment ends without success.
GiveUp(sk, h) ==
    /\ ln_db_invoice_del(h)
    /\ skip' = ln_db_routeskip_work(sk, FALSE)
    /\ rpc' = Idle

\* A route is found, or the payment is given up, for want of one or because
\* the invoice is outdated.
cmd_routepay_proc1(sk, h) ==
    \/ GiveUp(sk, h)
    \/ /\ \E r \in ln_routing_calculate(sk, h) : rpc' = <<h, r>>
       /\ skip' = sk
       /\ UNCHANGED invoice

\* Everything of a payment that is still under way.
Attempts(h) ==
    {<<"call", i>> : i \in {j \in DOMAIN calls : calls[j] = h}}
      \cup {<<"rpc", 0>> : i \in {j \in {1} : rpc # Idle /\ rpc[1] = h}}
      \cup {<<"htlc", cs>> : cs \in {x \in OwnCnl \X Slot :
                                       htlc[x[1]][x[2]].hash = h}}

\* The user pays an invoice; again only when the last attempt has ended.
cmd_routepay(h) ==
    /\ rpc = Idle
    /\ commands < MaxCommands
    /\ h \notin paid /\ Attempts(h) = {}
    /\ cmd_routepay_proc1(ln_db_routeskip_work(skip, TRUE), h)
    /\ commands' = commands + 1
    /\ astray' = astray \ {h}
    /\ UNCHANGED <<upd, calls, online, htlc, payroute, paid, events>>

\* A slip: a retry also takes the failed channels back.
cmd_routepay_cont_Work(h) ==
    /\ rpc = Idle
    /\ calls # <<>> /\ Head(calls) = h
    /\ calls' = Tail(calls)
    /\ cmd_routepay_proc1(ln_db_routeskip_work(skip, TRUE), h)
    /\ UNCHANGED <<env, htlc, payroute, paid, astray>>

\* The daemon calls itself for a retry.
cmd_routepay_cont(h) ==
    /\ rpc = Idle
    /\ calls # <<>> /\ Head(calls) = h
    /\ calls' = Tail(calls)
    /\ cmd_routepay_proc1(skip, h)
    /\ UNCHANGED <<env, htlc, payroute, paid, astray>>

\* The checks of lnapp_payment on the route before it makes the onion.
RouteInOrder(r) ==
    \A i \in 2 .. Len(r) - 1 :
        /\ r[i - 1].amt_to_forward >= r[i].amt_to_forward
        /\ r[i - 1].outgoing_cltv_value > r[i].outgoing_cltv_value

\* The lnapp of the next node, if it is connected.
ptarmd_search_transferable_nodeid(n) ==
    {c \in OwnCnl : c \in online /\ Ends[c][2] = n}

FreeSlots(c) == {s \in Slot : htlc[c][s].stage = "empty"}

\* The list of routes, as the channels they name.
payroute_push(c, s, r) ==
    payroute' = [payroute EXCEPT ![c][s] = [i \in DOMAIN r |-> r[i].sci]]
payroute_get(c, s) == payroute[c][s]
payroute_del(c, s) == payroute' = [payroute EXCEPT ![c][s] = <<>>]
payroute_clear(c) == payroute' = [payroute EXCEPT ![c] = [s \in Slot |-> <<>>]]

\* The channel takes the HTLC and the route is kept for the skip list.
Accept(c, h, r) ==
    \E s \in FreeSlots(c) :
        /\ htlc' = [htlc EXCEPT ![c][s] = [hash |-> h, stage |-> "added",
                                           again |-> FALSE]]
        /\ payroute_push(c, s, r)
        /\ rpc' = Idle
        /\ UNCHANGED <<skip, calls>>

\* It cannot be sent: the first channel is skipped and the daemon calls
\* itself.  (lnapp_payment has put a channel that is not the one of the
\* connection on the list for good; this entry replaces that one.)
Retry(h, r) ==
    /\ skip' = ln_db_routeskip_save(skip, r[1].sci, TRUE)
    /\ cmd_json_pay(h)
    /\ rpc' = Idle
    /\ UNCHANGED <<htlc, payroute>>

\* The rest of the handler.  A channel may also refuse for a reason of its
\* own: the balance, the limits, a shutdown.
cmd_routepay_proc2 ==
    /\ rpc # Idle
    /\ LET h == rpc[1]
           r == rpc[2]
           confs == ptarmd_search_transferable_nodeid(r[2].pubkey)
       IN  /\ ln_db_invoice_save(h)
           /\ \/ \E c \in confs : /\ r[1].sci = c /\ RouteInOrder(r)
                                  /\ Accept(c, h, r)
              \/ Retry(h, r)
    /\ UNCHANGED <<env, paid, astray>>

-----------------------------------------------------------------------------
(***************************************************************************)
(* The receive threads.                                                    *)
(***************************************************************************)

\* The HTLC is signed and saved on both sides (module Channel).
Exchange(c, s) ==
    /\ c \in online /\ htlc[c][s].stage = "added"
    /\ htlc' = [htlc EXCEPT ![c][s].stage = "sent"]
    /\ UNCHANGED <<env, skip, invoice, calls, rpc, payroute, paid, astray>>

\* The peer sends the end of an HTLC, the second time after a connection
\* that was lost before the first was saved.
HtlcEnds(c, s, stage) ==
    /\ c \in online
    /\ \/ htlc[c][s].stage = "sent"
       \/ htlc[c][s].stage = stage /\ htlc[c][s].again
    /\ payroute_del(c, s)

cbsub_fulfill_originnode(c, s) ==
    /\ HtlcEnds(c, s, "fulfilled")
    /\ htlc' = [htlc EXCEPT ![c][s] = [@ EXCEPT !.stage = "fulfilled",
                                                !.again = FALSE]]
    /\ ln_db_invoice_del(htlc[c][s].hash)
    /\ skip' = ln_db_routeskip_work(skip, FALSE)
    /\ paid' = paid \cup {htlc[c][s].hash}
    /\ UNCHANGED <<env, calls, rpc, astray>>

\* The channel to blame when the node at hop of the route reports a failure:
\* the one it should have forwarded over.  None: the payee failed, or the
\* route is no longer known.
Blamed(route, hop) ==
    IF hop + 2 < Len(route) THEN {route[hop + 2]} ELSE {}

\* A slip: the retry is also asked for when the message comes in.
fail_originnode_Retry(c, s, hop, decoded, btemp) ==
    /\ HtlcEnds(c, s, "failed")
    /\ htlc' = [htlc EXCEPT ![c][s] = [@ EXCEPT !.stage = "failed",
                                                !.again = FALSE]]
    /\ cmd_json_pay_retry(htlc[c][s].hash)
    /\ UNCHANGED <<env, skip, invoice, rpc, paid, astray>>

\* A failure comes back from the node at this hop (0 is the peer).  decoded:
\* the reason could be read; btemp: it is one of the temporary ones.
cbsub_fail_originnode(c, s, hop, decoded, btemp) ==
    /\ HtlcEnds(c, s, "failed")
    /\ LET blamed == IF decoded THEN Blamed(payroute_get(c, s), hop) ELSE {}
       IN  /\ skip' = IF blamed = {} THEN skip
                      ELSE ln_db_routeskip_save(skip, CHOOSE x \in blamed : TRUE, btemp)
           /\ astray' = IF blamed = {} /\ payroute_get(c, s) # <<>>
                        THEN astray \cup {htlc[c][s].hash} ELSE astray
    /\ htlc' = [htlc EXCEPT ![c][s] = [@ EXCEPT !.stage = "failed",
                                                !.again = FALSE]]
    /\ UNCHANGED <<env, invoice, calls, rpc, paid>>

\* The end is exchanged: the slot is cleared and a failed payment retried.
recv_idle_proc_final(c, s) ==
    /\ c \in online
    /\ htlc[c][s].stage \in {"fulfilled", "failed"} /\ ~ htlc[c][s].again
    /\ IF htlc[c][s].stage = "failed"
       THEN cmd_json_pay_retry(htlc[c][s].hash) ELSE UNCHANGED calls
    /\ htlc' = [htlc EXCEPT ![c][s] = Empty]
    /\ UNCHANGED <<env, skip, invoice, rpc, payroute, paid, astray>>

\* The connection is lost.  An HTLC not yet signed is gone with it; an end
\* that was not saved will be sent again.
Drop(c) ==
    /\ c \in online /\ events < MaxEvents
    /\ online' = online \ {c}
    /\ events' = events + 1
    /\ payroute_clear(c)
    /\ \E unsaved \in SUBSET {s \in Slot : htlc[c][s].stage \in {"fulfilled", "failed"}} :
          htlc' = [htlc EXCEPT ![c] = [s \in Slot |->
                     IF htlc[c][s].stage = "added" THEN Empty
                     ELSE [htlc[c][s] EXCEPT !.again = @ \/ s \in unsaved]]]
    /\ astray' = astray \cup {htlc[c][s].hash :
                                s \in {x \in Slot : htlc[c][x].stage = "added"}}
    /\ UNCHANGED <<upd, skip, invoice, calls, rpc, paid, commands>>

Reconnect(c) ==
    /\ c \in OwnCnl \ online
    /\ online' = online \cup {c}
    /\ UNCHANGED <<upd, skip, invoice, calls, rpc, htlc, payroute, paid, astray,
                   commands, events>>

\* A channel_update is stored (module Gossip).
NewUpdate(c, d, u) ==
    /\ events < MaxEvents
    /\ u # upd[c][d]
    /\ upd' = [upd EXCEPT ![c][d] = u]
    /\ events' = events + 1
    /\ UNCHANGED <<skip, invoice, calls, rpc, online, htlc, payroute, paid,
                   astray, commands>>

NetworkFails(c, s) ==
    \E hop \in 0 .. NumNode, decoded, btemp \in BOOLEAN :
        /\ hop =< IF payroute[c][s] = <<>> THEN 0 ELSE Len(payroute[c][s]) - 2
        /\ btemp => decoded
        /\ cbsub_fail_originnode(c, s, hop, decoded, btemp)

Resolve(c, s) == cbsub_fulfill_originnode(c, s) \/ NetworkFails(c, s)

Next ==
    \/ \E h \in Hash : cmd_routepay(h) \/ cmd_routepay_cont(h)
    \/ cmd_routepay_proc2
    \/ \E c \in OwnCnl, s \in Slot :
          Exchange(c, s) \/ Resolve(c, s) \/ recv_idle_proc_final(c, s)
    \/ \E c \in OwnCnl : Drop(c) \/ Reconnect(c)
    \/ \E c \in Announced \ OwnCnl, d \in 1 .. 2, u \in Updates : NewUpdate(c, d, u)

Spec == Init /\ [][Next]_vars

\* The RPC thread and the receive threads go on, connections come back and
\* the network ends every HTLC.
FairSpec ==
    /\ Spec
    /\ WF_vars(\E h \in Hash : cmd_routepay_cont(h))
    /\ WF_vars(cmd_routepay_proc2)
    /\ \A c \in OwnCnl :
          /\ WF_vars(Reconnect(c))
          /\ \A s \in Slot :
                /\ WF_vars(Exchange(c, s))
                /\ WF_vars(Resolve(c, s))
                /\ WF_vars(recv_idle_proc_final(c, s))

-----------------------------------------------------------------------------
(***************************************************************************)
(* Properties.                                                             *)
(***************************************************************************)

\* Every variable has its type: skip list, invoices, calls, slots of HTLCs
\* and the routes kept for them.
TypeOK ==
    /\ upd \in [Announced -> [1 .. 2 -> Updates]]
    /\ skip \in [Cnl -> Skip]
    /\ invoice \subseteq Hash /\ paid \subseteq Hash /\ astray \subseteq Hash
    /\ calls \in Seq(Hash)
    /\ rpc = Idle \/ rpc[1] \in Hash
    /\ online \subseteq OwnCnl
    /\ DOMAIN htlc = OwnCnl
    /\ \A c \in OwnCnl :
          /\ DOMAIN htlc[c] = Slot /\ DOMAIN payroute[c] = Slot
          /\ \A s \in Slot :
                /\ htlc[c][s].stage \in {"empty", "added", "sent", "fulfilled", "failed"}
                /\ payroute[c][s] # <<>> => htlc[c][s].stage \in {"added", "sent"}

\* A payment has at most one attempt under way, whatever the order in which
\* failures, retries by the RPC thread and reconnections come, and none once
\* it is paid except the HTLC that paid it: no payment is paid twice.
PaidOnce ==
    \A h \in Hash :
        /\ Cardinality(Attempts(h)) =< 1
        /\ h \in paid => \A a \in Attempts(h) : a[1] = "htlc"

\* The terms a channel was published with, by its update or by a hint.
Published(h, c, a, b) ==
    {upd[x][direction(a, b)].info : x \in {y \in Announced : y = c /\
        {Ends[y][1], Ends[y][2]} = {a, b} /\ ~ upd[y][direction(a, b)].disable}}
    \cup {RField[h][i].info : i \in {j \in DOMAIN RField[h] :
             RField[h][j].sci = c /\ RField[h][j].node = a /\ Payee[h] = b}}

\* Every route the RPC thread takes, whatever is on the skip list and in the
\* updates at that moment, starts over a channel of this node, names no
\* skipped channel and no disabled direction, and leaves every forwarding
\* node the fee and the CLTV margin its channel was published with.
RoutePays ==
    [][rpc' # Idle =>
         LET h == rpc'[1]
             r == rpc'[2]
         IN  /\ Ends[r[1].sci] = <<Me, r[2].pubkey>>
             /\ \A i \in 1 .. Len(r) - 1 : skip'[r[i].sci] \in {"NONE", "WORK"}
             /\ \A i \in {Len(r) - 1, Len(r)} : r[i].amt_to_forward = Amount[h]
             /\ \A i \in 2 .. Len(r) - 1 :
                   \E t \in Published(h, r[i].sci, r[i].pubkey, r[i + 1].pubkey) :
                      /\ r[i - 1].amt_to_forward >=
                            r[i].amt_to_forward + edgefee(r[i].amt_to_forward, t)
                      /\ r[i - 1].outgoing_cltv_value >=
                            r[i].outgoing_cltv_value + t.cltv_expiry_delta]_rpc

\* A payment that is being tried ends: its invoice is removed by a success or
\* by giving up, because each failure takes a channel out of the next route -
\* unless a failure named no channel or an HTLC was lost before it was signed.
PaymentEnds ==
    \A h \in Hash : h \in invoice ~> (h \notin invoice \/ h \in astray)

=============================================================================
