# Ptarmigan: TLA+ models of a Lightning node

Ptarmigan is a Lightning Network node in C. `ln/` is a library that holds the
protocol state of one channel (`ln_self_t`) and changes it in message handlers;
`ptarmd/` is the daemon that runs one set of threads per channel and calls the
library; `btc/`, `utl/` and `libs/` are primitives. This directory models the
life of a channel from the first byte of the handshake to the last output swept
from the chain, and what the node does with several channels: forwarding,
payments and gossip.

## 1. Inventory

| Component | Source | State it keeps | Operations | Model |
|---|---|---|---|---|
| Normal operation | `ln/ln.c`, `ln/ln_local.h` | HTLC slots `cnl_add_htlc[]` with their flags, `our_msat`/`their_msat`, commitment and revocation numbers, signatures, secrets of the peer | update_add/fulfill/fail/fail_malformed_htlc, commitment_signed, revoke_and_ack, `ln_recv_idle_proc` | `Channel` (no update_fee) |
| Mutual close | `ln/ln.c` | `shutdown_flag`, closing fees, status | shutdown, closing_signed, `lnapp_close_channel` | `Channel` |
| Reconnection | `ln/ln.c`, `ptarmd/lnapp.c` | the two numbers of channel_reestablish | `exchange_reestablish`, `ln_channel_reestablish_after` | `Reconnect` |
| Establishment | `ln/ln.c`, `ptarmd/lnapp.c` | `fund_flag`, `channel_id`, status, depth, `anno_flag` | open_channel ... funding_locked, announcement_signatures | `Establish` |
| Forwarding | `ptarmd/lnapp.c`, `ptarmd/ptarmd.c` | previous and next channel and slot of an HTLC, `mux_self`, `mMuxPreimage` | `cbsub_add_htlc_forward`, `cb_fwd_addhtlc_start`, `cbsub_fulfill_backwind`, `cbsub_fail_backwind` | `Forwarding` |
| Unilateral close, classification, penalty | `ptarmd/monitoring.c`, `ln/ln.c` | kind of close, revoked data, wallet entries | `monfunc`, `ln_close_change_stat`, `close_unilateral_*`, `close_revoked_*` | `OnChain`, `Channel` |
| Announcements | `ln/ln.c`, `ln/ln_db_lmdb.c`, `ptarmd/lnapp.c` | announcement records, "annoinfo" marks of who has them | receive, `send_announcement`, prune, own updates | `Gossip` |
| Payments, routing | `ln/ln_routing.cpp`, `ptarmd/cmd_json.c`, `ptarmd/lnapp.c` | skip list, invoices kept for retries, `payroute_head` | `cmd_routepay`, `cmd_routepay_cont`, `lnapp_payment`, `ln_routing_calculate`, `cbsub_fail_originnode` | `Payment` |
| Transport, init, ping | `ln/ln_enc_auth.c`, `ln/ln.c`, `ptarmd/lnapp.c` | handshake, nonces, rotating keys, `init_flag`, `missing_pong_cnt` | acts 1-3, encrypt, decrypt, `exchange_init`, `poll_ping` | `Session` (cryptography symbolic) |
| Channel storage | `ln/ln_db_lmdb.c` | one record per channel, announcements, wallet, skip list, invoices, preimages | save, load, delete | partly: what is written when and what a reader sees |
| Channel threads | `ptarmd/lnapp.c` | `mux_self`, `flag_recv`, `loop`, queues | main, receive, poll and announce thread | the threads are actions of the modules above |
| Secret storage | `ln/ln_derkey.c`, `ln/ln_signer.c` | 49 entries that derive all secrets | insert, get | partly, in `Reconnect` |
| Peer connections | `ptarmd/p2p_cli.c`, `ptarmd/p2p_svr.c` | table of `lnapp_conf_t` | connect, accept | partly: connect, wrong node, break, hang |
| Wallet, bitcoind | `ptarmd/wallet.c`, `ptarmd/btcrpc_*.c` | none of their own | remote calls | their answers, in `OnChain` and `Establish` |
| Onion, scripts, keys, RPC parsing, utilities | `ln/ln_onion.c`, `ln/ln_script.c`, `btc/`, `ptarmd/cmd_json.c`, `utl/` | none of their own | computation and I/O | not modelled; their outcomes are inputs of the models |

How they interact. A peer's message is read by `recv_peer` in the receive thread
of the channel, which calls `ln_recv` with `mux_self` held. A handler changes
`ln_self_t`, saves it with `ln_db_self_save`, and calls back into `lnapp.c`
(`LN_CB_...`), which sends messages, looks up other channels and takes *their*
`mux_self`. When nothing arrives for a while the same thread calls
`ln_recv_idle_proc`, the only place where update messages and commitment_signed
are produced. The main thread of a connection exchanges init, channel_reestablish
and funding_locked beside the receive thread; the poll thread pings and counts
confirmations; the announce thread relays gossip. RPC threads call
`lnapp_payment` and `lnapp_close_channel` under `mux_self`, and
`lnapp_close_channel_force` without it, on a copy read from the database. A failed
payment calls the daemon's own JSON-RPC to be tried again. The monitoring thread
walks the database and the chain.

What is hard to test: two ends that offer, settle and sign at the same time; HTLC
flags that one commitment_signed moves for all slots at once; a shutdown that
crosses HTLC updates; connections and processes that end between two saves; what
is sent again afterwards; slots and slot numbers of other channels that are
reused; two channels that lock each other; blocks, monitoring passes and the
peer's spending in any order; retries by another thread; marks of who has which
announcement; nonces at their rotation. `PROJECT.json` lists them as hazards, each
at its line.

What makes each component correct:

* normal operation: both ends build the same commitment transactions, agree on
  their numbers, never drop an HTLC a live commitment holds, never disagree on
  who was paid, can punish every revoked commitment, and resolve every HTLC;
* mutual close: it ends with one closing transaction and excludes a commitment;
* unilateral close: what is broadcast is the current commitment, never a revoked
  one, and there is always one that can be broadcast;
* storage: what is saved is never behind what was promised to the peer;
* reconnection: the databases fit, what was lost is sent again, no secret of a
  live commitment is revealed;
* establishment: money is committed only when it can be taken back, the ends
  agree on the terms, and the channel becomes usable at both;
* forwarding: an HTLC is offered only once the received one is committed, and is
  claimed or failed upstream as it was downstream;
* on chain: everything that belongs to the node is taken back before the channel
  is forgotten, a revoked close is punished wholly;
* gossip: announcements before updates, nothing twice, the newest update arrives;
* payments: paid once, over routes that pay their nodes, and every one ends;
* transport: the right peer, in order, no nonce twice, a dead peer is noticed.

## 2. Modules

| Module | What it is |
|---|---|
| `HtlcFlags` | one HTLC slot and the predicates of `ln_local.h` over its flags |
| `LnSelf` | `ln_self_t` and the functions of `ln.c`, as operators on a state |
| `Channel` | two ends, their threads and the stream between them: one action per handler, caller and idle pass |
| `CommitLockstep` | abstract specification: commitment numbers move in lockstep |
| `ChannelProperties` | the properties, and the refinement mapping to `CommitLockstep` |
| `Reconnect` | `Channel` over several connections: extends it with loss, crash, `thread_main_start` and the handlers of a reconnection |
| `Establish` | a channel from open_channel to funding_locked and announcement_signatures, at both ends |
| `Forwarding` | the channels of one node, their locks and the callbacks between them |
| `OnChain` | the monitoring thread, the block chain and the peer that spends |
| `Gossip` | the announcement store and the announce threads |
| `Payment` | route computation, skip list, invoices and retries |
| `Session` | handshake, frames, init and ping of one connection |
| `MC...` | values of the constants for TLC, one per specification |
| `ChannelProofs` | proved about `Channel`: types, agreement on the commitment numbers, the refinement, safe closes; about `Reconnect`: the databases fit wherever the first connection breaks |
| `PairingProofs` | proved about `Channel`: the HTLC slots of the two ends fit, both derive the same commitment and agree on payments, deletions apply, received HTLCs are kept, what stops a channel |
| `EstablishProofs` | proved about `Establish`: its five safety properties |
| `ForwardingProofs` | proved about `Forwarding`: offered after commitment, claimed after the next channel |
| `OnChainProofs` | proved about `OnChain`: complete penalty, nothing forgotten |
| `GossipProofs` | proved about `Gossip`: announcement first, nothing twice |
| `PaymentProofs` | proved about `Payment`: a payment is paid once |
| `SessionProofs` | proved about `Session`: its five safety properties |

### Channel

State of `Channel` and what it stands for:

| Variable | Code |
|---|---|
| `self[p]` | the `ln_self_t` of end `p` |
| `db[p]` | what `ln_db_self_save` last wrote, as `ln_node_search_channel` reads it back |
| `net[p]` | bytes on their way to `p`, as a sequence of messages (a TCP stream: no loss, no reordering, but what is sent to a closed connection is lost) |
| `thread[p]` | `loop` and the receive thread: running, stopped, or process aborted by an assertion |
| `broadcast[p]` | transactions handed to bitcoind |
| `rpc[p]` | where the RPC thread is inside `cmd_close_unilateral_proc`, and the copy it read |
| `closes[p]` | close requests made (a bound of the model) |

Every handler is one action because it runs under `mux_self` from the read of
its message to the unlock. `cmd_close_unilateral_proc` is three actions
(`ForceLoad`, `ForceBroadcast`, `ForceStop`) because it takes no lock. A handler
that returns false is `FailChannel`: `thread_recv_start` closes unilaterally from
the database and stops. `Offer`, `OtherChannel`, `CloseRpc` and `CloseForce` are
the callers; `Idle` is `ln_recv_idle_proc`; `Receive` is `ln_recv`.

Abstractions, all of data:

* A signature is the transaction it signs; verifying it is comparing that
  transaction with the one built locally. A commitment transaction is its
  number, the HTLCs it holds and the HTLCs already paid each way. A
  per-commitment point or secret is the number of its commitment.
* `our_msat` and `their_msat` change only when `recv_idle_proc_final` removes a
  fulfilled HTLC, so a state keeps the sets of settled HTLCs (`paid_out`,
  `paid_in`) and derives the amounts modulo `MSAT_MOD`, which stands for 2^64.
* Every HTLC is above the dust limit, and its amount above `htlc_minimum_msat`.
* What the onion, the invoice and the next channel say about a received HTLC is
  its *fate*: settled here, failed, malformed, forwarded, or `NEXT_SHUTDOWN`,
  refused by `cbsub_add_htlc_forward` without a reason because the next channel
  is gone or shutting down.
* Building a transaction and handing it to bitcoind succeed. `update_fee` is not
  sent by this program, so both ends use the same feerate and the first
  closing_signed proposes `InitFee`.
* The flag `updwait` is never set by the program and is left out.

### Reconnect

Extends `Channel`: `session[p]` is where `thread_main_start` is and what
recv_channel_reestablish left in `ln_self_t`, `storage[p]` the secrets in the order
`ln_derkey_storage_insert_secret` got them, `faults` counts. A connection is lost at
any time (`Drop`); a process dies inside recv_commitment_signed between the
revoke_and_ack and the save (`CrashAfterRevoke`), the one place where what was sent
and what is saved differ in numbers. `Connect` starts both ends from their
databases. The main thread (`exchange_reestablish`, `exchange_funding_locked`,
`ln_channel_reestablish_after`, the shutdown sent again) holds no `mux_self`, so it runs beside
the handlers and the idle procedure of `Channel`, which are not held back. What is sent again
takes five steps: the update is found and its `comsend` taken back (`ResendFind`), sent
(`ResendUpdate`), the commitment counted back and saved (`ResendCount`), then come
revoke_and_ack (`ResendRevoke`) and shutdown (`ResendShutdown`). Between the first and the third
the idle procedure may sign. A thread whose connection has ended goes through these steps
too, sends nothing (`SentIfUp`) but still saves (`Finishing`). A secret is the number of its commitment;
what the compressed storage keeps is abstracted to which secret it accepts next.

### Establish

`self`, `db` and `conf` of two ends, `chain[t]` the confirmations of each funding
transaction, `forced` the ends that closed. The RPC thread (`lnapp_funding`), the
receive thread (the `recv_...` actions, with whole handlers), the main thread after a
reconnection and the polling thread (`poll_funding_wait`, `PollAnnounce`) are
separate actions because only the receive thread holds `mux_self`. The round in which the
polling thread finds itself stopped is still gone through: nothing is sent, but what it saves
is saved. A signature is
what it signs: funding, point and the amounts of both sides. Amounts are a few
units and push is within the funding; script and fee parameters are accepted.

### Forwarding

`htlcs[c]` the slots of each channel and `saved[c]` their saved copy; the four flags
of the commitment exchange, which `Channel` has in full, are one flag `done` here
(`Exchange` sets it). A handler that needs a second lock is two actions, up to the
lock and from it: `pending[c]` says what the thread that holds `mux_self` of `c`
waits for, `preimage` who holds `mMuxPreimage`. `lost` counts connections, `strayed`
records that a failure was taken to another slot than its own (`ln.c:3364`).

### OnChain

One channel: `status` in the database, `fund` and `out` what spends the funding
output and each output of the commitment, and in which block, `revtx` the saved
revoked data, `wallet`, `preimg`, `height`. One pass of the monitoring thread over
the channel is one action, since it is one LMDB transaction; what it broadcasts and
adds to the wallet is not, hence `CrashInPass`. The number of an HTLC in the commitment is taken
for its slot and for the index of its output (`Rank`, `Extracted`: `monitoring.c:570`, `584`).
`assert(0)` of `monitoring.c:598` is modelled as the release build has it (`NDEBUG`); the debug
build aborts there in every pass, and the channel stays. Outputs are names in an order of the
commitment transaction; which block, who spends and when is the environment.
Reorganisations are not modelled: the code does not handle them.

### Gossip

`anno`, `upd`, `nod` the records, `info` the marks, `scan` where the announce thread of
each connection is, `has` what each peer got. A handler, and a pass of
`send_announcement` over one channel, is one step, as one LMDB transaction. An update is its
timestamp; one of the two directions is modelled. `events` remembers whether
something happened that makes marks unreliable (see section 3). The own channel_update that
`send_cnlupd_before_announce` (`lnapp.c:1838`) sends to the peer of a channel without an
announcement is left out: it reads and writes no mark. `AnnouncedFirst` is about
`send_announcement` only.

### Payment

`upd`, `skip`, `invoice` the shared database, `calls` JSON-RPC calls to itself, `rpc` the
payment the RPC thread is between `cmd_routepay_proc1` and `..._proc2` of, `htlc` and
`payroute` per channel. The route computation is the code of `ln_routing.cpp` around
the shortest path, which is external (boost): any lightest path. Every channel in
the announcement database has its announcement; the block height is 0; bitcoind
answers; the user repeats a command only when the last attempt has ended. A channel
may refuse an HTLC for reasons of its own. A payment with a route given by the user
(`cmd_pay`) takes none of these steps and is left out.

### Session

`self` handshake, ciphers, `init_flag` and pongs, `conf` the connection, `poll` the poll
thread inside `poll_ping` (two threads write `missing_pong_cnt` without a lock, so
reading and writing it are separate steps), `wire` what a socket has to read.
Cryptography is symbolic: a key is what it was derived from, a ciphertext its key,
nonce and additional data. A full socket loses a frame or damages it; a frame of which only a
part is written before it is given up (`lnapp.c:3115`) counts as damaged, since what follows is
read as its rest. `RotateAt` stands for 1000.

`exchange_init` is three actions, because it holds no lock while the other threads already run:
`InitCreate` (`ln_init_create` sets its flag), `SendInit`, and `exchange_init` or `InitTimeout`
(the wait). `Polling` asks for `RECV_MSG_INIT` alone, as `lnapp.c:1672` does: a poll thread may
be ahead of the init of its own end. What the code relies on is time, and the model has these
two facts of it and no other: the wait for init (`M_WAIT_RESPONSE_MSEC`, 10 s) is no longer
than the period of the poll thread (`M_WAIT_POLL_SEC`, 10 s), and a ping takes `PingPolls`
rounds (`M_WAIT_PING_SEC / M_WAIT_POLL_SEC`, 6). A wait that a poll thread of the other end has
seen in one round has ended before the next one (`Overdue`, `waited`). The sleep of the poll
thread and the wait are taken to last what they are given; a process that hangs (`Freeze`) is
not held to it. While `ln_init_create` sets its flag, `recv_init` may set the other, and either
may be lost (`InitFlags`).

## 3. What the runs check

| Run | Instance | Shows |
|---|---|---|
| `sequential` | 3 HTLCs of the funder, one at a time (`MaxInFlight` below one amount), 2 slots, settled, failed or malformed | every HTLC is resolved (`HtlcsResolved`), none is dropped while a live commitment holds it (`HtlcKept`), a deletion is never ignored (`DeletionApplies`), no handler fails (`ChannelSurvives`) |
| `concurrent` | 2 HTLCs one way, 1 the other, all interleavings, 3 slots | both ends derive the same commitment (`SignatureAgrees`), agree on payments (`PaymentsAgree`) and numbers (`CommitNumbersAgree`), can punish every revoked commitment (`PunishmentReady`), and implement `CommitLockstep` (`LockstepSpec`) |
| `closing` | 1 HTLC, one close request at each end | a mutual close whose HTLCs are gone ends with a broadcast (`ClosingEnds`) |
| `failing` | 1 HTLC, own or forwarded, repeated close requests, one unilateral close by RPC, refusals that make handlers fail | `TypeOK`, a failing thread never broadcasts a revoked commitment (`NeverBroadcastRevoked`), a mutual close excludes it (`ClosingExclusive`) |
| `reconnect` | 1 HTLC, fulfilled or failed, 2 lost connections, 1 crash | after the first connection the databases fit each other's channel_reestablish, wherever it broke (`DatabasesFit`); over all connections the ends never disagree on who was paid (`PaymentsAgree`) |
| `forwarding` | 2 channels, one route, 2 slots each, 4 HTLCs, 2 expiries, 1 lost connection | a copy is offered only when the received HTLC is committed (`CommittedBeforeOffered`), a received HTLC is claimed only when its copy was (`ClaimedAfterNext`) |
| `establish` | 2 requests, also crossing, depths 1 and 2, 2 lost connections, 1 crash, 1 refused broadcast | a funding transaction is out only when the refund is signed and saved (`RefundSecured`), the ends agree (`TermsAgree`), `NormalWhenDeep`, `AnnouncedByBoth`, the opened channel is not closed again (`OpenSurvives`) and becomes usable (`EventuallyLocked`) |
| `onchain` | 1 offered and 1 received HTLC, present or not, two orders of outputs, 5 blocks, 1 crash | nothing is forgotten before it is in the wallet (`RecoveredBeforeDeleted`), a revoked close is punished wholly (`PenaltyComplete`), a closed channel is removed (`ClosedIsRemoved`), an expired HTLC closes the channel (`TimeoutCloses`) |
| `gossip` | 2 peers, 2 channels (1 own), 1 node, 2 timestamps, 3 outside events | no update before its announcement (`AnnouncedFirst`), nothing twice (`NotTwice`), the newest update arrives (`Delivered`), spent channels disappear (`SpentForgotten`) |
| `session` | rotation after 4 nonces, a ping after 2 rounds, 1 ping of the initiator (more once the other process hangs), 1 other message of each end, 1 fault, 1 hanging process, wrong node dialled | `Authenticated`, `InOrder`, `NonceOnce`, both ends rotate together (`RotatesTogether`), nothing is refused because init was not first (`InitFirst`), a dead peer is noticed (`DeadPeerNoticed`) |
| `payment` | 4 nodes, 4 channels (1 known by a hint only), 2 payments, 2 commands, 2 events | one attempt at a time (`PaidOnce`), routes pay their nodes (`RoutePays`), a payment ends (`PaymentEnds`) |
| `reconnect_secret` | as `reconnect`, no crash | violation, see below |

Bounds. `Channel`: three slots and three HTLCs let slots be reused, and let one
HTLC be added while another is settled and a third crosses in the other direction:
the flags of a slot only interact with the exchange of the other slots, and all
pairs (added, settling) x (offered, received) occur. Two close requests at one end
are what repeats a shutdown. `Reconnect`: two losses make a resend that is lost
again. `Forwarding`: four HTLCs through two slots are the least with which a failure that
strayed clears a slot, the slot is used again and the fulfilment of what was in it comes.
`Establish`: two requests at two ends cross. `OnChain`: five blocks are one more
than the two expiries, the delay and a pass between them need. `Gossip`: an
announcement and two updates in any order use up the three events. `Session`: four
nonces are two frames, so both directions rotate; two rounds are the least with which a ping
needs a second one. `Payment`: two
payments share the skip list, and each has two routes. The passing runs have
between 1119 (`sequential`) and 1680305 (`reconnect`) distinct states.
`CHECK_DEADLOCK FALSE` is used everywhere: a bounded workload ends, and so does a closed channel.

Fairness (`FairSpec` of each module). `Channel`: the receive thread loops until it is
stopped, it reads what has arrived, notices a closed connection, and runs the idle
procedure when nothing arrives; the resolution of what was forwarded is fair because
the other channels run the same loop. `Establish`: threads go on, a lost connection
is retried (the monitoring thread connects again), a published transaction is
confirmed. `OnChain`: the monitoring thread wakes up, blocks are found; nobody is
obliged to spend. `Gossip`: the announce thread of a connection repeats its pass.
`Session`: every thread of a running process goes on; a hanging process is not fair.
`Payment`: RPC and receive threads go on, connections come back, the network ends an
HTLC. Payments, close requests, faults and updates are never fair.

Conditions in properties. Some properties say "while no ... has happened": the code
does not keep them afterwards. `RefundSecured` and `OpenSurvives` hold while no process
dies between broadcast and save; `CommittedBeforeOffered` and `ClaimedAfterNext` while no
connection is lost, the latter also while no failure strayed; `RecoveredBeforeDeleted` unless a process died inside a pass or the
peer closed in the middle of an exchange; the gossip properties while marks are reliable
(`events`); `PaymentEnds` unless a failure named no channel or an HTLC was lost
unsigned; `InitFirst` unless an end has lost a flag of its own. The runs include the excluded
events, so their other properties are checked in their presence.

What the conditions exclude is not caught by any property, and the hazards say so: a funder or
a fundee that dies between broadcast or funding_signed and its save (`lnapp.c:2328`, the crash
half of `ln.c:2724`), a crash inside a monitoring pass (`monitoring.c:807`), a peer that closes
in the middle of an exchange (`ln.c:1461`). Nor are: an HTLC pending while closing_signed is
exchanged (`ln.c:2905`; `ClosingEnds` starts when they are gone), an announcement_signatures
that is lost with the queue and leaves the channel unannounced (`AnnouncedByBoth` is the safety
half), and a hop with the terms of a parallel channel (`MCPayment` has at most one channel
between two nodes). `sequential` has one HTLC at a time, so `HtlcKept` says nothing of a removal
by the exchange of another HTLC (`ln.c:2146`); `PaymentsAgree` of `concurrent` does.

### A disagreement with a run

`reconnect_secret` (`OnlyReplacedRevealed`): when revoke_and_ack is sent again,
`ln_channel_reestablish_after` (`ln.c:972`) takes `storage_index + 2` for the previous
secret as `ln_signer.c:101` says; the index has moved since, and it is the secret of
the commitment that is current.

### Met while modelling

Normal operation. TLC refutes each on an instance of `MCChannel`.
* Both ends offer at the same time (`OfferFunder = OfferFundee = 1`): revoke_and_ack
  sets `revrecv` of the *received* HTLC, whose `comsend` is still clear; `b_comsiging`
  stays true for ever and neither end signs again (`HtlcsResolved` fails).
* A second HTLC while the first is settled (`OfferFunder = 2`): a commitment_signed made
  before a deletion was known moves the flags of that deletion, so the HTLC is cleared
  while the peer's signed commitment still holds it (`HtlcKept` fails). It is the offerer
  that clears it; the receiver's half, `ReceivedKept`, is proved (section 4).
* The local commitment is rebuilt from the present flags, which a later message has
  moved past the signature (`UnilateralClosePossible` fails), against `ln.c:1383`.
* The RPC thread broadcasts a copy that the receive thread revokes in between
  (`cmd_json.c:1904`; `UnilateralCloseIsCurrent` fails).
* closing_signed does not wait for pending HTLCs; the ends build different
  transactions and `recv_closing_signed` asserts (`ln.c:2979`; `NeverAborts` fails).
* A second shutdown is not ignored, as `ln.c:2849` says, but fails the channel
  (`RepeatedShutdownIgnored` fails).
* The reserve (`ln.c:5553`) and the value in flight (`ln.c:5587`) are compared without
  pending or new HTLCs; the slots are shared by both directions while
  max_accepted_htlcs is compared with the last signed commitment (`ln.c:5567`), so an
  update_add_htlc may find no slot free; an HTLC queued before a close request is sent
  after the shutdown (`ln.c:1643`); an HTLC refused without a reason (`lnapp.c:2572`) is
  failed before its addition is exchanged and the offerer ignores it
  (`DeletionApplies` fails when `Fates` holds `NEXT_SHUTDOWN`); the flags of the two ends
  differ from then on, the next signature is refused and the channel fails
  (`SignatureAgrees` and `StopReasons` fail too; `PaymentsAgree` does not).

Threads. A handler that fails leaves `mux_self` locked (`lnapp.c:1576`). The poll thread
and the receive thread change `missing_pong_cnt` without a lock; a pong of the wrong
length is never taken off it (`ln.c:2414`); every message sent resets `ping_counter`
(`lnapp.c:3133`). `ln_init_create` and `recv_init` change `init_flag` without a common lock
(`ln.c:846`, `2341`): if they meet and one flag is lost, every later message is refused and the
channel closed by force. That no ping precedes the init rests on the three times of `Session`
(section 2). A frame given up after encryption (`lnapp.c:3114`), or continued from
its start (`lnapp.c:3118`), ends the connection. `recv_init` reads globalfeatures in the
loop over localfeatures (`ln.c:2328`). Whether a node is connected is checked before it
is used (`lnapp.c:1278`, `p2p_cli.c:124`). The monitoring thread takes `mux_self` inside a
database transaction (`monitoring.c:367`), other threads the other way round.

Reconnection. After a crash between revoke_and_ack and the save,
recv_channel_reestablish fails and the old commitment is broadcast although `ln.c:3805`
says it must not. Only one update is sent again: with two HTLCs `PaymentsAgree` fails.
Payments are let in (`lnapp.c:1002`) before the resend, which holds no lock.

Establishment. The funding transaction is broadcast before the funder saves
(`lnapp.c:2328`), funding_signed sent before the fundee does (`ln.c:2723`). If bitcoind
refuses the transaction the fundee keeps waiting. `ln_open_channel_create` runs in the
RPC thread without `mux_self`. `ANNO_CH` is cleared before announcement_signatures is
sent (`lnapp.c:1742`). push_msat may exceed the funding (`ln.c:1185`, `ln.c:2500`). A channel
is NORMAL, and accepts payments, before funding_locked has come (`UsableWhenLocked` of
`Establish` fails).

Forwarding. `fail_recv.prev_idx` is the slot of this channel (`ln.c:3364`), so another
HTLC may be failed (`FailedAfterNext` of `Forwarding` fails). The slot of that HTLC is then
cleared and used again while its copy lives, and the fulfilment of the copy claims the
HTLC that is now in the slot (with four HTLCs, `ClaimedAfterNext` without `~strayed` fails;
three are too few to show it, an attempt to prove it for any number did). Two channels that forward to
each other wait for each other's `mux_self`. A resolution is lost when the previous
channel is offline (`lnapp.c:2702`). A copy that waits is not saved, so slot numbers are
stale after a reconnection. Copies of each other keep both channels from being final. The
check of expiries (`ln.c:5972`) leaves one block.

On chain. The preimage with which a peer claims a forwarded HTLC is not learned
(`monitoring.c:585`; `PreimageLearned` of `OnChain` fails): `ln_preimage_remote` never finds
the witness it expects, and asserts (`monitoring.c:598`). It looks for the transaction at the
number of the HTLC instead of the index of its output. If the peer closes between commitment_signed and
revoke_and_ack nothing is recovered (`ln.c:1461`). A crash between broadcast and wallet
entry loses the entry (`monitoring.c:807`). A revoked transaction without to_local
overruns the buffers (`ln.c:1534`). Deleting a channel deletes the preimages of its
HTLCs also for others (`ln_db_lmdb.c:4675`).

Gossip. An older update marks its sender as having the newer (`ln_db_lmdb.c:1574`); an own
newer update does not clear marks (`ln_db_lmdb.c:1610`); a pruned update keeps its marks;
what is lost with a connection stays marked; `annoinfo_cur_trim` copies from the buffer it
has just allocated (`ln_db_lmdb.c:4534`).

Payments. A failure of the final node skips nothing and is retried for ever
(`lnapp.c:3326` says there is no use in it). An HTLC lost unsigned is neither retried nor
reported. A temporary entry overwrites a permanent one (`cmd_json.c:980`). The end of one
payment releases the skip entries of others. With parallel channels a hop names the
first record whatever its direction says (`ln_routing.cpp:598`). `cmd_routepay_cont` uses
the invoice also when decoding it failed (`cmd_json.c:987`). The retry is asked for before
the removal is saved (`ln.c:2130`).

Every property of a passing run is broken by a mutated definition (the operators
commented "A slip:"), so each one depends on the code it is about. `TypeOK` of the
modules other than `Channel` is no property of a run; it is part of the proved invariants
of section 4.

## 4. What is proved

Every theorem holds for every value of the constants: no bound on slots, HTLCs, requests,
frames, peers, channels, payments, faults or crashes, and any amounts, expiries, depths and
timestamps. The assumptions say of the constants what the code's types say:

| Module | Assumptions |
|---|---|
| `Channel`, `Reconnect` | the two ends differ, `LN_HTLC_MAX` is positive, amounts are positive, the other parameters are numbers (`HtlcMaxAssumption`, `PeerAssumption`, `ParameterAssumption`, `BoundAssumption`, `FaultAssumption`) |
| `Session` | the rotation interval is positive and even, because a frame uses two nonces (`RotateAssumption`); two sides (`SideAssumption`); a ping takes more than one round of the poll thread (`PollAssumption`) |
| `Forwarding` | the value for "no channel" is no channel (`NoCnlAssumption`); slots, HTLCs and faults are numbers (`FwdAssumption`) |
| `Payment` | `PaymentAssumption`: counters are numbers, the network is well formed |
| `Establish` | there are two ends (`EstPeerAssumption`), depths and amounts are numbers and a push is at most the funding, the case in which `our_msat` does not wrap (`EstDepthAssumption`, `EstBoundAssumption`) |
| `Gossip` | the node's own channels are channels, timestamps and bounds are numbers (`GossipAssumption`) |
| `OnChain` | slots, expiries and the number of blocks are numbers, and there is at least one block (`OnChainAssumption`) |

Each proof has the same form: an invariant that is inductive (with the types it needs), one
lemma per action or per kind of step, and the properties as consequences.

### Channel and Reconnect

* `TypeCorrect`: `Spec => []TypeOK`. `TypeOK` is inductive. One
  lemma per operator of `LnSelf` shows that it maps a well-formed state to a
  well-formed state, one lemma per group of actions combines them. What is not
  obvious is that HTLC counts are numbers (the slots are finite, so are the HTLCs
  of a transaction) and that a failing or crossing handler never stores a message
  field of another type.
* `NumbersAgree`: `Spec => []CommitNumbersAgree`, and
  `LockstepRefined`: `Spec => LockstepSpec`, the refinement of `CommitLockstep`.
  `CommitNumbersAgree` is not inductive: nothing in it keeps an end from signing a
  second time. The inductive invariant `ExchangeInv` (`ExchangeInvariant`) adds why
  it does not: for each direction the numbers are in one of three phases
  (settled; signed, the commitment_signed is under way or lost; accepted, the
  revoke_and_ack is under way or lost), and in the last two some slot has
  `comsend` set and `revrecv` clear. `recv_idle_proc_nonfinal` signs only when no
  slot is in that state (`b_comsiging`), and then sets `comsend` of at least one
  slot whose `revrecv` is clear. The other half of the proof is that nothing but a
  revoke_and_ack takes a slot out of that state: `clear_htlc_comrevflag` needs all
  four flags, and `recv_idle_proc_final` runs only when every HTLC has them. Each
  step of `Channel` is shown to be quiet, to sign, to accept or to acknowledge
  (`StepKinds`); the invariant and the refinement follow from the four kinds.
  Two crossing offers (section 3) show the price the code pays for this rule: the
  state that forbids a second signature can last for ever.
* `PunishmentAlwaysReady`, `RevokedNeverBroadcast`, `ClosingAlone`: `PunishmentReady`,
  `NeverBroadcastRevoked` and `ClosingExclusive`. All three rest on the database
  (`CloseInv`, `CloseInvariant`): a handler may leave slots and fees unsaved, but commitment
  number, secrets of the peer, status and a received shutdown are saved by the handler that
  changes them. A commitment broadcast from the database is then the newest, and none
  follows it, because only a thread that ends broadcasts one; a closing_signed is sent only
  after CLOSE_WAIT was saved, and CLOSE_WAIT forbids the unilateral close.
* `DatabasesAlwaysFit`: `RSpec => []DatabasesFit`. As long as nobody
  reconnected and no process died, a step of `Reconnect` is a step of `Channel` or only
  stops an end, so `ExchangeInv` carries over; added to it is that the database holds the
  four numbers of the memory and that the commitment before the current one is the last
  revoked. What follows the first connection needs no order: it is enough that a session
  that went through channel_reestablish never looks like the first one (`Reconnected`).

### The HTLCs of the two ends

`PairingProofs` relates the flags of one end to those of the other, which no handler can
see. `H` below is the hypothesis `"NEXT_SHUTDOWN" \notin Fates`: no HTLC is refused before
its addition is exchanged. Section 3 says what the code does otherwise: `DeletionApplies`,
`SignatureAgrees` and `StopReasons` are false without `H`. TLC finds no violation of
`ReceivedKept` without it (two HTLCs of one end and one of the other, or three of one end),
but `KeptInv`, on which its proof rests, is then violated, so its theorem has `H` as well.

* `PairInvariant`: `Spec => []PairInv`, the inductive invariant. `Paired` lists the phases
  that the offerer's slot and the receiver's slot of one HTLC go through, each with the
  messages that are under way in it and the flags that may differ: `Added`, `DelDecided`,
  `DelSent`, `DelKnown`, `DelLost` (the offerer stopped before the deletion came) and
  `Doomed` (without `H`). A slot may be alone too: `AddSent`, `ReceiverGone`, `OffererGone`.
  `PairInv` says that every slot is in one of these, that a stream announces an update once
  and before the signature that covers it (`Tidy`), that an id is never used again
  (`EndOK`), and that what one end has paid the other was paid, or still holds (`PaidFit`).
  Every step of `Channel` is a `Move` of one end (`MoveOf`): it prepares, passes the send
  loop, reads one message, settles, closes or stops. A move has one lemma for the HTLCs
  its end offered and one for those it received, because the two see the same flags in
  different phases.
* `PaymentsAlwaysAgree`: `Spec => []PaymentsAgree`, for all fates: this one needs no `H`,
  because a doomed HTLC is never fulfilled.
* `DeletionsApply`: `H` implies `Spec => []DeletionApplies`. A deletion is announced by
  a receiver whose slot is in `DelSent`, and there the offerer's slot is exchanged.
* `SignaturesFit`, `SignaturesAgree`: `H` implies `Spec => []SigInv` and
  `Spec => []SignatureAgrees`. `SignatureAgrees` compares the transaction of a
  commitment_signed at the head of the stream; inductive is what its reader will build once
  everything ahead of it is read (`SigInv`): its slots as they are, additions and deletions
  under way, and whether the revoke_and_ack that moves `revrecv` is here or ahead
  (`Arrived`). When the signature is made, the pairing makes that prediction come out as
  what `create_to_remote` signs; the moves in between leave the prediction alone.
* `KeptInvariant`, `ReceivedAlwaysKept`: `H` implies `Spec => []KeptInv` and
  `Spec => []ReceivedKept`, the receiver's half of `HtlcKept`: an HTLC that was received
  stays in memory and in the database as long as the peer has, or is about to get, a signed
  commitment with it, so it can be claimed on the chain. `KeptInv` says which HTLCs an accepted commitment may
  hold, and that the database has every received one.
* `StopsForReasons`: `H` implies `Spec => StopReasons`. `ChannelSurvives` is true of one
  workload only; this says what is true of all: a receive thread ends only over an HTLC it
  has no room for, over a message of mutual close, because of a unilateral close by RPC, or
  because the peer's thread ended. No commitment_signed, revoke_and_ack or deletion of an
  honest peer fails.

### Session

`PeersAuthenticated`, `HandledInOrder`, `NoncesOnce`, `KeysRotateTogether` and
`InitAlwaysFirst` prove `Authenticated`, `InOrder`, `NonceOnce`, `RotatesTogether` and
`InitFirst`. The first four follow from one invariant (`SessionInvariant`). It says which act is the first message
of a socket for each pair of handshake phases, and gives every cipher and every frame under
way a position in the stream of nonces: the number of rotations and the nonce are a
function of how many frames were sealed, so two frames with the same key and nonce are the
same frame. Frames under way continue the reader's position without a gap unless a fault
was counted. That a lost or damaged frame never makes the messages handled differ from a
prefix of those sent needs the same positions: a frame behind a gap does not open.

`InitFirst` has an invariant of its own on top of it (`InitInvariant`), and the assumption that
a ping takes more than one round (`PollAssumption`, the code has six). While an end that can
still be heard has not sent its init, its poll thread is idle, and once that thread has made a
round, the other end is marked as waited for: the other end sent the init that the round was
made for, so it is in its own wait, and there is no second round before that wait is over. It
ends with the init that comes or with a stop; then nobody is left to refuse the ping. What an
end has sent therefore begins with its init, and a refusal is left with one cause, a lost flag
(`FlagLost`).

### Forwarding

`OfferedAfterCommit` and `ClaimsFollow` prove `CommittedBeforeOffered` and
`ClaimedAfterNext`. The invariant (`ForwardInvariant`): a payment is received in one slot,
its copies name that slot, a copy that waits is where its source points, an open copy has an
open source and is the only one, and an end on its way back finds that source still there.
The attempt to prove `ClaimedAfterNext` without the condition on strayed failures led to the
four-HTLC counterexample of section 3.

### Payment

`NeverPaidTwice` proves `PaidOnce`. What is under way for a payment is a queued call, the
route in the hands of the RPC thread or one HTLC; each step hands it on, and a paid payment is
never called for again (`PayInvariant`).

### Establish

`SameTerms`, `MoneySecured`, `DeepBeforeNormal`, `SignedByBoth` and `OpenKept` prove
`TermsAgree`, `RefundSecured`, `NormalWhenDeep`, `AnnouncedByBoth` and `OpenSurvives`. The
invariant (`OpenInvariant`) says that at most one message of the exchange is on its way, that
it fits the state of both ends, and that an end holds exactly what the exchange agreed on,
through lost connections, requests that cross, refusals of bitcoind and crashes.

### OnChain

`PenaltyAlwaysComplete` and `AlwaysRecovered` prove `PenaltyComplete` and
`RecoveredBeforeDeleted`. The status says what closed the channel, and nothing is taken before
that is known; after its own commitment the node holds the output of every HTLC transaction
it made; after a revoked one the saved counter is the number of HTLC transactions of the peer
that were not taken back. The last part is what `PenaltyComplete` needs: a found transaction
is never counted again, because the next search starts behind its block (`OnChainInvariant`).
The proof showed that without any block the types do not hold, so `OnChainAssumption` asks
for one.

### Gossip

`AnnouncementFirst` and `NeverToldTwice` prove `AnnouncedFirst` and `NotTwice`
(`GossipInvariant`): a peer marked for an announcement has it, a peer that has a record is
marked for it, none has a later update than the stored one, and as long as a peer has an
update that was removed a mark of it is left. The last part failed at first: an update that
is removed before it is too old takes its marks along, an older one comes back, and is sent
to a peer that has it. Five outside events are needed, more than the run makes; the model now
counts such a removal among the events that make marks unreliable (`Vanishes`, `Forgotten`).

### Only model-checked

* Liveness, which needs fairness: `HtlcsResolved`, `ClosingEnds`, `EventuallyLocked`,
  `ClosedIsRemoved`, `TimeoutCloses`, `Delivered`, `SpentForgotten`, `DeadPeerNoticed`,
  `PaymentEnds`.
* `HtlcKept` and `ChannelSurvives`, which hold for the workload of their run only (section 3
  names the instances that break them), so there is no theorem for every value of the
  constants to state. `ReceivedAlwaysKept` and `StopsForReasons` are the parts that hold for
  every value.
* `PaymentsAgree` over several connections (run `reconnect`); it fails with two HTLCs
  (section 3), so the theorem is about one connection.
* `RoutePays`, which is about the graph, the fees and the routes of its instance.

## 5. Plan

The module of every component has its theorems; eight modules hold proofs, and every safety
property of the runs that holds for every value of the constants is a theorem.

Models that could follow: the database's write lock together with `mux_self`; the table of
connections.

Not modelled: onion, scripts, keys and the compressed secret storage (cryptographic
computation whose outcome is an input here); update_fee (its sender is compiled out);
RPC parsing, command line, printing and configuration (no state); the transport to
bitcoind and the SPV variant (`btcrpc_bitcoinj.c`), whose calls only answer;
the inside of the shortest path (an external graph library); the tests, the vendored
test framework and `libs/`.
