----------------------------- MODULE Forwarding -----------------------------
(***************************************************************************)
(* One node that forwards HTLCs between its channels: the receive threads  *)
(* of several channels, each with its own ln_self_t and mux_self, and the  *)
(* callbacks of lnapp.c by which the thread of one channel, holding its    *)
(* own mux_self, locks the mux_self of another one to add an HTLC there,   *)
(* to start it, or to take a fulfilment or a failure back.                 *)
(*                                                                         *)
(* Modules LnSelf and Channel have the four flags of the commitment        *)
(* exchange; here one flag, done, says that the pending change of a slot   *)
(* is exchanged both ways.  A handler that needs a second lock is two      *)
(* actions: up to the lock, and from the lock to its end.                  *)
(***************************************************************************)
EXTENDS Integers, FiniteSets

CONSTANTS
    Cnl,            \* the channels of the node
    NoCnl,          \* short_channel_id 0
    LN_HTLC_MAX,    \* slots of cnl_add_htlc[]
    Cltvs,          \* values of cltv_expiry and outgoing_cltv_value
    Delta,          \* cltv_expiry_delta
    Routes,         \* the pairs <<previous, next>> HTLCs are forwarded along
    \* Bounds.
    MaxFwd,         \* HTLCs forwarded
    MaxOffline      \* connections lost

ASSUME NoCnlAssumption == NoCnl \notin Cnl
ASSUME FwdAssumption ==
    /\ LN_HTLC_MAX \in Nat \ {0} /\ Cltvs \subseteq Nat /\ Delta \in Nat
    /\ Routes \subseteq Cnl \X Cnl
    /\ MaxFwd \in Nat /\ MaxOffline \in Nat

Slot == 0 .. LN_HTLC_MAX - 1

VARIABLES
    htlcs,      \* cnl_add_htlc[] of each channel, in memory
    saved,      \* the same in the database
    online,     \* the channel's threads run and its status is NORMAL
    pending,    \* what the thread that holds mux_self of a channel waits for
    preimage,   \* the channel whose thread holds mMuxPreimage
    outcome,    \* how the next channel resolved each forwarded HTLC
    strayed,    \* a failure was taken back to another slot than it came from
    lost        \* connections lost so far

vars == <<htlcs, saved, online, pending, preimage, outcome, strayed, lost>>

\* A slot: tag names the payment (0: amount_msat is 0).
HtlcType ==
    [ tag : Nat, cltv_expiry : Cltvs \cup {0},
      addhtlc : {"NONE", "OFFER", "RECV"},
      delhtlc : {"NONE", "FULFILL", "FAIL"},
      fin_delhtlc : {"NONE", "FAIL"},
      done : BOOLEAN,
      prev : Cnl \cup {NoCnl}, prev_idx : Slot,
      next : Cnl \cup {NoCnl}, next_idx : Slot ]

EmptyHtlc ==
    [ tag |-> 0, cltv_expiry |-> 0, addhtlc |-> "NONE", delhtlc |-> "NONE",
      fin_delhtlc |-> "NONE", done |-> FALSE,
      prev |-> NoCnl, prev_idx |-> 0, next |-> NoCnl, next_idx |-> 0 ]

\* idle: mux_self is free.  preimage: a received HTLC waits for mMuxPreimage.
\* add, start, fulfill, fail: the callback waits for mux_self of channel to.
PendingType ==
    [ op : {"idle", "preimage", "add", "start", "fulfill", "fail"},
      to : Cnl \cup {NoCnl}, idx : Slot, cltv : Cltvs \cup {0} ]

Free == [op |-> "idle", to |-> NoCnl, idx |-> 0, cltv |-> 0]

TypeOK ==
    /\ htlcs \in [Cnl -> [Slot -> HtlcType]]
    /\ saved \in [Cnl -> [Slot -> HtlcType]]
    /\ online \in [Cnl -> BOOLEAN]
    /\ pending \in [Cnl -> PendingType]
    /\ preimage \in Cnl \cup {NoCnl}
    /\ outcome \in [1 .. MaxFwd -> {"NEW", "OPEN", "FULFILL", "FAIL"}]
    /\ strayed \in BOOLEAN
    /\ lost \in 0 .. MaxOffline

Init ==
    /\ htlcs = [c \in Cnl |-> [i \in Slot |-> EmptyHtlc]]
    /\ saved = htlcs
    /\ online = [c \in Cnl |-> TRUE]
    /\ pending = [c \in Cnl |-> Free]
    /\ preimage = NoCnl
    /\ outcome = [t \in 1 .. MaxFwd |-> "NEW"]
    /\ strayed = FALSE
    /\ lost = 0

----------------------------------------------------------------------------
LN_HTLC_ENABLE(h) == h.addhtlc # "NONE" \/ h.tag # 0

FreeSlot(c, i) ==
    /\ ~LN_HTLC_ENABLE(htlcs[c][i])
    /\ \A j \in 0 .. i - 1 : LN_HTLC_ENABLE(htlcs[c][j])

\* mux_self of c can be taken by another thread.
Unlocked(c) == pending[c].op = "idle"

\* ptarmd_search_transferable_cnl.
Transferable(c) == c \in Cnl /\ online[c]

Set(c, i, h) == [htlcs EXCEPT ![c][i] = h]

\* A change of the HTLC starts only when the last one is exchanged.
clear_htlc_comrevflag(h, del) ==
    IF h.done THEN [h EXCEPT !.delhtlc = del, !.done = FALSE] ELSE h

----------------------------------------------------------------------------
(* An HTLC arrives to be forwarded.                                        *)

\* B7 and B10: the next channel is there and the expiry leaves a margin.  The
\* other checks do not depend on the state of the channels.
check_recv_add_htlc_bolt4_forward(next, cltv, out) ==
    /\ Transferable(next)
    /\ ~(cltv <= out)
    /\ ~(cltv + Delta < out)

Received(t, cltv, fin) ==
    [EmptyHtlc EXCEPT !.tag = t, !.cltv_expiry = cltv,
                      !.addhtlc = "RECV", !.fin_delhtlc = fin]

NewTag(t) ==
    /\ outcome[t] = "NEW"
    /\ \A u \in 1 .. t - 1 : outcome[u] # "NEW"

\* recv_update_add_htlc up to cb_add_htlc_recv.
RecvAddHtlc(c, next, cltv, out) ==
    /\ <<c, next>> \in Routes
    /\ online[c] /\ Unlocked(c)
    /\ \E t \in 1 .. MaxFwd, i \in Slot :
         /\ NewTag(t) /\ FreeSlot(c, i)
         /\ outcome' = [outcome EXCEPT ![t] = "OPEN"]
         /\ IF check_recv_add_htlc_bolt4_forward(next, cltv, out)
            THEN /\ htlcs' = Set(c, i, Received(t, cltv, "NONE"))
                 /\ pending' = [pending EXCEPT ![c] =
                      [op |-> "preimage", to |-> next, idx |-> i, cltv |-> out]]
            ELSE /\ htlcs' = Set(c, i, Received(t, cltv, "FAIL"))
                 /\ UNCHANGED pending
    /\ UNCHANGED <<saved, online, preimage, strayed, lost>>

\* cb_add_htlc_recv: ptarmd_preimage_lock.
LockPreimage(c) ==
    /\ pending[c].op = "preimage"
    /\ preimage = NoCnl
    /\ preimage' = c
    /\ pending' = [pending EXCEPT ![c].op = "add"]
    /\ UNCHANGED <<htlcs, saved, online, outcome, strayed, lost>>

\* cbsub_add_htlc_forward and the rest of recv_update_add_htlc.  The next
\* channel refuses when it is full or its limits do not allow the HTLC.
AddForward(c) ==
    LET d == pending[c].to
        i == pending[c].idx
        h == htlcs[c][i]
        copy == [EmptyHtlc EXCEPT !.tag = h.tag, !.cltv_expiry = pending[c].cltv,
                                  !.prev = c, !.prev_idx = i]
    IN  /\ pending[c].op = "add"
        /\ \/ /\ Transferable(d) /\ Unlocked(d)
              /\ \E j \in Slot :
                   /\ FreeSlot(d, j)
                   /\ htlcs' = [htlcs EXCEPT ![d][j] = copy,
                                   ![c][i].next = d, ![c][i].next_idx = j]
           \/ \* refused with a reason
              /\ Transferable(d) /\ Unlocked(d)
              /\ htlcs' = Set(c, i, [h EXCEPT !.fin_delhtlc = "FAIL"])
           \/ \* no next channel: ln_fail_htlc_set at once
              /\ ~Transferable(d)
              /\ htlcs' = Set(c, i, [h EXCEPT !.fin_delhtlc = "FAIL",
                                              !.delhtlc = "FAIL"])
        /\ preimage' = NoCnl
        /\ pending' = [pending EXCEPT ![c] = Free]
        /\ UNCHANGED <<saved, online, outcome, strayed, lost>>

----------------------------------------------------------------------------
(* The commitment exchange and the idle procedure.                         *)

\* External: the change of slot i is committed by both ends of the channel;
\* recv_commitment_signed and recv_revoke_and_ack save the channel.
Exchange(c, i) ==
    /\ online[c] /\ Unlocked(c)
    /\ htlcs[c][i].addhtlc # "NONE" /\ ~htlcs[c][i].done
    /\ htlcs' = [htlcs EXCEPT ![c][i].done = TRUE]
    /\ saved' = [saved EXCEPT ![c] = htlcs'[c]]
    /\ UNCHANGED <<online, pending, preimage, outcome, strayed, lost>>

Enabled(c) == {i \in Slot : LN_HTLC_ENABLE(htlcs[c][i])}

\* A slip: the idle procedure starts an HTLC whose addition is not committed.
Final_Always(c) == Enabled(c) # {}

\* b_final of ln_recv_idle_proc.
Final(c) == Enabled(c) # {} /\ \A i \in Enabled(c) : htlcs[c][i].done

Added(h) == h.addhtlc = "RECV" /\ h.delhtlc = "NONE"

\* The received HTLCs to start in the next channel.
ToStart(c) == {i \in Slot : Added(htlcs[c][i]) /\ htlcs[c][i].next # NoCnl}

\* What recv_idle_proc_final does to a slot of its own channel.
FinalHtlc(h) ==
    CASE h.done /\ h.delhtlc # "NONE" -> EmptyHtlc
      [] Added(h) /\ h.fin_delhtlc # "NONE" ->
            clear_htlc_comrevflag(h, h.fin_delhtlc)
      [] OTHER -> [h EXCEPT !.next = NoCnl]

FinishIdle(c, hs) ==
    /\ htlcs' = [hs EXCEPT ![c] = [i \in Slot |-> FinalHtlc(@[i])]]
    /\ saved' = [saved EXCEPT ![c] = htlcs'[c]]
    /\ pending' = [pending EXCEPT ![c] = Free]

\* recv_idle_proc_final: the slots are taken in order.
IdleFinal(c) ==
    /\ online[c] /\ Unlocked(c)
    /\ Final(c)
    /\ IF ToStart(c) = {}
       THEN FinishIdle(c, htlcs)
       ELSE /\ pending' = [pending EXCEPT ![c] =
                 [Free EXCEPT !.op = "start",
                     !.idx = CHOOSE i \in ToStart(c) :
                                 \A j \in ToStart(c) : i <= j]]
            /\ UNCHANGED <<htlcs, saved>>
    /\ UNCHANGED <<online, preimage, outcome, strayed, lost>>

\* cb_fwd_addhtlc_start for one slot, then the next slot or the end.  A next
\* channel that is gone is skipped.
StartForward(c) ==
    LET i == pending[c].idx
        d == htlcs[c][i].next
        j == htlcs[c][i].next_idx
        started == IF Transferable(d)
                   THEN [htlcs EXCEPT ![d][j].addhtlc = "OFFER"] ELSE htlcs
        rest == {k \in ToStart(c) : k > i}
    IN  /\ pending[c].op = "start"
        /\ Transferable(d) => Unlocked(d)
        /\ IF rest = {}
           THEN FinishIdle(c, started)
           ELSE /\ htlcs' = started
                /\ pending' = [pending EXCEPT ![c].idx =
                                 CHOOSE k \in rest : \A l \in rest : k <= l]
                /\ UNCHANGED saved
        /\ UNCHANGED <<online, preimage, outcome, strayed, lost>>

----------------------------------------------------------------------------
(* The next channel resolves the HTLC.                                     *)

\* The offered HTLC c's peer resolves: committed and not yet deleted.  The
\* peer does not change its mind over a reconnection.
Resolvable(c, i, del) ==
    LET h == htlcs[c][i]
    IN  /\ online[c] /\ Unlocked(c)
        /\ h.addhtlc = "OFFER" /\ h.done /\ h.delhtlc = "NONE"
        /\ h.tag # 0 => outcome[h.tag] \in {"OPEN", del}

\* The handler up to the callback's lock.  A fulfilment or failure whose
\* previous channel is gone is dropped (TODO #366).
Resolve(c, i, del, op, idx) ==
    LET h == htlcs[c][i]
    IN  /\ Resolvable(c, i, del)
        /\ htlcs' = Set(c, i, clear_htlc_comrevflag(h, del))
        /\ outcome' = IF h.tag = 0 THEN outcome
                      ELSE [outcome EXCEPT ![h.tag] = del]
        /\ pending' = IF Transferable(h.prev)
                      THEN [pending EXCEPT ![c] =
                              [Free EXCEPT !.op = op, !.to = h.prev, !.idx = idx]]
                      ELSE pending
        /\ UNCHANGED <<saved, online, preimage, lost>>

\* A slip: the index of the offered HTLC instead of the received one.
RecvFulfillHtlc_OwnIdx(c, i) ==
    Resolve(c, i, "FULFILL", "fulfill", i) /\ UNCHANGED strayed

RecvFulfillHtlc(c, i) ==
    /\ Resolve(c, i, "FULFILL", "fulfill", htlcs[c][i].prev_idx)
    /\ UNCHANGED strayed

\* recv_update_fail_htlc and recv_update_fail_malformed_htlc pass their own
\* index as prev_idx.
RecvFailHtlc(c, i) ==
    /\ Resolve(c, i, "FAIL", "fail", i)
    /\ strayed' = (strayed \/ htlcs[c][i].prev_idx # i)

ln_fulfill_htlc_set(h) == clear_htlc_comrevflag(h, "FULFILL")

ln_fail_htlc_set(h) ==
    [clear_htlc_comrevflag(h, "FAIL") EXCEPT !.delhtlc = "FAIL"]

\* cbsub_fulfill_backwind; ln_fulfill_htlc_set saves the previous channel.
FulfillBackwind(c) ==
    LET d == pending[c].to
        i == pending[c].idx
    IN  /\ pending[c].op = "fulfill"
        /\ Transferable(d) => Unlocked(d)
        /\ IF Transferable(d)
           THEN /\ htlcs' = Set(d, i, ln_fulfill_htlc_set(htlcs[d][i]))
                /\ saved' = [saved EXCEPT ![d] = htlcs'[d]]
           ELSE UNCHANGED <<htlcs, saved>>
        /\ pending' = [pending EXCEPT ![c] = Free]
        /\ UNCHANGED <<online, preimage, outcome, strayed, lost>>

\* cbsub_fail_backwind; nothing is saved.
FailBackwind(c) ==
    LET d == pending[c].to
        i == pending[c].idx
    IN  /\ pending[c].op = "fail"
        /\ Transferable(d) => Unlocked(d)
        /\ htlcs' = IF Transferable(d)
                    THEN Set(d, i, ln_fail_htlc_set(htlcs[d][i])) ELSE htlcs
        /\ pending' = [pending EXCEPT ![c] = Free]
        /\ UNCHANGED <<saved, online, preimage, outcome, strayed, lost>>

----------------------------------------------------------------------------
(* A connection is lost, and made again from the database.                 *)

Offline(c) ==
    /\ online[c] /\ Unlocked(c)
    /\ lost < MaxOffline
    /\ online' = [online EXCEPT ![c] = FALSE]
    /\ lost' = lost + 1
    /\ UNCHANGED <<htlcs, saved, pending, preimage, outcome, strayed>>

Online(c) ==
    /\ ~online[c]
    /\ online' = [online EXCEPT ![c] = TRUE]
    /\ htlcs' = [htlcs EXCEPT ![c] = saved[c]]
    /\ UNCHANGED <<saved, pending, preimage, outcome, strayed, lost>>

Receive(c) ==
    \/ \E next \in Cnl, cltv, out \in Cltvs : RecvAddHtlc(c, next, cltv, out)
    \/ \E i \in Slot : RecvFulfillHtlc(c, i) \/ RecvFailHtlc(c, i)

Callback(c) ==
    \/ LockPreimage(c) \/ AddForward(c) \/ StartForward(c)
    \/ FulfillBackwind(c) \/ FailBackwind(c)

Next ==
    \E c \in Cnl :
        \/ Receive(c) \/ Callback(c) \/ IdleFinal(c)
        \/ \E i \in Slot : Exchange(c, i)
        \/ Offline(c) \/ Online(c)

Spec == Init /\ [][Next]_vars

----------------------------------------------------------------------------
(* Properties.                                                             *)

\* The received HTLC an offered one was forwarded from.
Source(h) == htlcs[h.prev][h.prev_idx]

\* An HTLC is offered to the next channel only when the received one is
\* committed by both ends: recv_idle_proc_final starts it, and from then on
\* the node can claim it or let it fail.  While no connection is lost: a copy
\* that waits to be started is not saved, and its slot may be used again.
CommittedBeforeOffered ==
    lost = 0 =>
        \A c \in Cnl, i \in Slot :
            LET h == htlcs[c][i]
            IN  h.addhtlc = "OFFER" /\ h.prev # NoCnl /\ Source(h).tag = h.tag
                    /\ Source(h).delhtlc = "NONE"
                  => Source(h).addhtlc = "RECV" /\ Source(h).done

\* A received HTLC is claimed with a preimage only when the next channel's
\* peer claimed its copy: cbsub_fulfill_backwind finds the slot it came from,
\* however the slots of both channels were used before.  While no connection
\* is lost, because a fulfilment that is repeated may find the slot used again,
\* and no failure strayed, because it frees the slot of another HTLC, whose
\* fulfilment then finds it used again.
ClaimedAfterNext ==
    lost = 0 /\ ~strayed =>
        \A c \in Cnl, i \in Slot :
            LET h == htlcs[c][i]
            IN  h.addhtlc = "RECV" /\ h.delhtlc = "FULFILL" =>
                    outcome[h.tag] = "FULFILL"

\* Not so (README): ln.h says prev_idx is the slot of the previous channel.  A
\* received HTLC that was forwarded is failed only when its own copy has failed.
FailedAfterNext ==
    \A c \in Cnl, i \in Slot :
        LET h == htlcs[c][i]
        IN  h.addhtlc = "RECV" /\ h.delhtlc = "FAIL" /\ h.fin_delhtlc = "NONE"
              => outcome[h.tag] = "FAIL"
=============================================================================
