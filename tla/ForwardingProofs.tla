-------------------------- MODULE ForwardingProofs --------------------------
(***************************************************************************)
(* The safety of forwarding, for every value of the constants of module    *)
(* Forwarding: any channels and routes between them, any number of slots,  *)
(* of HTLCs and of lost connections.  An HTLC is offered only when the     *)
(* received one is committed (CommittedBeforeOffered), and a received one  *)
(* is claimed only when its copy was (ClaimedAfterNext).                   *)
(*                                                                         *)
(* The argument.  Nothing in the code ties a copy to its source but the    *)
(* pair prev_short_channel_id, prev_idx, and slots are used again.  While  *)
(* no connection is lost a payment is received in one slot, and a copy of  *)
(* it that is anywhere names that slot (Tags); a received HTLC whose copy  *)
(* is not started points at it (Waiting), which is why the idle procedure, *)
(* which starts copies only when all changes of its own channel are        *)
(* exchanged (Starting), starts the right one.  While no failure strayed   *)
(* the source of a copy whose end is open is itself open (Sources), there  *)
(* is one such copy (CopiedOnce), and the one end that is on its way back  *)
(* through the callbacks finds that source still there (Returning).  A     *)
(* failure that strayed breaks Sources: it ends, and then clears, the slot *)
(* of an HTLC whose copy is still open.                                    *)
(***************************************************************************)
EXTENDS Forwarding, WellFoundedInduction, TLAPS

----------------------------------------------------------------------------
(* The inductive invariant, as long as no connection is lost.              *)

\* A received HTLC.
Recv(h) == h.addhtlc = "RECV"

\* A copy of a received HTLC in the channel it is forwarded to.
Copy(h) == h.prev # NoCnl

\* The copy of what is in slot i of c.
CopyOf(h, c, i) == h.prev = c /\ h.prev_idx = i /\ h.tag = htlcs[c][i].tag

\* Which slots there are: received HTLCs, copies that wait or are offered, and
\* empty ones.
Shape(h) ==
    /\ h.tag # 0 => h.tag \in 1 .. MaxFwd /\ outcome[h.tag] # "NEW"
    /\ Recv(h) => h.tag # 0 /\ ~Copy(h)
    /\ Copy(h) => h.tag # 0 /\ (h.addhtlc = "OFFER" \/ ~h.done)
    /\ h.addhtlc = "OFFER" => Copy(h)
    /\ h.next # NoCnl => Recv(h) /\ h.fin_delhtlc = "NONE"

Shapes == \A c \in Cnl, i \in Slot : Shape(htlcs[c][i])

\* A payment is received once, and its copies know where.
Tags ==
    \A c, d \in Cnl, i, j \in Slot :
        Recv(htlcs[c][i]) /\ htlcs[d][j].tag = htlcs[c][i].tag =>
            /\ Recv(htlcs[d][j]) => c = d /\ i = j
            /\ Copy(htlcs[d][j]) => CopyOf(htlcs[d][j], c, i)

\* The idle procedure of c has not come to slot i.
Unstarted(c, i) == ~(pending[c].op = "start" /\ i < pending[c].idx)

\* The copy of a received HTLC waits where next_short_channel_id says.
WaitsFor(c, i) ==
    LET h == htlcs[c][i]
        w == htlcs[h.next][h.next_idx]
    IN  h.next # NoCnl /\ Unstarted(c, i) => CopyOf(w, c, i) /\ w.addhtlc = "NONE"

Waiting == \A c \in Cnl, i \in Slot : WaitsFor(c, i)

\* An HTLC that is being received has no copy yet.
Adds(c) ==
    LET h == htlcs[c][pending[c].idx]
    IN  /\ Recv(h) /\ h.next = NoCnl /\ h.delhtlc = "NONE" /\ h.fin_delhtlc = "NONE"
        /\ outcome[h.tag] = "OPEN"
        /\ pending[c].to \in Cnl
        /\ \A d \in Cnl, j \in Slot : Copy(htlcs[d][j]) => htlcs[d][j].tag # h.tag

Adding == \A c \in Cnl : pending[c].op \in {"preimage", "add"} => Adds(c)

\* HTLCs are started in a channel all whose changes are exchanged.
Starting ==
    \A c \in Cnl : pending[c].op = "start" =>
        /\ pending[c].idx \in ToStart(c)
        /\ \A i \in Enabled(c) : htlcs[c][i].done

\* An end is on its way from c to the previous channel.
Resolves(c) == pending[c].op \in {"fulfill", "fail"}

\* The source of an offered HTLC is exchanged, or something else is there.
OfferedFrom(h) ==
    h.addhtlc = "OFFER" /\ Source(h).tag = h.tag /\ Source(h).delhtlc = "NONE"
        => Recv(Source(h)) /\ Source(h).done

Offered == \A c \in Cnl, i \in Slot : OfferedFrom(htlcs[c][i])

Order ==
    /\ \A c \in Cnl : online[c]
    /\ Shapes /\ Tags /\ Waiting /\ Adding /\ Starting /\ Offered

----------------------------------------------------------------------------
(* And as long as no failure strayed.                                      *)

\* A received HTLC whose end is open, and a copy whose end is open.
Alive(h) == Recv(h) /\ h.delhtlc = "NONE" /\ h.fin_delhtlc = "NONE"
Live(h) == Copy(h) /\ h.delhtlc = "NONE"

\* The source of a copy whose end is open is open.
Sources ==
    \A c \in Cnl, i \in Slot :
        Live(htlcs[c][i]) => /\ Alive(Source(htlcs[c][i]))
                             /\ Source(htlcs[c][i]).tag = htlcs[c][i].tag

\* There is one such copy.
CopiedOnce ==
    \A c, d \in Cnl, i, j \in Slot :
        /\ Live(htlcs[c][i]) /\ Live(htlcs[d][j])
        /\ htlcs[c][i].tag = htlcs[d][j].tag
        => c = d /\ i = j

\* The end of a copy that is on its way back: the received HTLC is still there,
\* and nothing else is on its way to it.
Returns(c) ==
    LET h == htlcs[pending[c].to][pending[c].idx]
    IN  /\ pending[c].to \in Cnl
        /\ Alive(h)
        /\ pending[c].op = "fulfill" => outcome[h.tag] = "FULFILL"
        /\ outcome[h.tag] # "OPEN"
        /\ \A d \in Cnl, j \in Slot : Live(htlcs[d][j]) => htlcs[d][j].tag # h.tag
        /\ \A d \in Cnl : /\ Resolves(d)
                          /\ pending[d].to = pending[c].to
                          /\ pending[d].idx = pending[c].idx
                          => d = c

Returning == \A c \in Cnl : Resolves(c) => Returns(c)

\* ClaimedAfterNext, of the received HTLCs.
Claimed ==
    \A c \in Cnl, i \in Slot :
        Recv(htlcs[c][i]) /\ htlcs[c][i].delhtlc = "FULFILL" =>
            outcome[htlcs[c][i].tag] = "FULFILL"

Paired == Sources /\ CopiedOnce /\ Returning /\ Claimed

FwdInv ==
    /\ TypeOK
    /\ lost = 0 => Order
    /\ lost = 0 /\ ~strayed => Paired

----------------------------------------------------------------------------
(* Types.                                                                  *)

\* The first of a set of slots.
LEMMA FirstSlot ==
    ASSUME NEW S \in SUBSET Slot, S # {}
    PROVE  (CHOOSE i \in S : \A j \in S : i <= j) \in S
<1>1. Slot \subseteq Nat
  BY FwdAssumption DEF Slot
<1>2. PICK i \in S : \A j \in S : ~(<<j, i>> \in OpToRel(<, Nat))
  BY <1>1, NatLessThanWellFounded, WFMin
<1>3. ASSUME NEW j \in S PROVE i <= j
  <2>1. i \in Nat /\ j \in Nat
    BY <1>1
  <2>2. <<j, i>> \in OpToRel(<, Nat) <=> j < i
    BY <2>1 DEF OpToRel
  <2>3. ~(j < i)
    BY <2>2, <1>2, Zenon
  <2> QED BY <2>1, <2>3
<1> QED BY <1>3

\* A slot of a table that is written, and the slots that are not.
LEMMA SetSlot ==
    ASSUME NEW hs \in [Cnl -> [Slot -> HtlcType]], NEW c \in Cnl, NEW i \in Slot,
           NEW g \in HtlcType
    PROVE  LET n == [hs EXCEPT ![c][i] = g]
           IN  /\ n \in [Cnl -> [Slot -> HtlcType]]
               /\ n[c][i] = g
               /\ \A d \in Cnl, j \in Slot : d # c \/ j # i => n[d][j] = hs[d][j]
<1> DEFINE n == [hs EXCEPT ![c][i] = g]
           f == [hs[c] EXCEPT ![i] = g]
<1>1. n = [hs EXCEPT ![c] = f]
  OBVIOUS
<1>2. f \in [Slot -> HtlcType] /\ f[i] = g /\ \A j \in Slot : j # i => f[j] = hs[c][j]
  OBVIOUS
<1> HIDE DEF f, n
<1>3. /\ n \in [Cnl -> [Slot -> HtlcType]] /\ n[c] = f
      /\ \A d \in Cnl : d # c => n[d] = hs[d]
  BY <1>1, <1>2
<1> QED BY <1>2, <1>3 DEF n

\* g differs from h only in whether its change is exchanged and in its end.
Ended(h, g) ==
    /\ g \in HtlcType
    /\ g.tag = h.tag /\ g.addhtlc = h.addhtlc /\ g.fin_delhtlc = h.fin_delhtlc
    /\ g.prev = h.prev /\ g.prev_idx = h.prev_idx
    /\ g.next = h.next /\ g.next_idx = h.next_idx

\* clear_htlc_comrevflag ends an HTLC whose last change is exchanged.
LEMMA EndFacts ==
    ASSUME NEW h \in HtlcType, NEW del \in {"FULFILL", "FAIL"}
    PROVE  LET g == clear_htlc_comrevflag(h, del)
           IN  /\ Ended(h, g)
               /\ ~h.done => g = h
               /\ h.done => g.delhtlc = del /\ ~g.done
<1>1. CASE h.done
  <2> DEFINE g == [h EXCEPT !.delhtlc = del, !.done = FALSE]
  <2>1. Ended(h, g) /\ g.delhtlc = del /\ g.done = FALSE
    BY DEF Ended, HtlcType
  <2> QED BY <1>1, <2>1 DEF clear_htlc_comrevflag
<1>2. CASE ~h.done
  <2>1. Ended(h, h)
    BY DEF Ended
  <2> QED BY <1>2, <2>1 DEF clear_htlc_comrevflag
<1> QED BY <1>1, <1>2

\* ln_fail_htlc_set ends it in any case.
LEMMA FailFacts ==
    ASSUME NEW h \in HtlcType
    PROVE  LET g == ln_fail_htlc_set(h)
           IN  Ended(h, g) /\ g.delhtlc = "FAIL" /\ (g.done => h.done)
<1> DEFINE k == clear_htlc_comrevflag(h, "FAIL")
<1>1. Ended(h, k) /\ (k.done => h.done)
  BY EndFacts
<1> HIDE DEF k
<1>2. LET g == [k EXCEPT !.delhtlc = "FAIL"]
      IN  Ended(h, g) /\ g.delhtlc = "FAIL" /\ (g.done => h.done)
  BY <1>1 DEF Ended, HtlcType
<1> QED BY <1>2 DEF ln_fail_htlc_set, k

\* The change of an HTLC is exchanged.
LEMMA DoneFacts ==
    ASSUME NEW h \in HtlcType
    PROVE  LET g == [h EXCEPT !.done = TRUE]
           IN  Ended(h, g) /\ g.done = TRUE /\ g.delhtlc = h.delhtlc
BY DEF Ended, HtlcType

\* cb_fwd_addhtlc_start.
Begun(h, g) ==
    /\ g \in HtlcType
    /\ g.tag = h.tag /\ g.addhtlc = "OFFER" /\ g.fin_delhtlc = h.fin_delhtlc
    /\ g.delhtlc = h.delhtlc /\ g.done = h.done
    /\ g.prev = h.prev /\ g.prev_idx = h.prev_idx
    /\ g.next = h.next /\ g.next_idx = h.next_idx

\* Starting a copy changes nothing else of it.
LEMMA BegunFacts ==
    ASSUME NEW h \in HtlcType
    PROVE  Begun(h, [h EXCEPT !.addhtlc = "OFFER"])
BY DEF Begun, HtlcType

\* recv_idle_proc_final: a slot is cleared, a received HTLC that failed here is
\* ended, or next_short_channel_id is cleared.
Finished(h, g) ==
    \/ h.done /\ h.delhtlc # "NONE" /\ g = EmptyHtlc
    \/ /\ Added(h) /\ h.fin_delhtlc # "NONE" /\ Ended(h, g) /\ g.delhtlc # "FULFILL"
       /\ g = h \/ g.delhtlc # "NONE"
    \/ /\ ~(Added(h) /\ h.fin_delhtlc # "NONE")
       /\ g \in HtlcType
       /\ g.tag = h.tag /\ g.addhtlc = h.addhtlc /\ g.fin_delhtlc = h.fin_delhtlc
       /\ g.delhtlc = h.delhtlc /\ g.done = h.done
       /\ g.prev = h.prev /\ g.prev_idx = h.prev_idx
       /\ g.next = NoCnl

\* A cleared slot.
LEMMA EmptyFacts ==
    /\ EmptyHtlc \in HtlcType
    /\ EmptyHtlc.tag = 0 /\ EmptyHtlc.addhtlc = "NONE" /\ EmptyHtlc.delhtlc = "NONE"
    /\ EmptyHtlc.fin_delhtlc = "NONE" /\ EmptyHtlc.done = FALSE
    /\ EmptyHtlc.prev = NoCnl /\ EmptyHtlc.next = NoCnl
BY FwdAssumption DEF EmptyHtlc, HtlcType, Slot

\* The three things recv_idle_proc_final does to a slot.
LEMMA FinishedFacts ==
    ASSUME NEW h \in HtlcType
    PROVE  FinalHtlc(h) \in HtlcType /\ Finished(h, FinalHtlc(h))
<1>1. CASE h.done /\ h.delhtlc # "NONE"
  <2>1. FinalHtlc(h) = EmptyHtlc
    BY <1>1 DEF FinalHtlc, Added
  <2> QED BY <1>1, <2>1, EmptyFacts DEF Finished
<1>2. CASE ~(h.done /\ h.delhtlc # "NONE") /\ Added(h) /\ h.fin_delhtlc # "NONE"
  <2> DEFINE g == clear_htlc_comrevflag(h, h.fin_delhtlc)
  <2>1. h.fin_delhtlc = "FAIL"
    BY <1>2 DEF HtlcType
  <2>2. Ended(h, g) /\ (~h.done => g = h) /\ (h.done => g.delhtlc = "FAIL")
    BY <2>1, EndFacts
  <2>3. FinalHtlc(h) = g
    BY <1>2 DEF FinalHtlc
  <2> HIDE DEF g
  <2> QED BY <1>2, <2>2, <2>3 DEF Finished, Added, Ended
<1>3. CASE ~(h.done /\ h.delhtlc # "NONE") /\ ~(Added(h) /\ h.fin_delhtlc # "NONE")
  <2> DEFINE g == [h EXCEPT !.next = NoCnl]
  <2>1. FinalHtlc(h) = g
    BY <1>3 DEF FinalHtlc
  <2>2. /\ g \in HtlcType
        /\ g.tag = h.tag /\ g.addhtlc = h.addhtlc /\ g.fin_delhtlc = h.fin_delhtlc
        /\ g.delhtlc = h.delhtlc /\ g.done = h.done
        /\ g.prev = h.prev /\ g.prev_idx = h.prev_idx
        /\ g.next = NoCnl
    BY DEF HtlcType
  <2> HIDE DEF g
  <2> QED BY <1>3, <2>1, <2>2 DEF Finished
<1> QED BY <1>1, <1>2, <1>3

\* cbsub_add_htlc_forward: the HTLC is refused.
LEMMA RefusedFacts ==
    ASSUME NEW h \in HtlcType
    PROVE  LET g == [h EXCEPT !.fin_delhtlc = "FAIL"]
           IN  /\ g \in HtlcType /\ g.tag = h.tag /\ g.addhtlc = h.addhtlc
               /\ g.delhtlc = h.delhtlc /\ g.done = h.done
               /\ g.prev = h.prev /\ g.prev_idx = h.prev_idx
               /\ g.next = h.next /\ g.next_idx = h.next_idx
BY DEF HtlcType

----------------------------------------------------------------------------
(* A slot is exchanged, or its end comes.                                  *)

\* The thread of one channel moves on.
LEMMA SetPending ==
    ASSUME TypeOK, NEW c \in Cnl, NEW P \in PendingType,
           pending' = [pending EXCEPT ![c] = P]
    PROVE  /\ pending' \in [Cnl -> PendingType] /\ pending'[c] = P
           /\ \A d \in Cnl : d # c => pending'[d] = pending[d]
BY DEF TypeOK

\* Slot i of d, which is not locked, becomes g.  Only ends of copies are begun
\* or done with.
EndAt(d, i, g) ==
    LET h == htlcs[d][i]
    IN  /\ Ended(h, g)
        /\ g.delhtlc = "NONE" => h.delhtlc = "NONE" /\ (h.done => g.done)
        /\ h.addhtlc = "NONE" => (g.done => h.done)
        /\ Unlocked(d)
        /\ htlcs'[d][i] = g
        /\ \A e \in Cnl, j \in Slot : e # d \/ j # i => htlcs'[e][j] = htlcs[e][j]
        /\ \A e \in Cnl :
              pending'[e] = pending[e] \/ (pending[e].op \notin {"preimage", "add", "start"}
                                           /\ pending'[e].op \notin {"preimage", "add", "start"})
        /\ \A t \in 1 .. MaxFwd :
              outcome'[t] = outcome[t] \/ (Copy(h) /\ t = h.tag /\ outcome'[t] # "NEW")

\* The order survives a slot that is exchanged, or whose end begins or is done with.
LEMMA EndOrder ==
    ASSUME TypeOK, Order, NEW d \in Cnl, NEW i \in Slot, NEW g, EndAt(d, i, g),
           \A e \in Cnl : online'[e]
    PROVE  Order'
<1> DEFINE h == htlcs[d][i]
<1>1. ASSUME NEW e \in Cnl, NEW j \in Slot
      PROVE  /\ Ended(htlcs[e][j], htlcs'[e][j])
             /\ htlcs'[e][j].delhtlc = "NONE" =>
                    htlcs[e][j].delhtlc = "NONE" /\ (htlcs[e][j].done => htlcs'[e][j].done)
             /\ htlcs[e][j].addhtlc = "NONE" => (htlcs'[e][j].done => htlcs[e][j].done)
             /\ pending[e].op # "idle" => htlcs'[e][j] = htlcs[e][j]
  <2>1. htlcs[e][j] \in HtlcType
    BY DEF TypeOK
  <2>2. CASE e = d /\ j = i
    BY <2>2 DEF EndAt, Unlocked
  <2>3. CASE e # d \/ j # i
    <3>1. htlcs'[e][j] = htlcs[e][j]
      BY <2>3 DEF EndAt
    <3> QED BY <3>1, <2>1 DEF Ended
  <2> QED BY <2>2, <2>3
<1>2. ASSUME NEW e \in Cnl, NEW j \in Slot
      PROVE  /\ htlcs'[e][j].tag = htlcs[e][j].tag
             /\ htlcs'[e][j].addhtlc = htlcs[e][j].addhtlc
             /\ htlcs'[e][j].fin_delhtlc = htlcs[e][j].fin_delhtlc
             /\ htlcs'[e][j].prev = htlcs[e][j].prev
             /\ htlcs'[e][j].prev_idx = htlcs[e][j].prev_idx
             /\ htlcs'[e][j].next = htlcs[e][j].next
             /\ htlcs'[e][j].next_idx = htlcs[e][j].next_idx
  BY <1>1 DEF Ended
<1>3. ASSUME NEW e \in Cnl, NEW j \in Slot
      PROVE  /\ htlcs[e][j].prev \in Cnl \cup {NoCnl} /\ htlcs[e][j].prev_idx \in Slot
             /\ htlcs[e][j].next \in Cnl \cup {NoCnl} /\ htlcs[e][j].next_idx \in Slot
             /\ htlcs[e][j].addhtlc \in {"NONE", "OFFER", "RECV"}
             /\ pending[e].idx \in Slot
  BY DEF TypeOK, HtlcType, PendingType
<1>4. \A e \in Cnl :
          pending'[e] = pending[e] \/ (pending[e].op \notin {"preimage", "add", "start"}
                                       /\ pending'[e].op \notin {"preimage", "add", "start"})
  BY DEF EndAt
<1>5. \A t \in 1 .. MaxFwd :
          outcome'[t] = outcome[t] \/ (Copy(h) /\ t = h.tag /\ outcome'[t] # "NEW")
  BY DEF EndAt
<1> HIDE DEF h
<1>6. Shapes'
  <2> SUFFICES ASSUME NEW e \in Cnl, NEW j \in Slot PROVE Shape(htlcs[e][j])'
    BY DEF Shapes
  <2>1. Shape(htlcs[e][j])
    BY DEF Order, Shapes
  <2> QED BY <2>1, <1>1, <1>2, <1>3, <1>5 DEF Shape, Recv, Copy
<1>7. Tags'
  BY <1>2 DEF Order, Tags, Recv, Copy, CopyOf
<1>8. Waiting'
  <2> SUFFICES ASSUME NEW e \in Cnl, NEW j \in Slot PROVE WaitsFor(e, j)'
    BY DEF Waiting
  <2>1. WaitsFor(e, j) /\ (Unstarted(e, j)' => Unstarted(e, j))
    BY <1>4 DEF Order, Waiting, Unstarted
  <2>2. CASE htlcs[e][j].next = NoCnl
    BY <2>2, <1>2 DEF WaitsFor
  <2>3. CASE htlcs[e][j].next # NoCnl
    <3> DEFINE d1 == htlcs[e][j].next
               j1 == htlcs[e][j].next_idx
    <3>1. d1 \in Cnl /\ j1 \in Slot
      BY <2>3, <1>3
    <3>2. htlcs'[e][j].next = d1 /\ htlcs'[e][j].next_idx = j1
      BY <1>2
    <3>3. Unstarted(e, j) => /\ CopyOf(htlcs[d1][j1], e, j)
                             /\ htlcs[d1][j1].addhtlc = "NONE"
      BY <2>1, <2>3 DEF WaitsFor
    <3> HIDE DEF d1, j1
    <3> QED BY <2>1, <3>1, <3>2, <3>3, <1>2 DEF WaitsFor, CopyOf
  <2> QED BY <2>2, <2>3
<1>9. Adding'
  <2> SUFFICES ASSUME NEW e \in Cnl, pending'[e].op \in {"preimage", "add"} PROVE Adds(e)'
    BY DEF Adding
  <2>1. pending'[e] = pending[e] /\ pending[e].op \in {"preimage", "add"} /\ Adds(e)
    BY <1>4 DEF Order, Adding
  <2> DEFINE k == htlcs[e][pending[e].idx]
  <2>2. htlcs'[e][pending'[e].idx] = k
    BY <2>1, <1>1, <1>3
  <2>3. Copy(h) => h.tag # k.tag
    BY <2>1 DEF Adds, h
  <2>4. k.tag \in 1 .. MaxFwd
    BY <2>1, <1>3 DEF Order, Shapes, Shape, Adds
  <2>5. outcome'[k.tag] = outcome[k.tag]
    BY <2>3, <2>4, <1>5
  <2>6. \A x \in Cnl, j \in Slot : Copy(htlcs'[x][j]) => htlcs'[x][j].tag # k.tag
    BY <2>1, <1>2 DEF Adds, Copy
  <2> HIDE DEF k
  <2> QED BY <2>1, <2>2, <2>5, <2>6 DEF Adds, Recv, k
<1>10. Starting'
  <2> SUFFICES ASSUME NEW e \in Cnl, pending'[e].op = "start"
               PROVE  /\ pending'[e].idx \in ToStart(e)'
                      /\ \A j \in Enabled(e)' : htlcs'[e][j].done
    BY DEF Starting
  <2>1. pending'[e] = pending[e] /\ pending[e].op = "start"
    BY <1>4
  <2>2. \A j \in Slot : htlcs'[e][j] = htlcs[e][j]
    BY <2>1, <1>1
  <2> QED BY <2>1, <2>2 DEF Order, Starting, ToStart, Enabled
<1>11. Offered'
  <2> SUFFICES ASSUME NEW e \in Cnl, NEW j \in Slot PROVE OfferedFrom(htlcs[e][j])'
    BY DEF Offered
  <2>1. CASE htlcs[e][j].addhtlc # "OFFER"
    BY <2>1, <1>2 DEF OfferedFrom
  <2>2. CASE htlcs[e][j].addhtlc = "OFFER"
    <3> DEFINE x == htlcs[e][j]
    <3>1. x.prev \in Cnl /\ x.prev_idx \in Slot
      BY <2>2, <1>3 DEF Order, Shapes, Shape, Copy
    <3>2. OfferedFrom(x)
      BY DEF Order, Offered
    <3> HIDE DEF x
    <3>3. Source(htlcs[e][j])' = htlcs'[x.prev][x.prev_idx] /\ Source(x) = htlcs[x.prev][x.prev_idx]
      BY <1>2 DEF Source, x
    <3> QED BY <3>1, <3>2, <3>3, <1>1, <1>2 DEF OfferedFrom, Recv, x
  <2> QED BY <2>1, <2>2
<1> QED BY <1>6, <1>7, <1>8, <1>9, <1>10, <1>11 DEF Order

\* What EndAt leaves of every slot.
LEMMA EndView ==
    ASSUME TypeOK, NEW d \in Cnl, NEW i \in Slot, NEW g, EndAt(d, i, g),
           NEW e \in Cnl, NEW j \in Slot
    PROVE  /\ htlcs'[e][j].tag = htlcs[e][j].tag
           /\ Recv(htlcs'[e][j]) <=> Recv(htlcs[e][j])
           /\ htlcs'[e][j].fin_delhtlc = htlcs[e][j].fin_delhtlc
           /\ htlcs'[e][j].prev = htlcs[e][j].prev
           /\ htlcs'[e][j].prev_idx = htlcs[e][j].prev_idx
           /\ Copy(htlcs'[e][j]) <=> Copy(htlcs[e][j])
           /\ htlcs'[e][j].delhtlc = IF e = d /\ j = i THEN g.delhtlc
                                     ELSE htlcs[e][j].delhtlc
           /\ Live(htlcs'[e][j]) => Live(htlcs[e][j])
           /\ Copy(htlcs[e][j]) => htlcs[e][j].prev \in Cnl /\ htlcs[e][j].prev_idx \in Slot
<1>1. CASE e = d /\ j = i
  BY <1>1 DEF EndAt, Ended, Recv, Copy, Live, TypeOK, HtlcType
<1>2. CASE e # d \/ j # i
  <2>1. htlcs'[e][j] = htlcs[e][j]
    BY <1>2 DEF EndAt
  <2> QED BY <2>1, <1>2 DEF Recv, Copy, Live, TypeOK, HtlcType
<1> QED BY <1>1, <1>2

\* A received HTLC whose end is open stays so, if it is not the slot that changes.
LEMMA EndAlive ==
    ASSUME TypeOK, NEW d \in Cnl, NEW i \in Slot, NEW g, EndAt(d, i, g),
           NEW e \in Cnl, NEW j \in Slot, Alive(htlcs[e][j]),
           g.delhtlc = htlcs[d][i].delhtlc \/ e # d \/ j # i
    PROVE  Alive(htlcs'[e][j]) /\ htlcs'[e][j].tag = htlcs[e][j].tag
<1>1. htlcs'[e][j].delhtlc = htlcs[e][j].delhtlc
  BY EndView
<1> QED BY <1>1, EndView DEF Alive

\* The end of slot i is begun only for a received HTLC without a live copy, or
\* for a copy: the other copies and their sources stay.
LEMMA EndSources ==
    ASSUME TypeOK, Sources, CopiedOnce, NEW d \in Cnl, NEW i \in Slot, NEW g,
           EndAt(d, i, g),
           \/ g.delhtlc = htlcs[d][i].delhtlc
           \/ Copy(htlcs[d][i]) /\ ~Recv(htlcs[d][i])
           \/ \A e \in Cnl, j \in Slot :
                Live(htlcs[e][j]) => htlcs[e][j].tag # htlcs[d][i].tag
    PROVE  Sources' /\ CopiedOnce'
<1>1. Sources'
  <2> SUFFICES ASSUME NEW e \in Cnl, NEW j \in Slot, Live(htlcs'[e][j])
               PROVE  /\ Alive(Source(htlcs[e][j]))'
                      /\ Source(htlcs[e][j])'.tag = htlcs'[e][j].tag
    BY DEF Sources
  <2> DEFINE q == htlcs[e][j].prev
             k == htlcs[e][j].prev_idx
  <2>1. /\ Live(htlcs[e][j]) /\ q \in Cnl /\ k \in Slot
        /\ htlcs'[e][j].prev = q /\ htlcs'[e][j].prev_idx = k
        /\ htlcs'[e][j].tag = htlcs[e][j].tag
    BY EndView DEF Live
  <2>2. Alive(htlcs[q][k]) /\ htlcs[q][k].tag = htlcs[e][j].tag
    BY <2>1 DEF Sources, Source
  <2> HIDE DEF q, k
  <2>3. htlcs'[q][k].delhtlc = "NONE"
    <3>1. CASE q = d /\ k = i
      BY <3>1, <2>1, <2>2, EndView DEF Alive
    <3>2. CASE q # d \/ k # i
      BY <3>2, <2>1, <2>2, EndView DEF Alive
    <3> QED BY <3>1, <3>2
  <2>4. Alive(htlcs'[q][k]) /\ htlcs'[q][k].tag = htlcs[q][k].tag
    BY <2>1, <2>2, <2>3, EndView DEF Alive
  <2> QED BY <2>1, <2>2, <2>4 DEF Source, Alive, Recv
<1>2. CopiedOnce'
  <2> SUFFICES ASSUME NEW e \in Cnl, NEW f \in Cnl, NEW j \in Slot, NEW k \in Slot,
                      Live(htlcs'[e][j]), Live(htlcs'[f][k]),
                      htlcs'[e][j].tag = htlcs'[f][k].tag
               PROVE  e = f /\ j = k
    BY DEF CopiedOnce, Live, Copy
  <2>1. /\ Live(htlcs[e][j]) /\ Live(htlcs[f][k])
        /\ htlcs[e][j].tag = htlcs[f][k].tag
    BY EndView
  <2> QED BY <2>1 DEF CopiedOnce
<1> QED BY <1>1, <1>2

\* Nothing happens to an end that is on its way back.
LEMMA ReturnsKept ==
    ASSUME NEW e \in Cnl, NEW d \in Cnl, NEW i \in Slot, Returns(e),
           d = pending[e].to, i = pending[e].idx, pending'[e] = pending[e],
           Alive(htlcs'[d][i]), htlcs'[d][i].tag = htlcs[d][i].tag,
           outcome'[htlcs[d][i].tag] = outcome[htlcs[d][i].tag],
           \A f \in Cnl, j \in Slot :
                Live(htlcs'[f][j]) => htlcs'[f][j].tag # htlcs[d][i].tag,
           \A f \in Cnl : f # e =>
                \/ pending'[f] = pending[f]
                \/ pending'[f].op \notin {"fulfill", "fail"}
                \/ pending'[f].to # d \/ pending'[f].idx # i
    PROVE  Returns(e)'
<1>1. \A f \in Cnl : /\ pending'[f].op \in {"fulfill", "fail"}
                     /\ pending'[f].to = d /\ pending'[f].idx = i
                     => f = e
  BY DEF Returns, Resolves
<1>2. /\ htlcs'[pending'[e].to][pending'[e].idx] = htlcs'[d][i]
      /\ pending'[e].to = d /\ pending'[e].idx = i /\ pending'[e].op = pending[e].op
  OBVIOUS
<1>3. /\ pending[e].op = "fulfill" => outcome'[htlcs'[d][i].tag] = "FULFILL"
      /\ outcome'[htlcs'[d][i].tag] # "OPEN"
  BY DEF Returns
<1>4. \A f \in Cnl, j \in Slot :
          (Live(htlcs[f][j]))' => htlcs'[f][j].tag # htlcs'[d][i].tag
  BY DEF Live, Copy
<1>5. Alive(htlcs[pending[e].to][pending[e].idx])'
  BY <1>2 DEF Alive, Recv
<1>6. \A f \in Cnl : /\ Resolves(f)'
                     /\ pending'[f].to = pending'[e].to /\ pending'[f].idx = pending'[e].idx
                     => f = e
  BY <1>1, <1>2 DEF Resolves
<1>7. /\ pending'[e].to \in Cnl
      /\ pending'[e].op = "fulfill" =>
            outcome'[htlcs'[pending'[e].to][pending'[e].idx].tag] = "FULFILL"
      /\ outcome'[htlcs'[pending'[e].to][pending'[e].idx].tag] # "OPEN"
      /\ \A f \in Cnl, j \in Slot :
            (Live(htlcs[f][j]))' => htlcs'[f][j].tag # htlcs'[pending'[e].to][pending'[e].idx].tag
  BY <1>2, <1>3, <1>4
<1> QED BY <1>5, <1>6, <1>7 DEF Returns

\* The change of a slot is exchanged.
LEMMA ExchangeStep ==
    ASSUME TypeOK, NEW c \in Cnl, NEW i \in Slot, Exchange(c, i)
    PROVE  /\ TypeOK' /\ lost' = lost /\ strayed' = strayed
           /\ Order => Order'
           /\ Order /\ Paired => Paired'
<1> DEFINE h == htlcs[c][i]
           g == [h EXCEPT !.done = TRUE]
<1>1. h \in HtlcType /\ htlcs \in [Cnl -> [Slot -> HtlcType]] /\ saved \in [Cnl -> [Slot -> HtlcType]]
  BY DEF TypeOK
<1>2. Ended(h, g) /\ g.done = TRUE /\ g.delhtlc = h.delhtlc
  BY <1>1, DoneFacts
<1>3. /\ Unlocked(c) /\ h.addhtlc # "NONE" /\ htlcs' = [htlcs EXCEPT ![c][i] = g]
      /\ saved' = [saved EXCEPT ![c] = htlcs'[c]]
      /\ UNCHANGED <<online, pending, preimage, outcome, strayed, lost>>
  BY DEF Exchange
<1> HIDE DEF g
<1>4. /\ htlcs' \in [Cnl -> [Slot -> HtlcType]] /\ htlcs'[c][i] = g
      /\ \A e \in Cnl, j \in Slot : e # c \/ j # i => htlcs'[e][j] = htlcs[e][j]
  BY <1>1, <1>2, <1>3, SetSlot DEF Ended
<1>5. TypeOK'
  BY <1>1, <1>3, <1>4 DEF TypeOK
<1>6. EndAt(c, i, g)
  BY <1>1, <1>2, <1>3, <1>4 DEF EndAt, HtlcType
<1>7. ASSUME Order PROVE Order'
  BY <1>3, <1>6, <1>7, EndOrder DEF Order
<1>8. ASSUME Order, Paired PROVE Paired'
  <2>1. Sources' /\ CopiedOnce'
    BY <1>2, <1>6, <1>8, EndSources DEF Paired
  <2>2. Returning'
    <3> SUFFICES ASSUME NEW e \in Cnl, Resolves(e) PROVE Returns(e)'
      BY <1>3 DEF Returning, Resolves
    <3>1. Returns(e) /\ pending[e].to \in Cnl /\ pending[e].idx \in Slot
      BY <1>8 DEF Paired, Returning, Returns, TypeOK, PendingType
    <3> DEFINE x == htlcs[pending[e].to][pending[e].idx]
               y == htlcs'[pending[e].to][pending[e].idx]
    <3>2. y.tag = x.tag /\ Alive(y)
      <4>1. Alive(x)
        BY <3>1 DEF Returns
      <4> QED BY <4>1, <3>1, <1>2, <1>6, EndAlive
    <3>3. \A f \in Cnl, j \in Slot : Live(htlcs'[f][j]) => htlcs'[f][j].tag # x.tag
      BY <3>1, <1>6, EndView DEF Returns
    <3> QED BY <3>1, <3>2, <3>3, <1>3, ReturnsKept
  <2>3. Claimed'
    <3> SUFFICES ASSUME NEW e \in Cnl, NEW j \in Slot, Recv(htlcs'[e][j]),
                        htlcs'[e][j].delhtlc = "FULFILL"
                 PROVE  outcome'[htlcs'[e][j].tag] = "FULFILL"
      BY DEF Claimed, Recv
    <3>1. /\ Recv(htlcs[e][j]) /\ htlcs[e][j].delhtlc = "FULFILL"
          /\ htlcs'[e][j].tag = htlcs[e][j].tag
      BY <1>2, <1>6, EndView
    <3> QED BY <3>1, <1>3, <1>8 DEF Paired, Claimed
  <2> QED BY <2>1, <2>2, <2>3 DEF Paired
<1> QED BY <1>3, <1>5, <1>7, <1>8

\* The end of an offered HTLC comes in (recv_update_fulfill_htlc,
\* recv_update_fail_htlc), to be taken to slot idx of the previous channel.
LEMMA ResolveStep ==
    ASSUME TypeOK, NEW c \in Cnl, NEW i \in Slot, NEW idx \in Slot,
           NEW del \in {"FULFILL", "FAIL"}, NEW op \in {"fulfill", "fail"},
           Resolve(c, i, del, op, idx), strayed' \in BOOLEAN
    PROVE  /\ TypeOK' /\ lost' = lost
           /\ Order => Order'
           /\ Order /\ Paired /\ idx = htlcs[c][i].prev_idx /\ (op = "fulfill" => del = "FULFILL")
                => Paired'
<1> DEFINE h == htlcs[c][i]
           g == clear_htlc_comrevflag(h, del)
           P == [Free EXCEPT !.op = op, !.to = h.prev, !.idx = idx]
<1>1. /\ h \in HtlcType /\ htlcs \in [Cnl -> [Slot -> HtlcType]]
      /\ outcome \in [1 .. MaxFwd -> {"NEW", "OPEN", "FULFILL", "FAIL"}]
      /\ pending \in [Cnl -> PendingType]
  BY DEF TypeOK
<1>2. /\ Unlocked(c) /\ h.addhtlc = "OFFER" /\ h.done /\ h.delhtlc = "NONE"
      /\ h.tag # 0 => outcome[h.tag] \in {"OPEN", del}
      /\ htlcs' = [htlcs EXCEPT ![c][i] = g]
      /\ outcome' = IF h.tag = 0 THEN outcome ELSE [outcome EXCEPT ![h.tag] = del]
      /\ pending' = IF Transferable(h.prev) THEN [pending EXCEPT ![c] = P] ELSE pending
      /\ UNCHANGED <<saved, online, preimage, lost>>
  BY DEF Resolve, Resolvable, Set
<1>3. Ended(h, g) /\ g.delhtlc = del /\ ~g.done
  BY <1>1, <1>2, EndFacts
<1> HIDE DEF g
<1>4. /\ htlcs' \in [Cnl -> [Slot -> HtlcType]] /\ htlcs'[c][i] = g
      /\ \A e \in Cnl, j \in Slot : e # c \/ j # i => htlcs'[e][j] = htlcs[e][j]
  BY <1>1, <1>2, <1>3, SetSlot DEF Ended
<1>5. /\ P.op = op /\ P.to = h.prev /\ P.idx = idx
      /\ Transferable(h.prev) => P \in PendingType
  BY DEF Transferable, PendingType, Free
<1> HIDE DEF P
<1>6. pending' \in [Cnl -> PendingType]
  BY <1>1, <1>2, <1>5
<1>7. outcome' \in [1 .. MaxFwd -> {"NEW", "OPEN", "FULFILL", "FAIL"}]
  BY <1>1, <1>2
<1>8. TypeOK'
  BY <1>2, <1>4, <1>6, <1>7 DEF TypeOK
<1>9. ASSUME Order
      PROVE  /\ Copy(h) /\ ~Recv(h) /\ h.tag \in 1 .. MaxFwd /\ h.tag # 0
             /\ h.prev \in Cnl /\ h.prev_idx \in Slot
             /\ EndAt(c, i, g)
             /\ pending'[c] = P /\ \A e \in Cnl : e # c => pending'[e] = pending[e]
             /\ outcome'[h.tag] = del
             /\ \A t \in 1 .. MaxFwd : t # h.tag => outcome'[t] = outcome[t]
  <2>1. Copy(h) /\ ~Recv(h) /\ h.tag \in 1 .. MaxFwd /\ h.tag # 0
    BY <1>2, <1>9 DEF Order, Shapes, Shape, Recv
  <2>2. h.prev \in Cnl /\ h.prev_idx \in Slot
    BY <1>1, <2>1 DEF Copy, HtlcType
  <2>3. Transferable(h.prev)
    BY <2>2, <1>9 DEF Order, Transferable
  <2>4. pending'[c] = P /\ \A e \in Cnl : e # c => pending'[e] = pending[e]
    BY <1>1, <1>2, <2>3
  <2>5. /\ outcome'[h.tag] = del
        /\ \A t \in 1 .. MaxFwd : t # h.tag => outcome'[t] = outcome[t]
    BY <1>1, <1>2, <2>1
  <2>6. \A e \in Cnl :
          pending'[e] = pending[e] \/ (pending[e].op \notin {"preimage", "add", "start"}
                                       /\ pending'[e].op \notin {"preimage", "add", "start"})
    BY <1>2, <1>5, <2>4 DEF Unlocked
  <2>7. EndAt(c, i, g)
    BY <1>2, <1>3, <1>4, <2>1, <2>5, <2>6 DEF EndAt
  <2> QED BY <2>1, <2>2, <2>4, <2>5, <2>7
<1>10. ASSUME Order PROVE Order'
  BY <1>2, <1>9, <1>10, EndOrder DEF Order
<1>11. ASSUME Order, Paired, idx = h.prev_idx, op = "fulfill" => del = "FULFILL"
       PROVE  Paired'
  <2> DEFINE q == h.prev
  <2>1. /\ Copy(h) /\ ~Recv(h) /\ h.tag \in 1 .. MaxFwd /\ q \in Cnl
        /\ EndAt(c, i, g) /\ Live(h)
        /\ pending'[c].op = op /\ pending'[c].to = q /\ pending'[c].idx = idx
        /\ \A e \in Cnl : e # c => pending'[e] = pending[e]
        /\ outcome'[h.tag] = del /\ \A t \in 1 .. MaxFwd : t # h.tag => outcome'[t] = outcome[t]
    BY <1>2, <1>5, <1>9, <1>11 DEF Live
  <2>2. Alive(htlcs[q][idx]) /\ htlcs[q][idx].tag = h.tag
    BY <2>1, <1>11 DEF Paired, Sources, Source
  <2>3. Sources' /\ CopiedOnce'
    BY <2>1, <1>11, EndSources DEF Paired
  <2>4. \A e \in Cnl, j \in Slot : Alive(htlcs[e][j]) =>
            Alive(htlcs'[e][j]) /\ htlcs'[e][j].tag = htlcs[e][j].tag
    BY <2>1, EndAlive DEF Alive
  <2>5. \A e \in Cnl, j \in Slot : Live(htlcs'[e][j]) =>
            Live(htlcs[e][j]) /\ htlcs'[e][j].tag = htlcs[e][j].tag /\ (e # c \/ j # i)
    <3>1. ~Live(htlcs'[c][i])
      BY <1>3, <1>4 DEF Live
    <3> QED BY <3>1, <2>1, EndView
  <2>6. ASSUME NEW e \in Cnl, Resolves(e)
        PROVE  /\ Returns(e) /\ e # c /\ pending[e].to \in Cnl /\ pending[e].idx \in Slot
               /\ htlcs[pending[e].to][pending[e].idx].tag \in 1 .. MaxFwd
               /\ htlcs[pending[e].to][pending[e].idx].tag # h.tag
               /\ pending[e].to # q \/ pending[e].idx # idx
    <3>1. Returns(e) /\ e # c /\ pending[e].to \in Cnl /\ pending[e].idx \in Slot
      BY <2>6, <1>1, <1>2, <1>11 DEF Paired, Returning, Returns, Unlocked, Resolves, PendingType
    <3>2. htlcs[pending[e].to][pending[e].idx].tag # h.tag
      BY <3>1, <2>1 DEF Returns
    <3>3. htlcs[pending[e].to][pending[e].idx].tag \in 1 .. MaxFwd
      BY <3>1, <1>11 DEF Order, Shapes, Shape, Returns, Alive
    <3> QED BY <3>1, <3>2, <3>3, <2>2
  <2>7. Returning'
    <3> SUFFICES ASSUME NEW e \in Cnl, Resolves(e)' PROVE Returns(e)'
      BY DEF Returning
    <3>1. CASE e = c
      <4>1. pending'[e].to = q /\ pending'[e].idx = idx /\ pending'[e].op = op
        BY <3>1, <2>1
      <4>2. Alive(htlcs'[q][idx]) /\ htlcs'[q][idx].tag = h.tag
        BY <2>1, <2>2, <2>4
      <4>3. \A f \in Cnl, j \in Slot : Live(htlcs'[f][j]) => htlcs'[f][j].tag # h.tag
        BY <2>1, <2>5, <1>11 DEF Paired, CopiedOnce
      <4>4. \A f \in Cnl : /\ pending'[f].op \in {"fulfill", "fail"}
                           /\ pending'[f].to = q /\ pending'[f].idx = idx
                           => f = c
        BY <2>1, <2>6 DEF Resolves
      <4>5. /\ op = "fulfill" => outcome'[h.tag] = "FULFILL"
            /\ outcome'[h.tag] # "OPEN"
        BY <2>1, <1>11
      <4>6. Alive(htlcs[pending[e].to][pending[e].idx])'
        BY <4>1, <4>2 DEF Alive, Recv
      <4>7. \A f \in Cnl, j \in Slot : (Live(htlcs[f][j]))' => htlcs'[f][j].tag # h.tag
        BY <4>3 DEF Live, Copy
      <4>8. \A f \in Cnl : /\ Resolves(f)'
                           /\ pending'[f].to = q /\ pending'[f].idx = idx
                           => f = e
        BY <4>4, <3>1 DEF Resolves
      <4> HIDE DEF q
      <4> QED BY <2>1, <4>1, <4>2, <4>5, <4>6, <4>7, <4>8 DEF Returns
    <3>2. CASE e # c
      <4>1. pending'[e] = pending[e] /\ Resolves(e)
        BY <3>2, <2>1 DEF Resolves
      <4> DEFINE x == pending[e].to
                 y == pending[e].idx
      <4>2. /\ Returns(e) /\ x \in Cnl /\ y \in Slot
            /\ htlcs[x][y].tag \in 1 .. MaxFwd
            /\ htlcs[x][y].tag # h.tag
            /\ x # q \/ y # idx
        BY <4>1, <2>6
      <4>3. Alive(htlcs'[x][y]) /\ htlcs'[x][y].tag = htlcs[x][y].tag
        BY <4>2, <2>4 DEF Returns
      <4>4. outcome'[htlcs[x][y].tag] = outcome[htlcs[x][y].tag]
        BY <4>2, <2>1
      <4>5. \A f \in Cnl, j \in Slot :
                Live(htlcs'[f][j]) => htlcs'[f][j].tag # htlcs[x][y].tag
        BY <4>2, <2>5 DEF Returns
      <4>6. \A f \in Cnl : f # e =>
                \/ pending'[f] = pending[f]
                \/ pending'[f].op \notin {"fulfill", "fail"}
                \/ pending'[f].to # x \/ pending'[f].idx # y
        BY <4>2, <2>1
      <4>7. x = pending[e].to /\ y = pending[e].idx
        OBVIOUS
      <4> HIDE DEF x, y
      <4> QED BY <4>1, <4>2, <4>3, <4>4, <4>5, <4>6, <4>7, ReturnsKept
    <3> QED BY <3>1, <3>2
  <2>8. Claimed'
    <3> SUFFICES ASSUME NEW e \in Cnl, NEW j \in Slot, Recv(htlcs'[e][j]),
                        htlcs'[e][j].delhtlc = "FULFILL"
                 PROVE  outcome'[htlcs'[e][j].tag] = "FULFILL"
      BY DEF Claimed, Recv
    <3>1. e # c \/ j # i
      BY <2>1, EndView
    <3>2. htlcs'[e][j] = htlcs[e][j]
      BY <3>1, <1>4
    <3>3. outcome[htlcs[e][j].tag] = "FULFILL" /\ htlcs[e][j].tag \in 1 .. MaxFwd
      BY <3>2, <1>11 DEF Paired, Claimed, Order, Shapes, Shape
    <3>4. CASE htlcs[e][j].tag = h.tag
      BY <3>2, <3>3, <3>4, <2>1, <1>2, <1>9, <1>11
    <3> QED BY <3>2, <3>3, <3>4, <2>1
  <2> QED BY <2>3, <2>7, <2>8 DEF Paired
<1> QED BY <1>2, <1>8, <1>10, <1>11

\* A step that leaves the slots alone and neither receives nor starts.
LEMMA QuietOrder ==
    ASSUME TypeOK, Order, htlcs' = htlcs, outcome' = outcome, online' = online,
           \A e \in Cnl :
              pending'[e] = pending[e] \/ (pending[e].op \notin {"preimage", "add", "start"}
                                           /\ pending'[e].op \notin {"preimage", "add", "start"})
    PROVE  Order'
<1>1. Shapes' /\ Tags' /\ Offered'
  BY DEF Order, Shapes, Shape, Tags, Offered, OfferedFrom, Source, Recv, Copy, CopyOf
<1>2. Waiting'
  BY DEF Order, Waiting, WaitsFor, Unstarted, CopyOf
<1>3. Adding'
  <2> SUFFICES ASSUME NEW e \in Cnl, pending'[e].op \in {"preimage", "add"} PROVE Adds(e)'
    BY DEF Adding
  <2>1. pending'[e] = pending[e] /\ Adds(e)
    BY DEF Order, Adding
  <2> QED BY <2>1 DEF Adds, Recv, Copy
<1>4. Starting'
  BY DEF Order, Starting, ToStart, Enabled
<1> QED BY <1>1, <1>2, <1>3, <1>4 DEF Order

\* cbsub_fulfill_backwind and cbsub_fail_backwind: slot i of the previous channel
\* becomes g.
BackAt(c, d, i, g) ==
    /\ pending[c].op \in {"fulfill", "fail"} /\ d = pending[c].to /\ i = pending[c].idx
    /\ Transferable(d) =>
          /\ Unlocked(d) /\ htlcs' = [htlcs EXCEPT ![d][i] = g]
          /\ Ended(htlcs[d][i], g)
          /\ g.delhtlc = "NONE" => htlcs[d][i].delhtlc = "NONE" /\ g.done = htlcs[d][i].done
          /\ g.done => htlcs[d][i].done
          /\ g.delhtlc = "FULFILL" =>
                pending[c].op = "fulfill" \/ htlcs[d][i].delhtlc = "FULFILL"
    /\ ~Transferable(d) => htlcs' = htlcs
    /\ pending' = [pending EXCEPT ![c] = Free]
    /\ UNCHANGED <<online, preimage, outcome, strayed, lost>>
    /\ saved' \in [Cnl -> [Slot -> HtlcType]]

\* The lock is given back.
LEMMA FreeFacts == Free \in PendingType /\ Free.op = "idle"
BY FwdAssumption DEF Free, PendingType, Slot

\* What is taken back is the end of the HTLC it came from (Returns), and no other
\* end is on its way to that slot.
LEMMA BackStep ==
    ASSUME TypeOK, NEW c \in Cnl, NEW d, NEW i, NEW g, BackAt(c, d, i, g)
    PROVE  /\ TypeOK' /\ lost' = lost /\ strayed' = strayed
           /\ Order => Order'
           /\ Order /\ Paired => Paired'
<1>1. /\ htlcs \in [Cnl -> [Slot -> HtlcType]] /\ pending \in [Cnl -> PendingType]
      /\ i \in Slot /\ (Transferable(d) => d \in Cnl)
  BY DEF TypeOK, BackAt, PendingType, Transferable
<1>2. /\ pending' \in [Cnl -> PendingType] /\ pending'[c].op = "idle"
      /\ \A e \in Cnl : e # c => pending'[e] = pending[e]
  BY FreeFacts, SetPending DEF BackAt
<1>3. CASE ~Transferable(d)
  <2>1. htlcs' = htlcs /\ UNCHANGED <<online, preimage, outcome, strayed, lost>>
        /\ saved' \in [Cnl -> [Slot -> HtlcType]]
    BY <1>3 DEF BackAt
  <2>2. TypeOK'
    BY <2>1, <1>2 DEF TypeOK
  <2>3. Order => Order'
    BY <2>1, <1>2, QuietOrder DEF BackAt
  <2>4. ASSUME Order, Paired PROVE FALSE
    <3>1. Resolves(c)
      BY DEF BackAt, Resolves
    <3>2. d \in Cnl
      BY <3>1, <2>4 DEF Paired, Returning, Returns, BackAt
    <3> QED BY <3>2, <2>4, <1>3 DEF Order, Transferable
  <2> QED BY <2>1, <2>2, <2>3, <2>4
<1>4. CASE Transferable(d)
  <2> DEFINE h == htlcs[d][i]
  <2>1. /\ d \in Cnl /\ Unlocked(d) /\ htlcs' = [htlcs EXCEPT ![d][i] = g]
        /\ Ended(h, g)
        /\ g.delhtlc = "NONE" => h.delhtlc = "NONE" /\ g.done = h.done
        /\ g.done => h.done
        /\ g.delhtlc = "FULFILL" => pending[c].op = "fulfill" \/ h.delhtlc = "FULFILL"
        /\ saved' \in [Cnl -> [Slot -> HtlcType]]
        /\ UNCHANGED <<online, preimage, outcome, strayed, lost>>
        /\ pending[c].op \in {"fulfill", "fail"} /\ d = pending[c].to /\ i = pending[c].idx
    BY <1>1, <1>4 DEF BackAt
  <2>2. /\ htlcs' \in [Cnl -> [Slot -> HtlcType]] /\ htlcs'[d][i] = g
        /\ \A e \in Cnl, j \in Slot : e # d \/ j # i => htlcs'[e][j] = htlcs[e][j]
    BY <1>1, <2>1, SetSlot DEF Ended
  <2>3. TypeOK'
    BY <2>1, <2>2, <1>2 DEF TypeOK
  <2>4. EndAt(d, i, g)
    <3>1. \A e \in Cnl :
            pending'[e] = pending[e] \/ (pending[e].op \notin {"preimage", "add", "start"}
                                         /\ pending'[e].op \notin {"preimage", "add", "start"})
      BY <1>2, <2>1
    <3> QED BY <3>1, <2>1, <2>2 DEF EndAt
  <2>5. Order => Order'
    BY <2>1, <2>4, <1>1, EndOrder DEF Order
  <2>6. ASSUME Order, Paired PROVE Paired'
    <3>1. Resolves(c) /\ Returns(c)
      BY <2>1, <2>6 DEF Resolves, Paired, Returning
    <3>2. /\ Alive(h) /\ (pending[c].op = "fulfill" => outcome[h.tag] = "FULFILL")
          /\ \A e \in Cnl, j \in Slot : Live(htlcs[e][j]) => htlcs[e][j].tag # h.tag
          /\ \A e \in Cnl : Resolves(e) /\ pending[e].to = d /\ pending[e].idx = i => e = c
      BY <3>1, <2>1 DEF Returns
    <3>3. Sources' /\ CopiedOnce'
      BY <3>2, <2>1, <2>4, <2>6, <1>1, EndSources DEF Paired
    <3>4. Returning'
      <4> SUFFICES ASSUME NEW e \in Cnl, Resolves(e)' PROVE Returns(e)'
        BY DEF Returning
      <4>1. e # c /\ pending'[e] = pending[e] /\ Resolves(e)
        BY <1>2 DEF Resolves
      <4> DEFINE x == pending[e].to
                 y == pending[e].idx
      <4>2. Returns(e) /\ x \in Cnl /\ y \in Slot /\ (x # d \/ y # i)
        BY <4>1, <3>2, <2>6, <1>1 DEF Paired, Returning, Returns, PendingType
      <4>3. Alive(htlcs'[x][y]) /\ htlcs'[x][y].tag = htlcs[x][y].tag
        BY <4>2, <2>1, <2>4, <1>1, EndAlive DEF Returns
      <4>4. \A f \in Cnl, j \in Slot :
                Live(htlcs'[f][j]) => htlcs'[f][j].tag # htlcs[x][y].tag
        <5>1. \A f \in Cnl, j \in Slot :
                  Live(htlcs'[f][j]) => Live(htlcs[f][j]) /\ htlcs'[f][j].tag = htlcs[f][j].tag
          BY <2>1, <2>4, <1>1, EndView
        <5> QED BY <5>1, <4>2 DEF Returns
      <4>5. \A f \in Cnl : f # e =>
                \/ pending'[f] = pending[f]
                \/ pending'[f].op \notin {"fulfill", "fail"}
                \/ pending'[f].to # x \/ pending'[f].idx # y
        BY <1>2
      <4>6. /\ x = pending[e].to /\ y = pending[e].idx
            /\ outcome'[htlcs[x][y].tag] = outcome[htlcs[x][y].tag]
        BY <2>1
      <4> HIDE DEF x, y
      <4> QED BY <4>1, <4>2, <4>3, <4>4, <4>5, <4>6, ReturnsKept
    <3>5. Claimed'
      <4> SUFFICES ASSUME NEW e \in Cnl, NEW j \in Slot, Recv(htlcs'[e][j]),
                          htlcs'[e][j].delhtlc = "FULFILL"
                   PROVE  outcome'[htlcs'[e][j].tag] = "FULFILL"
        BY DEF Claimed, Recv
      <4>1. Recv(htlcs[e][j]) /\ htlcs'[e][j].tag = htlcs[e][j].tag
        BY <2>1, <2>4, <1>1, EndView
      <4>2. CASE e = d /\ j = i
        BY <4>1, <4>2, <3>2, <2>1, <2>2 DEF Alive
      <4>3. CASE e # d \/ j # i
        BY <4>1, <4>3, <2>1, <2>2, <2>6 DEF Paired, Claimed
      <4> QED BY <4>2, <4>3
    <3> QED BY <3>3, <3>4, <3>5 DEF Paired
  <2> QED BY <2>1, <2>3, <2>5, <2>6
<1> QED BY <1>3, <1>4

\* The two callbacks are such steps.
LEMMA BackActions ==
    ASSUME TypeOK, NEW c \in Cnl, FulfillBackwind(c) \/ FailBackwind(c)
    PROVE  /\ TypeOK' /\ lost' = lost /\ strayed' = strayed
           /\ Order => Order'
           /\ Order /\ Paired => Paired'
<1> DEFINE d == pending[c].to
           i == pending[c].idx
           h == htlcs[d][i]
<1>1. /\ i \in Slot /\ htlcs \in [Cnl -> [Slot -> HtlcType]]
      /\ saved \in [Cnl -> [Slot -> HtlcType]]
      /\ Transferable(d) => d \in Cnl /\ h \in HtlcType
  BY DEF TypeOK, PendingType, Transferable
<1>2. CASE FulfillBackwind(c)
  <2> DEFINE g == clear_htlc_comrevflag(h, "FULFILL")
  <2>1. /\ pending[c].op = "fulfill"
        /\ Transferable(d) => /\ Unlocked(d) /\ htlcs' = [htlcs EXCEPT ![d][i] = g]
                              /\ saved' = [saved EXCEPT ![d] = htlcs'[d]]
        /\ ~Transferable(d) => htlcs' = htlcs /\ saved' = saved
        /\ pending' = [pending EXCEPT ![c] = Free]
        /\ UNCHANGED <<online, preimage, outcome, strayed, lost>>
    BY <1>2 DEF FulfillBackwind, Set, ln_fulfill_htlc_set
  <2>2. Transferable(d) => /\ Ended(h, g)
                           /\ g.delhtlc = "NONE" => h.delhtlc = "NONE" /\ g.done = h.done
                           /\ g.done => h.done
    BY <1>1, EndFacts
  <2> HIDE DEF g
  <2>3. saved' \in [Cnl -> [Slot -> HtlcType]]
    <3>1. CASE Transferable(d)
      <4>1. d \in Cnl /\ g \in HtlcType /\ htlcs' = [htlcs EXCEPT ![d][i] = g]
        BY <3>1, <2>1, <2>2, <1>1 DEF Ended
      <4>2. htlcs' \in [Cnl -> [Slot -> HtlcType]]
        BY <4>1, <1>1, SetSlot
      <4> QED BY <4>1, <4>2, <3>1, <2>1, <1>1
    <3> QED BY <3>1, <2>1, <1>1
  <2>4. BackAt(c, d, i, g)
    BY <2>1, <2>2, <2>3 DEF BackAt
  <2> QED BY <2>4, BackStep
<1>3. CASE FailBackwind(c)
  <2> DEFINE g == ln_fail_htlc_set(h)
  <2>1. /\ pending[c].op = "fail"
        /\ Transferable(d) => Unlocked(d) /\ htlcs' = [htlcs EXCEPT ![d][i] = g]
        /\ ~Transferable(d) => htlcs' = htlcs
        /\ pending' = [pending EXCEPT ![c] = Free]
        /\ UNCHANGED <<saved, online, preimage, outcome, strayed, lost>>
    BY <1>3 DEF FailBackwind, Set
  <2>2. Transferable(d) => /\ Ended(h, g) /\ g.delhtlc = "FAIL"
                           /\ g.done => h.done
    BY <1>1, FailFacts
  <2> HIDE DEF g
  <2>3. BackAt(c, d, i, g)
    BY <2>1, <2>2, <1>1 DEF BackAt
  <2> QED BY <2>3, BackStep
<1> QED BY <1>2, <1>3

----------------------------------------------------------------------------
(* An HTLC is received and copied.                                         *)

\* ptarmd_preimage_lock: only the thread moves on.
LEMMA LockStep ==
    ASSUME TypeOK, NEW c \in Cnl, LockPreimage(c)
    PROVE  /\ TypeOK' /\ lost' = lost /\ strayed' = strayed
           /\ Order => Order'
           /\ Order /\ Paired => Paired'
<1> DEFINE P == [pending[c] EXCEPT !.op = "add"]
<1>1. /\ P \in PendingType /\ P.op = "add" /\ P.to = pending[c].to /\ P.idx = pending[c].idx
      /\ pending' = [pending EXCEPT ![c] = P] /\ pending[c].op = "preimage"
      /\ UNCHANGED <<htlcs, saved, online, outcome, strayed, lost>> /\ preimage' = c
  BY DEF LockPreimage, TypeOK, PendingType
<1> HIDE DEF P
<1>2. /\ pending' \in [Cnl -> PendingType] /\ pending'[c] = P
      /\ \A d \in Cnl : d # c => pending'[d] = pending[d]
  BY <1>1, SetPending
<1>3. TypeOK'
  BY <1>1, <1>2 DEF TypeOK
<1>4. ASSUME Order PROVE Order'
  <2>1. Shapes' /\ Tags' /\ Offered'
    BY <1>1, <1>4
    DEF Order, Shapes, Shape, Tags, Offered, OfferedFrom, Source, Recv, Copy, CopyOf
  <2>2. Waiting'
    BY <1>1, <1>2, <1>4 DEF Order, Waiting, WaitsFor, Unstarted, CopyOf
  <2>3. Adding'
    <3> SUFFICES ASSUME NEW e \in Cnl, pending'[e].op \in {"preimage", "add"} PROVE Adds(e)'
      BY DEF Adding
    <3>1. pending'[e].to = pending[e].to /\ pending'[e].idx = pending[e].idx /\ Adds(e)
      BY <1>1, <1>2, <1>4 DEF Order, Adding
    <3> QED BY <3>1, <1>1 DEF Adds, Recv, Copy
  <2>4. Starting'
    BY <1>1, <1>2, <1>4 DEF Order, Starting, ToStart, Enabled
  <2> QED BY <2>1, <2>2, <2>3, <2>4, <1>1, <1>4 DEF Order
<1>5. ASSUME Paired PROVE Paired'
  <2>1. Sources' /\ CopiedOnce' /\ Claimed'
    BY <1>1, <1>5 DEF Paired, Sources, CopiedOnce, Claimed, Source, Alive, Live, Recv, Copy
  <2>2. ASSUME NEW e \in Cnl, Resolves(e)' PROVE Returns(e)'
    <3>1. Resolves(e) /\ Returns(e) /\ pending'[e] = pending[e]
      BY <1>1, <1>2, <1>5, <2>2 DEF Resolves, Paired, Returning
    <3>2. pending[e].to \in Cnl /\ pending[e].idx \in Slot
      BY <3>1 DEF Returns, TypeOK, PendingType
    <3>3. /\ Alive(htlcs'[pending[e].to][pending[e].idx])
          /\ \A f \in Cnl, j \in Slot : Live(htlcs'[f][j]) =>
                htlcs'[f][j].tag # htlcs[pending[e].to][pending[e].idx].tag
      BY <3>1, <1>1 DEF Returns
    <3>4. \A f \in Cnl : f # e =>
                pending'[f] = pending[f] \/ pending'[f].op \notin {"fulfill", "fail"}
      BY <1>1, <1>2
    <3> QED BY <3>1, <3>2, <3>3, <3>4, <1>1, ReturnsKept
  <2> QED BY <2>1, <2>2 DEF Paired, Returning
<1> QED BY <1>1, <1>3, <1>4, <1>5

\* recv_update_add_htlc: slot i of c, which was free, holds payment t.
LEMMA RecvStep ==
    ASSUME TypeOK, NEW c \in Cnl, NEW next \in Cnl, NEW cltv \in Cltvs, NEW out \in Cltvs,
           RecvAddHtlc(c, next, cltv, out)
    PROVE  /\ TypeOK' /\ lost' = lost /\ strayed' = strayed
           /\ Order => Order'
           /\ Order /\ Paired => Paired'
<1>1. PICK t \in 1 .. MaxFwd, i \in Slot :
         /\ NewTag(t) /\ FreeSlot(c, i)
         /\ outcome' = [outcome EXCEPT ![t] = "OPEN"]
         /\ IF check_recv_add_htlc_bolt4_forward(next, cltv, out)
            THEN /\ htlcs' = Set(c, i, Received(t, cltv, "NONE"))
                 /\ pending' = [pending EXCEPT ![c] =
                      [op |-> "preimage", to |-> next, idx |-> i, cltv |-> out]]
            ELSE /\ htlcs' = Set(c, i, Received(t, cltv, "FAIL"))
                 /\ UNCHANGED pending
  BY DEF RecvAddHtlc
<1>2. PICK fin \in {"NONE", "FAIL"}, P \in PendingType :
         /\ htlcs' = [htlcs EXCEPT ![c][i] = Received(t, cltv, fin)]
         /\ pending' = [pending EXCEPT ![c] = P]
         /\ P.op \in {"idle", "preimage"}
         /\ P.op = "preimage" => fin = "NONE" /\ P.to = next /\ P.idx = i
  <2>1. CASE check_recv_add_htlc_bolt4_forward(next, cltv, out)
    <3> DEFINE P == [op |-> "preimage", to |-> next, idx |-> i, cltv |-> out]
    <3>1. P \in PendingType /\ P.op = "preimage" /\ P.to = next /\ P.idx = i
      BY DEF PendingType
    <3>2. htlcs' = [htlcs EXCEPT ![c][i] = Received(t, cltv, "NONE")] /\ pending' = [pending EXCEPT ![c] = P]
      BY <1>1, <2>1 DEF Set
    <3> HIDE DEF P
    <3> QED BY <3>1, <3>2
  <2>2. CASE ~check_recv_add_htlc_bolt4_forward(next, cltv, out)
    <3>1. /\ pending[c] \in PendingType /\ pending[c].op = "idle"
          /\ pending = [pending EXCEPT ![c] = pending[c]]
      BY DEF TypeOK, RecvAddHtlc, Unlocked
    <3>2. htlcs' = [htlcs EXCEPT ![c][i] = Received(t, cltv, "FAIL")] /\ pending' = pending
      BY <1>1, <2>2 DEF Set
    <3> QED BY <3>1, <3>2
  <2> QED BY <2>1, <2>2
<1> DEFINE h == htlcs[c][i]
           g == Received(t, cltv, fin)
<1>3. /\ g \in HtlcType /\ g.tag = t /\ g.addhtlc = "RECV" /\ g.delhtlc = "NONE"
      /\ g.fin_delhtlc = fin /\ g.done = FALSE /\ g.prev = NoCnl /\ g.next = NoCnl
      /\ t \in Nat /\ t # 0
  <2>1. t \in Nat /\ t # 0 /\ (fin = "NONE" \/ fin = "FAIL")
    BY FwdAssumption
  <2> DEFINE k == EmptyHtlc
  <2>2. /\ k \in HtlcType /\ k.delhtlc = "NONE" /\ k.done = FALSE
        /\ k.prev = NoCnl /\ k.next = NoCnl
    BY EmptyFacts
  <2>3. g = [k EXCEPT !.tag = t, !.cltv_expiry = cltv, !.addhtlc = "RECV",
                      !.fin_delhtlc = fin]
    BY DEF Received
  <2> HIDE DEF k, g
  <2> QED BY <2>1, <2>2, <2>3 DEF HtlcType
<1> HIDE DEF g
<1>4. /\ htlcs \in [Cnl -> [Slot -> HtlcType]] /\ pending \in [Cnl -> PendingType]
      /\ outcome \in [1 .. MaxFwd -> {"NEW", "OPEN", "FULFILL", "FAIL"}]
      /\ UNCHANGED <<saved, online, preimage, strayed, lost>>
      /\ pending[c].op = "idle"
  BY DEF TypeOK, RecvAddHtlc, Unlocked
<1>5. /\ htlcs' \in [Cnl -> [Slot -> HtlcType]] /\ htlcs'[c][i] = g
      /\ \A e \in Cnl, j \in Slot : e # c \/ j # i => htlcs'[e][j] = htlcs[e][j]
  <2>1. htlcs' = [htlcs EXCEPT ![c][i] = g]
    BY <1>2 DEF g
  <2> QED BY <2>1, <1>3, <1>4, SetSlot
<1>6. /\ pending' \in [Cnl -> PendingType] /\ pending'[c] = P
      /\ \A d \in Cnl : d # c => pending'[d] = pending[d]
  BY <1>2, SetPending
<1>7. /\ outcome' \in [1 .. MaxFwd -> {"NEW", "OPEN", "FULFILL", "FAIL"}]
      /\ outcome'[t] = "OPEN" /\ outcome[t] = "NEW"
      /\ \A u \in 1 .. MaxFwd : u # t => outcome'[u] = outcome[u]
  BY <1>1, <1>4 DEF NewTag
<1>8. h.addhtlc = "NONE" /\ h.tag = 0
  BY <1>1 DEF FreeSlot, LN_HTLC_ENABLE
<1>9. TypeOK'
  BY <1>4, <1>5, <1>6, <1>7 DEF TypeOK
<1>10. ASSUME Order
       PROVE  /\ \A e \in Cnl, j \in Slot : htlcs[e][j].tag # t
              /\ ~Copy(h)
              /\ \A e \in Cnl, j \in Slot : htlcs[e][j].tag # 0 =>
                    htlcs[e][j].tag \in 1 .. MaxFwd
                    /\ outcome'[htlcs[e][j].tag] = outcome[htlcs[e][j].tag]
  BY <1>3, <1>7, <1>8, <1>10 DEF Order, Shapes, Shape
<1>11. ASSUME Order PROVE Order'
  <2>1. Shapes'
    <3> SUFFICES ASSUME NEW e \in Cnl, NEW j \in Slot PROVE Shape(htlcs[e][j])'
      BY DEF Shapes
    <3>1. CASE e = c /\ j = i
      BY <3>1, <1>3, <1>5, <1>7 DEF Shape, Recv, Copy
    <3>2. CASE e # c \/ j # i
      <4>1. htlcs'[e][j] = htlcs[e][j] /\ Shape(htlcs[e][j])
        BY <3>2, <1>5, <1>11 DEF Order, Shapes
      <4> QED BY <4>1, <1>10, <1>11 DEF Shape, Recv, Copy
    <3> QED BY <3>1, <3>2
  <2>2. Tags'
    <3> SUFFICES ASSUME NEW e \in Cnl, NEW f \in Cnl, NEW j \in Slot, NEW k \in Slot,
                        Recv(htlcs'[e][j]), htlcs'[f][k].tag = htlcs'[e][j].tag
                 PROVE  /\ Recv(htlcs'[f][k]) => e = f /\ j = k
                        /\ Copy(htlcs'[f][k]) => CopyOf(htlcs[f][k], e, j)'
      BY DEF Tags, Recv, Copy, CopyOf
    <3>1. CASE e = c /\ j = i
      BY <3>1, <1>3, <1>5, <1>10, <1>11 DEF Copy
    <3>2. CASE f = c /\ k = i
      BY <3>2, <1>3, <1>5, <1>10, <1>11 DEF Copy
    <3>3. CASE (e # c \/ j # i) /\ (f # c \/ k # i)
      BY <3>3, <1>5, <1>11 DEF Order, Tags, CopyOf
    <3> QED BY <3>1, <3>2, <3>3
  <2>3. Waiting'
    <3> SUFFICES ASSUME NEW e \in Cnl, NEW j \in Slot, htlcs'[e][j].next # NoCnl,
                        Unstarted(e, j)'
                 PROVE  LET w == htlcs'[htlcs'[e][j].next][htlcs'[e][j].next_idx]
                        IN  CopyOf(htlcs[htlcs[e][j].next][htlcs[e][j].next_idx], e, j)'
                            /\ w.addhtlc = "NONE"
      BY DEF Waiting, WaitsFor
    <3> DEFINE x == htlcs[e][j].next
               y == htlcs[e][j].next_idx
    <3>1. (e # c \/ j # i) /\ htlcs'[e][j] = htlcs[e][j]
      BY <1>3, <1>5
    <3>2. Unstarted(e, j)
      BY <1>4, <1>6 DEF Unstarted
    <3>3. CopyOf(htlcs[x][y], e, j) /\ htlcs[x][y].addhtlc = "NONE"
      BY <3>1, <3>2, <1>11 DEF Order, Waiting, WaitsFor
    <3>4. x \in Cnl /\ y \in Slot
      BY <3>1, <1>4 DEF HtlcType
    <3>5. htlcs[e][j].tag # 0
      BY <3>1, <1>11 DEF Order, Shapes, Shape
    <3>6. x # c \/ y # i
      BY <3>3, <3>5, <1>8 DEF CopyOf
    <3>7. htlcs'[x][y] = htlcs[x][y]
      BY <3>4, <3>6, <1>5
    <3> HIDE DEF x, y
    <3> QED BY <3>1, <3>3, <3>7 DEF CopyOf, x, y
  <2>4. Adding'
    <3> SUFFICES ASSUME NEW e \in Cnl, pending'[e].op \in {"preimage", "add"} PROVE Adds(e)'
      BY DEF Adding
    <3>1. CASE e = c
      <4>1. pending'[e].to = next /\ pending'[e].idx = i /\ fin = "NONE"
        BY <3>1, <1>2, <1>6
      <4>2. htlcs'[e][pending'[e].idx] = g
        BY <3>1, <4>1, <1>5
      <4>3. \A f \in Cnl, j \in Slot : Copy(htlcs'[f][j]) => htlcs'[f][j].tag # t
        BY <1>3, <1>5, <1>10, <1>11 DEF Copy
      <4> QED BY <4>1, <4>2, <4>3, <1>3, <1>7 DEF Adds, Recv, Copy
    <3>2. CASE e # c
      <4> DEFINE x == htlcs[e][pending[e].idx]
      <4>1. pending'[e] = pending[e] /\ Adds(e) /\ pending[e].idx \in Slot
        BY <3>2, <1>4, <1>6, <1>11 DEF Order, Adding, PendingType
      <4>2. htlcs'[e][pending'[e].idx] = x
        BY <3>2, <4>1, <1>5
      <4>3. x.tag # t /\ x.tag # 0 /\ outcome'[x.tag] = outcome[x.tag]
        BY <4>1, <1>10, <1>11 DEF Adds, Order, Shapes, Shape
      <4>4. \A f \in Cnl, j \in Slot : Copy(htlcs'[f][j]) => htlcs'[f][j].tag # x.tag
        BY <4>1, <4>3, <1>3, <1>5 DEF Adds, Copy
      <4> HIDE DEF x
      <4> QED BY <4>1, <4>2, <4>3, <4>4 DEF Adds, Recv, Copy, x
    <3> QED BY <3>1, <3>2
  <2>5. Starting'
    <3> SUFFICES ASSUME NEW e \in Cnl, pending'[e].op = "start"
                 PROVE  /\ pending'[e].idx \in ToStart(e)'
                        /\ \A j \in Enabled(e)' : htlcs'[e][j].done
      BY DEF Starting
    <3>1. e # c /\ pending'[e] = pending[e]
      BY <1>2, <1>6
    <3>2. \A j \in Slot : htlcs'[e][j] = htlcs[e][j]
      BY <3>1, <1>5
    <3> QED BY <3>1, <3>2, <1>11 DEF Order, Starting, ToStart, Enabled
  <2>6. Offered'
    <3> SUFFICES ASSUME NEW e \in Cnl, NEW j \in Slot, htlcs'[e][j].addhtlc = "OFFER"
                 PROVE OfferedFrom(htlcs[e][j])'
      BY DEF Offered, OfferedFrom
    <3> DEFINE x == htlcs[e][j]
    <3>1. (e # c \/ j # i) /\ htlcs'[e][j] = x
      BY <1>3, <1>5
    <3>2. x.prev \in Cnl /\ x.prev_idx \in Slot /\ x.tag # t
      BY <3>1, <1>4, <1>10, <1>11 DEF Order, Shapes, Shape, Copy, HtlcType
    <3>3. OfferedFrom(x)
      BY <1>11 DEF Order, Offered
    <3> HIDE DEF x
    <3>4. htlcs'[x.prev][x.prev_idx] = htlcs[x.prev][x.prev_idx]
          \/ htlcs'[x.prev][x.prev_idx].tag = t
      BY <3>2, <1>3, <1>5
    <3> QED BY <3>1, <3>2, <3>3, <3>4 DEF OfferedFrom, Source, Recv
  <2> QED BY <2>1, <2>2, <2>3, <2>4, <2>5, <2>6, <1>4, <1>11 DEF Order
<1>12. ASSUME Order, Paired PROVE Paired'
  <2>1. \A e \in Cnl, j \in Slot : Live(htlcs'[e][j]) => htlcs'[e][j] = htlcs[e][j]
    BY <1>3, <1>5 DEF Live, Copy
  <2>2. \A e \in Cnl, j \in Slot : Alive(htlcs[e][j]) => htlcs'[e][j] = htlcs[e][j]
    BY <1>5, <1>8 DEF Alive, Recv
  <2>3. Sources'
    <3> SUFFICES ASSUME NEW e \in Cnl, NEW j \in Slot, Live(htlcs'[e][j])
                 PROVE  /\ Alive(Source(htlcs[e][j]))'
                        /\ Source(htlcs[e][j])'.tag = htlcs'[e][j].tag
      BY DEF Sources
    <3> DEFINE x == htlcs[e][j]
    <3>1. htlcs'[e][j] = x /\ Live(x) /\ x.prev \in Cnl /\ x.prev_idx \in Slot
      BY <2>1, <1>4 DEF Live, Copy, HtlcType
    <3>2. Alive(htlcs[x.prev][x.prev_idx]) /\ htlcs[x.prev][x.prev_idx].tag = x.tag
      BY <3>1, <1>12 DEF Paired, Sources, Source
    <3> HIDE DEF x
    <3>3. htlcs'[x.prev][x.prev_idx] = htlcs[x.prev][x.prev_idx]
      BY <3>1, <3>2, <2>2
    <3> QED BY <3>1, <3>2, <3>3 DEF Source, Alive, Recv
  <2>4. CopiedOnce'
    <3> SUFFICES ASSUME NEW e \in Cnl, NEW f \in Cnl, NEW j \in Slot, NEW k \in Slot,
                        Live(htlcs'[e][j]), Live(htlcs'[f][k]),
                        htlcs'[e][j].tag = htlcs'[f][k].tag
                 PROVE  e = f /\ j = k
      BY DEF CopiedOnce, Live, Copy
    <3> QED BY <2>1, <1>12 DEF Paired, CopiedOnce
  <2>5. Returning'
    <3> SUFFICES ASSUME NEW e \in Cnl, Resolves(e)' PROVE Returns(e)'
      BY DEF Returning
    <3> DEFINE x == pending[e].to
               y == pending[e].idx
    <3>1. e # c /\ pending'[e] = pending[e] /\ Resolves(e)
      BY <1>2, <1>6 DEF Resolves
    <3>2. Returns(e) /\ x \in Cnl /\ y \in Slot
      BY <3>1, <1>4, <1>12 DEF Paired, Returning, Returns, PendingType
    <3>3. Alive(htlcs[x][y]) /\ htlcs'[x][y] = htlcs[x][y]
      BY <3>2, <2>2 DEF Returns
    <3>4. outcome'[htlcs[x][y].tag] = outcome[htlcs[x][y].tag]
      BY <3>2, <3>3, <1>10, <1>12 DEF Order, Shapes, Shape, Alive
    <3>5. \A f \in Cnl, j \in Slot :
              Live(htlcs'[f][j]) => htlcs'[f][j].tag # htlcs[x][y].tag
      BY <3>2, <2>1 DEF Returns
    <3>6. \A f \in Cnl : f # e =>
              pending'[f] = pending[f] \/ pending'[f].op \notin {"fulfill", "fail"}
      BY <1>2, <1>6
    <3>7. x = pending[e].to /\ y = pending[e].idx
      OBVIOUS
    <3> HIDE DEF x, y
    <3> QED BY <3>1, <3>2, <3>3, <3>4, <3>5, <3>6, <3>7, ReturnsKept
  <2>6. Claimed'
    <3> SUFFICES ASSUME NEW e \in Cnl, NEW j \in Slot, Recv(htlcs'[e][j]),
                        htlcs'[e][j].delhtlc = "FULFILL"
                 PROVE  outcome'[htlcs'[e][j].tag] = "FULFILL"
      BY DEF Claimed, Recv
    <3>1. htlcs'[e][j] = htlcs[e][j]
      BY <1>3, <1>5
    <3>2. outcome[htlcs[e][j].tag] = "FULFILL" /\ htlcs[e][j].tag # 0
      BY <3>1, <1>12 DEF Paired, Claimed, Order, Shapes, Shape
    <3> QED BY <3>1, <3>2, <1>10, <1>12
  <2> QED BY <2>3, <2>4, <2>5, <2>6 DEF Paired
<1> QED BY <1>4, <1>9, <1>11, <1>12

\* cbsub_add_htlc_forward: slot i of c, whose thread holds the lock, becomes g:
\* refused, or with its copy in a slot that was free of a channel that is not
\* locked.
AddAt(c, i, g) ==
    LET h == htlcs[c][i]
        d == g.next
        j == g.next_idx
        k == htlcs'[d][j]
    IN  /\ g.tag = h.tag /\ g.addhtlc = h.addhtlc /\ g.delhtlc = h.delhtlc
        /\ g.done = h.done /\ g.prev = h.prev /\ g.prev_idx = h.prev_idx
        /\ htlcs'[c][i] = g
        /\ \A e \in Cnl, x \in Slot :
              (e # c \/ x # i) /\ (e # d \/ x # j) => htlcs'[e][x] = htlcs[e][x]
        /\ d # NoCnl =>
              /\ d \in Cnl /\ j \in Slot /\ d # c /\ Unlocked(d)
              /\ g.fin_delhtlc = "NONE"
              /\ htlcs[d][j].addhtlc = "NONE" /\ htlcs[d][j].tag = 0
              /\ k.tag = h.tag /\ k.addhtlc = "NONE" /\ k.delhtlc = "NONE"
              /\ k.done = FALSE /\ k.prev = c /\ k.prev_idx = i /\ k.next = NoCnl

\* What AddAt leaves of every slot, the copy apart.
LEMMA AddView ==
    ASSUME NEW c \in Cnl, NEW i \in Slot, NEW g, AddAt(c, i, g),
           NEW e \in Cnl, NEW x \in Slot, e # g.next \/ x # g.next_idx
    PROVE  /\ htlcs'[e][x].tag = htlcs[e][x].tag
           /\ htlcs'[e][x].addhtlc = htlcs[e][x].addhtlc
           /\ htlcs'[e][x].delhtlc = htlcs[e][x].delhtlc
           /\ htlcs'[e][x].done = htlcs[e][x].done
           /\ htlcs'[e][x].prev = htlcs[e][x].prev
           /\ htlcs'[e][x].prev_idx = htlcs[e][x].prev_idx
           /\ Recv(htlcs'[e][x]) <=> Recv(htlcs[e][x])
           /\ Copy(htlcs'[e][x]) <=> Copy(htlcs[e][x])
           /\ e # c \/ x # i => htlcs'[e][x] = htlcs[e][x]
<1>1. CASE e = c /\ x = i
  BY <1>1 DEF AddAt, Recv, Copy
<1>2. CASE e # c \/ x # i
  BY <1>2 DEF AddAt, Recv, Copy
<1> QED BY <1>1, <1>2

\* The received HTLC had no copy (Adds), and now has one, which waits.
LEMMA AddOrder ==
    ASSUME TypeOK, Order, NEW c \in Cnl, NEW i \in Slot, NEW g, AddAt(c, i, g),
           pending[c].op = "add", pending[c].idx = i, pending'[c].op = "idle",
           \A e \in Cnl : e # c => pending'[e] = pending[e],
           outcome' = outcome, online' = online
    PROVE  Order'
<1> DEFINE h == htlcs[c][i]
           d == g.next
           j == g.next_idx
<1>1. /\ Recv(h) /\ h.delhtlc = "NONE" /\ h.fin_delhtlc = "NONE" /\ h.next = NoCnl
      /\ \A e \in Cnl, x \in Slot : Copy(htlcs[e][x]) => htlcs[e][x].tag # h.tag
      /\ h.tag # 0 /\ ~Copy(h) /\ h.tag \in 1 .. MaxFwd /\ outcome[h.tag] # "NEW"
  <2>1. Adds(c)
    BY DEF Order, Adding
  <2> QED BY <2>1 DEF Adds, Order, Shapes, Shape
<1>2. /\ g.tag = h.tag /\ g.addhtlc = h.addhtlc /\ g.delhtlc = h.delhtlc
      /\ g.done = h.done /\ g.prev = h.prev /\ g.prev_idx = h.prev_idx
      /\ htlcs'[c][i] = g
  BY DEF AddAt
<1>3. ASSUME d # NoCnl
      PROVE  /\ d \in Cnl /\ j \in Slot /\ d # c /\ pending[d].op = "idle"
             /\ g.fin_delhtlc = "NONE"
             /\ htlcs[d][j].addhtlc = "NONE" /\ htlcs[d][j].tag = 0
             /\ htlcs'[d][j].tag = h.tag /\ htlcs'[d][j].addhtlc = "NONE"
             /\ htlcs'[d][j].delhtlc = "NONE" /\ htlcs'[d][j].done = FALSE
             /\ htlcs'[d][j].prev = c /\ htlcs'[d][j].prev_idx = i
             /\ htlcs'[d][j].next = NoCnl
  BY <1>3 DEF AddAt, Unlocked
<1>4. \A e \in Cnl : e = d => d # NoCnl /\ c # NoCnl
  BY NoCnlAssumption
<1>5. \A e \in Cnl, x \in Slot : htlcs[e][x] \in HtlcType /\ pending[e].idx \in Slot
  BY DEF TypeOK, PendingType
<1> HIDE DEF h, d, j
<1>6. ASSUME NEW e \in Cnl, NEW x \in Slot, e # d \/ x # j
      PROVE  /\ htlcs'[e][x].tag = htlcs[e][x].tag
             /\ htlcs'[e][x].addhtlc = htlcs[e][x].addhtlc
             /\ htlcs'[e][x].delhtlc = htlcs[e][x].delhtlc
             /\ htlcs'[e][x].done = htlcs[e][x].done
             /\ htlcs'[e][x].prev = htlcs[e][x].prev
             /\ htlcs'[e][x].prev_idx = htlcs[e][x].prev_idx
             /\ Recv(htlcs'[e][x]) <=> Recv(htlcs[e][x])
             /\ Copy(htlcs'[e][x]) <=> Copy(htlcs[e][x])
             /\ e # c \/ x # i => htlcs'[e][x] = htlcs[e][x]
  BY <1>6, AddView DEF d, j
<1>7. Shapes'
  <2> SUFFICES ASSUME NEW e \in Cnl, NEW x \in Slot PROVE Shape(htlcs[e][x])'
    BY DEF Shapes
  <2>1. CASE e = d /\ x = j
    BY <2>1, <1>1, <1>3, <1>4 DEF Shape, Recv, Copy
  <2>2. CASE e = c /\ x = i
    BY <2>2, <1>1, <1>2, <1>3 DEF Shape, Recv, Copy, d
  <2>3. CASE (e # d \/ x # j) /\ (e # c \/ x # i)
    <3>1. htlcs'[e][x] = htlcs[e][x] /\ Shape(htlcs[e][x])
      BY <2>3, <1>6 DEF Order, Shapes
    <3> QED BY <3>1 DEF Shape, Recv, Copy
  <2> QED BY <2>1, <2>2, <2>3
<1>8. Tags'
  <2> SUFFICES ASSUME NEW e \in Cnl, NEW f \in Cnl, NEW x \in Slot, NEW y \in Slot,
                      Recv(htlcs'[e][x]), htlcs'[f][y].tag = htlcs'[e][x].tag
               PROVE  /\ Recv(htlcs'[f][y]) => e = f /\ x = y
                      /\ Copy(htlcs'[f][y]) => CopyOf(htlcs[f][y], e, x)'
    BY DEF Tags, Recv, Copy, CopyOf
  <2>1. (e # d \/ x # j) /\ Recv(htlcs[e][x]) /\ htlcs'[e][x].tag = htlcs[e][x].tag
    <3>1. e # d \/ x # j
      BY <1>3, <1>4 DEF Recv
    <3> QED BY <3>1, <1>6
  <2>2. CASE f = d /\ y = j
    <3>1. htlcs[e][x].tag = htlcs[c][i].tag /\ Recv(htlcs[c][i])
      BY <2>1, <2>2, <1>1, <1>3, <1>4 DEF h
    <3>2. e = c /\ x = i
      BY <3>1, <2>1 DEF Order, Tags
    <3> QED BY <3>2, <2>2, <1>2, <1>3, <1>4 DEF Recv, CopyOf
  <2>3. CASE f # d \/ y # j
    BY <2>1, <2>3, <1>6 DEF Order, Tags, CopyOf
  <2> QED BY <2>2, <2>3
<1>9. Waiting'
  <2> SUFFICES ASSUME NEW e \in Cnl, NEW x \in Slot, htlcs'[e][x].next # NoCnl,
                      Unstarted(e, x)'
               PROVE  LET w == htlcs'[htlcs'[e][x].next][htlcs'[e][x].next_idx]
                      IN  CopyOf(htlcs[htlcs[e][x].next][htlcs[e][x].next_idx], e, x)'
                          /\ w.addhtlc = "NONE"
    BY DEF Waiting, WaitsFor
  <2>1. CASE e = c /\ x = i
    BY <2>1, <1>2, <1>3 DEF CopyOf, d, j
  <2>2. CASE e # c \/ x # i
    <3> DEFINE a == htlcs[e][x].next
               b == htlcs[e][x].next_idx
    <3>1. (e # d \/ x # j) /\ htlcs'[e][x] = htlcs[e][x]
      BY <2>2, <1>3, <1>4, <1>6
    <3>2. Unstarted(e, x)
      BY DEF Unstarted
    <3>3. CopyOf(htlcs[a][b], e, x) /\ htlcs[a][b].addhtlc = "NONE"
      BY <3>1, <3>2 DEF Order, Waiting, WaitsFor
    <3>4. a \in Cnl /\ b \in Slot
      BY <3>1, <1>5 DEF HtlcType
    <3>5. htlcs[e][x].tag # 0
      BY <3>1 DEF Order, Shapes, Shape
    <3>6. htlcs[a][b].tag # 0 /\ Copy(htlcs[a][b])
      BY <3>3, <3>5, NoCnlAssumption DEF CopyOf, Copy
    <3>7. (a # d \/ b # j) /\ (a # c \/ b # i)
      BY <3>4, <3>6, <1>1, <1>3, <1>4 DEF h
    <3>8. htlcs'[a][b] = htlcs[a][b]
      BY <3>4, <3>7, <1>6
    <3> HIDE DEF a, b
    <3> QED BY <3>1, <3>3, <3>8 DEF CopyOf, a, b
  <2> QED BY <2>1, <2>2
<1>10. Adding'
  <2> SUFFICES ASSUME NEW e \in Cnl, pending'[e].op \in {"preimage", "add"} PROVE Adds(e)'
    BY DEF Adding
  <2> DEFINE x == htlcs[e][pending[e].idx]
  <2>1. e # c /\ pending'[e] = pending[e] /\ Adds(e) /\ pending[e].idx \in Slot
    BY <1>5 DEF Order, Adding
  <2>2. htlcs'[e][pending'[e].idx] = x
    <3>1. e # d
      BY <1>3, <1>4, <2>1
    <3> QED BY <3>1, <2>1, <1>6
  <2>3. x.tag # h.tag
    BY <2>1, <1>1 DEF Order, Tags, Adds, h
  <2>4. \A f \in Cnl, y \in Slot : Copy(htlcs'[f][y]) => htlcs'[f][y].tag # x.tag
    <3> SUFFICES ASSUME NEW f \in Cnl, NEW y \in Slot, Copy(htlcs'[f][y])
                 PROVE  htlcs'[f][y].tag # x.tag
      OBVIOUS
    <3>1. CASE f = d /\ y = j
      BY <3>1, <2>3, <1>3, <1>4
    <3>2. CASE f # d \/ y # j
      BY <3>2, <2>1, <1>6 DEF Adds
    <3> QED BY <3>1, <3>2
  <2> HIDE DEF x
  <2> QED BY <2>1, <2>2, <2>4 DEF Adds, Recv, Copy, x
<1>11. Starting'
  <2> SUFFICES ASSUME NEW e \in Cnl, pending'[e].op = "start"
               PROVE  /\ pending'[e].idx \in ToStart(e)'
                      /\ \A x \in Enabled(e)' : htlcs'[e][x].done
    BY DEF Starting
  <2>1. e # c /\ pending'[e] = pending[e] /\ pending[e].op = "start"
    OBVIOUS
  <2>2. \A x \in Slot : htlcs'[e][x] = htlcs[e][x]
    BY <2>1, <1>3, <1>4, <1>6
  <2> QED BY <2>1, <2>2 DEF Order, Starting, ToStart, Enabled
<1>12. Offered'
  <2> SUFFICES ASSUME NEW e \in Cnl, NEW x \in Slot, htlcs'[e][x].addhtlc = "OFFER"
               PROVE OfferedFrom(htlcs[e][x])'
    BY DEF Offered, OfferedFrom
  <2> DEFINE o == htlcs[e][x]
             a == o.prev
             b == o.prev_idx
  <2>1. e # d \/ x # j
    BY <1>3, <1>4
  <2>2. /\ o.addhtlc = "OFFER" /\ htlcs'[e][x].tag = o.tag
        /\ htlcs'[e][x].prev = a /\ htlcs'[e][x].prev_idx = b
    BY <2>1, <1>6
  <2>3. a \in Cnl /\ b \in Slot /\ Copy(o)
    BY <2>2, <1>5 DEF Order, Shapes, Shape, Copy, HtlcType
  <2>4. htlcs[a][b].tag = o.tag /\ htlcs[a][b].delhtlc = "NONE" =>
            Recv(htlcs[a][b]) /\ htlcs[a][b].done
    BY <2>2 DEF Order, Offered, OfferedFrom, Source
  <2>5. o.tag # h.tag
    BY <2>3, <1>1
  <2> HIDE DEF a, b, o
  <2>6. htlcs'[a][b].tag = o.tag /\ htlcs'[a][b].delhtlc = "NONE" =>
            Recv(htlcs'[a][b]) /\ htlcs'[a][b].done
    <3>1. CASE a = d /\ b = j
      BY <3>1, <2>3, <2>5, <1>3, <1>4
    <3>2. CASE a # d \/ b # j
      BY <3>2, <2>3, <2>4, <1>6
    <3> QED BY <3>1, <3>2
  <2> QED BY <2>2, <2>6 DEF OfferedFrom, Source, Recv
<1> QED BY <1>7, <1>8, <1>9, <1>10, <1>11, <1>12 DEF Order

\* The end of the received HTLC is open and no end is on its way to it.
LEMMA AddPaired ==
    ASSUME TypeOK, Order, Paired, NEW c \in Cnl, NEW i \in Slot, NEW g, AddAt(c, i, g),
           pending[c].op = "add", pending[c].idx = i, pending'[c].op = "idle",
           \A e \in Cnl : e # c => pending'[e] = pending[e],
           outcome' = outcome
    PROVE  Paired'
<1> DEFINE h == htlcs[c][i]
           d == g.next
           j == g.next_idx
<1>1. /\ Recv(h) /\ h.delhtlc = "NONE" /\ h.fin_delhtlc = "NONE"
      /\ outcome[h.tag] = "OPEN" /\ ~Copy(h)
      /\ \A e \in Cnl, x \in Slot : Copy(htlcs[e][x]) => htlcs[e][x].tag # h.tag
  <2>1. Adds(c)
    BY DEF Order, Adding
  <2> QED BY <2>1 DEF Adds, Order, Shapes, Shape
<1>2. /\ g.tag = h.tag /\ g.addhtlc = h.addhtlc /\ g.delhtlc = h.delhtlc
      /\ htlcs'[c][i] = g
  BY DEF AddAt
<1>3. ASSUME d # NoCnl
      PROVE  /\ d # c /\ g.fin_delhtlc = "NONE" /\ htlcs[d][j].addhtlc = "NONE"
             /\ htlcs'[d][j].tag = h.tag /\ htlcs'[d][j].addhtlc = "NONE"
             /\ htlcs'[d][j].prev = c /\ htlcs'[d][j].prev_idx = i
  BY <1>3 DEF AddAt
<1>4. \A e \in Cnl : e = d => d # NoCnl
  BY NoCnlAssumption
<1>5. \A e \in Cnl, x \in Slot : htlcs[e][x] \in HtlcType /\ pending[e].idx \in Slot
  BY DEF TypeOK, PendingType
<1> HIDE DEF h, d, j
<1>6. ASSUME NEW e \in Cnl, NEW x \in Slot, e # d \/ x # j
      PROVE  /\ htlcs'[e][x].tag = htlcs[e][x].tag
             /\ htlcs'[e][x].delhtlc = htlcs[e][x].delhtlc
             /\ htlcs'[e][x].prev = htlcs[e][x].prev
             /\ htlcs'[e][x].prev_idx = htlcs[e][x].prev_idx
             /\ Recv(htlcs'[e][x]) <=> Recv(htlcs[e][x])
             /\ Copy(htlcs'[e][x]) <=> Copy(htlcs[e][x])
             /\ e # c \/ x # i => htlcs'[e][x] = htlcs[e][x]
  BY <1>6, AddView DEF d, j
\* A received HTLC of another payment stays as it is.
<1>7. ASSUME NEW e \in Cnl, NEW x \in Slot, Alive(htlcs[e][x]), htlcs[e][x].tag # h.tag
      PROVE  htlcs'[e][x] = htlcs[e][x]
  <2>1. e # c \/ x # i
    BY <1>7 DEF h
  <2>2. e # d \/ x # j
    BY <1>7, <1>3, <1>4 DEF Alive, Recv
  <2> QED BY <2>1, <2>2, <1>6
<1>8. ASSUME NEW e \in Cnl, NEW x \in Slot, Live(htlcs'[e][x]), e # d \/ x # j
      PROVE  /\ Live(htlcs[e][x]) /\ htlcs'[e][x].tag = htlcs[e][x].tag
             /\ htlcs[e][x].tag # h.tag
             /\ htlcs'[e][x].prev = htlcs[e][x].prev
             /\ htlcs'[e][x].prev_idx = htlcs[e][x].prev_idx
  <2>1. Live(htlcs[e][x])
    BY <1>6, <1>8 DEF Live
  <2> QED BY <2>1, <1>1, <1>6, <1>8 DEF Live
<1>9. Sources'
  <2> SUFFICES ASSUME NEW e \in Cnl, NEW x \in Slot, Live(htlcs'[e][x])
               PROVE  /\ Alive(Source(htlcs[e][x]))'
                      /\ Source(htlcs[e][x])'.tag = htlcs'[e][x].tag
    BY DEF Sources
  <2>1. CASE e = d /\ x = j
    <3>1. /\ htlcs'[e][x].prev = c /\ htlcs'[e][x].prev_idx = i
          /\ htlcs'[e][x].tag = h.tag /\ g.fin_delhtlc = "NONE"
      BY <2>1, <1>3, <1>4
    <3> QED BY <3>1, <1>1, <1>2 DEF Source, Alive, Recv
  <2>2. CASE e # d \/ x # j
    <3> DEFINE a == htlcs[e][x].prev
               b == htlcs[e][x].prev_idx
    <3>1. /\ Live(htlcs[e][x]) /\ htlcs'[e][x].tag = htlcs[e][x].tag
          /\ htlcs[e][x].tag # h.tag
          /\ htlcs'[e][x].prev = a /\ htlcs'[e][x].prev_idx = b
      BY <2>2, <1>8
    <3>2. a \in Cnl /\ b \in Slot
      BY <3>1, <1>5 DEF Live, Copy, HtlcType
    <3>3. Alive(htlcs[a][b]) /\ htlcs[a][b].tag = htlcs[e][x].tag
      BY <3>1 DEF Paired, Sources, Source
    <3> HIDE DEF a, b
    <3>4. htlcs'[a][b] = htlcs[a][b]
      BY <3>1, <3>2, <3>3, <1>7
    <3> QED BY <3>1, <3>3, <3>4 DEF Source, Alive, Recv
  <2> QED BY <2>1, <2>2
<1>10. CopiedOnce'
  <2> SUFFICES ASSUME NEW e \in Cnl, NEW f \in Cnl, NEW x \in Slot, NEW y \in Slot,
                      Live(htlcs'[e][x]), Live(htlcs'[f][y]),
                      htlcs'[e][x].tag = htlcs'[f][y].tag
               PROVE  e = f /\ x = y
    BY DEF CopiedOnce, Live, Copy
  <2>1. CASE (e = d /\ x = j) /\ (f # d \/ y # j)
    BY <2>1, <1>3, <1>4, <1>8
  <2>2. CASE (e # d \/ x # j) /\ (f = d /\ y = j)
    BY <2>2, <1>3, <1>4, <1>8
  <2>3. CASE (e # d \/ x # j) /\ (f # d \/ y # j)
    BY <2>3, <1>8 DEF Paired, CopiedOnce
  <2> QED BY <2>1, <2>2, <2>3
<1>11. Returning'
  <2> SUFFICES ASSUME NEW e \in Cnl, Resolves(e)' PROVE Returns(e)'
    BY DEF Returning
  <2> DEFINE x == pending[e].to
             y == pending[e].idx
  <2>1. e # c /\ pending'[e] = pending[e] /\ Resolves(e)
    BY DEF Resolves
  <2>2. Returns(e) /\ x \in Cnl /\ y \in Slot /\ Alive(htlcs[x][y])
    BY <2>1, <1>5 DEF Paired, Returning, Returns
  <2>3. htlcs[x][y].tag # h.tag
    BY <2>2, <1>1 DEF Returns
  <2>4. htlcs'[x][y] = htlcs[x][y]
    BY <2>2, <2>3, <1>7
  <2>5. \A f \in Cnl, z \in Slot :
            Live(htlcs'[f][z]) => htlcs'[f][z].tag # htlcs[x][y].tag
    <3> SUFFICES ASSUME NEW f \in Cnl, NEW z \in Slot, Live(htlcs'[f][z])
                 PROVE  htlcs'[f][z].tag # htlcs[x][y].tag
      OBVIOUS
    <3>1. CASE f = d /\ z = j
      BY <3>1, <2>3, <1>3, <1>4
    <3>2. CASE f # d \/ z # j
      BY <3>2, <2>2, <1>8 DEF Returns
    <3> QED BY <3>1, <3>2
  <2>6. \A f \in Cnl : f # e =>
            pending'[f] = pending[f] \/ pending'[f].op \notin {"fulfill", "fail"}
    OBVIOUS
  <2>7. x = pending[e].to /\ y = pending[e].idx
    OBVIOUS
  <2> HIDE DEF x, y
  <2> QED BY <2>1, <2>2, <2>4, <2>5, <2>6, <2>7, ReturnsKept
<1>12. Claimed'
  <2> SUFFICES ASSUME NEW e \in Cnl, NEW x \in Slot, Recv(htlcs'[e][x]),
                      htlcs'[e][x].delhtlc = "FULFILL"
               PROVE  outcome'[htlcs'[e][x].tag] = "FULFILL"
    BY DEF Claimed, Recv
  <2>1. e # d \/ x # j
    BY <1>3, <1>4 DEF Recv
  <2>2. /\ htlcs'[e][x].tag = htlcs[e][x].tag /\ Recv(htlcs[e][x])
        /\ htlcs[e][x].delhtlc = "FULFILL"
    BY <2>1, <1>6
  <2> QED BY <2>2 DEF Paired, Claimed
<1> QED BY <1>9, <1>10, <1>11, <1>12 DEF Paired

\* cbsub_add_htlc_forward: copied, refused, or, once a connection is lost, without
\* a next channel.
LEMMA AddStep ==
    ASSUME TypeOK, NEW c \in Cnl, AddForward(c)
    PROVE  /\ TypeOK' /\ lost' = lost /\ strayed' = strayed
           /\ Order => Order'
           /\ Order /\ Paired => Paired'
<1> DEFINE d == pending[c].to
           i == pending[c].idx
           h == htlcs[c][i]
           k == [EmptyHtlc EXCEPT !.tag = h.tag, !.cltv_expiry = pending[c].cltv,
                                  !.prev = c, !.prev_idx = i]
<1>1. /\ htlcs \in [Cnl -> [Slot -> HtlcType]] /\ pending \in [Cnl -> PendingType]
      /\ i \in Slot /\ h \in HtlcType /\ pending[c].cltv \in Cltvs \cup {0}
  BY DEF TypeOK, PendingType
<1>2. /\ pending[c].op = "add" /\ pending' = [pending EXCEPT ![c] = Free]
      /\ UNCHANGED <<saved, online, outcome, strayed, lost>> /\ preimage' = NoCnl
  BY DEF AddForward
<1>3. /\ pending' \in [Cnl -> PendingType] /\ pending'[c].op = "idle"
      /\ \A e \in Cnl : e # c => pending'[e] = pending[e]
  BY <1>2, FreeFacts, SetPending
<1>4. ASSUME htlcs' \in [Cnl -> [Slot -> HtlcType]] PROVE TypeOK'
  BY <1>2, <1>3, <1>4 DEF TypeOK
<1>5. ASSUME Order PROVE h.next = NoCnl /\ d \in Cnl /\ Transferable(d)
  BY <1>2, <1>5 DEF Order, Adding, Adds, Transferable
<1>6. CASE Transferable(d) /\ Unlocked(d) /\
           \E j \in Slot : FreeSlot(d, j) /\
               htlcs' = [htlcs EXCEPT ![d][j] = k, ![c][i].next = d, ![c][i].next_idx = j]
  <2>1. PICK j \in Slot : FreeSlot(d, j) /\
               htlcs' = [htlcs EXCEPT ![d][j] = k, ![c][i].next = d, ![c][i].next_idx = j]
    BY <1>6
  <2> DEFINE g == [[h EXCEPT !.next = d] EXCEPT !.next_idx = j]
             m == [htlcs EXCEPT ![d][j] = k]
  <2>2. /\ d \in Cnl /\ d # c /\ Unlocked(d)
        /\ htlcs[d][j].addhtlc = "NONE" /\ htlcs[d][j].tag = 0
    BY <1>2, <1>6, <2>1 DEF Transferable, Unlocked, FreeSlot, LN_HTLC_ENABLE
  <2>3. /\ k \in HtlcType /\ k.tag = h.tag /\ k.addhtlc = "NONE"
        /\ k.delhtlc = "NONE" /\ k.done = FALSE
        /\ k.prev = c /\ k.prev_idx = i /\ k.next = NoCnl
    <3> DEFINE n == EmptyHtlc
    <3>1. /\ n \in HtlcType /\ n.addhtlc = "NONE" /\ n.delhtlc = "NONE"
          /\ n.done = FALSE /\ n.next = NoCnl
      BY EmptyFacts
    <3>2. h.tag \in Nat
      BY <1>1 DEF HtlcType
    <3>3. k = [n EXCEPT !.tag = h.tag, !.cltv_expiry = pending[c].cltv,
                        !.prev = c, !.prev_idx = i]
      OBVIOUS
    <3> HIDE DEF n, k, h, i
    <3> QED BY <3>1, <3>2, <3>3, <1>1 DEF HtlcType
  <2>4. /\ g \in HtlcType /\ g.tag = h.tag /\ g.addhtlc = h.addhtlc
        /\ g.delhtlc = h.delhtlc /\ g.fin_delhtlc = h.fin_delhtlc
        /\ g.done = h.done /\ g.prev = h.prev /\ g.prev_idx = h.prev_idx
        /\ g.next = d /\ g.next_idx = j
    <3> HIDE DEF d, h
    <3> QED BY <1>1, <2>2 DEF HtlcType
  <2> HIDE DEF k
  <2>5. /\ m \in [Cnl -> [Slot -> HtlcType]] /\ m[d][j] = k
        /\ \A e \in Cnl, x \in Slot : e # d \/ x # j => m[e][x] = htlcs[e][x]
    BY <1>1, <2>2, <2>3, SetSlot
  <2> HIDE DEF g
  <2>6. htlcs' = [m EXCEPT ![c][i] = g]
    <3>1. m[c][i] = h
      BY <2>2, <2>5, <1>1
    <3>2. htlcs' = [m EXCEPT ![c][i].next = d, ![c][i].next_idx = j]
      BY <2>1
    <3> HIDE DEF m
    <3>3. htlcs' = [m EXCEPT ![c][i] = [[m[c][i] EXCEPT !.next = d] EXCEPT !.next_idx = j]]
      BY <3>2, <2>5, <1>1
    <3> QED BY <3>1, <3>3 DEF g
  <2> HIDE DEF m
  <2>7. /\ htlcs' \in [Cnl -> [Slot -> HtlcType]] /\ htlcs'[c][i] = g
        /\ \A e \in Cnl, x \in Slot : e # c \/ x # i => htlcs'[e][x] = m[e][x]
    BY <2>4, <2>5, <2>6, <1>1, SetSlot
  <2>8. htlcs'[d][j] = k
    BY <2>2, <2>5, <2>7
  <2>9. \A e \in Cnl, x \in Slot :
            (e # c \/ x # i) /\ (e # d \/ x # j) => htlcs'[e][x] = htlcs[e][x]
    BY <2>5, <2>7
  <2>10. ASSUME Order PROVE AddAt(c, i, g)
    <3>1. g.fin_delhtlc = "NONE"
      BY <2>4, <2>10, <1>2 DEF Order, Adding, Adds
    <3> HIDE DEF h, d, i
    <3> QED BY <3>1, <2>2, <2>3, <2>4, <2>7, <2>8, <2>9 DEF AddAt, h
  <2> HIDE DEF g, h, d
  <2>11. ASSUME Order PROVE Order'
    BY <2>10, <2>11, <1>1, <1>2, <1>3, AddOrder
  <2>12. ASSUME Order, Paired PROVE Paired'
    BY <2>10, <2>12, <1>1, <1>2, <1>3, AddPaired
  <2> QED BY <2>7, <2>11, <2>12, <1>2, <1>4
<1>7. CASE Transferable(d) /\ Unlocked(d)
           /\ htlcs' = Set(c, i, [h EXCEPT !.fin_delhtlc = "FAIL"])
  <2> DEFINE g == [h EXCEPT !.fin_delhtlc = "FAIL"]
  <2>1. /\ g \in HtlcType /\ g.tag = h.tag /\ g.addhtlc = h.addhtlc
        /\ g.delhtlc = h.delhtlc /\ g.done = h.done
        /\ g.prev = h.prev /\ g.prev_idx = h.prev_idx
        /\ g.next = h.next /\ g.next_idx = h.next_idx
    BY <1>1, RefusedFacts
  <2>2. htlcs' = [htlcs EXCEPT ![c][i] = g]
    BY <1>7 DEF Set
  <2> HIDE DEF g
  <2>3. /\ htlcs' \in [Cnl -> [Slot -> HtlcType]] /\ htlcs'[c][i] = g
        /\ \A e \in Cnl, x \in Slot : e # c \/ x # i => htlcs'[e][x] = htlcs[e][x]
    BY <2>1, <2>2, <1>1, SetSlot
  <2>4. ASSUME Order PROVE AddAt(c, i, g)
    <3>1. g.next = NoCnl
      BY <2>1, <2>4, <1>5
    <3> HIDE DEF d, i
    <3> QED BY <3>1, <2>1, <2>3 DEF AddAt
  <2> HIDE DEF h, d
  <2>5. ASSUME Order PROVE Order'
    BY <2>4, <2>5, <1>1, <1>2, <1>3, AddOrder
  <2>6. ASSUME Order, Paired PROVE Paired'
    BY <2>4, <2>6, <1>1, <1>2, <1>3, AddPaired
  <2> QED BY <2>3, <2>5, <2>6, <1>2, <1>4
<1>8. CASE ~Transferable(d)
           /\ htlcs' = Set(c, i, [h EXCEPT !.fin_delhtlc = "FAIL", !.delhtlc = "FAIL"])
  <2>1. [h EXCEPT !.fin_delhtlc = "FAIL", !.delhtlc = "FAIL"] \in HtlcType
    BY <1>1 DEF HtlcType
  <2>2. htlcs' \in [Cnl -> [Slot -> HtlcType]]
    BY <2>1, <1>1, <1>8, SetSlot DEF Set
  <2> QED BY <2>2, <1>2, <1>4, <1>5, <1>8
<1> QED BY <1>6, <1>7, <1>8 DEF AddForward

----------------------------------------------------------------------------
(* The idle procedure.                                                     *)

\* recv_idle_proc_final of c: the copy of slot i, in slot j of d, is started (d
\* is NoCnl: none is), and the pass over the slots comes to its end (fin) or to
\* a later slot.
PassAt(c, i, d, j, fin) ==
    /\ pending[c].op \in {"idle", "start"}
    /\ \A x \in Enabled(c) : htlcs[c][x].done
    /\ d # NoCnl =>
          /\ d \in Cnl /\ j \in Slot /\ d # c /\ Unlocked(d)
          /\ i \in ToStart(c) /\ CopyOf(htlcs[d][j], c, i)
          /\ htlcs[d][j].addhtlc = "NONE"
          /\ Begun(htlcs[d][j], htlcs'[d][j])
          /\ fin \/ i < pending'[c].idx
    /\ \A e \in Cnl, x \in Slot :
          e # c /\ (e # d \/ x # j) => htlcs'[e][x] = htlcs[e][x]
    /\ fin => /\ \A x \in Slot : Finished(htlcs[c][x], htlcs'[c][x])
              /\ pending'[c].op = "idle"
    /\ ~fin => /\ \A x \in Slot : htlcs'[c][x] = htlcs[c][x]
               /\ pending'[c].op = "start" /\ pending'[c].idx \in ToStart(c)
               /\ \A x \in Slot : Unstarted(c, x)' => Unstarted(c, x)
    /\ \A e \in Cnl : e # c => pending'[e] = pending[e]
    /\ UNCHANGED <<online, outcome>>

\* What a pass leaves of a slot that it does not clear.
Passed(h, g) ==
    /\ g.tag = h.tag /\ g.fin_delhtlc = h.fin_delhtlc
    /\ g.prev = h.prev /\ g.prev_idx = h.prev_idx
    /\ \/ g.delhtlc = h.delhtlc /\ g.done = h.done
       \/ g.delhtlc \notin {"NONE", "FULFILL"} /\ Recv(h) /\ h.fin_delhtlc # "NONE"

\* What a pass leaves of every slot.
LEMMA PassView ==
    ASSUME TypeOK, Order, NEW c \in Cnl, NEW i, NEW d, NEW j, NEW fin \in BOOLEAN,
           PassAt(c, i, d, j, fin), NEW e \in Cnl, NEW x \in Slot
    PROVE  LET h == htlcs[e][x]
               g == htlcs'[e][x]
           IN  \/ e = c /\ g = EmptyHtlc /\ h.done /\ h.delhtlc # "NONE"
               \/ /\ Passed(h, g)
                  /\ g.addhtlc = h.addhtlc
                     \/ (e = d /\ x = j /\ h.addhtlc = "NONE" /\ g.addhtlc = "OFFER")
                  /\ \/ g.next = NoCnl
                     \/ g.next = h.next /\ g.next_idx = h.next_idx /\ (e # c \/ ~fin)
<1> DEFINE h == htlcs[e][x]
           g == htlcs'[e][x]
<1>1. /\ h \in HtlcType
      /\ h.next # NoCnl => h.fin_delhtlc = "NONE"
  BY DEF TypeOK, Order, Shapes, Shape
<1>2. CASE e = d /\ x = j
  <2>1. e # c /\ h.addhtlc = "NONE" /\ Begun(h, g)
    BY <1>2, NoCnlAssumption DEF PassAt
  <2> HIDE DEF h, g
  <2>2. Passed(h, g) /\ g.addhtlc = "OFFER" /\ g.next = h.next /\ g.next_idx = h.next_idx
    BY <2>1 DEF Begun, Passed
  <2> QED BY <2>1, <2>2, <1>2 DEF h, g
<1>3. CASE e = c /\ fin
  <2>1. Finished(h, g)
    BY <1>3 DEF PassAt
  <2> HIDE DEF h, g
  <2>2. CASE h.done /\ h.delhtlc # "NONE" /\ g = EmptyHtlc
    BY <2>2, <1>3 DEF h, g
  <2>3. CASE /\ Added(h) /\ h.fin_delhtlc # "NONE" /\ Ended(h, g) /\ g.delhtlc # "FULFILL"
             /\ g = h \/ g.delhtlc # "NONE"
    <3>1. Passed(h, g) /\ g.addhtlc = h.addhtlc /\ g.next = NoCnl
      BY <2>3, <1>1 DEF Passed, Added, Ended, Recv
    <3> QED BY <3>1 DEF h, g
  <2>4. CASE /\ g.tag = h.tag /\ g.addhtlc = h.addhtlc /\ g.fin_delhtlc = h.fin_delhtlc
             /\ g.delhtlc = h.delhtlc /\ g.done = h.done
             /\ g.prev = h.prev /\ g.prev_idx = h.prev_idx
             /\ g.next = NoCnl
    BY <2>4 DEF Passed, h, g
  <2> QED BY <2>1, <2>2, <2>3, <2>4 DEF Finished
<1>4. CASE (e # d \/ x # j) /\ (e # c \/ ~fin)
  <2>1. g = h
    BY <1>4 DEF PassAt
  <2> QED BY <2>1, <1>4 DEF Passed
<1> QED BY <1>2, <1>3, <1>4

\* A copy is started from a slot that is exchanged, and the pass goes on behind it;
\* at its end no slot of c points at a copy.
LEMMA PassOrder ==
    ASSUME TypeOK, Order, NEW c \in Cnl, NEW i, NEW d, NEW j, NEW fin \in BOOLEAN,
           PassAt(c, i, d, j, fin)
    PROVE  Order'
<1>1. ASSUME d # NoCnl
      PROVE  /\ d \in Cnl /\ j \in Slot /\ d # c /\ pending[d].op = "idle"
             /\ i \in Slot /\ Recv(htlcs[c][i]) /\ htlcs[c][i].done
             /\ htlcs[d][j].prev = c /\ htlcs[d][j].prev_idx = i
             /\ htlcs[d][j].addhtlc = "NONE"
             /\ fin \/ (pending'[c].op = "start" /\ i < pending'[c].idx)
  BY <1>1 DEF PassAt, Unlocked, ToStart, Added, CopyOf, Enabled, LN_HTLC_ENABLE, Recv
<1>2. \A e \in Cnl : e = d => d # NoCnl
  BY NoCnlAssumption
<1>3. /\ \A e \in Cnl, x \in Slot : htlcs[e][x] \in HtlcType
      /\ \A e \in Cnl : pending[e].idx \in Slot
  BY DEF TypeOK, PendingType
<1>4. /\ UNCHANGED <<online, outcome>>
      /\ pending[c].op \in {"idle", "start"}
      /\ \A e \in Cnl : e # c => pending'[e] = pending[e]
      /\ fin => pending'[c].op = "idle"
      /\ ~fin => /\ pending'[c].op = "start" /\ pending'[c].idx \in ToStart(c)
                 /\ \A x \in Slot : htlcs'[c][x] = htlcs[c][x]
                 /\ \A x \in Slot : Unstarted(c, x)' => Unstarted(c, x)
      /\ \A x \in Enabled(c) : htlcs[c][x].done
  BY DEF PassAt
<1>5. ASSUME NEW e \in Cnl, NEW x \in Slot
      PROVE  \/ /\ e = c /\ htlcs'[e][x].tag = 0 /\ htlcs'[e][x].addhtlc = "NONE"
                /\ htlcs'[e][x].prev = NoCnl /\ htlcs'[e][x].next = NoCnl
                /\ htlcs[e][x].done /\ htlcs[e][x].delhtlc # "NONE"
             \/ /\ htlcs'[e][x].tag = htlcs[e][x].tag
                /\ htlcs'[e][x].fin_delhtlc = htlcs[e][x].fin_delhtlc
                /\ htlcs'[e][x].prev = htlcs[e][x].prev
                /\ htlcs'[e][x].prev_idx = htlcs[e][x].prev_idx
                /\ \/ /\ htlcs'[e][x].delhtlc = htlcs[e][x].delhtlc
                      /\ htlcs'[e][x].done = htlcs[e][x].done
                   \/ htlcs'[e][x].delhtlc # "NONE" /\ Recv(htlcs[e][x])
                /\ \/ htlcs'[e][x].addhtlc = htlcs[e][x].addhtlc
                   \/ /\ e = d /\ x = j /\ htlcs[e][x].addhtlc = "NONE"
                      /\ htlcs'[e][x].addhtlc = "OFFER"
                /\ \/ htlcs'[e][x].next = NoCnl
                   \/ /\ htlcs'[e][x].next = htlcs[e][x].next
                      /\ htlcs'[e][x].next_idx = htlcs[e][x].next_idx
                      /\ e # c \/ ~fin
  <2> DEFINE h == htlcs[e][x]
             g == htlcs'[e][x]
  <2>1. \/ e = c /\ g = EmptyHtlc /\ h.done /\ h.delhtlc # "NONE"
        \/ /\ Passed(h, g)
           /\ g.addhtlc = h.addhtlc
              \/ (e = d /\ x = j /\ h.addhtlc = "NONE" /\ g.addhtlc = "OFFER")
           /\ \/ g.next = NoCnl
              \/ g.next = h.next /\ g.next_idx = h.next_idx /\ (e # c \/ ~fin)
    BY PassView
  <2> HIDE DEF h, g
  <2>2. CASE e = c /\ g = EmptyHtlc /\ h.done /\ h.delhtlc # "NONE"
    BY <2>2, EmptyFacts DEF h, g
  <2>3. CASE /\ Passed(h, g)
             /\ g.addhtlc = h.addhtlc
                \/ (e = d /\ x = j /\ h.addhtlc = "NONE" /\ g.addhtlc = "OFFER")
             /\ \/ g.next = NoCnl
                \/ g.next = h.next /\ g.next_idx = h.next_idx /\ (e # c \/ ~fin)
    BY <2>3 DEF Passed, h, g
  <2> QED BY <2>1, <2>2, <2>3
\* What the other steps need of it.
<1>6. ASSUME NEW e \in Cnl, NEW x \in Slot, htlcs'[e][x].tag # 0
      PROVE  /\ htlcs'[e][x].tag = htlcs[e][x].tag
             /\ htlcs'[e][x].prev = htlcs[e][x].prev
             /\ htlcs'[e][x].prev_idx = htlcs[e][x].prev_idx
             /\ Recv(htlcs'[e][x]) <=> Recv(htlcs[e][x])
             /\ Copy(htlcs'[e][x]) <=> Copy(htlcs[e][x])
  BY <1>5, <1>6 DEF Recv, Copy
<1>7. ASSUME NEW e \in Cnl, NEW x \in Slot, Recv(htlcs'[e][x]) \/ Copy(htlcs'[e][x])
      PROVE  htlcs'[e][x].tag # 0
  <2>1. htlcs[e][x].tag = htlcs'[e][x].tag /\ (Recv(htlcs[e][x]) \/ Copy(htlcs[e][x]))
    BY <1>5, <1>7 DEF Recv, Copy
  <2> QED BY <2>1 DEF Order, Shapes, Shape
<1>8. Shapes'
  <2> SUFFICES ASSUME NEW e \in Cnl, NEW x \in Slot PROVE Shape(htlcs[e][x])'
    BY DEF Shapes
  <2>1. Shape(htlcs[e][x])
    BY DEF Order, Shapes
  <2>2. CASE e = d /\ x = j
    <3>1. Copy(htlcs[e][x]) /\ htlcs[e][x].addhtlc = "NONE" /\ e # c
      BY <2>2, <1>1, <1>2, NoCnlAssumption DEF Copy
    <3> QED BY <2>1, <3>1, <1>4, <1>5 DEF Shape, Recv, Copy
  <2>3. CASE e # d \/ x # j
    BY <2>1, <2>3, <1>4, <1>5 DEF Shape, Recv, Copy
  <2> QED BY <2>2, <2>3
<1>9. Tags'
  <2> SUFFICES ASSUME NEW e \in Cnl, NEW f \in Cnl, NEW x \in Slot, NEW y \in Slot,
                      Recv(htlcs'[e][x]), htlcs'[f][y].tag = htlcs'[e][x].tag
               PROVE  /\ Recv(htlcs'[f][y]) => e = f /\ x = y
                      /\ Copy(htlcs'[f][y]) => CopyOf(htlcs[f][y], e, x)'
    BY DEF Tags, Recv, Copy, CopyOf
  <2>1. htlcs'[e][x].tag # 0
    BY <1>7
  <2> QED BY <2>1, <1>6 DEF Order, Tags, CopyOf
<1>10. Waiting'
  <2> SUFFICES ASSUME NEW e \in Cnl, NEW x \in Slot, htlcs'[e][x].next # NoCnl,
                      Unstarted(e, x)'
               PROVE  LET w == htlcs'[htlcs'[e][x].next][htlcs'[e][x].next_idx]
                      IN  CopyOf(htlcs[htlcs[e][x].next][htlcs[e][x].next_idx], e, x)'
                          /\ w.addhtlc = "NONE"
    BY DEF Waiting, WaitsFor
  <2> DEFINE a == htlcs[e][x].next
             b == htlcs[e][x].next_idx
  <2>1. /\ htlcs'[e][x].next = a /\ htlcs'[e][x].next_idx = b /\ (e # c \/ ~fin)
        /\ htlcs'[e][x].tag = htlcs[e][x].tag /\ a # NoCnl
    BY <1>5
  <2>2. Unstarted(e, x)
    BY <2>1, <1>4 DEF Unstarted
  <2>3. CopyOf(htlcs[a][b], e, x) /\ htlcs[a][b].addhtlc = "NONE"
    BY <2>1, <2>2 DEF Order, Waiting, WaitsFor
  <2>4. a \in Cnl /\ b \in Slot
    BY <2>1, <1>3 DEF HtlcType
  <2>5. Copy(htlcs[a][b]) /\ ~htlcs[a][b].done
    <3>1. Copy(htlcs[a][b])
      BY <2>3, NoCnlAssumption DEF CopyOf, Copy
    <3> QED BY <3>1, <2>3, <2>4 DEF Order, Shapes, Shape
  <2>6. a # d \/ b # j
    BY <2>1, <2>3, <2>4, <1>1, <1>2 DEF CopyOf, Unstarted
  <2> HIDE DEF a, b
  <2>7. /\ htlcs'[a][b].tag = htlcs[a][b].tag /\ htlcs'[a][b].prev = htlcs[a][b].prev
        /\ htlcs'[a][b].prev_idx = htlcs[a][b].prev_idx
        /\ htlcs'[a][b].addhtlc = "NONE"
    BY <2>3, <2>4, <2>5, <2>6, <1>5
  <2> QED BY <2>1, <2>3, <2>7 DEF CopyOf
<1>11. Adding'
  <2> SUFFICES ASSUME NEW e \in Cnl, pending'[e].op \in {"preimage", "add"} PROVE Adds(e)'
    BY DEF Adding
  <2> DEFINE x == htlcs[e][pending[e].idx]
  <2>1. e # c /\ pending'[e] = pending[e]
    BY <1>4
  <2>2. Adds(e) /\ pending[e].idx \in Slot /\ e # d
    <3>1. Adds(e)
      BY <2>1 DEF Order, Adding
    <3>2. e # d
      BY <2>1, <1>1, <1>2
    <3> QED BY <3>1, <3>2, <1>3
  <2>3. htlcs'[e][pending'[e].idx] = x
    BY <2>1, <2>2 DEF PassAt
  <2>4. \A f \in Cnl, y \in Slot : Copy(htlcs'[f][y]) => htlcs'[f][y].tag # x.tag
    BY <2>2, <1>6, <1>7 DEF Adds
  <2> HIDE DEF x
  <2> QED BY <2>1, <2>2, <2>3, <2>4, <1>4 DEF Adds, Recv, Copy, x
<1>12. Starting'
  <2> SUFFICES ASSUME NEW e \in Cnl, pending'[e].op = "start"
               PROVE  /\ pending'[e].idx \in ToStart(e)'
                      /\ \A x \in Enabled(e)' : htlcs'[e][x].done
    BY DEF Starting
  <2>1. CASE e = c
    <3>1. /\ \A x \in Slot : htlcs'[e][x] = htlcs[e][x]
          /\ pending'[e].idx \in ToStart(e)
          /\ \A x \in Enabled(e) : htlcs[e][x].done
      BY <2>1, <1>4
    <3> QED BY <3>1 DEF ToStart, Enabled
  <2>2. CASE e # c
    <3>1. pending'[e] = pending[e] /\ e # d
      BY <2>2, <1>1, <1>2, <1>4
    <3>2. \A x \in Slot : htlcs'[e][x] = htlcs[e][x]
      BY <2>2, <3>1 DEF PassAt
    <3> QED BY <3>1, <3>2 DEF Order, Starting, ToStart, Enabled
  <2> QED BY <2>1, <2>2
<1>13. Offered'
  <2> SUFFICES ASSUME NEW e \in Cnl, NEW x \in Slot, htlcs'[e][x].addhtlc = "OFFER"
               PROVE OfferedFrom(htlcs[e][x])'
    BY DEF Offered, OfferedFrom
  <2> DEFINE o == htlcs[e][x]
             a == o.prev
             b == o.prev_idx
  <2>1. /\ htlcs'[e][x].tag = o.tag /\ htlcs'[e][x].prev = a /\ htlcs'[e][x].prev_idx = b
        /\ o.addhtlc = "OFFER" \/ (e = d /\ x = j)
    BY <1>5
  <2>2. CASE e = d /\ x = j
    <3>1. /\ a = c /\ b = i /\ i \in Slot /\ c # d
          /\ Recv(htlcs[c][i]) /\ htlcs[c][i].done
      BY <2>2, <1>1, <1>2
    <3>2. o.tag # 0
      BY <3>1, NoCnlAssumption DEF Order, Shapes, Shape, Copy
    <3>3. htlcs'[c][i].tag = o.tag /\ htlcs'[c][i].delhtlc = "NONE" =>
              Recv(htlcs'[c][i]) /\ htlcs'[c][i].done
      BY <3>1, <3>2, <1>5 DEF Recv
    <3> QED BY <2>1, <3>1, <3>3 DEF OfferedFrom, Source, Recv
  <2>3. CASE o.addhtlc = "OFFER"
    <3>1. a \in Cnl /\ b \in Slot /\ o.tag # 0
      BY <2>3, <1>3 DEF Order, Shapes, Shape, Copy, HtlcType
    <3>2. htlcs[a][b].tag = o.tag /\ htlcs[a][b].delhtlc = "NONE" =>
              Recv(htlcs[a][b]) /\ htlcs[a][b].done
      BY <2>3 DEF Order, Offered, OfferedFrom, Source
    <3> HIDE DEF a, b, o
    <3>3. htlcs'[a][b].tag = o.tag /\ htlcs'[a][b].delhtlc = "NONE" =>
              Recv(htlcs'[a][b]) /\ htlcs'[a][b].done
      BY <3>1, <3>2, <1>5 DEF Recv
    <3> QED BY <2>1, <3>3 DEF OfferedFrom, Source, Recv
  <2> QED BY <2>1, <2>2, <2>3
<1> QED BY <1>4, <1>8, <1>9, <1>10, <1>11, <1>12, <1>13 DEF Order

\* A pass clears slots whose end is done with and ends received HTLCs that failed
\* here: no copy has one of those as its source.
LEMMA PassPaired ==
    ASSUME TypeOK, Order, Paired, NEW c \in Cnl, NEW i, NEW d, NEW j, NEW fin \in BOOLEAN,
           PassAt(c, i, d, j, fin)
    PROVE  Paired'
<1>1. /\ \A e \in Cnl, x \in Slot : htlcs[e][x] \in HtlcType
      /\ \A e \in Cnl : pending[e].idx \in Slot
  BY DEF TypeOK, PendingType
<1>2. /\ outcome' = outcome /\ pending'[c].op \in {"idle", "start"}
      /\ \A e \in Cnl : e # c => pending'[e] = pending[e]
  BY DEF PassAt
<1>3. ASSUME NEW e \in Cnl, NEW x \in Slot
      PROVE  \/ /\ htlcs'[e][x].addhtlc = "NONE" /\ htlcs'[e][x].prev = NoCnl
                /\ htlcs[e][x].delhtlc # "NONE"
             \/ /\ Passed(htlcs[e][x], htlcs'[e][x])
                /\ Recv(htlcs'[e][x]) <=> Recv(htlcs[e][x])
  <2> DEFINE h == htlcs[e][x]
             g == htlcs'[e][x]
  <2>1. \/ e = c /\ g = EmptyHtlc /\ h.done /\ h.delhtlc # "NONE"
        \/ /\ Passed(h, g)
           /\ g.addhtlc = h.addhtlc
              \/ (e = d /\ x = j /\ h.addhtlc = "NONE" /\ g.addhtlc = "OFFER")
    BY PassView
  <2> HIDE DEF h, g
  <2>2. CASE g = EmptyHtlc /\ h.delhtlc # "NONE"
    BY <2>2, EmptyFacts DEF h, g
  <2>3. CASE Passed(h, g) /\ (g.addhtlc = h.addhtlc
                              \/ (h.addhtlc = "NONE" /\ g.addhtlc = "OFFER"))
    BY <2>3 DEF h, g, Recv
  <2> QED BY <2>1, <2>2, <2>3
<1>4. ASSUME NEW e \in Cnl, NEW x \in Slot, Alive(htlcs[e][x])
      PROVE  Alive(htlcs'[e][x]) /\ htlcs'[e][x].tag = htlcs[e][x].tag
  BY <1>3, <1>4 DEF Alive, Passed
<1>5. ASSUME NEW e \in Cnl, NEW x \in Slot, Live(htlcs'[e][x])
      PROVE  /\ Live(htlcs[e][x]) /\ htlcs'[e][x].tag = htlcs[e][x].tag
             /\ htlcs'[e][x].prev = htlcs[e][x].prev
             /\ htlcs'[e][x].prev_idx = htlcs[e][x].prev_idx
  BY <1>3, <1>5 DEF Live, Copy, Passed
<1>6. Sources'
  <2> SUFFICES ASSUME NEW e \in Cnl, NEW x \in Slot, Live(htlcs'[e][x])
               PROVE  /\ Alive(Source(htlcs[e][x]))'
                      /\ Source(htlcs[e][x])'.tag = htlcs'[e][x].tag
    BY DEF Sources
  <2> DEFINE a == htlcs[e][x].prev
             b == htlcs[e][x].prev_idx
  <2>1. /\ Live(htlcs[e][x]) /\ htlcs'[e][x].tag = htlcs[e][x].tag
        /\ htlcs'[e][x].prev = a /\ htlcs'[e][x].prev_idx = b
    BY <1>5
  <2>2. a \in Cnl /\ b \in Slot
    BY <2>1, <1>1 DEF Live, Copy, HtlcType
  <2>3. Alive(htlcs[a][b]) /\ htlcs[a][b].tag = htlcs[e][x].tag
    BY <2>1 DEF Paired, Sources, Source
  <2> HIDE DEF a, b
  <2>4. Alive(htlcs'[a][b]) /\ htlcs'[a][b].tag = htlcs[a][b].tag
    BY <2>2, <2>3, <1>4
  <2> QED BY <2>1, <2>3, <2>4 DEF Source, Alive, Recv
<1>7. CopiedOnce'
  <2> SUFFICES ASSUME NEW e \in Cnl, NEW f \in Cnl, NEW x \in Slot, NEW y \in Slot,
                      Live(htlcs'[e][x]), Live(htlcs'[f][y]),
                      htlcs'[e][x].tag = htlcs'[f][y].tag
               PROVE  e = f /\ x = y
    BY DEF CopiedOnce, Live, Copy
  <2> QED BY <1>5 DEF Paired, CopiedOnce
<1>8. Returning'
  <2> SUFFICES ASSUME NEW e \in Cnl, Resolves(e)' PROVE Returns(e)'
    BY DEF Returning
  <2> DEFINE x == pending[e].to
             y == pending[e].idx
  <2>1. e # c /\ pending'[e] = pending[e] /\ Resolves(e)
    BY <1>2 DEF Resolves
  <2>2. Returns(e) /\ x \in Cnl /\ y \in Slot /\ Alive(htlcs[x][y])
    BY <2>1, <1>1 DEF Paired, Returning, Returns
  <2>3. Alive(htlcs'[x][y]) /\ htlcs'[x][y].tag = htlcs[x][y].tag
    BY <2>2, <1>4
  <2>4. \A f \in Cnl, z \in Slot :
            Live(htlcs'[f][z]) => htlcs'[f][z].tag # htlcs[x][y].tag
    BY <2>2, <1>5 DEF Returns
  <2>5. \A f \in Cnl : f # e =>
            pending'[f] = pending[f] \/ pending'[f].op \notin {"fulfill", "fail"}
    BY <1>2
  <2>6. x = pending[e].to /\ y = pending[e].idx
    OBVIOUS
  <2> HIDE DEF x, y
  <2> QED BY <2>1, <2>2, <2>3, <2>4, <2>5, <2>6, <1>2, ReturnsKept
<1>9. Claimed'
  <2> SUFFICES ASSUME NEW e \in Cnl, NEW x \in Slot, Recv(htlcs'[e][x]),
                      htlcs'[e][x].delhtlc = "FULFILL"
               PROVE  outcome'[htlcs'[e][x].tag] = "FULFILL"
    BY DEF Claimed, Recv
  <2>1. /\ Recv(htlcs[e][x]) /\ htlcs[e][x].delhtlc = "FULFILL"
        /\ htlcs'[e][x].tag = htlcs[e][x].tag
    BY <1>3 DEF Recv, Passed
  <2> QED BY <2>1, <1>2 DEF Paired, Claimed
<1> QED BY <1>6, <1>7, <1>8, <1>9 DEF Paired

\* recv_idle_proc_final at its end: every slot of c is finished, the others stay.
LEMMA FinishFacts ==
    ASSUME TypeOK, NEW c \in Cnl, NEW hs \in [Cnl -> [Slot -> HtlcType]],
           FinishIdle(c, hs)
    PROVE  /\ htlcs' \in [Cnl -> [Slot -> HtlcType]]
           /\ saved' \in [Cnl -> [Slot -> HtlcType]]
           /\ pending' \in [Cnl -> PendingType] /\ pending'[c].op = "idle"
           /\ \A e \in Cnl : e # c => pending'[e] = pending[e]
           /\ \A x \in Slot : Finished(hs[c][x], htlcs'[c][x])
           /\ \A e \in Cnl, x \in Slot : e # c => htlcs'[e][x] = hs[e][x]
<1> DEFINE f == [x \in Slot |-> FinalHtlc(hs[c][x])]
<1>1. \A x \in Slot : /\ FinalHtlc(hs[c][x]) \in HtlcType
                      /\ Finished(hs[c][x], FinalHtlc(hs[c][x]))
  BY FinishedFacts
<1>2. /\ f \in [Slot -> HtlcType]
      /\ \A x \in Slot : Finished(hs[c][x], f[x])
  BY <1>1
<1>3. /\ htlcs' = [hs EXCEPT ![c] = f] /\ saved' = [saved EXCEPT ![c] = htlcs'[c]]
      /\ pending' = [pending EXCEPT ![c] = Free]
  BY DEF FinishIdle
<1> HIDE DEF f
<1>4. /\ htlcs' \in [Cnl -> [Slot -> HtlcType]] /\ htlcs'[c] = f
      /\ \A e \in Cnl : e # c => htlcs'[e] = hs[e]
  BY <1>2, <1>3
<1>5. saved' \in [Cnl -> [Slot -> HtlcType]]
  BY <1>3, <1>4 DEF TypeOK
<1>6. /\ pending' \in [Cnl -> PendingType] /\ pending'[c].op = "idle"
      /\ \A e \in Cnl : e # c => pending'[e] = pending[e]
  BY <1>3, FreeFacts, SetPending
<1> QED BY <1>2, <1>4, <1>5, <1>6

\* The idle procedure begins: it has nothing to start, or it comes to the first slot.
LEMMA IdleStep ==
    ASSUME TypeOK, NEW c \in Cnl, IdleFinal(c)
    PROVE  /\ TypeOK' /\ lost' = lost /\ strayed' = strayed
           /\ Order => Order'
           /\ Order /\ Paired => Paired'
<1>1. /\ htlcs \in [Cnl -> [Slot -> HtlcType]] /\ saved \in [Cnl -> [Slot -> HtlcType]]
      /\ pending[c].op = "idle" /\ \A x \in Enabled(c) : htlcs[c][x].done
      /\ UNCHANGED <<online, preimage, outcome, strayed, lost>>
  BY DEF TypeOK, IdleFinal, Unlocked, Final
<1>2. CASE ToStart(c) = {}
  <2>1. FinishIdle(c, htlcs)
    BY <1>2 DEF IdleFinal
  <2>2. TypeOK'
    BY <1>1, <2>1, FinishFacts DEF TypeOK
  <2>3. PassAt(c, 0, NoCnl, 0, TRUE)
    BY <1>1, <2>1, FinishFacts DEF PassAt
  <2> QED BY <2>2, <2>3, <1>1, PassOrder, PassPaired
<1>3. CASE ToStart(c) # {}
  <2> DEFINE k == CHOOSE x \in ToStart(c) : \A y \in ToStart(c) : x <= y
             P == [Free EXCEPT !.op = "start", !.idx = k]
  <2>1. pending' = [pending EXCEPT ![c] = P] /\ UNCHANGED <<htlcs, saved>>
    BY <1>3 DEF IdleFinal
  <2>2. k \in ToStart(c)
    BY <1>3, FirstSlot DEF ToStart
  <2> HIDE DEF k
  <2>3. P \in PendingType /\ P.op = "start" /\ P.idx = k
    BY <2>2 DEF Free, PendingType, ToStart
  <2> HIDE DEF P
  <2>4. /\ pending' \in [Cnl -> PendingType] /\ pending'[c] = P
        /\ \A e \in Cnl : e # c => pending'[e] = pending[e]
    BY <2>1, <2>3, SetPending
  <2>5. TypeOK'
    BY <2>1, <2>4, <1>1 DEF TypeOK
  <2>6. \A x \in Slot : Unstarted(c, x)
    BY <1>1 DEF Unstarted
  <2>7. PassAt(c, 0, NoCnl, 0, FALSE)
    BY <2>1, <2>2, <2>3, <2>4, <2>6, <1>1 DEF PassAt
  <2> QED BY <2>5, <2>7, <1>1, PassOrder, PassPaired
<1> QED BY <1>2, <1>3

\* cb_fwd_addhtlc_start: one copy is started, then the next slot or the end.
LEMMA StartStep ==
    ASSUME TypeOK, NEW c \in Cnl, StartForward(c)
    PROVE  /\ TypeOK' /\ lost' = lost /\ strayed' = strayed
           /\ Order => Order'
           /\ Order /\ Paired => Paired'
<1> DEFINE i == pending[c].idx
           d == htlcs[c][i].next
           j == htlcs[c][i].next_idx
           g == [htlcs[d][j] EXCEPT !.addhtlc = "OFFER"]
           hs == IF Transferable(d) THEN [htlcs EXCEPT ![d][j].addhtlc = "OFFER"] ELSE htlcs
           rest == {k \in ToStart(c) : k > i}
<1>1. /\ htlcs \in [Cnl -> [Slot -> HtlcType]] /\ saved \in [Cnl -> [Slot -> HtlcType]]
      /\ i \in Slot /\ j \in Slot /\ pending[c] \in PendingType
  BY DEF TypeOK, PendingType, HtlcType
<1>2. /\ pending[c].op = "start" /\ (Transferable(d) => Unlocked(d))
      /\ UNCHANGED <<online, preimage, outcome, strayed, lost>>
      /\ rest = {} => FinishIdle(c, hs)
      /\ rest # {} =>
            /\ htlcs' = hs /\ saved' = saved
            /\ pending' = [pending EXCEPT ![c].idx =
                             CHOOSE k \in rest : \A l \in rest : k <= l]
  BY DEF StartForward
<1>3. /\ hs \in [Cnl -> [Slot -> HtlcType]]
      /\ ~Transferable(d) => hs = htlcs
      /\ Transferable(d) => /\ d \in Cnl /\ d # c
                            /\ Begun(htlcs[d][j], hs[d][j])
                            /\ \A e \in Cnl, x \in Slot :
                                  e # d \/ x # j => hs[e][x] = htlcs[e][x]
  <2>1. CASE ~Transferable(d)
    BY <2>1, <1>1
  <2>2. CASE Transferable(d)
    <3>1. d \in Cnl /\ d # c
      BY <2>2, <1>2 DEF Transferable, Unlocked
    <3>2. Begun(htlcs[d][j], g) /\ g \in HtlcType
      <4>1. htlcs[d][j] \in HtlcType
        BY <3>1, <1>1
      <4>2. Begun(htlcs[d][j], g)
        BY <4>1, BegunFacts
      <4> QED BY <4>2 DEF Begun
    <3>3. hs = [htlcs EXCEPT ![d][j] = g]
      BY <2>2, <3>1, <1>1
    <3> HIDE DEF g, hs, d, j
    <3> QED BY <2>2, <3>1, <3>2, <3>3, <1>1, SetSlot
  <2> QED BY <2>1, <2>2
<1> HIDE DEF hs
<1>4. ASSUME Order
      PROVE  /\ i \in ToStart(c) /\ \A x \in Enabled(c) : htlcs[c][x].done
             /\ d # NoCnl /\ d \in Cnl /\ Transferable(d)
             /\ CopyOf(htlcs[d][j], c, i) /\ htlcs[d][j].addhtlc = "NONE"
  <2>1. i \in ToStart(c) /\ \A x \in Enabled(c) : htlcs[c][x].done
    BY <1>2, <1>4 DEF Order, Starting
  <2>2. d # NoCnl /\ d \in Cnl
    BY <2>1, <1>1 DEF ToStart, HtlcType
  <2>3. Unstarted(c, i)
    <3>1. ~(i < i)
      BY <1>1, FwdAssumption DEF Slot
    <3> QED BY <3>1 DEF Unstarted
  <2> QED BY <2>1, <2>2, <2>3, <1>1, <1>4 DEF Order, Waiting, WaitsFor, Transferable
<1>5. CASE rest = {}
  <2>1. FinishIdle(c, hs)
    BY <1>2, <1>5
  <2> HIDE DEF d, j, rest, g, i
  <2>2. TypeOK'
    BY <1>2, <1>3, <2>1, FinishFacts DEF TypeOK
  <2>3. ASSUME Order PROVE PassAt(c, i, d, j, TRUE)
    <3>1. /\ \A x \in Slot : hs[c][x] = htlcs[c][x]
          /\ \A e \in Cnl, x \in Slot : e # d \/ x # j => hs[e][x] = htlcs[e][x]
          /\ Begun(htlcs[d][j], hs[d][j])
      BY <2>3, <1>3, <1>4
    <3>2. /\ \A x \in Slot : Finished(hs[c][x], htlcs'[c][x])
          /\ \A e \in Cnl, x \in Slot : e # c => htlcs'[e][x] = hs[e][x]
          /\ pending'[c].op = "idle"
          /\ \A e \in Cnl : e # c => pending'[e] = pending[e]
      BY <2>1, <1>3, FinishFacts
    <3>3. \A x \in Slot : Finished(htlcs[c][x], htlcs'[c][x])
      BY <3>1, <3>2
    <3> QED BY <3>1, <3>2, <3>3, <2>3, <1>1, <1>2, <1>3, <1>4 DEF PassAt
  <2> QED BY <2>2, <2>3, <1>2, PassOrder, PassPaired
<1>6. CASE rest # {}
  <2> DEFINE k == CHOOSE k \in rest : \A l \in rest : k <= l
             P == [pending[c] EXCEPT !.idx = k]
  <2>1. htlcs' = hs /\ saved' = saved /\ pending' = [pending EXCEPT ![c] = P]
    BY <1>2, <1>6
  <2>2. k \in rest
    BY <1>6, FirstSlot DEF ToStart
  <2> HIDE DEF k
  <2>3. k \in ToStart(c) /\ k \in Slot /\ i < k
    BY <2>2, <1>1, FwdAssumption DEF ToStart, Slot
  <2>4. P \in PendingType /\ P.op = "start" /\ P.idx = k
    BY <2>3, <1>1, <1>2 DEF PendingType
  <2> HIDE DEF P
  <2>5. /\ pending' \in [Cnl -> PendingType] /\ pending'[c] = P
        /\ \A e \in Cnl : e # c => pending'[e] = pending[e]
    BY <2>1, <2>4, SetPending
  <2>6. TypeOK'
    BY <2>1, <2>5, <1>2, <1>3 DEF TypeOK
  <2>7. i < pending'[c].idx /\ \A x \in Slot : Unstarted(c, x)' => Unstarted(c, x)
    <3>1. \A x \in Slot : x < i => x < k
      BY <2>3, <1>1, FwdAssumption DEF Slot
    <3>2. pending'[c].op = "start" /\ pending'[c].idx = k /\ i = pending[c].idx
      BY <2>4, <2>5
    <3> HIDE DEF i
    <3> QED BY <3>1, <3>2, <2>3, <1>2 DEF Unstarted
  <2> HIDE DEF d, j, rest, g, i
  <2>8. ASSUME Order PROVE PassAt(c, i, d, j, FALSE)
    <3>1. /\ \A x \in Slot : htlcs'[c][x] = htlcs[c][x]
          /\ \A e \in Cnl, x \in Slot : e # d \/ x # j => htlcs'[e][x] = htlcs[e][x]
          /\ Begun(htlcs[d][j], htlcs'[d][j])
      BY <2>8, <2>1, <1>3, <1>4
    <3> QED BY <3>1, <2>3, <2>4, <2>5, <2>7, <2>8, <1>1, <1>2, <1>3, <1>4 DEF PassAt
  <2> QED BY <2>6, <2>8, <1>2, PassOrder, PassPaired
<1> QED BY <1>5, <1>6

----------------------------------------------------------------------------
(* The theorems.                                                           *)

\* recv_update_fulfill_htlc and recv_update_fail_htlc: a failure that goes to
\* another slot than it came from counts as strayed.
LEMMA EndStep ==
    ASSUME TypeOK, NEW c \in Cnl, NEW i \in Slot,
           RecvFulfillHtlc(c, i) \/ RecvFailHtlc(c, i)
    PROVE  /\ TypeOK' /\ lost' = lost
           /\ Order => Order'
           /\ Order /\ Paired /\ ~strayed' => Paired'
           /\ strayed => strayed'
<1>1. htlcs[c][i].prev_idx \in Slot /\ strayed \in BOOLEAN
  BY DEF TypeOK, HtlcType
<1>2. CASE RecvFulfillHtlc(c, i)
  <2>1. Resolve(c, i, "FULFILL", "fulfill", htlcs[c][i].prev_idx) /\ strayed' = strayed
    BY <1>2 DEF RecvFulfillHtlc
  <2> QED BY <1>1, <2>1, ResolveStep
<1>3. CASE RecvFailHtlc(c, i)
  <2>1. /\ Resolve(c, i, "FAIL", "fail", i)
        /\ strayed' = (strayed \/ htlcs[c][i].prev_idx # i)
    BY <1>3 DEF RecvFailHtlc
  <2> QED BY <1>1, <2>1, ResolveStep
<1> QED BY <1>2, <1>3

\* All slots are empty and all locks free.
LEMMA InitInvariant == Init => FwdInv
<1> SUFFICES ASSUME Init PROVE FwdInv
  OBVIOUS
<1> DEFINE E == EmptyHtlc
<1>1. /\ E \in HtlcType /\ E.tag = 0 /\ E.addhtlc = "NONE" /\ E.delhtlc = "NONE"
      /\ E.fin_delhtlc = "NONE" /\ E.done = FALSE /\ E.prev = NoCnl /\ E.next = NoCnl
  BY EmptyFacts
<1>2. /\ htlcs = [c \in Cnl |-> [i \in Slot |-> E]] /\ saved = htlcs
      /\ online = [c \in Cnl |-> TRUE] /\ pending = [c \in Cnl |-> Free]
      /\ preimage = NoCnl /\ outcome = [t \in 1 .. MaxFwd |-> "NEW"]
      /\ strayed = FALSE /\ lost = 0
  BY DEF Init
<1> HIDE DEF E
<1>3. TypeOK
  <2>1. htlcs \in [Cnl -> [Slot -> HtlcType]] /\ saved = htlcs
    BY <1>1, <1>2
  <2>2. pending \in [Cnl -> PendingType]
    BY <1>2, FreeFacts
  <2>3. lost \in 0 .. MaxOffline
    BY <1>2, FwdAssumption
  <2> QED BY <1>2, <2>1, <2>2, <2>3 DEF TypeOK
<1>4. /\ \A c \in Cnl, i \in Slot : htlcs[c][i] = E
      /\ \A c \in Cnl : pending[c].op = "idle" /\ online[c]
  BY <1>2, FreeFacts
<1>5. Shapes /\ Tags /\ Waiting /\ Offered
  BY <1>1, <1>4
  DEF Shapes, Shape, Tags, Waiting, WaitsFor, Offered, OfferedFrom, Recv, Copy
<1>6. Adding /\ Starting
  BY <1>4 DEF Adding, Starting
<1>7. Paired
  BY <1>1, <1>4
  DEF Paired, Sources, CopiedOnce, Returning, Resolves, Claimed, Live, Recv, Copy
<1> QED BY <1>3, <1>4, <1>5, <1>6, <1>7 DEF FwdInv, Order

\* One step per action; a connection that is lost ends what is claimed of the order.
LEMMA StepInvariant == FwdInv /\ [Next]_vars => FwdInv'
<1> SUFFICES ASSUME FwdInv, [Next]_vars PROVE FwdInv'
  OBVIOUS
<1>1. TypeOK /\ (lost = 0 => Order) /\ (lost = 0 /\ ~strayed => Paired)
  BY DEF FwdInv
\* A step that keeps the parts keeps the whole.
<1>2. ASSUME TypeOK', lost' = lost, strayed => strayed',
             Order => Order', Order /\ Paired /\ ~strayed' => Paired'
      PROVE  FwdInv'
  BY <1>1, <1>2 DEF FwdInv
<1>3. ASSUME NEW c \in Cnl, Receive(c) PROVE FwdInv'
  <2>1. CASE \E next \in Cnl, cltv, out \in Cltvs : RecvAddHtlc(c, next, cltv, out)
    BY <2>1, <1>1, <1>2, RecvStep
  <2>2. CASE \E i \in Slot : RecvFulfillHtlc(c, i) \/ RecvFailHtlc(c, i)
    BY <2>2, <1>1, <1>2, EndStep
  <2> QED BY <1>3, <2>1, <2>2 DEF Receive
<1>4. ASSUME NEW c \in Cnl, Callback(c) PROVE FwdInv'
  <2>1. CASE LockPreimage(c)
    BY <2>1, <1>1, <1>2, LockStep
  <2>2. CASE AddForward(c)
    BY <2>2, <1>1, <1>2, AddStep
  <2>3. CASE StartForward(c)
    BY <2>3, <1>1, <1>2, StartStep
  <2>4. CASE FulfillBackwind(c) \/ FailBackwind(c)
    BY <2>4, <1>1, <1>2, BackActions
  <2> QED BY <1>4, <2>1, <2>2, <2>3, <2>4 DEF Callback
<1>5. ASSUME NEW c \in Cnl, IdleFinal(c) PROVE FwdInv'
  BY <1>1, <1>2, <1>5, IdleStep
<1>6. ASSUME NEW c \in Cnl, NEW i \in Slot, Exchange(c, i) PROVE FwdInv'
  BY <1>1, <1>2, <1>6, ExchangeStep
<1>7. ASSUME NEW c \in Cnl, Offline(c) PROVE FwdInv'
  <2>1. /\ TypeOK' /\ lost' # 0
    BY <1>1, <1>7, FwdAssumption DEF TypeOK, Offline
  <2> QED BY <2>1 DEF FwdInv
<1>8. ASSUME NEW c \in Cnl, Online(c) PROVE FwdInv'
  <2>1. TypeOK' /\ lost' = lost
    BY <1>1, <1>8 DEF TypeOK, Online
  <2>2. lost # 0
    BY <1>1, <1>8 DEF Order, Online
  <2> QED BY <2>1, <2>2 DEF FwdInv
<1>9. CASE UNCHANGED vars
  <2>1. UNCHANGED <<htlcs, saved, online, pending, preimage, outcome, strayed, lost>>
    BY <1>9 DEF vars
  <2>2. TypeOK'
    BY <2>1, <1>1 DEF TypeOK
  <2>3. Order => Order'
    BY <2>1, <1>1, QuietOrder
  <2>4. Paired => Paired'
    BY <2>1 DEF Paired, Sources, CopiedOnce, Returning, Returns, Resolves, Claimed,
                Source, Alive, Live, Recv, Copy
  <2> QED BY <2>1, <2>2, <2>3, <2>4, <1>2
<1> QED BY <1>3, <1>4, <1>5, <1>6, <1>7, <1>8, <1>9 DEF Next

\* The invariant above holds always: of the channels' tables, the locks and the
\* ends on their way back (ln.c, lnapp.c), for any number of channels, slots,
\* HTLCs and lost connections.
THEOREM ForwardInvariant == Spec => []FwdInv
BY InitInvariant, StepInvariant, PTL DEF Spec

\* recv_idle_proc_final starts an HTLC in the next channel only when the received
\* one is committed by both ends, while no connection is lost.
THEOREM OfferedAfterCommit == Spec => []CommittedBeforeOffered
<1>1. FwdInv => CommittedBeforeOffered
  <2> SUFFICES ASSUME FwdInv, lost = 0, NEW c \in Cnl, NEW i \in Slot
               PROVE  LET h == htlcs[c][i]
                      IN  h.addhtlc = "OFFER" /\ h.prev # NoCnl /\ Source(h).tag = h.tag
                              /\ Source(h).delhtlc = "NONE"
                            => Source(h).addhtlc = "RECV" /\ Source(h).done
    BY DEF CommittedBeforeOffered
  <2>1. OfferedFrom(htlcs[c][i])
    BY DEF FwdInv, Order, Offered
  <2> QED BY <2>1 DEF OfferedFrom, Recv
<1> QED BY <1>1, ForwardInvariant, PTL

\* cbsub_fulfill_backwind claims a received HTLC only when the next channel's peer
\* claimed its copy, while no connection is lost and no failure strayed.
THEOREM ClaimsFollow == Spec => []ClaimedAfterNext
<1>1. FwdInv => ClaimedAfterNext
  <2> SUFFICES ASSUME FwdInv, lost = 0, ~strayed, NEW c \in Cnl, NEW i \in Slot,
                      htlcs[c][i].addhtlc = "RECV", htlcs[c][i].delhtlc = "FULFILL"
               PROVE  outcome[htlcs[c][i].tag] = "FULFILL"
    BY DEF ClaimedAfterNext
  <2> QED BY DEF FwdInv, Paired, Claimed, Recv
<1> QED BY <1>1, ForwardInvariant, PTL
=============================================================================
