---------------------------- MODULE OnChainProofs ----------------------------
(***************************************************************************)
(* The monitoring thread, for every value of the constants of module       *)
(* OnChain: any slots, expiries and orders of outputs, any interleaving of *)
(* passes, blocks, crashes and what the peer spends.                       *)
(*                                                                         *)
(* The argument.  The status says what closed the channel (Classified),    *)
(* and nothing is taken before that is known (Untouched).  After its own   *)
(* commitment the node holds the output of every HTLC transaction it made  *)
(* (LocalHeld).  After a revoked one the counter in the database is the    *)
(* number of HTLC transactions of the peer that were not taken back yet    *)
(* (Punished): one that is found is never found again, because the next    *)
(* search starts behind its block, so the counter reaches zero only when   *)
(* all of them were found.                                                 *)
(***************************************************************************)
EXTENDS OnChain, FiniteSetTheorems, TLAPS

----------------------------------------------------------------------------
(* The inductive invariant.                                                *)

\* An outpoint is in the wallet or was spent from there.
Held(o) == o \in wallet \/ Spent(o)

\* The status says what closed the channel.
Classified ==
    /\ status # "NORMAL" => fund.by # "none"
    /\ status \in {"CLOSE_WAIT", "CLOSE_MUTUAL"} => fund.by = "mutual"
    /\ status = "CLOSE_UNI_LOCAL" => fund.by = "local"
    /\ status = "CLOSE_UNI_REMOTE" => fund.by = "remote"
    /\ status = "CLOSE_REVOKED" => fund.by = "revoked"
    /\ status = "DELETED" /\ fund.by = "revoked" => revtx.saved

\* Nothing is taken before it is known how the channel was closed.
Untouched ==
    /\ \A h \in Slot : Htlc(h) \in wallet => fund.by = "remote"
    /\ \A h \in Slot : Held(Second(h)) => fund.by = "local" \/ revtx.saved
    /\ \A h \in Slot : out[Htlc(h)].by = "us" => fund.by \in {"local", "remote"} \/ revtx.saved
    /\ revtx.saved => fund.by = "revoked"
    /\ \A h \in Slot : Spent(Htlc(h)) => fund.by # "none"
    /\ fund.by = "revoked" => \A h \in pending : out[Htlc(h)].by \in {"none", "us", "htlc_tx"}

\* Without a crash the output of every HTLC transaction of this node is held.
LocalHeld ==
    fund.by = "local" /\ crashes = 0 =>
        \A h \in pending : out[Htlc(h)].by = "us" => Held(Second(h))

\* The HTLC transactions the peer made of a revoked commitment and this node
\* has not taken back.
Missing == {h \in pending : out[Htlc(h)].by = "htlc_tx" /\ ~Held(Second(h))}

Punished ==
    revtx.saved =>
        /\ Held(ToLocal) /\ Held(ToRemote)
        /\ \A h \in pending : Spent(Htlc(h))
        /\ \A h \in pending : Held(Second(h)) =>
              /\ out[Htlc(h)].by = "htlc_tx"
              /\ out[Htlc(h)].blk > 0 /\ out[Htlc(h)].blk =< revtx.confm
        /\ revtx.cnt = Cardinality(Missing)
        /\ status = "DELETED" => revtx.cnt = 0

Heights == revtx.confm =< height /\ \A o \in Outpoint : out[o].blk =< height

OnChainInv == TypeOK /\ Heights /\ Classified /\ Untouched /\ LocalHeld /\ Punished

----------------------------------------------------------------------------
(* Outpoints, types and counting.                                          *)

LEMMA OutpointFacts ==
    /\ ToLocal \in Outpoint /\ ToRemote \in Outpoint
    /\ \A h \in Slot : Htlc(h) \in Outpoint /\ Second(h) \in Outpoint
    /\ \A h, k : (Htlc(h) = Htlc(k) => h = k) /\ (Second(h) = Second(k) => h = k)
    /\ \A h, k : Htlc(h) # Second(k)
    /\ \A h : /\ Htlc(h) # ToLocal /\ Htlc(h) # ToRemote
              /\ Second(h) # ToLocal /\ Second(h) # ToRemote
<1>1. /\ ToLocal \in Outpoint /\ ToRemote \in Outpoint
      /\ \A h \in Slot : Htlc(h) \in Outpoint /\ Second(h) \in Outpoint
  BY Zenon DEF Outpoint, Output
<1>2. \A h, k : (Htlc(h) = Htlc(k) => h = k) /\ (Second(h) = Second(k) => h = k)
  BY DEF Htlc, Second
<1>3. \A h, k : Htlc(h) # Second(k)
  BY DEF Htlc, Second
<1>4. \A h : /\ Htlc(h) # ToLocal /\ Htlc(h) # ToRemote
             /\ Second(h) # ToLocal /\ Second(h) # ToRemote
  BY DEF Htlc, Second, ToLocal, ToRemote
<1> QED BY <1>1, <1>2, <1>3, <1>4

SpendingOut == Spending({"us", "preimage", "timeout", "htlc_tx"})

LEMMA TypeFacts ==
    ASSUME TypeOK
    PROVE  /\ out \in [Outpoint -> SpendingOut]
           /\ \A o \in Outpoint : out[o] \in SpendingOut /\ out[o].blk \in Nat
           /\ height \in Nat /\ crashes \in Nat /\ revtx.confm \in Nat /\ revtx.cnt \in Nat
           /\ pending \subseteq Slot /\ fund.blk \in Nat
           /\ \A h \in Slot : Expiry[h] \in Nat
<1>1. out \in [Outpoint -> SpendingOut] /\ \A o \in Outpoint : out[o] \in SpendingOut
  BY DEF TypeOK, SpendingOut
<1>2. \A s \in SpendingOut : s.blk \in Nat
  BY OnChainAssumption DEF SpendingOut, Spending
<1>3. height \in Nat /\ crashes \in Nat /\ pending \subseteq Slot
  BY OnChainAssumption DEF TypeOK
<1>4. revtx.confm \in Nat /\ revtx.cnt \in Nat
  BY OnChainAssumption DEF TypeOK
<1>5. fund.blk \in Nat
  BY OnChainAssumption DEF TypeOK, Spending
<1> QED BY <1>1, <1>2, <1>3, <1>4, <1>5, OnChainAssumption

LEMMA CountFacts ==
    ASSUME TypeOK, NEW S \in SUBSET pending
    PROVE  IsFiniteSet(S) /\ Cardinality(S) \in 0 .. LN_HTLC_MAX + 1
<1>1. LN_HTLC_MAX \in Nat /\ pending \subseteq 0 .. LN_HTLC_MAX - 1
  BY OnChainAssumption DEF TypeOK, Slot
<1>2. IsFiniteSet(0 .. LN_HTLC_MAX - 1) /\ Cardinality(0 .. LN_HTLC_MAX - 1) =< LN_HTLC_MAX
  <2>1. /\ IsFiniteSet(0 .. LN_HTLC_MAX - 1)
        /\ Cardinality(0 .. LN_HTLC_MAX - 1) =
             IF 0 > LN_HTLC_MAX - 1 THEN 0 ELSE (LN_HTLC_MAX - 1) - 0 + 1
    BY <1>1, FS_Interval
  <2> QED BY <1>1, <2>1
<1>3. S \subseteq 0 .. LN_HTLC_MAX - 1
  BY <1>1
<1>4. IsFiniteSet(S) /\ Cardinality(S) =< Cardinality(0 .. LN_HTLC_MAX - 1)
  BY <1>2, <1>3, FS_Subset
<1>5. Cardinality(S) \in Nat /\ Cardinality(0 .. LN_HTLC_MAX - 1) \in Nat
  BY <1>2, <1>4, FS_CardinalityType
<1> QED BY <1>1, <1>2, <1>4, <1>5

LEMMA MinedFacts ==
    ASSUME TypeOK, height < MaxHeight, NEW By, NEW s \in Spending(By)
    PROVE  /\ Mined(s) \in Spending(By) /\ Mined(s).by = s.by
           /\ s.blk > 0 => Mined(s).blk = s.blk
           /\ s.blk =< height => Mined(s).blk =< height + 1
<1>1. height \in Nat /\ height + 1 \in 0 .. MaxHeight /\ s.blk \in Nat
  BY OnChainAssumption DEF TypeOK, Spending
<1>2. CASE s.by # "none" /\ s.blk = 0
  <2>1. PICK t : t = [s EXCEPT !.blk = height + 1]
    OBVIOUS
  <2>2. t \in Spending(By) /\ t.by = s.by /\ t.blk = height + 1
    BY <1>1, <2>1 DEF Spending
  <2>3. Mined(s) = t
    BY <1>2, <2>1 DEF Mined
  <2> QED BY <1>1, <1>2, <2>2, <2>3
<1>3. CASE ~(s.by # "none" /\ s.blk = 0)
  <2>1. Mined(s) = s
    BY <1>3 DEF Mined
  <2> QED BY <1>1, <2>1
<1> QED BY <1>2, <1>3

\* What Take does to the outputs.
LEMMA TakeFacts ==
    ASSUME TypeOK, NEW S \in SUBSET Slot
    PROVE  /\ Take(S) \in [Outpoint -> SpendingOut]
           /\ \A h \in Slot : Take(S)[Htlc(h)] = IF h \in S THEN Pool("us") ELSE out[Htlc(h)]
           /\ \A h \in Slot : Take(S)[Second(h)] = out[Second(h)]
           /\ Take(S)[ToLocal] = out[ToLocal] /\ Take(S)[ToRemote] = out[ToRemote]
           /\ \A o \in Outpoint : Take(S)[o] \in {out[o], Pool("us")}
<1>1. out \in [Outpoint -> SpendingOut]
  BY TypeFacts
<1>2. Pool("us") \in SpendingOut
  BY OnChainAssumption DEF Pool, SpendingOut, Spending
<1>3. PICK H : H = {Htlc(h) : h \in S}
  OBVIOUS
<1>4. Take(S) = [o \in Outpoint |-> IF o \in H THEN Pool("us") ELSE out[o]]
  BY <1>3 DEF Take
<1>5. \A h \in Slot : (Htlc(h) \in H <=> h \in S) /\ Second(h) \notin H
  BY <1>3, OutpointFacts
<1>6. ToLocal \notin H /\ ToRemote \notin H
  BY <1>3, OutpointFacts
<1>7. Take(S) \in [Outpoint -> SpendingOut]
  BY <1>1, <1>2, <1>4
<1>8. \A o \in Outpoint : Take(S)[o] = IF o \in H THEN Pool("us") ELSE out[o]
  BY <1>4
<1> QED BY <1>5, <1>6, <1>7, <1>8, OutpointFacts

----------------------------------------------------------------------------
(* Blocks, the peer, the wallet.                                           *)

\* Steps that spend nothing but the funding output.
LEMMA QuietStep ==
    ASSUME OnChainInv, TypeOK', Heights', Classified',
           UNCHANGED <<pending, wallet, revtx, crashes>>,
           \A o \in Outpoint : /\ out'[o].by = out[o].by
                               /\ out[o].blk > 0 => out'[o].blk = out[o].blk,
           fund'.by = fund.by \/ fund.by = "none",
           revtx.saved /\ status' = "DELETED" => status = "DELETED"
    PROVE  OnChainInv'
<1>1. TypeOK /\ Untouched /\ LocalHeld /\ Punished /\ pending \subseteq Slot
  BY TypeFacts DEF OnChainInv
<1>2. \A o \in Outpoint : Held(o)' <=> Held(o)
  BY DEF Held, Spent
<1>3. \A h \in Slot : /\ out'[Htlc(h)].by = out[Htlc(h)].by /\ (Held(Second(h))' <=> Held(Second(h)))
                      /\ Spent(Htlc(h))' <=> Spent(Htlc(h))
  BY <1>2, OutpointFacts DEF Spent
<1>4. Untouched'
  <2>1. \A h \in Slot : out[Htlc(h)].by \in {"us"} => Spent(Htlc(h))
    BY DEF Spent
  <2>2. fund.by = "none" => \A h \in pending : out[Htlc(h)].by = "none"
    BY <1>1 DEF Untouched, Spent
  <2>3. CASE fund'.by = fund.by
    BY <1>1, <1>3, <2>3 DEF Untouched
  <2>4. CASE fund.by = "none"
    <3>1. \A h \in Slot : Htlc(h) \notin wallet /\ ~Spent(Htlc(h)) /\ ~Held(Second(h)) /\ ~revtx.saved
      BY <1>1, <2>4 DEF Untouched
    <3>2. \A h \in Slot : ~Spent(Htlc(h))' /\ ~Held(Second(h))' /\ out'[Htlc(h)].by = "none"
      BY <1>3, <3>1 DEF Spent
    <3>3. ~revtx'.saved
      BY <1>1, <2>4 DEF Untouched
    <3> QED BY <1>1, <3>1, <3>2, <3>3 DEF Untouched
  <2> QED BY <2>3, <2>4
<1>5. LocalHeld'
  <2> SUFFICES ASSUME fund'.by = "local", crashes = 0, NEW h \in pending, out'[Htlc(h)].by = "us"
               PROVE  Held(Second(h))'
    BY DEF LocalHeld
  <2>1. h \in Slot /\ out[Htlc(h)].by = "us" /\ Spent(Htlc(h))
    BY <1>1, <1>3 DEF Spent
  <2>2. fund.by # "none"
    BY <1>1, <2>1 DEF Untouched
  <2> QED BY <1>1, <1>3, <2>1, <2>2 DEF LocalHeld
<1>6. Punished'
  <2> SUFFICES ASSUME revtx.saved PROVE Punished'
    BY DEF Punished
  <2>1. /\ Held(ToLocal) /\ Held(ToRemote)
        /\ \A h \in pending : Spent(Htlc(h))
        /\ \A h \in pending : Held(Second(h)) =>
              /\ out[Htlc(h)].by = "htlc_tx"
              /\ out[Htlc(h)].blk > 0 /\ out[Htlc(h)].blk =< revtx.confm
        /\ revtx.cnt = Cardinality(Missing)
        /\ status = "DELETED" => revtx.cnt = 0
    BY <1>1 DEF Punished
  <2>2. Missing' = Missing
    BY <1>1, <1>3 DEF Missing
  <2>3. Held(ToLocal)' /\ Held(ToRemote)'
    BY <1>2, <2>1, OutpointFacts
  <2>4. ASSUME NEW h \in pending, Held(Second(h))'
        PROVE  out'[Htlc(h)].by = "htlc_tx" /\ out'[Htlc(h)].blk > 0 /\ out'[Htlc(h)].blk =< revtx.confm
    <3>1. h \in Slot /\ Held(Second(h))
      BY <1>1, <1>3, <2>4
    <3>2. out[Htlc(h)].by = "htlc_tx" /\ out[Htlc(h)].blk > 0 /\ out[Htlc(h)].blk =< revtx.confm
      BY <2>1, <3>1
    <3>3. out'[Htlc(h)].blk = out[Htlc(h)].blk
      BY <3>1, <3>2, OutpointFacts
    <3> QED BY <1>3, <3>1, <3>2, <3>3
  <2>5. \A h \in pending : Spent(Htlc(h))'
    BY <1>1, <1>3, <2>1
  <2> QED BY <2>1, <2>2, <2>3, <2>4, <2>5 DEF Punished
<1> QED BY <1>4, <1>5, <1>6 DEF OnChainInv

LEMMA MineStep ==
    ASSUME OnChainInv, Mine PROVE OnChainInv'
<1>1. /\ TypeOK /\ Heights /\ Classified /\ out \in [Outpoint -> SpendingOut]
      /\ fund \in Spending(Commitment \cup {"mutual"})
  BY TypeFacts DEF OnChainInv, TypeOK
<1>2. /\ height < MaxHeight /\ height' = height + 1 /\ fund' = Mined(fund)
      /\ out' = [o \in Outpoint |-> Mined(out[o])]
      /\ UNCHANGED <<status, pending, order, settled, revtx, wallet, preimg, crashes>>
  BY DEF Mine
<1>3. fund' \in Spending(Commitment \cup {"mutual"}) /\ fund'.by = fund.by
  BY <1>1, <1>2, MinedFacts
<1>4. ASSUME NEW o \in Outpoint
      PROVE  /\ out'[o] \in SpendingOut /\ out'[o].by = out[o].by
             /\ out[o].blk > 0 => out'[o].blk = out[o].blk
             /\ out'[o].blk =< height'
  <2>1. PICK s : s = out[o]
    OBVIOUS
  <2>2. s \in SpendingOut /\ s.blk =< height
    BY <1>1, <2>1 DEF Heights
  <2>3. /\ Mined(s) \in SpendingOut /\ Mined(s).by = s.by
        /\ s.blk > 0 => Mined(s).blk = s.blk
        /\ s.blk =< height => Mined(s).blk =< height + 1
    BY <1>1, <1>2, <2>2, MinedFacts DEF SpendingOut
  <2>4. out'[o] = Mined(s)
    BY <1>2, <2>1
  <2> QED BY <1>2, <2>1, <2>2, <2>3, <2>4
<1>5. out' \in [Outpoint -> SpendingOut]
  BY <1>2, <1>4
<1>6. height \in 1 .. MaxHeight /\ height' \in 1 .. MaxHeight
  BY <1>1, <1>2, OnChainAssumption DEF TypeOK
<1>7. TypeOK'
  BY <1>1, <1>2, <1>3, <1>5, <1>6 DEF TypeOK, SpendingOut
<1>8. Heights'
  <2>1. revtx.confm \in Nat /\ height \in Nat /\ revtx.confm =< height
    BY <1>1, TypeFacts DEF Heights
  <2>2. revtx.confm =< height'
    BY <1>2, <2>1
  <2> QED BY <1>2, <1>4, <2>2 DEF Heights
<1>9. Classified'
  BY <1>1, <1>2, <1>3 DEF Classified
<1> QED BY <1>2, <1>3, <1>4, <1>7, <1>8, <1>9, QuietStep

LEMMA SpendFundingStep ==
    ASSUME OnChainInv, NEW by \in Commitment \cup {"mutual"}, SpendFunding(by) PROVE OnChainInv'
<1>1. TypeOK /\ Heights /\ Classified
  BY DEF OnChainInv
<1>2. /\ fund = None /\ status = "NORMAL" /\ fund' = Pool(by)
      /\ status' = IF by = "mutual" THEN "CLOSE_WAIT" ELSE status
      /\ UNCHANGED <<pending, order, settled, out, revtx, wallet, preimg, height, crashes>>
  BY DEF SpendFunding
<1>3. /\ fund.by = "none" /\ fund'.by = by
      /\ fund' \in Spending(Commitment \cup {"mutual"})
  BY <1>2, OnChainAssumption DEF None, Pool, Spending
<1>4. status' \in Status /\ status' # "DELETED"
  BY <1>2 DEF Status
<1>5. TypeOK'
  BY <1>1, <1>2, <1>3, <1>4 DEF TypeOK
<1>6. Heights'
  BY <1>1, <1>2 DEF Heights
<1>7. Classified'
  BY <1>2, <1>3 DEF Classified, Commitment
<1> QED BY <1>2, <1>3, <1>4, <1>5, <1>6, <1>7, QuietStep

LEMMA LearnStep ==
    ASSUME OnChainInv, NEW h \in Slot, LearnPreimage(h) PROVE OnChainInv'
<1>1. TypeOK /\ Heights /\ Classified
  BY DEF OnChainInv
<1>2. /\ preimg' = preimg \cup {h}
      /\ UNCHANGED <<status, pending, order, settled, fund, out, revtx, wallet, height, crashes>>
  BY DEF LearnPreimage
<1>3. preimg' \subseteq Slot
  BY <1>1, <1>2 DEF TypeOK
<1>4. TypeOK'
  BY <1>1, <1>2, <1>3 DEF TypeOK
<1>5. Heights' /\ Classified'
  BY <1>1, <1>2 DEF Heights, Classified
<1> QED BY <1>2, <1>4, <1>5, QuietStep

LEMMA PeerStep ==
    ASSUME OnChainInv, NEW h \in Slot, PeerSpends(h) PROVE OnChainInv'
<1>1. TypeOK /\ Heights /\ Classified /\ Untouched /\ LocalHeld /\ Punished
  BY DEF OnChainInv
<1>2. PICK x \in {"preimage", "timeout", "htlc_tx"} :
        /\ out' = [out EXCEPT ![Htlc(h)] = Pool(x)]
        /\ fund.by = "revoked" => x = "htlc_tx"
  BY DEF PeerSpends
<1>3. /\ h \in pending /\ ~Spent(Htlc(h)) /\ fund.by # "none"
      /\ UNCHANGED <<status, pending, order, settled, fund, revtx, wallet, preimg, height, crashes>>
  BY DEF PeerSpends
<1>4. /\ out \in [Outpoint -> SpendingOut] /\ Htlc(h) \in Outpoint /\ pending \subseteq Slot
      /\ height \in Nat
  BY <1>1, TypeFacts, OutpointFacts
<1>5. Pool(x) \in SpendingOut /\ Pool(x).by = x /\ Pool(x).blk = 0
  BY <1>2, OnChainAssumption DEF Pool, SpendingOut, Spending
<1>6. /\ out' \in [Outpoint -> SpendingOut]
      /\ \A o \in Outpoint : out'[o] = IF o = Htlc(h) THEN Pool(x) ELSE out[o]
  BY <1>2, <1>4, <1>5
<1>7. \A k \in Slot : /\ out'[Htlc(k)].by = IF k = h THEN x ELSE out[Htlc(k)].by
                      /\ Held(Second(k))' <=> Held(Second(k))
  BY <1>3, <1>5, <1>6, OutpointFacts DEF Held, Spent
<1>8. ~revtx.saved
  BY <1>1, <1>3 DEF Punished
<1>9. TypeOK'
  BY <1>1, <1>3, <1>6 DEF TypeOK, SpendingOut
<1>10. Heights'
  <2>1. \A o \in Outpoint : out'[o].blk =< height
    BY <1>1, <1>4, <1>5, <1>6 DEF Heights
  <2> QED BY <1>1, <1>3, <2>1 DEF Heights
<1>11. Classified'
  BY <1>1, <1>3 DEF Classified
<1>12. Untouched'
  <2>1. \A k \in Slot : Htlc(k) \in wallet' => fund'.by = "remote"
    BY <1>1, <1>3 DEF Untouched
  <2>2. \A k \in Slot : Held(Second(k))' => fund'.by = "local" \/ revtx'.saved
    BY <1>1, <1>3, <1>7 DEF Untouched
  <2>3. \A k \in Slot : out'[Htlc(k)].by = "us" => fund'.by \in {"local", "remote"} \/ revtx'.saved
    BY <1>1, <1>2, <1>3, <1>7 DEF Untouched
  <2>4. fund'.by = "revoked" => \A k \in pending' : out'[Htlc(k)].by \in {"none", "us", "htlc_tx"}
    BY <1>1, <1>2, <1>3, <1>4, <1>7 DEF Untouched
  <2> QED BY <1>3, <1>8, <2>1, <2>2, <2>3, <2>4 DEF Untouched
<1>13. LocalHeld'
  BY <1>1, <1>2, <1>3, <1>4, <1>7 DEF LocalHeld
<1>14. Punished'
  BY <1>3, <1>8 DEF Punished
<1> QED BY <1>9, <1>10, <1>11, <1>12, <1>13, <1>14 DEF OnChainInv

LEMMA WalletStep ==
    ASSUME OnChainInv, NEW o \in Outpoint, WalletSpends(o) PROVE OnChainInv'
<1>1. TypeOK /\ Heights /\ Classified /\ Untouched /\ LocalHeld /\ Punished
  BY DEF OnChainInv
<1>2. /\ o \in wallet /\ out' = [out EXCEPT ![o] = Pool("us")] /\ wallet' = wallet \ {o}
      /\ UNCHANGED <<status, pending, order, settled, fund, revtx, preimg, height, crashes>>
  BY DEF WalletSpends
<1>3. /\ out \in [Outpoint -> SpendingOut] /\ pending \subseteq Slot /\ height \in Nat
  BY <1>1, TypeFacts
<1>4. Pool("us") \in SpendingOut /\ Pool("us").by = "us" /\ Pool("us").blk = 0
  BY OnChainAssumption DEF Pool, SpendingOut, Spending
<1>5. /\ out' \in [Outpoint -> SpendingOut]
      /\ \A x \in Outpoint : out'[x] = IF x = o THEN Pool("us") ELSE out[x]
  BY <1>2, <1>3, <1>4
<1>6. \A x \in Outpoint : Held(x)' <=> Held(x)
  BY <1>2, <1>4, <1>5 DEF Held, Spent
<1>7. \A h \in Slot : Held(Second(h))' <=> Held(Second(h))
  BY <1>6, OutpointFacts
<1>8. fund.by # "remote" => \A h \in Slot : out'[Htlc(h)] = out[Htlc(h)]
  BY <1>1, <1>2, <1>5, OutpointFacts DEF Untouched
<1>9. TypeOK'
  BY <1>1, <1>2, <1>5 DEF TypeOK, SpendingOut
<1>10. Heights'
  <2>1. \A x \in Outpoint : out'[x].blk =< height
    BY <1>1, <1>3, <1>4, <1>5 DEF Heights
  <2> QED BY <1>1, <1>2, <2>1 DEF Heights
<1>11. Classified'
  BY <1>1, <1>2 DEF Classified
<1>12. Untouched'
  <2>1. \A k \in Slot : Htlc(k) \in wallet' => fund'.by = "remote"
    BY <1>1, <1>2 DEF Untouched
  <2>2. \A k \in Slot : Held(Second(k))' => fund'.by = "local" \/ revtx'.saved
    BY <1>1, <1>2, <1>7 DEF Untouched
  <2>3. CASE fund.by = "remote"
    BY <1>1, <1>2, <2>1, <2>2, <2>3 DEF Untouched
  <2>4. CASE fund.by # "remote"
    <3>1. \A k \in Slot : Spent(Htlc(k))' <=> Spent(Htlc(k))
      BY <1>8, <2>4 DEF Spent
    <3>2. \A k \in Slot : out'[Htlc(k)].by = out[Htlc(k)].by
      BY <1>8, <2>4
    <3> QED BY <1>1, <1>2, <1>3, <2>1, <2>2, <3>1, <3>2 DEF Untouched
  <2> QED BY <2>3, <2>4
<1>13. LocalHeld'
  BY <1>1, <1>2, <1>3, <1>7, <1>8 DEF LocalHeld
<1>14. Punished'
  <2> SUFFICES ASSUME revtx.saved PROVE Punished'
    BY <1>2 DEF Punished
  <2>1. \A h \in Slot : out'[Htlc(h)] = out[Htlc(h)]
    BY <1>1, <1>8 DEF Untouched
  <2>2. Missing' = Missing
    BY <1>2, <1>3, <1>7, <2>1 DEF Missing
  <2>3. Held(ToLocal)' /\ Held(ToRemote)'
    BY <1>1, <1>6, OutpointFacts DEF Punished
  <2>4. \A h \in pending : Spent(Htlc(h))'
    BY <1>1, <1>3, <2>1 DEF Punished, Spent
  <2> QED BY <1>1, <1>2, <1>3, <1>7, <2>1, <2>2, <2>3, <2>4 DEF Punished
<1> QED BY <1>9, <1>10, <1>11, <1>12, <1>13, <1>14 DEF OnChainInv

----------------------------------------------------------------------------
(* Passes of the monitoring thread.                                        *)

\* ln_close_change_stat tells the transactions apart.
LEMMA StatusFacts ==
    ASSUME OnChainInv
    PROVE  /\ NewStatus \in Status /\ (NewStatus = "DELETED" <=> status = "DELETED")
           /\ NewStatus = "NORMAL" => status = "NORMAL"
           /\ NewStatus \in {"CLOSE_WAIT", "CLOSE_MUTUAL"} => fund.by = "mutual"
           /\ NewStatus = "CLOSE_UNI_LOCAL" => fund.by = "local"
           /\ NewStatus = "CLOSE_UNI_REMOTE" => fund.by = "remote"
           /\ NewStatus = "CLOSE_REVOKED" => fund.by = "revoked"
<1>1. Classified /\ status \in Status /\ fund.by \in {"local", "remote", "revoked", "mutual", "none"}
  BY DEF OnChainInv, TypeOK, Spending, Commitment
<1>2. CASE NewStatus = status
  BY <1>1, <1>2 DEF Classified
<1>3. CASE NewStatus = ln_close_change_stat /\ status \in {"NORMAL", "CLOSE_WAIT"}
  <2>1. NewStatus = "CLOSE_SPENT"
    BY <1>3 DEF ln_close_change_stat
  <2> QED BY <1>3, <2>1 DEF Status
<1>4. CASE NewStatus = ln_close_change_stat /\ status = "CLOSE_SPENT"
  <2>1. fund.by \in {"local", "remote", "revoked", "mutual"}
    BY <1>1, <1>4 DEF Classified
  <2>2. CASE fund.by = "mutual"
    BY <1>4, <2>2 DEF ln_close_change_stat, Status
  <2>3. CASE fund.by = "local"
    BY <1>4, <2>3 DEF ln_close_change_stat, Status
  <2>4. CASE fund.by = "revoked"
    BY <1>4, <2>4 DEF ln_close_change_stat, Status
  <2>5. CASE fund.by = "remote"
    BY <1>4, <2>5 DEF ln_close_change_stat, Status
  <2> QED BY <2>1, <2>2, <2>3, <2>4, <2>5
<1> QED BY <1>1, <1>2, <1>3, <1>4 DEF NewStatus

\* This node's commitment: HTLC transactions are broadcast, outputs added.
LEMMA LocalStep ==
    ASSUME OnChainInv, out' = local_out, NEW W \in SUBSET local_wallet, ToLocal \in W,
           wallet' = wallet \cup W, fund.by \in {"none", "local"}, fund'.by = "local",
           fund' \in Spending(Commitment \cup {"mutual"}), crashes' \in 0 .. MaxCrashes,
           crashes' = 0 => crashes = 0 /\ W = local_wallet,
           status' \in Status, Classified', preimg' \subseteq Slot,
           UNCHANGED <<revtx, pending, order, settled, height>>
    PROVE  OnChainInv'
<1>1. TypeOK /\ Heights /\ Untouched /\ LocalHeld /\ Punished /\ ~revtx.saved
  BY DEF OnChainInv, Untouched
<1>2. /\ out \in [Outpoint -> SpendingOut] /\ pending \subseteq Slot /\ height \in Nat
  BY <1>1, TypeFacts
<1>3. PICK S \in SUBSET Slot : S = {h \in pending : Broadcastable(h)}
  BY <1>2
<1>4. /\ out' \in [Outpoint -> SpendingOut]
      /\ \A h \in Slot : out'[Htlc(h)] = IF h \in S THEN Pool("us") ELSE out[Htlc(h)]
      /\ \A h \in Slot : out'[Second(h)] = out[Second(h)]
      /\ \A o \in Outpoint : out'[o] \in {out[o], Pool("us")}
  <2>1. out' = Take(S)
    BY <1>3 DEF local_out
  <2>2. PICK t : t = Take(S)
    OBVIOUS
  <2>3. /\ t \in [Outpoint -> SpendingOut]
        /\ \A h \in Slot : t[Htlc(h)] = IF h \in S THEN Pool("us") ELSE out[Htlc(h)]
        /\ \A h \in Slot : t[Second(h)] = out[Second(h)]
        /\ \A o \in Outpoint : t[o] \in {out[o], Pool("us")}
    BY <1>1, <2>2, TakeFacts
  <2> QED BY <2>1, <2>2, <2>3
<1>5. Pool("us").by = "us" /\ Pool("us").blk = 0
  BY DEF Pool
<1>6. /\ local_wallet \subseteq {ToLocal} \cup {Second(h) : h \in pending}
      /\ \A h \in S : Second(h) \in local_wallet
  <2>1. local_wallet \subseteq {ToLocal} \cup {Second(h) : h \in pending}
    BY DEF local_wallet
  <2>2. ASSUME NEW h \in S PROVE Second(h) \in local_wallet
    <3>1. h \in pending /\ Broadcastable(h) /\ Buildable(h)
      BY <1>3 DEF Broadcastable
    <3> QED BY <3>1 DEF local_wallet
  <2> QED BY <2>1, <2>2
<1>7. local_wallet \subseteq Outpoint /\ \A h \in Slot : Htlc(h) \notin local_wallet
  BY <1>2, <1>6, OutpointFacts
<1>8. TypeOK'
  <2>1. wallet' \subseteq Outpoint
    BY <1>1, <1>7 DEF TypeOK
  <2> QED BY <1>1, <1>4, <2>1 DEF TypeOK, SpendingOut
<1>9. Heights'
  <2>1. \A o \in Outpoint : out'[o].blk =< height
    BY <1>1, <1>2, <1>4, <1>5 DEF Heights
  <2> QED BY <1>1, <2>1 DEF Heights
<1>10. Untouched'
  <2>1. \A h \in Slot : Htlc(h) \notin wallet'
    BY <1>1, <1>7 DEF Untouched
  <2> QED BY <1>1, <2>1 DEF Untouched
<1>11. LocalHeld'
  <2> SUFFICES ASSUME crashes' = 0, NEW h \in pending, out'[Htlc(h)].by = "us" PROVE Held(Second(h))'
    BY DEF LocalHeld
  <2>1. h \in Slot /\ crashes = 0 /\ W = local_wallet
    BY <1>2
  <2>2. CASE h \in S
    BY <1>6, <2>1, <2>2 DEF Held
  <2>3. CASE h \notin S
    <3>1. out[Htlc(h)].by = "us" /\ Spent(Htlc(h))
      BY <1>4, <2>1, <2>3 DEF Spent
    <3>2. fund.by = "local"
      BY <1>1, <2>1, <3>1 DEF Untouched
    <3>3. Held(Second(h))
      BY <1>1, <2>1, <3>1, <3>2 DEF LocalHeld
    <3> QED BY <1>4, <2>1, <3>3 DEF Held, Spent
  <2> QED BY <2>2, <2>3
<1>12. Punished'
  BY <1>1 DEF Punished
<1> QED BY <1>8, <1>9, <1>10, <1>11, <1>12 DEF OnChainInv

\* The peer's current commitment: only the wallet changes.
LEMMA RemoteStep ==
    ASSUME OnChainInv, close_unilateral_remote, fund.by = "remote", UNCHANGED fund,
           status' \in Status, Classified', preimg' \subseteq Slot,
           UNCHANGED <<pending, order, settled, height, crashes>>
    PROVE  OnChainInv'
<1>1. TypeOK /\ Heights /\ Untouched /\ ~revtx.saved /\ pending \subseteq Slot
  BY TypeFacts DEF OnChainInv, Untouched
<1>2. UNCHANGED <<out, revtx>>
  BY DEF close_unilateral_remote
<1>3. wallet' \subseteq wallet \cup {ToRemote} \cup {Htlc(h) : h \in pending}
  BY DEF close_unilateral_remote, remote_wallet
<1>4. TypeOK'
  <2>1. wallet' \subseteq Outpoint
    BY <1>1, <1>3, OutpointFacts DEF TypeOK
  <2> QED BY <1>1, <1>2, <2>1 DEF TypeOK
<1>5. Heights'
  BY <1>1, <1>2 DEF Heights
<1>6. Untouched'
  <2>1. \A h \in Slot : ~Held(Second(h))'
    <3> SUFFICES ASSUME NEW h \in Slot, Held(Second(h))' PROVE FALSE
      OBVIOUS
    <3>1. Held(Second(h))
      BY <1>2, <1>3, OutpointFacts DEF Held, Spent
    <3> QED BY <1>1, <3>1 DEF Untouched
  <2> QED BY <1>1, <1>2, <2>1 DEF Untouched
<1>7. LocalHeld' /\ Punished'
  BY <1>1, <1>2 DEF LocalHeld, Punished
<1> QED BY <1>4, <1>5, <1>6, <1>7 DEF OnChainInv

\* A revoked commitment: the first pass.
LEMMA FirstStep ==
    ASSUME OnChainInv, ~revtx.saved, close_revoked, fund.by = "revoked", UNCHANGED fund,
           status' \in Status, Classified', preimg' \subseteq Slot,
           status' = "DELETED" => revtx'.cnt = 0,
           UNCHANGED <<pending, order, settled, height, crashes>>
    PROVE  OnChainInv'
<1>1. TypeOK /\ Heights /\ Untouched
  BY DEF OnChainInv
<1>2. /\ out \in [Outpoint -> SpendingOut] /\ pending \subseteq Slot /\ height \in Nat
      /\ height \in 0 .. MaxHeight
  BY <1>1, TypeFacts, OnChainAssumption DEF TypeOK
<1>3. PICK S \in SUBSET Slot : S = {h \in pending : ~Spent(Htlc(h))}
  BY <1>2
<1>4. /\ out' = Take(S) /\ wallet' = wallet \cup {ToLocal, ToRemote}
      /\ revtx' = [saved |-> TRUE, cnt |-> revoked_left, confm |-> height]
  BY <1>3 DEF close_revoked, close_revoked_first
<1>5. /\ out' \in [Outpoint -> SpendingOut]
      /\ \A h \in Slot : out'[Htlc(h)] = IF h \in S THEN Pool("us") ELSE out[Htlc(h)]
      /\ \A h \in Slot : out'[Second(h)] = out[Second(h)]
      /\ \A o \in Outpoint : out'[o] \in {out[o], Pool("us")}
  <2>1. PICK t : t = Take(S)
    OBVIOUS
  <2>2. /\ t \in [Outpoint -> SpendingOut]
        /\ \A h \in Slot : t[Htlc(h)] = IF h \in S THEN Pool("us") ELSE out[Htlc(h)]
        /\ \A h \in Slot : t[Second(h)] = out[Second(h)]
        /\ \A o \in Outpoint : t[o] \in {out[o], Pool("us")}
    BY <1>1, <2>1, TakeFacts
  <2> QED BY <1>4, <2>1, <2>2
<1>6. Pool("us").by = "us" /\ Pool("us").blk = 0
  BY DEF Pool
<1>7. \A h \in pending : /\ ~Held(Second(h))'
                         /\ out'[Htlc(h)].by = IF h \in S THEN "us" ELSE "htlc_tx"
  <2> SUFFICES ASSUME NEW h \in pending
               PROVE  /\ ~Held(Second(h))'
                      /\ out'[Htlc(h)].by = IF h \in S THEN "us" ELSE "htlc_tx"
    OBVIOUS
  <2>1. h \in Slot /\ ~Held(Second(h)) /\ out[Htlc(h)].by # "us"
        /\ out[Htlc(h)].by \in {"none", "us", "htlc_tx"}
    BY <1>1, <1>2 DEF Untouched
  <2>2. ~Held(Second(h))'
    BY <1>4, <1>5, <2>1, OutpointFacts DEF Held, Spent
  <2>3. h \notin S => out[Htlc(h)].by = "htlc_tx"
    BY <1>3, <2>1 DEF Spent
  <2> QED BY <1>5, <1>6, <2>1, <2>2, <2>3
<1>8. revtx' \in [saved : BOOLEAN, cnt : 0 .. LN_HTLC_MAX + 1, confm : 0 .. MaxHeight]
      /\ revtx'.saved /\ revtx'.cnt = revoked_left /\ revtx'.confm = height
  <2>1. revoked_left \in 0 .. LN_HTLC_MAX + 1
    BY <1>1, CountFacts DEF revoked_left
  <2> QED BY <1>2, <1>4, <2>1
<1>9. TypeOK'
  <2>1. wallet' \subseteq Outpoint
    BY <1>1, <1>4, OutpointFacts DEF TypeOK
  <2> QED BY <1>1, <1>5, <1>8, <2>1 DEF TypeOK, SpendingOut
<1>10. Heights'
  <2>1. \A o \in Outpoint : out'[o].blk =< height
    BY <1>1, <1>2, <1>5, <1>6 DEF Heights
  <2>2. height =< height
    BY <1>2
  <2> QED BY <1>8, <2>1, <2>2 DEF Heights
<1>11. Untouched'
  <2>1. \A h \in Slot : Htlc(h) \notin wallet'
    BY <1>1, <1>4, OutpointFacts DEF Untouched
  <2>2. \A h \in pending' : out'[Htlc(h)].by \in {"none", "us", "htlc_tx"}
    BY <1>7
  <2> QED BY <1>8, <2>1, <2>2 DEF Untouched
<1>12. LocalHeld'
  BY DEF LocalHeld
<1>13. Punished'
  <2>1. Missing' = {h \in pending : Spent(Htlc(h))}
    BY <1>3, <1>7 DEF Missing
  <2>2. revtx'.cnt = Cardinality(Missing')
    BY <1>8, <2>1 DEF revoked_left
  <2>3. Held(ToLocal)' /\ Held(ToRemote)'
    BY <1>4 DEF Held
  <2>4. \A h \in pending' : Spent(Htlc(h))'
    BY <1>7 DEF Spent
  <2>5. \A h \in pending' : ~Held(Second(h))'
    BY <1>7
  <2> QED BY <2>2, <2>3, <2>4, <2>5 DEF Punished
<1> QED BY <1>9, <1>10, <1>11, <1>12, <1>13 DEF OnChainInv

\* A revoked commitment: HTLC transactions of the peer are taken back.
LEMMA AfterStep ==
    ASSUME OnChainInv, revtx.saved, close_revoked, fund.by = "revoked", UNCHANGED fund,
           status' \in Status, Classified', preimg' \subseteq Slot,
           status' = "DELETED" => revtx'.cnt = 0,
           UNCHANGED <<pending, order, settled, height, crashes>>
    PROVE  OnChainInv'
<1>1. TypeOK /\ Heights /\ Untouched /\ Punished /\ revtx.cnt = Cardinality(Missing)
  BY DEF OnChainInv, Punished
<1>2. /\ pending \subseteq Slot /\ height \in Nat /\ revtx.confm \in Nat /\ revtx.cnt \in Nat
      /\ height \in 0 .. MaxHeight /\ revtx.confm =< height
      /\ \A o \in Outpoint : out[o].blk \in Nat /\ out[o].blk =< height
  BY <1>1, TypeFacts, OnChainAssumption DEF TypeOK, Heights
<1>3. /\ wallet' = wallet \cup {Second(h) : h \in Newest} /\ UNCHANGED out
      /\ revtx' = [revtx EXCEPT !.cnt = revtx.cnt - Cardinality(Newest), !.confm = height]
  BY DEF close_revoked, close_revoked_after
<1>4. ASSUME NEW h \in Newest
      PROVE  /\ h \in pending /\ h \in Slot /\ out[Htlc(h)].by = "htlc_tx"
             /\ out[Htlc(h)].blk > revtx.confm /\ out[Htlc(h)].blk > 0
             /\ out[Htlc(h)].blk =< height /\ ~Held(Second(h))
  <2>1. h \in pending /\ out[Htlc(h)].by = "htlc_tx" /\ out[Htlc(h)].blk > revtx.confm
    BY DEF Newest, HtlcTxs
  <2>2. h \in Slot /\ out[Htlc(h)].blk \in Nat /\ out[Htlc(h)].blk =< height
    BY <1>2, <2>1, OutpointFacts
  <2>3. ~(out[Htlc(h)].blk =< revtx.confm) /\ out[Htlc(h)].blk > 0
    BY <1>2, <2>1, <2>2
  <2> QED BY <1>1, <2>1, <2>2, <2>3 DEF Punished
<1>5. \A h \in Slot : Held(Second(h))' <=> Held(Second(h)) \/ h \in Newest
  BY <1>3, OutpointFacts DEF Held, Spent
<1>6. Missing' = Missing \ Newest /\ Newest \subseteq Missing
  BY <1>2, <1>3, <1>4, <1>5 DEF Missing
<1>7. Cardinality(Missing') = revtx.cnt - Cardinality(Newest)
  <2>1. IsFiniteSet(Missing)
    BY <1>1, CountFacts DEF Missing
  <2>2. Cardinality(Missing \ Newest) = Cardinality(Missing) - Cardinality(Missing \cap Newest)
    BY <2>1, FS_Difference
  <2>3. Missing \cap Newest = Newest
    BY <1>6
  <2> QED BY <1>1, <1>6, <2>2, <2>3
<1>8. /\ revtx' \in [saved : BOOLEAN, cnt : 0 .. LN_HTLC_MAX + 1, confm : 0 .. MaxHeight]
      /\ revtx'.saved /\ revtx'.cnt = Cardinality(Missing') /\ revtx'.confm = height
  <2>1. Missing \ Newest \in SUBSET pending
    BY DEF Missing
  <2>2. Cardinality(Missing') \in 0 .. LN_HTLC_MAX + 1
    BY <1>1, <1>6, <2>1, CountFacts
  <2>3. PICK n : n = revtx.cnt - Cardinality(Newest)
    OBVIOUS
  <2>4. revtx \in [saved : BOOLEAN, cnt : 0 .. LN_HTLC_MAX + 1, confm : 0 .. MaxHeight]
    BY <1>1 DEF TypeOK
  <2>5. n = Cardinality(Missing') /\ revtx' = [revtx EXCEPT !.cnt = n, !.confm = height]
    BY <1>3, <1>7, <2>3
  <2> QED BY <1>2, <2>2, <2>4, <2>5
<1>9. TypeOK'
  <2>1. wallet' \subseteq Outpoint
    BY <1>1, <1>3, <1>4, OutpointFacts DEF TypeOK
  <2> QED BY <1>1, <1>3, <1>8, <2>1 DEF TypeOK
<1>10. Heights'
  <2>1. height =< height
    BY <1>2
  <2> QED BY <1>2, <1>3, <1>8, <2>1 DEF Heights
<1>11. Untouched'
  <2>1. \A h \in Slot : Htlc(h) \notin wallet'
    BY <1>1, <1>3, OutpointFacts DEF Untouched
  <2> QED BY <1>1, <1>3, <1>8, <2>1 DEF Untouched
<1>12. LocalHeld'
  BY DEF LocalHeld
<1>13. Punished'
  <2>1. Held(ToLocal)' /\ Held(ToRemote)'
    BY <1>1, <1>3 DEF Punished, Held, Spent
  <2>2. \A h \in pending' : Spent(Htlc(h))'
    BY <1>1, <1>3 DEF Punished, Spent
  <2>3. ASSUME NEW h \in pending, Held(Second(h))'
        PROVE  out[Htlc(h)].by = "htlc_tx" /\ out[Htlc(h)].blk > 0 /\ out[Htlc(h)].blk =< height
    <3>1. CASE h \in Newest
      BY <1>4, <3>1
    <3>2. CASE Held(Second(h))
      <4>1. out[Htlc(h)].by = "htlc_tx" /\ out[Htlc(h)].blk > 0
        BY <1>1, <3>2 DEF Punished
      <4>2. out[Htlc(h)].blk =< height
        BY <1>2, OutpointFacts
      <4> QED BY <4>1, <4>2
    <3> QED BY <1>2, <1>5, <2>3, <3>1, <3>2
  <2> QED BY <1>3, <1>8, <2>1, <2>2, <2>3 DEF Punished
<1> QED BY <1>9, <1>10, <1>11, <1>12, <1>13 DEF OnChainInv

\* What a pass over a closed channel does, by the status it finds.
Pass(st, del) ==
    /\ status' = IF del THEN "DELETED" ELSE st
    /\ preimg' \subseteq preimg
    /\ UNCHANGED <<pending, order, settled, fund, height, crashes>>
    /\ \/ st = "CLOSE_UNI_LOCAL" /\ monitor_close_unilateral_local
       \/ st = "CLOSE_UNI_REMOTE" /\ close_unilateral_remote /\ (del => remote_done)
       \/ st = "CLOSE_REVOKED" /\ close_revoked /\ (del => revoked_done)
       \/ /\ st \notin {"CLOSE_UNI_LOCAL", "CLOSE_UNI_REMOTE", "CLOSE_REVOKED"}
          /\ Keep /\ (del => st = "CLOSE_MUTUAL")

LEMMA PassFacts ==
    ASSUME FundingSpent PROVE \E del \in BOOLEAN : Pass(NewStatus, del)
<1>1. PICK st : st = NewStatus
  OBVIOUS
<1>2. PICK del \in BOOLEAN :
        del = CASE st = "CLOSE_MUTUAL" -> TRUE
                [] st = "CLOSE_UNI_LOCAL" -> \A h \in pending : local_htlc_done(h)
                [] st = "CLOSE_UNI_REMOTE" -> remote_done
                [] st = "CLOSE_REVOKED" -> revoked_done
                [] OTHER -> FALSE
  <2>1. (CASE st = "CLOSE_MUTUAL" -> TRUE
           [] st = "CLOSE_UNI_LOCAL" -> \A h \in pending : local_htlc_done(h)
           [] st = "CLOSE_UNI_REMOTE" -> remote_done
           [] st = "CLOSE_REVOKED" -> revoked_done
           [] OTHER -> FALSE) \in BOOLEAN
    <3>1. remote_done \in BOOLEAN
      BY DEF remote_done
    <3>2. revoked_done \in BOOLEAN
      BY DEF revoked_done
    <3>3. (\A h \in pending : local_htlc_done(h)) \in BOOLEAN
      OBVIOUS
    <3>4. CASE st = "CLOSE_MUTUAL"
      BY <3>4
    <3>5. CASE st = "CLOSE_UNI_LOCAL"
      BY <3>3, <3>5
    <3>6. CASE st = "CLOSE_UNI_REMOTE"
      BY <3>1, <3>6
    <3>7. CASE st = "CLOSE_REVOKED"
      BY <3>2, <3>7
    <3>8. CASE st \notin {"CLOSE_MUTUAL", "CLOSE_UNI_LOCAL", "CLOSE_UNI_REMOTE", "CLOSE_REVOKED"}
      BY <3>8
    <3> QED BY <3>4, <3>5, <3>6, <3>7, <3>8
  <2> QED BY <2>1
<1>3. /\ CASE st = "CLOSE_UNI_LOCAL" -> monitor_close_unilateral_local
           [] st = "CLOSE_UNI_REMOTE" -> close_unilateral_remote
           [] st = "CLOSE_REVOKED" -> close_revoked
           [] OTHER -> Keep
      /\ status' = IF del THEN "DELETED" ELSE st
      /\ preimg' = IF del THEN preimg \ pending ELSE preimg
      /\ UNCHANGED <<pending, order, settled, fund, height, crashes>>
  BY <1>1, <1>2 DEF FundingSpent
<1>4. preimg' \subseteq preimg
  BY <1>3
<1>5. CASE st = "CLOSE_UNI_LOCAL"
  <2>1. monitor_close_unilateral_local
    BY <1>3, <1>5
  <2> QED BY <1>1, <1>3, <1>4, <1>5, <2>1 DEF Pass
<1>6. CASE st = "CLOSE_UNI_REMOTE"
  <2>1. close_unilateral_remote /\ (del => remote_done)
    BY <1>2, <1>3, <1>6
  <2> QED BY <1>1, <1>3, <1>4, <1>6, <2>1 DEF Pass
<1>7. CASE st = "CLOSE_REVOKED"
  <2>1. close_revoked /\ (del => revoked_done)
    BY <1>2, <1>3, <1>7
  <2> QED BY <1>1, <1>3, <1>4, <1>7, <2>1 DEF Pass
<1>8. CASE st \notin {"CLOSE_UNI_LOCAL", "CLOSE_UNI_REMOTE", "CLOSE_REVOKED"}
  <2>1. Keep /\ (del => st = "CLOSE_MUTUAL")
    BY <1>2, <1>3, <1>8
  <2> QED BY <1>1, <1>3, <1>4, <1>8, <2>1 DEF Pass
<1> QED BY <1>5, <1>6, <1>7, <1>8

LEMMA PassStep ==
    ASSUME OnChainInv, status # "DELETED", fund.by # "none", NEW del \in BOOLEAN, Pass(NewStatus, del)
    PROVE  OnChainInv'
<1>1. /\ TypeOK /\ Heights /\ Classified /\ Untouched
      /\ fund \in Spending(Commitment \cup {"mutual"}) /\ preimg \subseteq Slot
      /\ crashes \in 0 .. MaxCrashes
  BY DEF OnChainInv, TypeOK
<1>2. PICK st : st = NewStatus
  OBVIOUS
<1>3. /\ st \in Status /\ st # "DELETED"
      /\ st \in {"CLOSE_WAIT", "CLOSE_MUTUAL"} => fund.by = "mutual"
      /\ st = "CLOSE_UNI_LOCAL" => fund.by = "local"
      /\ st = "CLOSE_UNI_REMOTE" => fund.by = "remote"
      /\ st = "CLOSE_REVOKED" => fund.by = "revoked"
  BY <1>2, StatusFacts
<1>4. /\ status' = IF del THEN "DELETED" ELSE st
      /\ preimg' \subseteq Slot /\ status' \in Status
      /\ UNCHANGED <<pending, order, settled, fund, height, crashes>>
  BY <1>1, <1>2, <1>3 DEF Pass, Status
<1>5. fund.by # "revoked" \/ revtx'.saved \/ ~del => Classified'
  BY <1>3, <1>4 DEF Classified
<1>6. CASE st = "CLOSE_UNI_LOCAL" /\ monitor_close_unilateral_local
  <2>1. /\ out' = local_out /\ wallet' = wallet \cup local_wallet /\ UNCHANGED revtx
        /\ ToLocal \in local_wallet /\ local_wallet \in SUBSET local_wallet
    BY <1>6 DEF monitor_close_unilateral_local, local_wallet
  <2>2. fund.by = "local" /\ fund' = fund /\ Classified'
    BY <1>3, <1>4, <1>5, <1>6
  <2> QED BY <1>1, <1>4, <2>1, <2>2, LocalStep
<1>7. CASE st = "CLOSE_UNI_REMOTE" /\ close_unilateral_remote
  <2>1. fund.by = "remote" /\ Classified'
    BY <1>3, <1>5, <1>7
  <2> QED BY <1>4, <1>7, <2>1, RemoteStep
<1>8. CASE st = "CLOSE_REVOKED" /\ close_revoked /\ (del => revoked_done)
  <2>1. fund.by = "revoked" /\ (status' = "DELETED" => revtx'.cnt = 0)
    BY <1>3, <1>4, <1>8 DEF revoked_done
  <2>2. CASE revtx.saved
    <3>1. revtx'.saved
      BY <1>1, <1>8, <2>2 DEF close_revoked, close_revoked_after, TypeOK
    <3> QED BY <1>4, <1>5, <1>8, <2>1, <2>2, <3>1, AfterStep
  <2>3. CASE ~revtx.saved
    <3>1. revtx'.saved
      BY <1>8, <2>3 DEF close_revoked, close_revoked_first
    <3> QED BY <1>4, <1>5, <1>8, <2>1, <2>3, <3>1, FirstStep
  <2> QED BY <2>2, <2>3
<1>9. CASE st \notin {"CLOSE_UNI_LOCAL", "CLOSE_UNI_REMOTE", "CLOSE_REVOKED"} /\ Keep
           /\ (del => st = "CLOSE_MUTUAL")
  <2>1. UNCHANGED <<out, wallet, revtx>>
    BY <1>9 DEF Keep
  <2>2. del => fund.by = "mutual"
    BY <1>3, <1>9
  <2>3. Classified'
    BY <1>5, <2>2
  <2>4. TypeOK'
    BY <1>1, <1>4, <2>1 DEF TypeOK
  <2>5. Heights'
    BY <1>1, <1>4, <2>1 DEF Heights
  <2>6. revtx.saved /\ status' = "DELETED" => status = "DELETED"
    BY <1>1, <1>3, <1>4, <2>2 DEF Untouched
  <2> QED BY <1>4, <2>1, <2>3, <2>4, <2>5, <2>6, QuietStep
<1> QED BY <1>2, <1>6, <1>7, <1>8, <1>9 DEF Pass

\* funding_unspent sends the commitment.
LEMMA UnspentStep ==
    ASSUME OnChainInv, status = "NORMAL", fund.by = "none", FundingUnspent PROVE OnChainInv'
<1>1. TypeOK /\ Classified /\ crashes \in 0 .. MaxCrashes /\ preimg \subseteq Slot
  BY DEF OnChainInv, TypeOK
<1>2. /\ fund' = Pool("local") /\ out' = local_out /\ wallet' = wallet \cup local_wallet
      /\ UNCHANGED <<revtx, status, pending, order, settled, preimg, height, crashes>>
  BY DEF FundingUnspent, monitor_close_unilateral_local
<1>3. fund'.by = "local" /\ fund' \in Spending(Commitment \cup {"mutual"})
  BY <1>2, OnChainAssumption DEF Pool, Spending, Commitment
<1>4. Classified' /\ status' \in Status
  BY <1>2, <1>3 DEF Classified, Status
<1>5. ToLocal \in local_wallet /\ local_wallet \in SUBSET local_wallet
  BY DEF local_wallet
<1> QED BY <1>1, <1>2, <1>3, <1>4, <1>5, LocalStep

LEMMA CrashStep ==
    ASSUME OnChainInv, CrashInPass PROVE OnChainInv'
<1>1. /\ TypeOK /\ Classified /\ crashes \in 0 .. MaxCrashes /\ preimg \subseteq Slot
      /\ fund \in Spending(Commitment \cup {"mutual"}) /\ status \in Status
  BY DEF OnChainInv, TypeOK
<1>2. /\ crashes < MaxCrashes /\ NewStatus = "CLOSE_UNI_LOCAL" /\ out' = local_out
      /\ wallet' = wallet \cup {ToLocal} /\ crashes' = crashes + 1
      /\ UNCHANGED <<status, pending, order, settled, fund, revtx, preimg, height>>
  BY DEF CrashInPass
<1>3. fund.by = "local" /\ fund'.by = "local"
  BY <1>2, StatusFacts
<1>4. crashes' \in 0 .. MaxCrashes /\ crashes' # 0
  BY <1>1, <1>2, OnChainAssumption
<1>5. Classified'
  BY <1>1, <1>2 DEF Classified
<1>6. {ToLocal} \in SUBSET local_wallet
  BY DEF local_wallet
<1> QED BY <1>1, <1>2, <1>3, <1>4, <1>5, <1>6, LocalStep

----------------------------------------------------------------------------
(* The theorems.                                                           *)

LEMMA OnChainInit ==
    ASSUME Init PROVE OnChainInv
<1>1. None.by = "none" /\ None.blk = 0 /\ None \in SpendingOut
      /\ None \in Spending(Commitment \cup {"mutual"})
  BY OnChainAssumption DEF None, SpendingOut, Spending
<1>2. /\ out \in [Outpoint -> SpendingOut] /\ \A o \in Outpoint : out[o] = None
  BY <1>1 DEF Init
<1>3. NoRevtx \in [saved : BOOLEAN, cnt : 0 .. LN_HTLC_MAX + 1, confm : 0 .. MaxHeight]
      /\ ~NoRevtx.saved /\ NoRevtx.confm = 0
  BY OnChainAssumption DEF NoRevtx
<1>4. /\ status = "NORMAL" /\ pending \subseteq Slot /\ order \in Orders /\ settled \in BOOLEAN
      /\ fund = None /\ revtx = NoRevtx /\ wallet = {} /\ preimg = {} /\ height = 1 /\ crashes = 0
  BY DEF Init
<1>5. TypeOK
  <2>1. 0 \in 0 .. MaxCrashes
    BY OnChainAssumption
  <2> QED BY <1>1, <1>2, <1>3, <1>4, <2>1, OnChainAssumption DEF TypeOK, SpendingOut, Status
<1>6. Heights
  BY <1>1, <1>2, <1>3, <1>4 DEF Heights
<1>7. Classified
  BY <1>4 DEF Classified
<1>8. Untouched
  <2>1. \A h \in Slot : Htlc(h) \notin wallet /\ ~Held(Second(h)) /\ out[Htlc(h)].by = "none"
    BY <1>1, <1>2, <1>4, OutpointFacts DEF Held, Spent
  <2>2. \A h \in Slot : ~Spent(Htlc(h))
    BY <2>1 DEF Spent
  <2> QED BY <1>3, <1>4, <2>1, <2>2 DEF Untouched
<1>9. LocalHeld /\ Punished
  BY <1>1, <1>3, <1>4 DEF LocalHeld, Punished
<1> QED BY <1>5, <1>6, <1>7, <1>8, <1>9 DEF OnChainInv

LEMMA OnChainNext ==
    ASSUME OnChainInv, [Next]_vars PROVE OnChainInv'
<1>1. Classified
  BY DEF OnChainInv
<1>2. CASE UNCHANGED vars
  <2>1. UNCHANGED <<status, pending, order, settled, fund, out, revtx, wallet, preimg, height, crashes>>
    BY <1>2 DEF vars
  <2>2. TypeOK' /\ Heights' /\ Classified'
    BY <2>1 DEF OnChainInv, TypeOK, Heights, Classified
  <2> QED BY <2>1, <2>2, QuietStep
<1>3. CASE monfunc
  <2>1. CASE (IsClosing \/ fund.by # "none") /\ FundingSpent
    <3>1. fund.by # "none" /\ status # "DELETED"
      BY <1>1, <1>3, <2>1 DEF Classified, IsClosing, monfunc
    <3> QED BY <2>1, <3>1, PassFacts, PassStep
  <2>2. CASE ~IsClosing /\ fund.by = "none" /\ FundingUnspent
    BY <2>2, UnspentStep DEF IsClosing
  <2> QED BY <1>3, <2>1, <2>2 DEF monfunc
<1> QED BY <1>2, <1>3, CrashStep, MineStep, SpendFundingStep, PeerStep, LearnStep, WalletStep DEF Next

\* The types, what the status says, and what is held of each kind of commitment,
\* over every behaviour of the monitoring thread, the block chain and the peer.
THEOREM OnChainInvariant == Spec => []OnChainInv
<1>1. Init => OnChainInv
  BY OnChainInit
<1>2. OnChainInv /\ [Next]_vars => OnChainInv'
  BY OnChainNext
<1> QED BY <1>1, <1>2, PTL DEF Spec

\* Nothing is missing when the counter of a revoked commitment is zero.
NothingLeft ==
    /\ Held(ToLocal) /\ Held(ToRemote)
    /\ \A h \in pending : out[Htlc(h)].by = "us" \/ Held(Second(h))

PunishmentEnded == OnChainInv /\ status = "DELETED" /\ fund.by = "revoked"

LEMMA NothingMissing == PunishmentEnded => NothingLeft
<1> SUFFICES ASSUME OnChainInv, status = "DELETED", fund.by = "revoked" PROVE NothingLeft
  BY DEF PunishmentEnded
<1>1. TypeOK /\ Untouched /\ Punished /\ revtx.saved
  BY DEF OnChainInv, Classified
<1>2. Cardinality(Missing) = 0 /\ Held(ToLocal) /\ Held(ToRemote)
  BY <1>1 DEF Punished
<1>3. Missing = {}
  <2>1. IsFiniteSet(Missing)
    BY <1>1, CountFacts DEF Missing
  <2> QED BY <1>2, <2>1, FS_EmptySet
<1>4. ASSUME NEW h \in pending PROVE out[Htlc(h)].by = "us" \/ Held(Second(h))
  <2>1. out[Htlc(h)].by \in {"us", "htlc_tx"}
    BY <1>1 DEF Untouched, Punished, Spent
  <2> QED BY <1>3, <2>1 DEF Missing
<1> QED BY <1>2, <1>4 DEF NothingLeft

\* The peer cannot take part of a revoked commitment unnoticed.
THEOREM PenaltyAlwaysComplete == Spec => []PenaltyComplete
<1>1. OnChainInv => PenaltyComplete
  BY NothingMissing DEF PenaltyComplete, Held, NothingLeft, PunishmentEnded
<1> QED BY <1>1, OnChainInvariant, PTL

\* The step that removes the channel.
LEMMA DeletedStep ==
    ASSUME OnChainInv, [Next]_vars, status # "DELETED", status' = "DELETED", crashes = 0, settled,
           NEW o \in Ours(out', preimg)
    PROVE  o \in wallet' \/ out'[o].by # "none"
<1>1. /\ TypeOK /\ Classified /\ pending \subseteq Slot /\ height \in Nat
      /\ OnChainInv'
  BY TypeFacts, OnChainNext DEF OnChainInv
<1>2. fund.by # "none" /\ \E del \in BOOLEAN : Pass(NewStatus, del)
  <2>1. monfunc
    BY DEF Next, vars, Mine, SpendFunding, PeerSpends, WalletSpends, LearnPreimage, CrashInPass
  <2>2. status' # status
    OBVIOUS
  <2>3. FundingSpent /\ (IsClosing \/ fund.by # "none")
    BY <2>1, <2>2 DEF monfunc, FundingUnspent
  <2> QED BY <1>1, <2>3, PassFacts DEF Classified, IsClosing
<1>3. PICK del \in BOOLEAN : Pass(NewStatus, del)
  BY <1>2
<1>4. del /\ UNCHANGED <<pending, fund, height, crashes>>
  BY <1>3, StatusFacts DEF Pass
<1>5. CASE fund.by = "local"
  <2>1. NewStatus = "CLOSE_UNI_LOCAL" /\ monitor_close_unilateral_local
    BY <1>3, <1>4, <1>5, StatusFacts DEF Pass
  <2>2. ToLocal \in wallet'
    BY <2>1 DEF monitor_close_unilateral_local, local_wallet
  <2>3. \A h \in pending : out'[Htlc(h)].by = "us" => Held(Second(h))'
    BY <1>1, <1>4, <1>5 DEF OnChainInv, LocalHeld
  <2>4. o \in {ToLocal} \cup {Second(h) : h \in {k \in pending : out'[Htlc(k)].by = "us"}}
    BY <1>5 DEF Ours
  <2> QED BY <2>2, <2>3, <2>4 DEF Held, Spent
<1>6. CASE fund.by = "remote"
  <2>1. NewStatus = "CLOSE_UNI_REMOTE" /\ close_unilateral_remote /\ remote_done
    BY <1>3, <1>4, <1>6, StatusFacts DEF Pass
  <2>2. /\ out' = out
        /\ wallet' = (wallet \ {Htlc(h) : h \in {k \in pending : Spent(Htlc(k))}})
                       \cup {ToRemote} \cup {Htlc(h) : h \in remote_wallet}
    BY <2>1 DEF close_unilateral_remote
  <2>3. o \in {ToRemote} \cup {Htlc(h) : h \in pending \cap (Offered \cup preimg)}
    BY <1>6 DEF Ours
  <2>4. CASE o = ToRemote
    BY <2>2, <2>4
  <2>5. ASSUME NEW h \in pending \cap (Offered \cup preimg), o = Htlc(h)
        PROVE  o \in wallet' \/ out'[o].by # "none"
    <3>1. Spent(Htlc(h)) \/ Htlc(h) \in wallet \/ remote_timelock(h) <= height
      BY <2>1, <2>5 DEF remote_done, remote_htlc_done
    <3>2. CASE Spent(Htlc(h))
      BY <2>2, <2>5, <3>2 DEF Spent
    <3>3. CASE ~Spent(Htlc(h)) /\ Htlc(h) \in wallet
      <4>1. Htlc(h) \notin {Htlc(k) : k \in {j \in pending : Spent(Htlc(j))}}
        BY <3>3
      <4> QED BY <2>2, <2>5, <3>3, <4>1
    <3>4. CASE ~Spent(Htlc(h)) /\ remote_timelock(h) <= height
      <4>1. h \in remote_wallet
        BY <2>5, <3>4 DEF remote_wallet
      <4> QED BY <2>2, <2>5, <4>1
    <3> QED BY <3>1, <3>2, <3>3, <3>4
  <2> QED BY <2>3, <2>4, <2>5
<1>7. CASE fund.by = "revoked"
  <2>1. NothingLeft'
    <3>1. PunishmentEnded'
      BY <1>1, <1>4, <1>7 DEF PunishmentEnded
    <3> QED BY <3>1, NothingMissing, PTL
  <2>2. o \in {ToLocal, ToRemote} \cup {Second(h) : h \in {k \in pending : out'[Htlc(k)].by = "htlc_tx"}}
    BY <1>7 DEF Ours
  <2> QED BY <1>4, <2>1, <2>2 DEF NothingLeft, Held, Spent
<1>8. CASE fund.by \notin {"local", "remote", "revoked"}
  BY <1>8 DEF Ours
<1> QED BY <1>5, <1>6, <1>7, <1>8

\* The channel is removed only when everything that belongs to the node is in
\* its wallet or spent.
THEOREM AlwaysRecovered == Spec => RecoveredBeforeDeleted
<1>1. OnChainInv /\ [Next]_vars =>
        [status # "DELETED" /\ status' = "DELETED" /\ crashes = 0 /\ settled =>
           \A o \in Ours(out', preimg) : o \in wallet' \/ out'[o].by # "none"]_vars
  BY DeletedStep
<1> QED BY <1>1, OnChainInvariant, PTL DEF Spec, RecoveredBeforeDeleted
=============================================================================
