--------------------------- MODULE PaymentProofs ---------------------------
(***************************************************************************)
(* No payment is paid twice, for every value of the constants of module    *)
(* Payment: any network, any routes, any number of payments, commands,     *)
(* channels, slots and lost connections (PaidOnce).                        *)
(*                                                                         *)
(* The argument.  What is under way for a payment is a call of the daemon  *)
(* to itself, the route in the hands of the RPC thread, or an HTLC; each   *)
(* step hands it from one to the next.  Nothing checks that there is only  *)
(* one: it follows because a retry is asked for by the step that gives up  *)
(* what was there (Alone).  And nothing checks that a payment to be tried  *)
(* again is not paid: it follows because the HTLC that paid it is the only *)
(* one, and an HTLC that is fulfilled never fails (Settled).               *)
(***************************************************************************)
EXTENDS Payment, SequenceTheorems, FiniteSetTheorems, TLAPS

----------------------------------------------------------------------------
(* The inductive invariant.                                                *)

\* A slot: hash is <<>> when it is free.
SlotType ==
    [ hash : Hash \cup {<<>>},
      stage : {"empty", "added", "sent", "fulfilled", "failed"},
      again : BOOLEAN ]

Slots ==
    /\ htlc \in [OwnCnl -> [Slot -> SlotType]]
    /\ \A c \in OwnCnl, s \in Slot :
          htlc[c][s].hash = <<>> <=> htlc[c][s].stage = "empty"

Routes ==
    /\ DOMAIN payroute = OwnCnl
    /\ \A c \in OwnCnl :
          /\ DOMAIN payroute[c] = Slot
          /\ \A s \in Slot : payroute[c][s] # <<>> => htlc[c][s].stage \in {"added", "sent"}

\* The three places where a payment can be under way.
Called(h) == \E i \in DOMAIN calls : calls[i] = h
InHand(h) == rpc # Idle /\ rpc[1] = h
Offered(h) == \E c \in OwnCnl, s \in Slot : htlc[c][s].hash = h

\* It is in one of them, and there once.
Alone(h) ==
    /\ \A i, j \in DOMAIN calls : calls[i] = h /\ calls[j] = h => i = j
    /\ \A c, d \in OwnCnl, s, t \in Slot :
          htlc[c][s].hash = h /\ htlc[d][t].hash = h => c = d /\ s = t
    /\ ~(Called(h) /\ InHand(h)) /\ ~(Called(h) /\ Offered(h)) /\ ~(InHand(h) /\ Offered(h))

\* A payment that is paid is not tried again, and the HTLC that paid it can only end.
Settled(h) ==
    h \in paid =>
        /\ ~Called(h) /\ ~InHand(h)
        /\ \A c \in OwnCnl, s \in Slot :
              htlc[c][s].hash = h => htlc[c][s].stage = "fulfilled"

\* The types of the other variables.
OtherTypes ==
    /\ upd \in [Announced -> [1 .. 2 -> Updates]]
    /\ skip \in [Cnl -> Skip]
    /\ invoice \subseteq Hash /\ paid \subseteq Hash /\ astray \subseteq Hash
    /\ calls \in Seq(Hash)
    /\ rpc = Idle \/ rpc[1] \in Hash
    /\ online \subseteq OwnCnl

PayInv ==
    /\ OtherTypes /\ Slots /\ Routes
    /\ \A h \in Hash : Alone(h) /\ Settled(h)

----------------------------------------------------------------------------
(* Calls and slots.                                                        *)

\* A call is taken from the queue.
LEMMA TakeCall ==
    ASSUME NEW h \in Hash, NEW q \in Seq(Hash), q # <<>>, Head(q) = h
    PROVE  /\ Tail(q) \in Seq(Hash) /\ 1 \in DOMAIN q /\ q[1] = h
           /\ \A i \in DOMAIN Tail(q) : i + 1 \in DOMAIN q /\ Tail(q)[i] = q[i + 1] /\ i \in Nat
           /\ \A i \in DOMAIN q : i \in Nat
OBVIOUS

\* A call is put into it.
LEMMA PutCall ==
    ASSUME NEW h \in Hash, NEW q \in Seq(Hash)
    PROVE  /\ Append(q, h) \in Seq(Hash)
           /\ \A i \in DOMAIN Append(q, h) :
                 (i \in DOMAIN q /\ Append(q, h)[i] = q[i])
                 \/ (i = Len(q) + 1 /\ Append(q, h)[i] = h)
OBVIOUS

\* One slot is written.
Wrote(c, s, g) ==
    /\ Slots' /\ htlc'[c][s] = g
    /\ \A d \in OwnCnl, t \in Slot : d # c \/ t # s => htlc'[d][t] = htlc[d][t]

LEMMA SetHtlc ==
    ASSUME Slots, NEW c \in OwnCnl, NEW s \in Slot, NEW g \in SlotType,
           g.hash = <<>> <=> g.stage = "empty",
           htlc' = [htlc EXCEPT ![c][s] = g]
    PROVE  Wrote(c, s, g)
<1> DEFINE f == [htlc[c] EXCEPT ![s] = g]
<1>1. htlc \in [OwnCnl -> [Slot -> SlotType]]
  BY DEF Slots
<1>2. f \in [Slot -> SlotType] /\ f[s] = g /\ \A t \in Slot : t # s => f[t] = htlc[c][t]
  BY <1>1
<1>3. htlc' = [htlc EXCEPT ![c] = f]
  OBVIOUS
<1> HIDE DEF f
<1>4. /\ htlc' \in [OwnCnl -> [Slot -> SlotType]] /\ htlc'[c] = f
      /\ \A d \in OwnCnl : d # c => htlc'[d] = htlc[d]
  BY <1>1, <1>2, <1>3
<1>5. /\ htlc'[c][s] = g
      /\ \A d \in OwnCnl, t \in Slot : d # c \/ t # s => htlc'[d][t] = htlc[d][t]
  BY <1>2, <1>4
<1>6. \A d \in OwnCnl, t \in Slot : htlc'[d][t].hash = <<>> <=> htlc'[d][t].stage = "empty"
  BY <1>5 DEF Slots
<1> QED BY <1>4, <1>5, <1>6 DEF Slots, Wrote

\* The entry of one slot is written.
LEMMA SetRoute ==
    ASSUME Routes, NEW c \in OwnCnl, NEW s \in Slot, NEW r,
           payroute' = [payroute EXCEPT ![c][s] = r],
           r # <<>> => htlc'[c][s].stage \in {"added", "sent"},
           \A d \in OwnCnl, t \in Slot : d # c \/ t # s => htlc'[d][t] = htlc[d][t]
    PROVE  Routes'
<1>1. DOMAIN payroute' = OwnCnl /\ \A d \in OwnCnl : DOMAIN payroute'[d] = Slot
  BY DEF Routes
<1>2. /\ payroute'[c][s] = r
      /\ \A d \in OwnCnl, t \in Slot : d # c \/ t # s => payroute'[d][t] = payroute[d][t]
  BY DEF Routes
<1> QED BY <1>1, <1>2 DEF Routes

\* The skip list stays one.
LEMMA SkipTypes ==
    ASSUME NEW sk \in [Cnl -> Skip], NEW b \in BOOLEAN, NEW c
    PROVE  /\ ln_db_routeskip_work(sk, b) \in [Cnl -> Skip]
           /\ ln_db_routeskip_save(sk, c, b) \in [Cnl -> Skip]
<1>1. ln_db_routeskip_work(sk, b) \in [Cnl -> Skip]
  BY DEF ln_db_routeskip_work, Skip
<1>2. ln_db_routeskip_save(sk, c, b) \in [Cnl -> Skip]
  BY DEF ln_db_routeskip_save, Skip
<1> QED BY <1>1, <1>2

----------------------------------------------------------------------------
(* The steps.                                                              *)

\* Nothing begins for h: it stays where it is, or its HTLC goes.
LEMMA Kept ==
    ASSUME NEW h \in Hash, Alone(h), Settled(h),
           \A i \in DOMAIN calls' : calls'[i] = h => i \in DOMAIN calls /\ calls[i] = h,
           rpc' = rpc \/ rpc' = Idle \/ (rpc' # Idle /\ rpc'[1] # h),
           h \in paid' => h \in paid,
           \A c \in OwnCnl, s \in Slot : htlc'[c][s].hash = h =>
              /\ htlc[c][s].hash = h
              /\ htlc[c][s].stage = "fulfilled" => htlc'[c][s].stage = "fulfilled"
    PROVE  Alone(h)' /\ Settled(h)'
<1>1. Called(h)' => Called(h)
  BY DEF Called
<1>2. InHand(h)' => InHand(h)
  BY DEF InHand, Idle
<1>3. Offered(h)' => Offered(h)
  BY DEF Offered
<1>4. Alone(h)'
  BY <1>1, <1>2, <1>3 DEF Alone
<1>5. Settled(h)'
  BY <1>1, <1>2 DEF Settled
<1> QED BY <1>4, <1>5

\* The RPC thread takes up h, which is nowhere else, or gives it up.
LEMMA TakeUp ==
    ASSUME OtherTypes, NEW sk \in [Cnl -> Skip], NEW h \in Hash,
           cmd_routepay_proc1(sk, h)
    PROVE  /\ skip' \in [Cnl -> Skip] /\ invoice' \subseteq Hash
           /\ rpc' = Idle \/ (rpc' # Idle /\ rpc'[1] = h)
<1>1. CASE GiveUp(sk, h)
  BY <1>1, SkipTypes DEF GiveUp, ln_db_invoice_del, OtherTypes
<1>2. CASE /\ \E r \in ln_routing_calculate(sk, h) : rpc' = <<h, r>>
           /\ skip' = sk
           /\ UNCHANGED invoice
  <2>1. PICK r : rpc' = <<h, r>>
    BY <1>2
  <2> QED BY <2>1, <1>2 DEF OtherTypes, Idle
<1> QED BY <1>1, <1>2 DEF cmd_routepay_proc1

LEMMA PayStep ==
    ASSUME PayInv, NEW h \in Hash, cmd_routepay(h) PROVE PayInv'
<1>1. /\ OtherTypes /\ Slots /\ Routes /\ rpc = Idle /\ h \notin paid /\ Attempts(h) = {}
      /\ cmd_routepay_proc1(ln_db_routeskip_work(skip, TRUE), h)
      /\ astray' = astray \ {h}
      /\ UNCHANGED <<upd, calls, online, htlc, payroute, paid>>
  BY DEF PayInv, cmd_routepay
<1>2. ln_db_routeskip_work(skip, TRUE) \in [Cnl -> Skip]
  BY <1>1, SkipTypes DEF OtherTypes
<1>3. /\ skip' \in [Cnl -> Skip] /\ invoice' \subseteq Hash
      /\ rpc' = Idle \/ (rpc' # Idle /\ rpc'[1] = h)
  BY <1>1, <1>2, TakeUp
<1>4. OtherTypes' /\ Slots' /\ Routes'
  BY <1>1, <1>3 DEF OtherTypes, Slots, Routes
<1>5. ~Called(h) /\ ~Offered(h)
  <2>1. ~Called(h)
    BY <1>1 DEF Attempts, Called
  <2>2. ASSUME NEW c \in OwnCnl, NEW s \in Slot, htlc[c][s].hash = h PROVE FALSE
    <3>1. <<c, s>> \in {x \in OwnCnl \X Slot : htlc[x[1]][x[2]].hash = h}
      BY <2>2
    <3>2. <<"htlc", <<c, s>>>> \in Attempts(h)
      BY <3>1 DEF Attempts
    <3> QED BY <3>2, <1>1
  <2> QED BY <2>1, <2>2 DEF Offered
<1>6. ASSUME NEW k \in Hash PROVE Alone(k)' /\ Settled(k)'
  <2>1. Alone(k) /\ Settled(k)
    BY DEF PayInv
  <2>2. CASE k = h
    <3>1. ~Called(h)' /\ ~Offered(h)' /\ h \notin paid'
      BY <1>1, <1>5 DEF Called, Offered
    <3>2. Alone(h)'
      BY <3>1 DEF Alone, Called, Offered
    <3> QED BY <2>2, <3>1, <3>2 DEF Settled
  <2>3. CASE k # h
    BY <2>1, <2>3, <1>1, <1>3, Kept
  <2> QED BY <2>2, <2>3
<1> QED BY <1>4, <1>6 DEF PayInv

LEMMA ContStep ==
    ASSUME PayInv, NEW h \in Hash, cmd_routepay_cont(h) PROVE PayInv'
<1>1. /\ OtherTypes /\ Slots /\ Routes /\ rpc = Idle /\ calls # <<>> /\ Head(calls) = h
      /\ calls' = Tail(calls) /\ cmd_routepay_proc1(skip, h)
      /\ UNCHANGED <<upd, online, htlc, payroute, paid, astray>>
      /\ calls \in Seq(Hash) /\ skip \in [Cnl -> Skip]
  BY DEF PayInv, OtherTypes, cmd_routepay_cont, env
<1>2. /\ Tail(calls) \in Seq(Hash) /\ 1 \in DOMAIN calls /\ calls[1] = h
      /\ \A i \in DOMAIN Tail(calls) :
            i + 1 \in DOMAIN calls /\ Tail(calls)[i] = calls[i + 1] /\ i \in Nat
      /\ \A i \in DOMAIN calls : i \in Nat
  BY <1>1, TakeCall
<1>3. /\ skip' \in [Cnl -> Skip] /\ invoice' \subseteq Hash
      /\ rpc' = Idle \/ (rpc' # Idle /\ rpc'[1] = h)
  BY <1>1, TakeUp
<1>4. OtherTypes' /\ Slots' /\ Routes'
  BY <1>1, <1>2, <1>3 DEF OtherTypes, Slots, Routes
<1>5. ASSUME NEW k \in Hash PROVE Alone(k)' /\ Settled(k)'
  <2>1. Alone(k) /\ Settled(k)
    BY DEF PayInv
  <2>2. CASE k = h
    <3>1. Called(h)
      BY <1>2 DEF Called
    <3>2. ~Offered(h)' /\ h \notin paid'
      BY <2>1, <2>2, <3>1, <1>1 DEF Alone, Settled, Offered
    <3>3. ~Called(h)'
      <4> SUFFICES ASSUME NEW i \in DOMAIN Tail(calls), Tail(calls)[i] = h PROVE FALSE
        BY <1>1 DEF Called
      <4>1. i + 1 \in DOMAIN calls /\ calls[i + 1] = h /\ i \in Nat
        BY <1>2
      <4>2. i + 1 = 1
        BY <4>1, <1>2, <2>1, <2>2 DEF Alone
      <4> QED BY <4>1, <4>2
    <3>4. Alone(h)'
      BY <3>2, <3>3 DEF Alone, Called, Offered
    <3> QED BY <2>2, <3>2, <3>4 DEF Settled
  <2>3. CASE k # h
    <3>1. Called(k)' => Called(k)
      BY <1>1, <1>2 DEF Called
    <3>2. ~InHand(k)' /\ (Offered(k)' <=> Offered(k))
      BY <2>3, <1>1, <1>3 DEF InHand, Offered
    <3>3. \A i, j \in DOMAIN calls' : calls'[i] = k /\ calls'[j] = k => i = j
      <4> SUFFICES ASSUME NEW i \in DOMAIN Tail(calls), NEW j \in DOMAIN Tail(calls),
                          Tail(calls)[i] = k, Tail(calls)[j] = k
                   PROVE  i = j
        BY <1>1
      <4>1. /\ i + 1 \in DOMAIN calls /\ calls[i + 1] = k /\ i \in Nat
            /\ j + 1 \in DOMAIN calls /\ calls[j + 1] = k /\ j \in Nat
        BY <1>2
      <4>2. i + 1 = j + 1
        BY <4>1, <2>1 DEF Alone
      <4> QED BY <4>1, <4>2
    <3>4. Alone(k)'
      BY <3>1, <3>2, <3>3, <2>1, <1>1 DEF Alone
    <3>5. Settled(k)'
      BY <3>1, <3>2, <2>1, <1>1 DEF Settled
    <3> QED BY <3>4, <3>5
  <2> QED BY <2>2, <2>3
<1> QED BY <1>4, <1>5 DEF PayInv

\* lnapp_payment takes the HTLC, or the daemon calls itself.
LEMMA SendStep ==
    ASSUME PayInv, cmd_routepay_proc2 PROVE PayInv'
<1>0. rpc # Idle /\ rpc[1] \in Hash
  BY DEF PayInv, OtherTypes, cmd_routepay_proc2
<1>a. PICK h \in Hash : h = rpc[1]
  BY <1>0
<1>b. PICK r : r = rpc[2]
  BY <1>0
<1>1. /\ OtherTypes /\ Slots /\ Routes /\ rpc # Idle /\ h \in Hash
      /\ invoice' = invoice \cup {h}
      /\ UNCHANGED <<upd, online, paid, astray>>
      /\ calls \in Seq(Hash) /\ skip \in [Cnl -> Skip]
      /\ \/ \E c \in OwnCnl : Accept(c, h, r)
         \/ Retry(h, r)
  BY <1>a, <1>b DEF PayInv, OtherTypes, cmd_routepay_proc2, env, ln_db_invoice_save,
         ptarmd_search_transferable_nodeid
<1>2. /\ Alone(h) /\ Settled(h) /\ InHand(h) /\ ~Called(h) /\ ~Offered(h) /\ h \notin paid
      /\ \A k \in Hash : k # h => ~InHand(k)
  BY <1>a, <1>1 DEF PayInv, InHand, Alone, Settled
<1>3. CASE \E c \in OwnCnl : Accept(c, h, r)
  <2>1. PICK c \in OwnCnl, s \in Slot :
            /\ htlc[c][s].stage = "empty"
            /\ htlc' = [htlc EXCEPT ![c][s] = [hash |-> h, stage |-> "added",
                                               again |-> FALSE]]
            /\ payroute' = [payroute EXCEPT ![c][s] = [i \in DOMAIN r |-> r[i].sci]]
            /\ rpc' = Idle /\ UNCHANGED <<skip, calls>>
    BY <1>3 DEF Accept, FreeSlots, payroute_push
  <2> DEFINE g == [hash |-> h, stage |-> "added", again |-> FALSE]
  <2>2. g \in SlotType /\ g.hash = h /\ g.stage = "added" /\ h # <<>>
    BY <1>1, PaymentAssumption DEF SlotType
  <2>3. htlc' = [htlc EXCEPT ![c][s] = g]
    BY <2>1
  <2> HIDE DEF g
  <2>a. Slots /\ Routes /\ g \in SlotType /\ (g.hash = <<>> <=> g.stage = "empty")
    BY <2>2, <1>1
  <2>4. /\ Slots' /\ htlc'[c][s] = g
        /\ \A d \in OwnCnl, t \in Slot : d # c \/ t # s => htlc'[d][t] = htlc[d][t]
    <3>1. Wrote(c, s, g)
      BY <2>a, <2>3, SetHtlc
    <3> QED BY <3>1 DEF Wrote
  <2>5. Routes'
    <3> DEFINE rt == [i \in DOMAIN r |-> r[i].sci]
    <3>1. payroute' = [payroute EXCEPT ![c][s] = rt]
      BY <2>1
    <3> HIDE DEF rt
    <3>2. rt # <<>> => htlc'[c][s].stage \in {"added", "sent"}
      BY <2>2, <2>4
    <3> QED BY <2>a, <2>4, <3>1, <3>2, SetRoute
  <2>6. OtherTypes'
    BY <2>1, <1>1 DEF OtherTypes
  <2>7. ASSUME NEW k \in Hash PROVE Alone(k)' /\ Settled(k)'
    <3>1. Alone(k) /\ Settled(k)
      BY DEF PayInv
    <3>2. CASE k = h
      <4>1. ~Called(h)' /\ ~InHand(h)' /\ h \notin paid'
        BY <2>1, <1>1, <1>2 DEF Called, InHand
      <4>2. \A d \in OwnCnl, t \in Slot : htlc'[d][t].hash = h => d = c /\ t = s
        BY <2>4, <1>2 DEF Offered
      <4> QED BY <3>2, <4>1, <4>2 DEF Alone, Settled, Called
    <3>3. CASE k # h
      BY <3>1, <3>3, <2>1, <2>2, <2>4, <1>1, Kept
    <3> QED BY <3>2, <3>3
  <2> QED BY <2>4, <2>5, <2>6, <2>7 DEF PayInv
<1>4. CASE Retry(h, r)
  <2>1. /\ skip' = ln_db_routeskip_save(skip, r[1].sci, TRUE)
        /\ calls' = Append(calls, h) /\ rpc' = Idle
        /\ UNCHANGED <<htlc, payroute>>
    BY <1>4 DEF Retry, cmd_json_pay
  <2>2. skip' \in [Cnl -> Skip]
    BY <2>1, <1>1, SkipTypes
  <2>3. /\ calls' \in Seq(Hash)
        /\ \A i \in DOMAIN calls' :
              (i \in DOMAIN calls /\ calls'[i] = calls[i])
              \/ (i = Len(calls) + 1 /\ calls'[i] = h)
    BY <2>1, <1>1, PutCall
  <2>4. OtherTypes' /\ Slots' /\ Routes'
    BY <2>1, <2>2, <2>3, <1>1 DEF OtherTypes, Slots, Routes
  <2>5. ASSUME NEW k \in Hash PROVE Alone(k)' /\ Settled(k)'
    <3>1. Alone(k) /\ Settled(k)
      BY DEF PayInv
    <3>2. CASE k = h
      <4>1. ~Offered(h)' /\ ~InHand(h)' /\ h \notin paid'
        BY <2>1, <1>1, <1>2 DEF Offered, InHand
      <4>2. \A i \in DOMAIN calls' : calls'[i] = h => i = Len(calls) + 1
        BY <2>3, <1>2 DEF Called
      <4> QED BY <3>2, <4>1, <4>2 DEF Alone, Settled, Offered
    <3>3. CASE k # h
      <4>1. \A i \in DOMAIN calls' : calls'[i] = k => i \in DOMAIN calls /\ calls[i] = k
        BY <3>3, <2>3
      <4> QED BY <4>1, <3>1, <3>3, <2>1, <1>1, Kept
    <3> QED BY <3>2, <3>3
  <2> QED BY <2>4, <2>5 DEF PayInv
<1> QED BY <1>1, <1>3, <1>4

\* The HTLC of a slot goes on: it is signed, fulfilled or failed.
LEMMA GoesOn ==
    ASSUME PayInv, OtherTypes', Routes', NEW c \in OwnCnl, NEW s \in Slot,
           NEW k \in Hash, htlc[c][s].hash = k, NEW g \in SlotType,
           g.hash = k, g.stage # "empty",
           htlc[c][s].stage = "fulfilled" => g.stage = "fulfilled",
           htlc' = [htlc EXCEPT ![c][s] = g], UNCHANGED <<calls, rpc>>,
           paid' = paid \/ (g.stage = "fulfilled" /\ paid' = paid \cup {k})
    PROVE  PayInv'
<1>1. Slots /\ (g.hash = <<>> <=> g.stage = "empty")
  BY PaymentAssumption DEF PayInv
<1>2. /\ Slots' /\ htlc'[c][s] = g
      /\ \A d \in OwnCnl, t \in Slot : d # c \/ t # s => htlc'[d][t] = htlc[d][t]
  <2>1. Wrote(c, s, g)
    BY <1>1, SetHtlc
  <2> QED BY <2>1 DEF Wrote
<1>3. ASSUME NEW h \in Hash PROVE Alone(h)' /\ Settled(h)'
  <2>1. Alone(h) /\ Settled(h)
    BY DEF PayInv
  <2>2. \A d \in OwnCnl, t \in Slot : htlc'[d][t].hash = h =>
           /\ htlc[d][t].hash = h
           /\ htlc[d][t].stage = "fulfilled" => htlc'[d][t].stage = "fulfilled"
    BY <1>2
  <2>3. CASE h \in paid' => h \in paid
    BY <2>1, <2>2, <2>3, Kept
  <2>4. CASE h \in paid' /\ h \notin paid
    <3>1. h = k /\ g.stage = "fulfilled"
      BY <2>4
    <3>2. Offered(h) /\ ~Called(h) /\ ~InHand(h)
      BY <3>1, <2>1 DEF Offered, Alone
    <3>3. ~Called(h)' /\ ~InHand(h)'
      BY <3>2 DEF Called, InHand
    <3>4. \A d \in OwnCnl, t \in Slot : htlc'[d][t].hash = h => d = c /\ t = s
      BY <2>1, <2>2, <3>1 DEF Alone
    <3>5. Alone(h)'
      BY <3>3, <3>4 DEF Alone, Called
    <3>6. Settled(h)'
      BY <3>1, <3>3, <3>4, <1>2 DEF Settled
    <3> QED BY <3>5, <3>6
  <2> QED BY <2>3, <2>4
<1> QED BY <1>2, <1>3 DEF PayInv

\* A slot in use holds a payment.
LEMMA InUse ==
    ASSUME PayInv, NEW c \in OwnCnl, NEW s \in Slot, htlc[c][s].stage # "empty"
    PROVE  htlc[c][s].hash \in Hash /\ htlc[c][s] \in SlotType
<1>1. htlc[c][s] \in SlotType /\ htlc[c][s].hash # <<>>
  BY DEF PayInv, Slots
<1> QED BY <1>1 DEF SlotType

LEMMA ExchangeStep ==
    ASSUME PayInv, NEW c \in OwnCnl, NEW s \in Slot, Exchange(c, s) PROVE PayInv'
<1>1. /\ OtherTypes /\ Slots /\ Routes /\ htlc[c][s].stage = "added"
      /\ htlc' = [htlc EXCEPT ![c][s].stage = "sent"]
      /\ UNCHANGED <<upd, online, skip, invoice, calls, rpc, payroute, paid, astray>>
  BY DEF PayInv, Exchange, env
<1>2. htlc[c][s].hash \in Hash /\ htlc[c][s] \in SlotType
  BY <1>1, InUse
<1>3. PICK k \in Hash : htlc[c][s].hash = k
  BY <1>2
<1>4. PICK g : g = [htlc[c][s] EXCEPT !.stage = "sent"]
  OBVIOUS
<1>5. g \in SlotType /\ g.hash = k /\ g.stage = "sent"
  BY <1>2, <1>3, <1>4 DEF SlotType
<1>6. htlc' = [htlc EXCEPT ![c][s] = g]
  BY <1>1, <1>4
<1>7. OtherTypes'
  BY <1>1 DEF OtherTypes
<1>8. /\ Slots' /\ htlc'[c][s] = g
      /\ \A d \in OwnCnl, t \in Slot : d # c \/ t # s => htlc'[d][t] = htlc[d][t]
  <2>1. Slots /\ g \in SlotType /\ (g.hash = <<>> <=> g.stage = "empty")
    BY <1>1, <1>5, PaymentAssumption
  <2>2. Wrote(c, s, g)
    BY <2>1, <1>6, SetHtlc
  <2> QED BY <2>2 DEF Wrote
<1>9. Routes'
  BY <1>1, <1>5, <1>8 DEF Routes
<1>a. paid' = paid /\ UNCHANGED <<calls, rpc>> /\ htlc[c][s].stage # "fulfilled"
  BY <1>1
<1> QED BY <1>3, <1>5, <1>6, <1>7, <1>9, <1>a, GoesOn

\* What the two ends of an HTLC have in common: the slot was in use, not
\* fulfilled before it failed, and the route is no longer kept.
LEMMA EndTypes ==
    ASSUME PayInv, NEW c \in OwnCnl, NEW s \in Slot, NEW stage \in {"fulfilled", "failed"},
           HtlcEnds(c, s, stage)
    PROVE  /\ htlc[c][s].hash \in Hash /\ htlc[c][s] \in SlotType
           /\ htlc[c][s].stage \in {"sent", stage}
<1>1. htlc[c][s].stage \in {"sent", stage}
  BY DEF HtlcEnds
<1> QED BY <1>1, InUse

LEMMA EndRoutes ==
    ASSUME PayInv, NEW c \in OwnCnl, NEW s \in Slot, payroute_del(c, s),
           \A d \in OwnCnl, t \in Slot : d # c \/ t # s => htlc'[d][t] = htlc[d][t]
    PROVE  Routes'
<1>1. Routes /\ payroute' = [payroute EXCEPT ![c][s] = <<>>]
  BY DEF PayInv, payroute_del
<1>2. PICK r : r = <<>>
  OBVIOUS
<1> QED BY <1>1, <1>2, SetRoute

LEMMA FulfillStep ==
    ASSUME PayInv, NEW c \in OwnCnl, NEW s \in Slot, cbsub_fulfill_originnode(c, s)
    PROVE  PayInv'
<1>1. /\ OtherTypes /\ HtlcEnds(c, s, "fulfilled")
      /\ invoice' = invoice \ {htlc[c][s].hash}
      /\ skip' = ln_db_routeskip_work(skip, FALSE)
      /\ paid' = paid \cup {htlc[c][s].hash}
      /\ UNCHANGED <<upd, online, calls, rpc, astray>>
  BY DEF PayInv, cbsub_fulfill_originnode, env, ln_db_invoice_del
<1>g. PICK g : g = [htlc[c][s] EXCEPT !.stage = "fulfilled", !.again = FALSE]
  OBVIOUS
<1>2. htlc' = [htlc EXCEPT ![c][s] = g]
  BY <1>g DEF cbsub_fulfill_originnode
<1>3. /\ Routes' /\ htlc[c][s].hash \in Hash
      /\ g \in SlotType /\ g.hash = htlc[c][s].hash /\ g.stage = "fulfilled"
  <2>1. /\ htlc[c][s].hash \in Hash /\ htlc[c][s] \in SlotType
    BY <1>1, EndTypes
  <2>2. g \in SlotType /\ g.hash = htlc[c][s].hash /\ g.stage = "fulfilled"
    BY <2>1, <1>g DEF SlotType
  <2>3. g.hash \in Hash /\ g.stage # "empty" /\ payroute_del(c, s)
    BY <2>1, <2>2, <1>1 DEF HtlcEnds
  <2>4. /\ Slots' /\ htlc'[c][s] = g
        /\ \A d \in OwnCnl, t \in Slot : d # c \/ t # s => htlc'[d][t] = htlc[d][t]
    <3>1. Slots /\ g \in SlotType /\ (g.hash = <<>> <=> g.stage = "empty")
      BY <2>2, <2>3, PaymentAssumption DEF PayInv
    <3>2. Wrote(c, s, g)
      BY <3>1, <1>2, SetHtlc
    <3> QED BY <3>2 DEF Wrote
  <2>5. Routes'
    BY <2>3, <2>4, EndRoutes
  <2> QED BY <2>1, <2>2, <2>5
<1>4. PICK k \in Hash : htlc[c][s].hash = k
  BY <1>3
<1>5. skip' \in [Cnl -> Skip]
  BY <1>1, SkipTypes DEF OtherTypes
<1>6. OtherTypes'
  BY <1>1, <1>4, <1>5 DEF OtherTypes
<1>7. /\ paid' = paid \cup {k} /\ UNCHANGED <<calls, rpc>>
      /\ g \in SlotType /\ g.hash = k /\ g.stage = "fulfilled"
  BY <1>1, <1>3, <1>4
<1> QED BY <1>2, <1>3, <1>4, <1>6, <1>7, GoesOn

LEMMA FailStep ==
    ASSUME PayInv, NEW c \in OwnCnl, NEW s \in Slot, NetworkFails(c, s)
    PROVE  PayInv'
<1>1. PICK hop \in 0 .. NumNode, decoded \in BOOLEAN, btemp \in BOOLEAN :
          cbsub_fail_originnode(c, s, hop, decoded, btemp)
  BY DEF NetworkFails
<1>2. /\ OtherTypes /\ HtlcEnds(c, s, "failed")
      /\ skip' = skip \/ \E x : skip' = ln_db_routeskip_save(skip, x, btemp)
      /\ astray' = astray \/ astray' = astray \cup {htlc[c][s].hash}
      /\ UNCHANGED <<upd, online, invoice, calls, rpc, paid>>
  BY <1>1 DEF PayInv, cbsub_fail_originnode, env
<1>g. PICK g : g = [htlc[c][s] EXCEPT !.stage = "failed", !.again = FALSE]
  OBVIOUS
<1>3. htlc' = [htlc EXCEPT ![c][s] = g]
  BY <1>1, <1>g DEF cbsub_fail_originnode
<1>4. /\ Routes' /\ htlc[c][s].hash \in Hash
      /\ g \in SlotType /\ g.hash = htlc[c][s].hash /\ g.stage = "failed"
      /\ htlc[c][s].stage # "fulfilled"
  <2>1. /\ htlc[c][s].hash \in Hash /\ htlc[c][s] \in SlotType
        /\ htlc[c][s].stage \in {"sent", "failed"}
    BY <1>2, EndTypes
  <2>2. g \in SlotType /\ g.hash = htlc[c][s].hash /\ g.stage = "failed"
    BY <2>1, <1>g DEF SlotType
  <2>3. g.hash \in Hash /\ g.stage # "empty" /\ payroute_del(c, s)
    BY <2>1, <2>2, <1>2 DEF HtlcEnds
  <2>4. /\ Slots' /\ htlc'[c][s] = g
        /\ \A d \in OwnCnl, t \in Slot : d # c \/ t # s => htlc'[d][t] = htlc[d][t]
    <3>1. Slots /\ g \in SlotType /\ (g.hash = <<>> <=> g.stage = "empty")
      BY <2>2, <2>3, PaymentAssumption DEF PayInv
    <3>2. Wrote(c, s, g)
      BY <3>1, <1>3, SetHtlc
    <3> QED BY <3>2 DEF Wrote
  <2>5. Routes'
    BY <2>3, <2>4, EndRoutes
  <2> QED BY <2>1, <2>2, <2>5
<1>5. PICK k \in Hash : htlc[c][s].hash = k
  BY <1>4
<1>6. skip' \in [Cnl -> Skip]
  BY <1>2, SkipTypes DEF OtherTypes
<1>7. OtherTypes'
  BY <1>2, <1>4, <1>6 DEF OtherTypes
<1>8. /\ paid' = paid /\ UNCHANGED <<calls, rpc>>
      /\ g \in SlotType /\ g.hash = k /\ g.stage = "failed"
  BY <1>2, <1>4, <1>5
<1> QED BY <1>3, <1>4, <1>5, <1>7, <1>8, GoesOn

\* The slot is cleared; what failed is called for again in the same step.
LEMMA FinalStep ==
    ASSUME PayInv, NEW c \in OwnCnl, NEW s \in Slot, recv_idle_proc_final(c, s)
    PROVE  PayInv'
<1>1. /\ OtherTypes /\ Slots /\ Routes /\ htlc[c][s].stage \in {"fulfilled", "failed"}
      /\ htlc' = [htlc EXCEPT ![c][s] = Empty]
      /\ \/ UNCHANGED calls
         \/ /\ htlc[c][s].stage = "failed"
            /\ calls' = Append(calls, htlc[c][s].hash)
      /\ UNCHANGED <<upd, online, skip, invoice, rpc, payroute, paid, astray>>
  BY DEF PayInv, recv_idle_proc_final, env, cmd_json_pay_retry, cmd_json_pay
<1>2. PICK k \in Hash : htlc[c][s].hash = k
  BY <1>1, InUse
<1>3. Empty \in SlotType /\ Empty.hash = <<>> /\ Empty.stage = "empty" /\ k # <<>>
  BY PaymentAssumption DEF Empty, SlotType
<1>4. /\ Slots' /\ htlc'[c][s] = Empty
      /\ \A d \in OwnCnl, t \in Slot : d # c \/ t # s => htlc'[d][t] = htlc[d][t]
  <2>1. Wrote(c, s, Empty)
    BY <1>1, <1>3, SetHtlc
  <2> QED BY <2>1 DEF Wrote
<1>5. Routes'
  BY <1>1, <1>4 DEF Routes
<1>6. \A h \in Hash, d \in OwnCnl, t \in Slot : htlc'[d][t].hash = h =>
         /\ htlc[d][t].hash = h
         /\ htlc[d][t].stage = "fulfilled" => htlc'[d][t].stage = "fulfilled"
  BY <1>3, <1>4, PaymentAssumption
<1>7. CASE UNCHANGED calls
  <2>1. OtherTypes'
    BY <1>1, <1>7 DEF OtherTypes
  <2>2. ASSUME NEW h \in Hash PROVE Alone(h)' /\ Settled(h)'
    <3>1. Alone(h) /\ Settled(h)
      BY DEF PayInv
    <3> QED BY <3>1, <1>1, <1>6, <1>7, Kept
  <2> QED BY <1>4, <1>5, <2>1, <2>2 DEF PayInv
<1>8. CASE htlc[c][s].stage = "failed" /\ calls' = Append(calls, htlc[c][s].hash)
  <2>1. /\ calls' \in Seq(Hash)
        /\ \A i \in DOMAIN calls' :
              (i \in DOMAIN calls /\ calls'[i] = calls[i])
              \/ (i = Len(calls) + 1 /\ calls'[i] = k)
    BY <1>1, <1>2, <1>8, PutCall DEF OtherTypes
  <2>2. OtherTypes'
    BY <1>1, <2>1 DEF OtherTypes
  <2>3. ASSUME NEW h \in Hash PROVE Alone(h)' /\ Settled(h)'
    <3>1. Alone(h) /\ Settled(h)
      BY DEF PayInv
    <3>2. CASE h = k
      <4>1. Offered(h) /\ ~Called(h) /\ ~InHand(h) /\ h \notin paid
        BY <3>1, <3>2, <1>2, <1>8 DEF Offered, Alone, Settled
      <4>2. ~Offered(h)'
        <5> SUFFICES ASSUME NEW d \in OwnCnl, NEW t \in Slot, htlc'[d][t].hash = h PROVE FALSE
          BY DEF Offered
        <5>1. htlc[d][t].hash = h
          BY <1>6
        <5>2. d = c /\ t = s
          BY <5>1, <1>2, <3>1, <3>2 DEF Alone
        <5> QED BY <5>2, <1>3, <1>4, <3>2
      <4>3. ~InHand(h)' /\ h \notin paid'
        BY <4>1, <1>1 DEF InHand
      <4>4. \A i \in DOMAIN calls' : calls'[i] = h => i = Len(calls) + 1
        BY <2>1, <4>1 DEF Called
      <4> QED BY <4>2, <4>3, <4>4 DEF Alone, Settled, Offered
    <3>3. CASE h # k
      <4>1. \A i \in DOMAIN calls' : calls'[i] = h => i \in DOMAIN calls /\ calls[i] = h
        BY <3>3, <2>1
      <4> QED BY <4>1, <3>1, <1>1, <1>6, Kept
    <3> QED BY <3>2, <3>3
  <2> QED BY <1>4, <1>5, <2>2, <2>3 DEF PayInv
<1> QED BY <1>1, <1>7, <1>8

LEMMA DropStep ==
    ASSUME PayInv, NEW c \in OwnCnl, Drop(c) PROVE PayInv'
<1>1. /\ OtherTypes /\ Slots /\ Routes
      /\ online' = online \ {c}
      /\ payroute' = [payroute EXCEPT ![c] = [s \in Slot |-> <<>>]]
      /\ astray' = astray \cup {htlc[c][s].hash :
                                  s \in {x \in Slot : htlc[c][x].stage = "added"}}
      /\ UNCHANGED <<upd, skip, invoice, calls, rpc, paid>>
  BY DEF PayInv, Drop, payroute_clear
<1>2. PICK unsaved : htlc' = [htlc EXCEPT ![c] = [s \in Slot |->
                                IF htlc[c][s].stage = "added" THEN Empty
                                ELSE [htlc[c][s] EXCEPT !.again = @ \/ s \in unsaved]]]
  BY DEF Drop
<1>3. PICK f : f = [s \in Slot |-> IF htlc[c][s].stage = "added" THEN Empty
                                   ELSE [htlc[c][s] EXCEPT !.again = @ \/ s \in unsaved]]
  OBVIOUS
<1>4. htlc' = [htlc EXCEPT ![c] = f]
  BY <1>2, <1>3
<1>5. ASSUME NEW s \in Slot
      PROVE  /\ f[s] \in SlotType /\ (f[s].hash = <<>> <=> f[s].stage = "empty")
             /\ \/ f[s] = Empty
                \/ f[s].hash = htlc[c][s].hash /\ f[s].stage = htlc[c][s].stage
  <2>1. htlc[c][s] \in SlotType /\ (htlc[c][s].hash = <<>> <=> htlc[c][s].stage = "empty")
    BY <1>1 DEF Slots
  <2>2. CASE htlc[c][s].stage = "added"
    <3>1. f[s] = Empty
      BY <1>3, <2>2
    <3> QED BY <3>1 DEF Empty, SlotType
  <2>3. CASE htlc[c][s].stage # "added"
    <3>1. PICK b \in BOOLEAN : b = (htlc[c][s].again \/ s \in unsaved)
      OBVIOUS
    <3>2. f[s] = [htlc[c][s] EXCEPT !.again = b]
      BY <1>3, <2>3, <3>1
    <3> QED BY <2>1, <3>2 DEF SlotType
  <2> QED BY <2>2, <2>3
<1>6. f \in [Slot -> SlotType]
  BY <1>3, <1>5
<1>7. /\ htlc' \in [OwnCnl -> [Slot -> SlotType]] /\ htlc'[c] = f
      /\ \A d \in OwnCnl : d # c => htlc'[d] = htlc[d]
  BY <1>1, <1>4, <1>6 DEF Slots
<1>8. Slots'
  BY <1>1, <1>5, <1>7 DEF Slots
<1>9. Routes'
  BY <1>1, <1>7 DEF Routes
<1>a. {htlc[c][s].hash : s \in {x \in Slot : htlc[c][x].stage = "added"}} \subseteq Hash
  BY InUse
<1>b. OtherTypes'
  BY <1>1, <1>a DEF OtherTypes
<1>c. \A h \in Hash, d \in OwnCnl, t \in Slot : htlc'[d][t].hash = h =>
         /\ htlc[d][t].hash = h
         /\ htlc[d][t].stage = "fulfilled" => htlc'[d][t].stage = "fulfilled"
  <2> SUFFICES ASSUME NEW h \in Hash, NEW d \in OwnCnl, NEW t \in Slot, htlc'[d][t].hash = h
               PROVE  /\ htlc[d][t].hash = h
                      /\ htlc[d][t].stage = "fulfilled" => htlc'[d][t].stage = "fulfilled"
    OBVIOUS
  <2>1. CASE d # c
    BY <2>1, <1>7
  <2>2. CASE d = c
    <3>1. f[t].hash = h /\ h # <<>> /\ Empty.hash = <<>>
      BY <2>2, <1>7, PaymentAssumption DEF Empty
    <3> QED BY <2>2, <3>1, <1>5, <1>7
  <2> QED BY <2>1, <2>2
<1>d. ASSUME NEW h \in Hash PROVE Alone(h)' /\ Settled(h)'
  <2>1. Alone(h) /\ Settled(h)
    BY DEF PayInv
  <2>2. calls' = calls /\ rpc' = rpc /\ paid' = paid
    BY <1>1
  <2> QED BY <2>1, <2>2, <1>c, Kept
<1> QED BY <1>8, <1>9, <1>b, <1>d DEF PayInv

\* Nothing of the payments changes.
LEMMA Same ==
    ASSUME PayInv, OtherTypes', UNCHANGED <<calls, rpc, htlc, payroute, paid>>
    PROVE  PayInv'
<1>1. Slots' /\ Routes'
  BY DEF PayInv, Slots, Routes
<1>2. ASSUME NEW h \in Hash PROVE Alone(h)' /\ Settled(h)'
  <2>1. Alone(h) /\ Settled(h)
    BY DEF PayInv
  <2> QED BY <2>1, Kept
<1> QED BY <1>1, <1>2 DEF PayInv

LEMMA ReconnectStep ==
    ASSUME PayInv, NEW c \in OwnCnl, Reconnect(c) PROVE PayInv'
<1>1. OtherTypes' /\ UNCHANGED <<calls, rpc, htlc, payroute, paid>>
  BY DEF PayInv, OtherTypes, Reconnect
<1> QED BY <1>1, Same

LEMMA UpdateStep ==
    ASSUME PayInv, NEW c \in Announced, NEW d \in 1 .. 2, NEW u \in Updates, NewUpdate(c, d, u)
    PROVE  PayInv'
<1>1. /\ upd \in [Announced -> [1 .. 2 -> Updates]] /\ upd' = [upd EXCEPT ![c][d] = u]
      /\ UNCHANGED <<skip, invoice, calls, rpc, online, htlc, payroute, paid, astray>>
  BY DEF PayInv, OtherTypes, NewUpdate
<1>2. upd' \in [Announced -> [1 .. 2 -> Updates]]
  BY <1>1
<1>3. OtherTypes'
  BY <1>1, <1>2 DEF PayInv, OtherTypes
<1> QED BY <1>1, <1>3, Same

----------------------------------------------------------------------------
(* The theorems.                                                           *)

\* At the start nothing is under way.
LEMMA PayStart == Init => PayInv
<1> SUFFICES ASSUME Init PROVE PayInv
  OBVIOUS
<1>1. Empty \in SlotType /\ Empty.hash = <<>> /\ Empty.stage = "empty"
  BY DEF Empty, SlotType
<1>2. /\ htlc = [c \in OwnCnl |-> [s \in Slot |-> Empty]]
      /\ payroute = [c \in OwnCnl |-> [s \in Slot |-> <<>>]]
      /\ calls = <<>> /\ rpc = Idle /\ paid = {}
  BY DEF Init
<1>3. Slots
  BY <1>1, <1>2 DEF Slots
<1>4. Routes
  BY <1>2 DEF Routes
<1>5. OtherTypes
  BY PaymentAssumption DEF Init, OtherTypes, Skip
<1>6. ASSUME NEW h \in Hash PROVE Alone(h) /\ Settled(h)
  <2>1. ~Called(h)
    BY <1>2 DEF Called
  <2>2. ~InHand(h) /\ h \notin paid
    BY <1>2 DEF InHand
  <2>3. ~Offered(h)
    BY <1>1, <1>2, PaymentAssumption DEF Offered
  <2>4. Alone(h)
    BY <2>1, <2>2, <2>3 DEF Alone, Called, Offered
  <2> QED BY <2>2, <2>4 DEF Settled
<1> QED BY <1>3, <1>4, <1>5, <1>6 DEF PayInv

\* Every step keeps the invariant.
LEMMA PayNext == PayInv /\ [Next]_vars => PayInv'
<1> SUFFICES ASSUME PayInv, [Next]_vars PROVE PayInv'
  OBVIOUS
<1>1. ASSUME NEW h \in Hash, cmd_routepay(h) PROVE PayInv'
  BY <1>1, PayStep
<1>2. ASSUME NEW h \in Hash, cmd_routepay_cont(h) PROVE PayInv'
  BY <1>2, ContStep
<1>3. CASE cmd_routepay_proc2
  BY <1>3, SendStep
<1>4. ASSUME NEW c \in OwnCnl, NEW s \in Slot, Exchange(c, s) PROVE PayInv'
  BY <1>4, ExchangeStep
<1>5. ASSUME NEW c \in OwnCnl, NEW s \in Slot, Resolve(c, s) PROVE PayInv'
  BY <1>5, FulfillStep, FailStep DEF Resolve
<1>6. ASSUME NEW c \in OwnCnl, NEW s \in Slot, recv_idle_proc_final(c, s) PROVE PayInv'
  BY <1>6, FinalStep
<1>7. ASSUME NEW c \in OwnCnl, Drop(c) \/ Reconnect(c) PROVE PayInv'
  BY <1>7, DropStep, ReconnectStep
<1>8. ASSUME NEW c \in Announced \ OwnCnl, NEW d \in 1 .. 2, NEW u \in Updates,
             NewUpdate(c, d, u)
      PROVE  PayInv'
  BY <1>8, UpdateStep
<1>9. CASE UNCHANGED vars
  <2>1. OtherTypes' /\ UNCHANGED <<calls, rpc, htlc, payroute, paid>>
    BY <1>9 DEF PayInv, OtherTypes, vars
  <2> QED BY <2>1, Same
<1> QED BY <1>1, <1>2, <1>3, <1>4, <1>5, <1>6, <1>7, <1>8, <1>9 DEF Next

\* What is under way for a payment is a call, the route in hand or one HTLC,
\* and nothing is left to be tried of a payment that is paid: the HTLC, the
\* route and the call pass the payment on without doubling it.
THEOREM PayInvariant == Spec => []PayInv
BY PayStart, PayNext, PTL DEF Spec

\* Skip list, invoices, calls and slots have their types, and a route is kept
\* only for an HTLC that is still open.
THEOREM TypeCorrect == Spec => []TypeOK
<1>1. PayInv => TypeOK
  <2> SUFFICES ASSUME PayInv PROVE TypeOK
    OBVIOUS
  <2>1. OtherTypes /\ Slots /\ Routes
    BY DEF PayInv
  <2>2. /\ DOMAIN htlc = OwnCnl
        /\ \A c \in OwnCnl : DOMAIN htlc[c] = Slot /\ \A s \in Slot : htlc[c][s] \in SlotType
    BY <2>1 DEF Slots
  <2>3. \A c \in OwnCnl, s \in Slot :
           htlc[c][s].stage \in {"empty", "added", "sent", "fulfilled", "failed"}
    BY <2>2 DEF SlotType
  <2>4. \A c \in OwnCnl : /\ DOMAIN payroute[c] = Slot
                          /\ \A s \in Slot : payroute[c][s] # <<>> =>
                                htlc[c][s].stage \in {"added", "sent"}
    BY <2>1 DEF Routes
  <2> QED BY <2>1, <2>2, <2>3, <2>4 DEF TypeOK, OtherTypes
<1> QED BY <1>1, PayInvariant, PTL

\* A payment has at most one attempt under way, and none but the HTLC that
\* paid it once it is paid: no payment is paid twice.
THEOREM NeverPaidTwice == Spec => []PaidOnce
<1>1. PayInv => PaidOnce
  <2> SUFFICES ASSUME PayInv, NEW h \in Hash
               PROVE  /\ Cardinality(Attempts(h)) =< 1
                      /\ h \in paid => \A a \in Attempts(h) : a[1] = "htlc"
    BY DEF PaidOnce
  <2>1. Alone(h) /\ Settled(h)
    BY DEF PayInv
  <2>2. ASSUME NEW a \in Attempts(h)
        PROVE  \/ \E i \in DOMAIN calls : a = <<"call", i>> /\ calls[i] = h
               \/ a = <<"rpc", 0>> /\ InHand(h)
               \/ \E c \in OwnCnl, s \in Slot : a = <<"htlc", <<c, s>>>> /\ htlc[c][s].hash = h
    <3>1. CASE a \in {<<"call", i>> : i \in {j \in DOMAIN calls : calls[j] = h}}
      BY <3>1
    <3>2. CASE a \in {<<"rpc", 0>> : i \in {j \in {1} : rpc # Idle /\ rpc[1] = h}}
      BY <3>2 DEF InHand
    <3>3. CASE a \in {<<"htlc", cs>> : cs \in {x \in OwnCnl \X Slot : htlc[x[1]][x[2]].hash = h}}
      <4>1. PICK cs \in OwnCnl \X Slot : a = <<"htlc", cs>> /\ htlc[cs[1]][cs[2]].hash = h
        BY <3>3
      <4>2. cs = <<cs[1], cs[2]>> /\ cs[1] \in OwnCnl /\ cs[2] \in Slot
        OBVIOUS
      <4> QED BY <4>1, <4>2
    <3> QED BY <3>1, <3>2, <3>3 DEF Attempts
  <2>3. ASSUME NEW a \in Attempts(h), NEW b \in Attempts(h) PROVE a = b
    <3>1. CASE \E i \in DOMAIN calls : a = <<"call", i>> /\ calls[i] = h
      BY <3>1, <2>1, <2>2 DEF Alone, Called, Offered
    <3>2. CASE a = <<"rpc", 0>> /\ InHand(h)
      BY <3>2, <2>1, <2>2 DEF Alone, Called, Offered
    <3>3. CASE \E c \in OwnCnl, s \in Slot : a = <<"htlc", <<c, s>>>> /\ htlc[c][s].hash = h
      <4>1. Offered(h) /\ ~Called(h) /\ ~InHand(h)
        BY <3>3, <2>1 DEF Alone, Offered
      <4>2. \E c \in OwnCnl, s \in Slot : b = <<"htlc", <<c, s>>>> /\ htlc[c][s].hash = h
        BY <4>1, <2>2 DEF Called
      <4> QED BY <3>3, <4>2, <2>1 DEF Alone
    <3> QED BY <3>1, <3>2, <3>3, <2>2
  <2>4. Cardinality(Attempts(h)) =< 1
    <3>1. CASE Attempts(h) = {}
      BY <3>1, FS_EmptySet
    <3>2. CASE Attempts(h) # {}
      <4>1. PICK a : Attempts(h) = {a}
        BY <3>2, <2>3
      <4> QED BY <4>1, FS_Singleton
    <3> QED BY <3>1, <3>2
  <2>5. h \in paid => \A a \in Attempts(h) : a[1] = "htlc"
    BY <2>1, <2>2 DEF Settled, Called
  <2> QED BY <2>4, <2>5
<1> QED BY <1>1, PayInvariant, PTL

=============================================================================
